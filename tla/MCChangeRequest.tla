-------------------------- MODULE MCChangeRequest --------------------------
(* Change requests on one room and one morning: any that the service takes, *)
(* or those the portal's dialogs send.  A behaviour is of one kind.         *)
EXTENDS RequestForms

CONSTANTS ann, bob, r1

slot(s, e) == [start |-> s, end |-> e]

(* Everything open, no approval, no limits. *)
Default ==
  [ minDuration |-> 1, maxDuration |-> 2, minAdvance |-> 0, maxAdvanceDays |-> 1,
    overAdvanceApproval |-> FALSE, buffer |-> 0, open |-> 0, close |-> 5,
    days |-> {1}, requiresApproval |-> FALSE, approvers |-> <<>>,
    maxPerDay |-> 0, allowRecurring |-> TRUE, checkInRequired |-> FALSE,
    allowed |-> {} ]

(* With a break between meetings, as the seeded policies have. *)
Buffered == [Default EXCEPT !.buffer = 1]

(* Online meetings are for bob alone: few but those he asks for. *)
Online == [Default EXCEPT !.allowed = {bob}]

MCPolicies == {Default}
MCInit == [r \in Rooms |-> Default]
BufferedPolicies == {Buffered}
BufferedInit == [r \in Rooms |-> Buffered]

(* A long meeting, and the times it can shrink or move to. *)
MCSlots == { slot(2, 6), slot(2, 4), slot(6, 10) }

(* Windows and drafts: either end of the long meeting, all of it, and a    *)
(* meeting that runs over its end.                                         *)
MCWindows == { slot(2, 6), slot(2, 4), slot(4, 6), slot(4, 8) }

VARIABLE side

SideInit == side \in {"service", "portal"} /\ FormsInit

(* In the portal, ann has a meeting in the room, and bob books one at the   *)
(* most until the request is decided, which stays where it is.              *)
SideNext ==
  \/ side = "service" /\ RequestNext /\ UNCHANGED <<side, formVars>>
  \/ /\ side = "portal" /\ FormsNext /\ UNCHANGED side
     /\ bookings' # bookings =>
          /\ requests' = requests => Len(bookings') <= 2
          /\ \A b \in DOMAIN bookings' :
               bookings'[b].room = r1 /\ bookings'[b].booker = IF b = 1 THEN ann ELSE bob
          /\ \A b \in DOMAIN bookings \ {1} : bookings'[b] = bookings[b]
          /\ \A r \in DOMAIN requests : requests[r].status = "PENDING"

MCSpec == SideInit /\ [][SideNext]_<<side, vars, requestVars, formVars>>
=============================================================================
