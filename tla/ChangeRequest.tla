--------------------------- MODULE ChangeRequest ---------------------------
(***************************************************************************)
(* Change requests (change-request.service.ts): a colleague asks for part  *)
(* of somebody's slot; the owner grants it, which shrinks, moves or cancels*)
(* the owner's booking and then books the colleague's meeting, or declines,*)
(* which books what is left of the colleague's meeting.                    *)
(*                                                                         *)
(* Composed with the booking core: a decision calls its update, cancel and *)
(* create, the last as the requester.  As there, a request runs to         *)
(* completion before the next one starts; but a decision may fail between  *)
(* its two calls, and nothing undoes the first.                            *)
(***************************************************************************)
EXTENDS Booking

CONSTANTS
  Windows,     \* the windows and drafts change requests name
  DraftOnline, \* may the requester's meeting be an ONLINE one?
  MaxRequests  \* bound: rows of the BookingChangeRequest table

ASSUME RequestAssumption ==
  /\ Windows \subseteq SlotType
  /\ Keep \notin SlotType
  /\ DraftOnline \subseteq BOOLEAN
  /\ MaxRequests \in Nat

VARIABLES
  requests, \* the BookingChangeRequest table, in creation order
  half      \* history: requests granted by half, see Grant

requestVars == <<requests, half>>

RequestRow ==
  [ booking : Nat \ {0}, requester : Users, window : SlotType, draft : SlotType,
    online : BOOLEAN, status : Decisions ]

RequestTypeOK ==
  /\ TypeOK
  /\ requests \in Seq(RequestRow)
  /\ \A r \in DOMAIN requests : requests[r].booking \in DOMAIN bookings
  /\ half \subseteq DOMAIN requests

RequestInit == Init /\ requests = <<>> /\ half = {}

-----------------------------------------------------------------------------
(* POST /bookings/:id/change-requests *)

Meets(s, t) == s.start < t.end /\ t.start < s.end

(* The window starts with the slot, or ends with it. *)
OnEdge(window, slot) == window.start = slot.start \/ window.end = slot.end

AskAccepted(caller, id, window, draft) ==
  LET row == bookings[id]
  IN  /\ ~IsOwner(caller, row)
      /\ Active(row)
      /\ row.end > now
      /\ row.room # NoRoom
      /\ window.end > window.start
      /\ row.start <= window.start /\ window.end <= row.end
      /\ OnEdge(window, row)
      /\ draft.end > draft.start
      /\ Meets(window, draft)
      /\ OnEdge(window, draft)
      /\ ~ \E r \in DOMAIN requests :
             /\ requests[r].booking = id
             /\ requests[r].requester = caller
             /\ requests[r].status = "PENDING"

Ask(caller, id, window, draft, online) ==
  /\ Len(requests) < MaxRequests
  /\ AskAccepted(caller, id, window, draft)
  /\ requests' = Append(requests,
                   [ booking |-> id, requester |-> caller, window |-> window,
                     draft |-> draft, online |-> online, status |-> "PENDING" ])
  /\ UNCHANGED <<vars, half>>

-----------------------------------------------------------------------------
(* POST /change-requests/:id/decide *)

MayAnswer(caller, r) ==
  /\ requests[r].status = "PENDING"
  /\ IsOwner(caller, bookings[requests[r].booking])

(* The window takes one end off the booking as it is now. *)
Carves(window, row) ==
  /\ OnEdge(window, row)
  /\ ~(window.start = row.start /\ window.end = row.end)

Leftover(window, row) ==
  IF window.start = row.start THEN [start |-> window.end, end |-> row.end]
  ELSE [start |-> row.start, end |-> window.start]

KeepsOffAlways(slot, window) == TRUE

(* The owner's new time must not overlap the window being granted. *)
KeepsOff(slot, window) == ~Meets(slot, window)

(* What the owner may answer with: a time picked, or dropping the meeting.  *)
OwnerChoices == [kind : {"pick"}, slot : Slots \cap SlotType] \cup {[kind |-> "cancel"]}

(* The booking table once the owner's part of a grant is applied, if it can *)
(* be: carved to what is left, whatever the owner chose, or, when the window*)
(* does not take one end off, as chosen.                                    *)
OwnerGives(caller, r, choice) ==
  LET id == requests[r].booking
      row == bookings[id]
      window == requests[r].window
      may(slot) == KeepsOff(slot, window)
                   /\ UpdateAccepted(bookings, caller, id, Keep, slot)
      moves(slots) ==
        { [bookings EXCEPT ![id] = UpdatedRow(@, Keep, slot)] : slot \in { s \in slots : may(s) } }
  IN  IF Carves(window, row) THEN moves({Leftover(window, row)})
      ELSE CASE choice.kind = "pick"   -> moves({ s \in {choice.slot} : s.end > s.start })
             [] choice.kind = "cancel" ->
                  { table \in { [bookings EXCEPT ![id].status = "CANCELLED"] } :
                      CancelAccepted(bookings, caller, id) }
             [] OTHER -> {}

DraftRoom(r) ==
  IF requests[r].online THEN NoRoom ELSE bookings[requests[r].booking].room

(* May the requester book the slot, the table being as given? *)
RequesterMayUnchecked(table, r, slot) ==
  LET who == requests[r].requester
  IN  MayUse(RulesFor(DraftRoom(r)), who) /\ RoomUsable(DraftRoom(r))

RequesterMay(table, r, slot) ==
  LET who == requests[r].requester
  IN  CreateAccepted(table, who, who, DraftRoom(r), <<slot>>, FALSE)

RequesterRows(r, slot) ==
  LET who == requests[r].requester
  IN  NewRows(who, who, DraftRoom(r), <<slot>>)

Settled(r, status) == requests' = [requests EXCEPT ![r].status = status]

(* Granted: the owner's part first, then the requester's.  When that is    *)
(* refused the request stays open, and the owner's part stays applied.     *)
Grant(caller, r, choice) ==
  LET draft == requests[r].draft
  IN  /\ MayAnswer(caller, r)
      /\ Fits(bookings, <<draft>>)
      /\ \E table \in OwnerGives(caller, r, choice) :
           IF RequesterMay(table, r, draft)
           THEN /\ bookings' = table \o RequesterRows(r, draft)
                /\ Settled(r, "APPROVED")
                /\ UNCHANGED half
           ELSE /\ bookings' = table
                /\ half' = half \cup {r}
                /\ UNCHANGED requests
      /\ UNCHANGED <<now, policy, roomStatus, unchecked>>

(* What is left of the requester's meeting without the window. *)
Fallback(r) ==
  LET window == requests[r].window
      draft == requests[r].draft
  IN  IF window.start = draft.start THEN [start |-> window.end, end |-> draft.end]
      ELSE [start |-> draft.start, end |-> window.start]

(* Declined: the requester gets the rest, if there is one and it is free. *)
Decline(caller, r) ==
  LET slot == Fallback(r)
      books == slot.end > slot.start /\ RequesterMay(bookings, r, slot)
  IN  /\ MayAnswer(caller, r)
      /\ books => Fits(bookings, <<slot>>)
      /\ bookings' = IF books THEN bookings \o RequesterRows(r, slot) ELSE bookings
      /\ Settled(r, "REJECTED")
      /\ UNCHANGED <<now, policy, roomStatus, unchecked, half>>

RequestNext ==
  \/ Next /\ UNCHANGED requestVars
  \/ \E caller \in Users, id \in DOMAIN bookings, window, draft \in Windows,
        online \in DraftOnline : Ask(caller, id, window, draft, online)
  \/ \E caller \in Users, r \in DOMAIN requests :
       (\E choice \in OwnerChoices : Grant(caller, r, choice)) \/ Decline(caller, r)

RequestSpec == RequestInit /\ [][RequestNext]_<<vars, requestVars>>

-----------------------------------------------------------------------------
(* Properties. *)

(* What a booking the requester got looks like. *)
BookedFor(r, slot, b) ==
  /\ bookings'[b].principal = requests[r].requester
  /\ Active(bookings'[b])
  /\ [start |-> bookings'[b].start, end |-> bookings'[b].end] = slot

NewBookings == DOMAIN bookings' \ DOMAIN bookings

(* An approved request was applied in full: the requester holds the whole  *)
(* meeting asked for, and the owner's booking is out of the window granted,*)
(* wherever bookings moved between the request and the decision.           *)
GrantApplied ==
  [][ \A r \in DOMAIN requests :
        LET owners == bookings'[requests[r].booking]
        IN  (/\ requests[r].status = "PENDING"
             /\ requests'[r].status = "APPROVED") =>
               /\ \E b \in NewBookings : BookedFor(r, requests[r].draft, b)
               /\ Active(owners) => ~Meets(owners, requests[r].window)
    ]_<<vars, requestVars>>

(* Its grants leave the calendar as sound as bookings do. *)
RequestInv == RequestTypeOK /\ ExclusiveUnlessUnchecked

(* A declined request moves nobody: what it books for the requester lies   *)
(* within the meeting asked for and outside the window refused.            *)
DeclineTrims ==
  [][ \A r \in DOMAIN requests :
        (/\ requests[r].status = "PENDING"
         /\ requests'[r].status = "REJECTED") =>
           \A b \in NewBookings :
             /\ ~Meets(bookings'[b], requests[r].window)
             /\ requests[r].draft.start <= bookings'[b].start
             /\ bookings'[b].end <= requests[r].draft.end
    ]_<<vars, requestVars>>

(* What is decided is done, and no more than that.                         *)
DecisionApplied == GrantApplied /\ DeclineTrims

(* "Nothing changes on the calendar until they decide": while a request is *)
(* open, none of it has been applied.  The code does not keep this: the    *)
(* owner's booking is changed before the requester's is tried.             *)
NothingHalfApplied ==
  \A r \in half : requests[r].status # "PENDING"
=============================================================================
