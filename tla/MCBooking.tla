----------------------------- MODULE MCBooking -----------------------------
(* The booking core on small instances. *)
EXTENDS Booking

CONSTANTS ann, boss, r1, r2

slot(s, e) == [start |-> s, end |-> e]

(* Everything open, no approval, no limits: DEFAULT_RULES scaled down, with *)
(* a horizon that leaves few online meetings.                              *)
Default ==
  [ minDuration |-> 1, maxDuration |-> 2, minAdvance |-> 0, maxAdvanceDays |-> 0,
    overAdvanceApproval |-> FALSE, buffer |-> 1, open |-> 0, close |-> 1,
    days |-> {1, 2}, requiresApproval |-> FALSE, approvers |-> <<>>,
    maxPerDay |-> 0, allowRecurring |-> TRUE, checkInRequired |-> FALSE,
    allowed |-> {} ]

(* Bookable at once, by ann only, with check-in at the door. *)
Open == [Default EXCEPT !.maxAdvanceDays = 2, !.checkInRequired = TRUE, !.allowed = {ann}]

(* The same, with two approvers. *)
Gated == [Open EXCEPT !.requiresApproval = TRUE, !.approvers = <<boss, ann>>]

(* Of the first two only one leaves the buffer before the third.  The other *)
(* one, repeated daily, does not leave it before its own next occurrence.   *)
MCSlots == { slot(1, 2), slot(1, 4), slot(4, 5) }
MCInit == [r \in Rooms |-> Open]
MCPolicies == {Open, Gated}
=============================================================================
