----------------------------- MODULE OneWarning -----------------------------
(***************************************************************************)
(* What the no-show sweep promises the owner of a booking: one who is       *)
(* warned was claimed first, and is warned once; a claim is followed by its *)
(* warning, unless that was lost for good.                                  *)
(***************************************************************************)
EXTENDS Naturals

CONSTANT Bookings

VARIABLES
  claimed,  \* bookings claimed for a warning
  told,     \* how often the owner of each was warned
  lost      \* bookings whose warning will never come

vars == <<claimed, told, lost>>

Init ==
  /\ claimed = {} /\ lost = {}
  /\ told = [b \in Bookings |-> 0]

Open(b) == b \in claimed \ lost /\ told[b] = 0

Claim(b) ==
  /\ b \notin claimed
  /\ claimed' = claimed \cup {b}
  /\ UNCHANGED <<told, lost>>

Tell(b) ==
  /\ Open(b)
  /\ told' = [told EXCEPT ![b] = 1]
  /\ UNCHANGED <<claimed, lost>>

Lose(b) ==
  /\ Open(b)
  /\ lost' = lost \cup {b}
  /\ UNCHANGED <<claimed, told>>

Next == \E b \in Bookings : Claim(b) \/ Tell(b) \/ Lose(b)

Safety == Init /\ [][Next]_vars

Spec == Safety /\ \A b \in Bookings : WF_vars(Tell(b) \/ Lose(b))
=============================================================================
