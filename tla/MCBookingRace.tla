--------------------------- MODULE MCBookingRace ---------------------------
(* Requests on two rooms, one of which requires approval. *)
EXTENDS BookingRace, TLC

CONSTANTS ann, boss, lobby, suite, q1, q2, q3, q4

slot(s, e) == [start |-> s, end |-> e]

early == slot(1, 3)
late  == slot(2, 4)

MCRanges == {late}
MCSerieses == { <<early>>, <<late, slot(10, 11)>> }

(* The suite's booking is APPROVED by both of its approvers, the lobby's   *)
(* was never gated; neither has been written by a modelled request.        *)
MCLevels == (lobby :> <<>>) @@ (suite :> <<ann, boss>>)
Seeds ==
  << [status |-> "APPROVED", room |-> suite, start |-> 1, end |-> 3, writers |-> {}],
     [status |-> "APPROVED", room |-> lobby, start |-> 1, end |-> 3, writers |-> {}] >>
SeedApprovals ==
  [ s \in { <<"seed", 1, 1>>, <<"seed", 1, 2>> } |->
      [approver |-> IF s[3] = 1 THEN ann ELSE boss, decision |-> "APPROVED"] ]

RequestSymmetry == Permutations(Requests)
=============================================================================
