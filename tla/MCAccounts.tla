----------------------------- MODULE MCAccounts -----------------------------
(* Two addresses on a plan for one, two requests at a time; two people to   *)
(* mail, one at the most; and two people who write to each other, two       *)
(* requests at a time, on a clock of minutes scaled down.  The three share  *)
(* no state: a behaviour is of one of them.                                 *)
EXTENDS Accounts, Broadcast, Chat, TLC

CONSTANTS e1, e2, f1, f2, p1, p2

(* A search finds both or one of them. *)
MCGroups == {People, {p2}}

MCCircles == {Users}

(* The same two write to each other, in as many requests. *)
Symmetric == Permutations(Emails) \cup Permutations(Flows)

VARIABLE side

MCInit ==
  /\ side \in {"accounts", "broadcast", "chat"}
  /\ Init /\ BroadcastInit /\ ChatInit
  /\ people[p1] = "pending"
  /\ side # "broadcast" => people[p2] = "pending"

(* Conversations are opened, two at most; or messages are written in the    *)
(* only one there is.                                                       *)
MCNext ==
  \/ side = "accounts" /\ Next /\ UNCHANGED <<side, broadcastVars, chatVars>>
  \/ side = "broadcast" /\ BroadcastNext /\ UNCHANGED <<side, vars, chatVars>>
  \/ /\ side = "chat" /\ ChatNext /\ UNCHANGED <<side, vars, broadcastVars>>
     /\ messages' # <<>> =>
          /\ Len(convs') = 1
          /\ \A f \in Calls : call'[f].at \notin {"open", "members"}

MCSpec == MCInit /\ [][MCNext]_<<side, vars, broadcastVars, chatVars>>
=============================================================================
