------------------------------ MODULE MCSignIn ------------------------------
(* Sessions on both sides: one account of the server with two roles to      *)
(* hold, two requests at a time; and a browser with two tabs and two        *)
(* accounts to sign in to, two calls at a time.  They share no state: a     *)
(* behaviour is of one of them, the other one rests where it begins.        *)
EXTENDS SignIn, Session, TLC

CONSTANTS f1, f2, ann, bob, t1, t2, c1, c2

MCLinkTtl == [activation |-> 2, reset |-> 1]

Symmetric ==
  Permutations(Flows) \cup Permutations(Tabs) \cup Permutations(Lanes) \cup Permutations(Accounts)

VARIABLE side

MCInit ==
  /\ side \in {"server", "browser"}
  /\ Init /\ SessionInit
  /\ side = "server" => renews /\ last = NoOne
  /\ side = "browser" => account.role = "EMPLOYEE" /\ account.password = "none"

MCNext ==
  \/ side = "server" /\ Next /\ UNCHANGED <<side, sessionVars>>
  \/ side = "browser" /\ SessionNext /\ UNCHANGED <<side, vars>>

MCSpec == MCInit /\ [][MCNext]_<<side, vars, sessionVars>>
=============================================================================
