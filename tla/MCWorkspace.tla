---------------------------- MODULE MCWorkspace ----------------------------
(* The console of a workspace: two requests at a time, seven in all, on its *)
(* registration and settings; two administrators on its mail server, on its *)
(* users, and on its rooms and policies.  The four share no state: a        *)
(* behaviour is of one of them, the others rest where they begin.           *)
EXTENDS Workspace, Mailer, Roster, Estate, TLC

CONSTANTS
  baseline, other, f1, f2, m1, m2, s1, s2,
  a1, a2, mx, p1, p2, u,
  room, e1

VARIABLE side

MCInit ==
  /\ side \in {"settings", "mail", "users", "estate"}
  /\ Init /\ MailerInit /\ RosterInit /\ EstateInit
  /\ side # "settings" => holder = "nobody"
  /\ side # "mail" => platform
  /\ side # "estate" =>
       /\ floors = [f \in Floors |-> "there"]
       /\ \A r \in Rooms : rooms[r].is = "coming" /\ rooms[r].category

MCNext ==
  \/ side = "settings" /\ Next /\ UNCHANGED <<side, mailVars, rosterVars, estateVars>>
  \/ side = "mail" /\ MailerNext /\ UNCHANGED <<side, vars, rosterVars, estateVars>>
  \/ side = "users" /\ RosterNext /\ UNCHANGED <<side, vars, mailVars, estateVars>>
  \/ side = "estate" /\ EstateNext /\ UNCHANGED <<side, vars, mailVars, rosterVars>>

MCSpec == MCInit /\ [][MCNext]_<<side, vars, mailVars, rosterVars, estateVars>>

Symmetric ==
  Permutations(Flows) \cup Permutations(MenuItems) \cup Permutations(Secrets)
    \cup Permutations({a1, a2})
=============================================================================
