------------------------------- MODULE Roster -------------------------------
(***************************************************************************)
(* The console's page of accounts (web-admin users/page.tsx) over the       *)
(* service it calls (user-admin.service.ts): administrators open dialogs on *)
(* rows as their list last showed them, and submit them after others have   *)
(* changed the table.  Each request is one step; what races inside a        *)
(* request, the plan's limit and bookings are in Accounts.                  *)
(*                                                                          *)
(* Which of the replies for a list is shown is in Screens: here a list may  *)
(* be as old as it likes.  Names, departments, languages, the search and    *)
(* the parsing of a roster file are left out.                               *)
(***************************************************************************)
EXTENDS Naturals, Sequences

CONSTANTS
  People,        \* accounts, present or to come
  Consoles,      \* the people who have the console open
  Gone, Closed,  \* no such account; no dialog
  MaxWrites,     \* bound on changes of the table
  MaxDialogs     \* bound on dialogs ever opened

ASSUME RosterAssumption ==
  /\ Consoles \subseteq People /\ Consoles # {}
  /\ {MaxWrites, MaxDialogs} \subseteq Nat

VARIABLES
  tables,   \* history: the User table after each change, the last one current
  seen,     \* which of them each console's list shows
  dialog,   \* each console's dialog
  dialogs,  \* dialogs opened so far
  holds,    \* who still has an administrator's token
  lapsed    \* history: someone wrote with a token that outlived their rights

rosterVars == <<tables, seen, dialog, dialogs, holds, lapsed>>

(* The third, APPROVER, differs from EMPLOYEE in nothing that is done here. *)
Roles == {"ADMIN", "EMPLOYEE"}
AccountRow == [role : Roles, active : BOOLEAN]
RowType == AccountRow \cup {Gone}

ASSUME GoneAssumption == Gone \notin AccountRow

(* The dialogs on a row, and those that add one. *)
OnRow == {"role", "edit", "deactivate", "activate", "reset", "remove"}
OnNew == {"create", "import", "approve"}

(* A dialog waits for its button, then for the reply, then shows what came  *)
(* of it: the new password, or the report of an import.  (One closed before *)
(* the reply is taken to be closed by it.)                                  *)
DialogType ==
  [ kind : OnRow \cup OnNew, who : People, role : Roles, opened : 1..(MaxWrites + 1),
    stage : {"form", "sent", "report"} ] \cup {Closed}

RosterTypeOK ==
  /\ tables \in Seq([People -> RowType]) /\ Len(tables) \in 1..(MaxWrites + 1)
  /\ seen \in [Consoles -> 0..(MaxWrites + 1)]
  /\ dialog \in [Consoles -> DialogType] /\ dialogs \in 0..MaxDialogs
  /\ holds \subseteq Consoles /\ lapsed \in BOOLEAN

users == tables[Len(tables)]
IsAdmin(row) == row # Gone /\ row.active /\ row.role = "ADMIN"

RosterInit ==
  /\ tables = << [ p \in People |->
                     IF p \in Consoles THEN [role |-> "ADMIN", active |-> TRUE] ELSE Gone ] >>
  /\ seen = [a \in Consoles |-> 0]
  /\ dialog = [a \in Consoles |-> Closed] /\ dialogs = 0
  /\ holds = Consoles
  /\ lapsed = FALSE

-----------------------------------------------------------------------------
(* The list *)

(* load, on entry, on a new filter or page, after a change, or by "retry". *)
Show(a) ==
  /\ a \in holds
  /\ seen' = [seen EXCEPT ![a] = Len(tables)]
  /\ UNCHANGED <<tables, dialog, dialogs, holds, lapsed>>

(* When a load fails, the page is an error box until the next one: its      *)
(* dialogs go, and come back anew, without what they had to say.            *)
ShowFails(a) ==
  /\ a \in holds /\ dialog[a] # Closed /\ dialog[a].stage = "report"
  /\ dialog' = [dialog EXCEPT ![a].stage = "form"]
  /\ UNCHANGED <<tables, seen, dialogs, holds, lapsed>>

-----------------------------------------------------------------------------
(* Dialogs *)

Listed(a) == IF seen[a] = 0 THEN {} ELSE {p \in People : tables[seen[a]][p] # Gone}

NewDialog == dialogs < MaxDialogs /\ dialogs' = dialogs + 1

Dialog(kind, p, role, opened, stage) ==
  [kind |-> kind, who |-> p, role |-> role, opened |-> opened, stage |-> stage]

(* A role is chosen in the row and confirmed; nobody may choose their own.  *)
(* Activation needs no confirmation.                                        *)
OpenOnRow(a, kind, p, role) ==
  LET row == tables[seen[a]][p]
  IN  /\ a \in holds /\ dialog[a] = Closed /\ NewDialog
      /\ p \in Listed(a)
      /\ kind = "role" => role # row.role /\ p # a
      /\ kind # "role" => role = row.role
      /\ kind = "deactivate" => row.active
      /\ kind = "activate" => ~row.active
      /\ dialog' = [ dialog EXCEPT
                       ![a] = Dialog(kind, p, role, seen[a],
                                     IF kind = "activate" THEN "sent" ELSE "form") ]
      /\ UNCHANGED <<tables, seen, holds, lapsed>>

(* An account is made with any role; an imported one is an employee's. *)
OpenOnNew(a, kind, p, role) ==
  /\ a \in holds /\ dialog[a] = Closed /\ seen[a] # 0 /\ NewDialog
  /\ kind = "import" => role = "EMPLOYEE"
  /\ dialog' = [dialog EXCEPT ![a] = Dialog(kind, p, role, seen[a], "form")]
  /\ UNCHANGED <<tables, seen, holds, lapsed>>

(* EditUserModal: the role may be chosen too, but not one's own. *)
ChooseRole(a, role) ==
  /\ dialog[a] # Closed
  /\ dialog[a].kind = "edit" /\ dialog[a].stage = "form" /\ dialog[a].who # a
  /\ dialog[a].role # role
  /\ dialog' = [dialog EXCEPT ![a].role = role]
  /\ UNCHANGED <<tables, seen, dialogs, holds, lapsed>>

Submit(a) ==
  /\ a \in holds /\ dialog[a] # Closed /\ dialog[a].stage = "form"
  /\ dialog' = [dialog EXCEPT ![a].stage = "sent"]
  /\ UNCHANGED <<tables, seen, dialogs, holds, lapsed>>

(* Closing, also by Escape or beside the dialog. *)
Close(a) ==
  /\ dialog[a] # Closed /\ dialog[a].stage # "sent"
  /\ dialog' = [dialog EXCEPT ![a] = Closed]
  /\ UNCHANGED <<tables, seen, dialogs, holds, lapsed>>

-----------------------------------------------------------------------------
(* Requests *)

Waiting(a) == dialog[a] # Closed /\ dialog[a].stage = "sent"

(* The row an edit or a new role leaves.  The edit sends no role of one's   *)
(* own.                                                                     *)
Edited(a, d) ==
  [users[d.who] EXCEPT !.role = IF d.kind = "edit" /\ d.who = a THEN @ ELSE d.role]

(* setActive and remove spare the caller. *)
NotSelfUnchecked(a, d) == TRUE
NotSelf(a, d) == d.who # a

Accepted(a, d) ==
  IF d.kind \in OnNew THEN \A i \in DOMAIN tables : tables[i][d.who] = Gone
  ELSE /\ users[d.who] # Gone
       /\ d.kind \in {"deactivate", "remove"} => NotSelf(a, d)

NewRow(a, d) ==
  CASE d.kind \in {"role", "edit"} -> Edited(a, d)
    [] d.kind = "deactivate" -> [users[d.who] EXCEPT !.active = FALSE]
    [] d.kind = "activate" -> [users[d.who] EXCEPT !.active = TRUE]
    [] d.kind = "reset" -> users[d.who]
    [] d.kind = "remove" -> Gone
    [] d.kind \in OnNew -> [role |-> d.role, active |-> TRUE]

(* The dialog after success: a new password and a report are shown; a       *)
(* password that was typed for a new account need not be.                   *)
Reported(d) == [d EXCEPT !.stage = "report"]
AfterReset(d) == {Reported(d)}
AfterImport(d) == {Reported(d)}
AfterCreate(d) == {Closed, Reported(d)}
AfterApproval == {Closed}

After(d) ==
  CASE d.kind = "reset"   -> AfterReset(d)
    [] d.kind = "import"  -> AfterImport(d)
    [] d.kind = "create"  -> AfterCreate(d)
    [] d.kind = "approve" -> AfterApproval
    [] OTHER              -> {Closed}

(* A request succeeds.  If its reply is lost, the dialog waits again. *)
Serve(a, heard) ==
  LET d    == dialog[a]
      next == [users EXCEPT ![d.who] = NewRow(a, d)]
  IN  /\ Waiting(a) /\ Accepted(a, d)
      /\ IF next = users THEN UNCHANGED tables
         ELSE Len(tables) =< MaxWrites /\ tables' = Append(tables, next)
      /\ lapsed' = (lapsed \/ ~IsAdmin(users[a]))
      /\ \E after \in IF heard THEN After(d)
                      ELSE {[d EXCEPT !.stage = "form"]} :
           dialog' = [dialog EXCEPT ![a] = after]
      /\ UNCHANGED <<seen, dialogs, holds>>

(* It is refused (also for a plan's limit, or for bookings), or fails. *)
Refuse(a) ==
  /\ Waiting(a)
  /\ dialog' = [ dialog EXCEPT
                   ![a] = IF @.kind = "activate" THEN Closed
                          ELSE [@ EXCEPT !.stage = "form"] ]
  /\ UNCHANGED <<tables, seen, dialogs, holds, lapsed>>

(* A token that has expired is not renewed without the rights: the console  *)
(* has none to ask with.                                                    *)
Lapse(a) ==
  /\ a \in holds
  /\ holds' = holds \ {a}
  /\ dialog' = [dialog EXCEPT ![a] = Closed]
  /\ UNCHANGED <<tables, seen, dialogs, lapsed>>

(* Signing in again takes the rights. *)
Enter(a) ==
  /\ a \notin holds /\ IsAdmin(users[a])
  /\ holds' = holds \cup {a}
  /\ seen' = [seen EXCEPT ![a] = 0]
  /\ UNCHANGED <<tables, dialog, dialogs, lapsed>>

RosterNext ==
  \E a \in Consoles :
    \/ Show(a) \/ ShowFails(a)
    \/ \E kind \in OnRow, p \in People, role \in Roles : OpenOnRow(a, kind, p, role)
    \/ \E kind \in OnNew, p \in People, role \in Roles : OpenOnNew(a, kind, p, role)
    \/ \E role \in Roles : ChooseRole(a, role)
    \/ Submit(a) \/ Close(a)
    \/ \E heard \in BOOLEAN : Serve(a, heard)
    \/ Refuse(a) \/ Lapse(a) \/ Enter(a)

RosterSpec == RosterInit /\ [][RosterNext]_rosterVars

-----------------------------------------------------------------------------
(* Properties *)

(* "An admin must not be able to demote (or otherwise change) their own     *)
(* role", nor deactivate or delete themselves: whatever several of them do  *)
(* to each other, one remains, unless one acted on a token that outlived    *)
(* their rights.                                                            *)
AdminRemains == (\E p \in People : IsAdmin(users[p])) \/ lapsed

(* A role changes only to one an administrator chose against the row they   *)
(* saw, or by an edit of a row that was out of date when the dialog opened, *)
(* or has changed since.                                                    *)
RoleWasChosen ==
  [][ \A p \in People :
        users[p] # Gone /\ users'[p] # Gone /\ users'[p].role # users[p].role
          => \E a \in Consoles :
               LET d == dialog[a]
               IN  /\ Waiting(a) /\ d.who = p
                   /\ \/ d.kind \in OnNew
                      \/ d.role = users'[p].role /\ tables[d.opened][p].role # d.role
                      \/ tables[d.opened][p].role # users[p].role ]_rosterVars

(* Rights are where the administrators put them, and someone has them.      *)
RolesHold == [](RosterTypeOK /\ AdminRemains) /\ RoleWasChosen
=============================================================================
