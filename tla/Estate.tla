------------------------------- MODULE Estate -------------------------------
(***************************************************************************)
(* The console's pages of rooms, their rules and their places (web-admin    *)
(* resources, policies and locations pages) over resource-admin.service.ts, *)
(* policy.service.ts, policy-resolver.service.ts and location.service.ts.   *)
(*                                                                          *)
(* A form works on what it read when it was opened, and saving a room takes *)
(* two requests.  Each is one step here (Workspace splits the upsert of a   *)
(* policy), but for a floor plan, whose check and write are apart.  Names,  *)
(* capacities, audiences, addresses, coordinates, the picture of a plan and *)
(* a change of category are left out; so are the lists, which may be as old *)
(* as they like in the choices made.                                        *)
(***************************************************************************)
EXTENDS Naturals

CONSTANTS
  Managers,            \* administrators with the console open
  Rooms, Floors,       \* that ever exist
  Nowhere,             \* no floor
  NoRow, NoForm, NoSave, \* no policy, no form, no request
  MaxForms,            \* bound on forms ever opened
  MaxChanges           \* bound on changes made from the lists

ASSUME EstateAssumption ==
  /\ Nowhere \notin Floors
  /\ Rooms \cap {"TENANT", "CATEGORY"} = {}
  /\ {MaxForms, MaxChanges} \subseteq Nat

VARIABLES
  floors,    \* whether each floor is to come, there or gone
  rooms,     \* whether each room is, its floor and whether it is of the category
  rulesOf,   \* the rules stored per scope
  plans,     \* the pins of each floor's plan
  form,      \* the form each manager has open
  saving,    \* the save each manager has under way
  opened, changed, \* forms opened and changes made so far
  strayed    \* history: pins whose room has left since they were checked

estateVars == <<floors, rooms, rulesOf, plans, form, saving, opened, changed, strayed>>

-----------------------------------------------------------------------------
(* Rules *)

(* A row holds some of the rules.  Approval stands for those the form of    *)
(* policies sends, hours for those no form knows, which came by the API.    *)
Keys == {"approval", "allowed", "hours"}
RuleSets == UNION { [keys -> 0..1] : keys \in SUBSET Keys }
Scopes == {"TENANT", "CATEGORY"} \cup Rooms

DefaultRules == [k \in Keys |-> 0]

(* mergeRules: the most specific row that has a key decides it. *)
Override(base, rules) ==
  IF rules = NoRow THEN base
  ELSE [k \in Keys |-> IF k \in DOMAIN rules THEN rules[k] ELSE base[k]]

Effective(table, r, category) ==
  Override(Override(Override(DefaultRules, table["TENANT"]),
                    IF category THEN table["CATEGORY"] ELSE NoRow), table[r])

-----------------------------------------------------------------------------

Known(r) == rooms[r].is = "there"
RoomType == [is : {"coming", "there", "gone"}, floor : Floors \cup {Nowhere}, category : BOOLEAN]

(* read is how far the request for the room's policy, or the floor's plan,  *)
(* has come; late, that the row was written since it was answered.          *)
Readings == {"asked", "answered", "shown", "failed"}
RoomForm ==
  [ kind : {"room"}, room : Rooms, add : BOOLEAN, read : Readings,
    rules : RuleSets \cup {NoRow}, late : BOOLEAN ]
PlanForm ==
  [kind : {"plan"}, floor : Floors, read : Readings, listed : SUBSET Rooms, pins : SUBSET Rooms]

(* Who may book: anyone, or those ticked, who may be none or some. *)
Choices == {"anyone", "none", "some"}

(* What a save has taken from its form. *)
RoomSave ==
  [ at : {"room", "rules"}, room : Rooms, add : BOOLEAN, floor : Floors \cup {Nowhere},
    rest : RuleSets \cup {NoRow}, choice : Choices, unread : BOOLEAN, late : BOOLEAN ]
PlanSave == [at : {"check", "plan"}, floor : Floors, pins : SUBSET Rooms, left : SUBSET Rooms]

ASSUME NoneAssumption ==
  /\ NoRow \notin RuleSets
  /\ NoForm \notin RoomForm \cup PlanForm
  /\ NoSave \notin RoomSave \cup PlanSave

EstateTypeOK ==
  /\ floors \in [Floors -> {"coming", "there", "gone"}]
  /\ rooms \in [Rooms -> RoomType]
  /\ rulesOf \in [Scopes -> RuleSets \cup {NoRow}]
  /\ plans \in [Floors -> SUBSET Rooms]
  /\ form \in [Managers -> RoomForm \cup PlanForm \cup {NoForm}]
  /\ saving \in [Managers -> RoomSave \cup PlanSave \cup {NoSave}]
  /\ opened \in 0..MaxForms /\ changed \in 0..MaxChanges
  /\ strayed \subseteq Floors \X Rooms

(* A workspace has a baseline; a room may have rules of its own. *)
EstateInit ==
  /\ floors \in [Floors -> {"coming", "there"}]
  /\ rooms \in [Rooms -> [is : {"coming", "there"}, floor : {Nowhere}, category : BOOLEAN]]
  /\ rulesOf \in
       [ Scopes -> {NoRow, [k \in {"approval"} |-> 1], [k \in {"hours", "allowed"} |-> 1]} ]
  /\ rulesOf["TENANT"] = [k \in {"approval"} |-> 1] /\ rulesOf["CATEGORY"] = NoRow
  /\ \A r \in Rooms : Known(r) <=> rulesOf[r] # NoRow
  /\ plans = [f \in Floors |-> {}]
  /\ form = [a \in Managers |-> NoForm]
  /\ saving = [a \in Managers |-> NoSave]
  /\ opened = 0 /\ changed = 0 /\ strayed = {}

-----------------------------------------------------------------------------
(* Effects of writes *)

(* The policy of a scope is written: who has read it is late. *)
Outdated(f, scope) ==
  IF f # NoForm /\ f.kind = "room" /\ f.room = scope
  THEN [f EXCEPT !.late = f.late \/ f.read # "asked"] ELSE f
Outrun(s, scope) ==
  IF s # NoSave /\ s.at \in {"room", "rules"} /\ s.room = scope
  THEN [s EXCEPT !.late = TRUE] ELSE s

Store(scope, rules) ==
  /\ rulesOf' = [rulesOf EXCEPT ![scope] = rules]
  /\ form' = [a \in Managers |-> Outdated(form[a], scope)]

(* Rooms are off their floors: pins on the plans, or checked, stray. *)
Leaving(leavers) ==
  strayed \cup { pin \in Floors \X leavers : pin[2] \in plans[pin[1]] }
Missed(s, leavers) ==
  IF s # NoSave /\ s.at = "plan" THEN [s EXCEPT !.left = s.left \cup leavers] ELSE s

(* One more change from a list; one more form. *)
Change == changed < MaxChanges /\ changed' = changed + 1
Open(a, next) ==
  /\ form[a] = NoForm /\ opened < MaxForms
  /\ opened' = opened + 1
  /\ form' = [form EXCEPT ![a] = next]
  /\ UNCHANGED <<floors, rooms, rulesOf, plans, saving, changed, strayed>>

Edit(a, next) ==
  /\ form' = [form EXCEPT ![a] = next]
  /\ UNCHANGED <<floors, rooms, rulesOf, plans, saving, opened, changed, strayed>>

HasForm(a, kind) == form[a] # NoForm /\ form[a].kind = kind

-----------------------------------------------------------------------------
(* The form of a room *)

(* A new room reads nothing.  One that has gone may still be listed. *)
OpenRoom(a, r, add) ==
  /\ IF add THEN rooms[r].is = "coming" ELSE rooms[r].is # "coming"
  /\ Open(a, [ kind |-> "room", room |-> r, add |-> add,
               read |-> IF add THEN "shown" ELSE "asked", rules |-> NoRow, late |-> FALSE ])

RulesAnswer(a) ==
  /\ HasForm(a, "room") /\ form[a].read = "asked"
  /\ Edit(a, [form[a] EXCEPT !.read = "answered", !.rules = rulesOf[form[a].room]])

(* The reply comes; no row leaves the form as it is, and so does a failure, *)
(* which nobody is told of.                                                 *)
RulesArrive(a) ==
  /\ HasForm(a, "room") /\ form[a].read = "answered"
  /\ Edit(a, [form[a] EXCEPT !.read = "shown"])

ReadingFails(a) ==
  /\ form[a] # NoForm /\ form[a].read = "asked"
  /\ Edit(a, [form[a] EXCEPT !.read = "failed"])

(* Any form may be closed, even while it is being saved. *)
CloseForm(a) ==
  /\ form[a] # NoForm
  /\ Edit(a, NoForm)

Begins(a, save) ==
  /\ saving[a] = NoSave
  /\ saving' = [saving EXCEPT ![a] = save]
  /\ UNCHANGED <<floors, rooms, rulesOf, plans, form, opened, changed, strayed>>

(* Whatever the reading put there, the form goes with what is chosen last. *)
SaveRoom(a, floor, choice) ==
  LET shown == form[a].read = "shown"
  IN  /\ HasForm(a, "room")
      /\ Begins(a, [ at |-> "room", room |-> form[a].room, add |-> form[a].add, floor |-> floor,
                     rest |-> IF shown THEN form[a].rules ELSE NoRow, choice |-> choice,
                     unread |-> ~shown, late |-> form[a].late ])

(* The save is over: its page closes whatever form is open by now. *)
Done(a) ==
  /\ saving' = [saving EXCEPT ![a] = NoSave]
  /\ form' = [form EXCEPT ![a] = NoForm]

WritesRules(save) == save.choice # "anyone" \/ save.rest # NoRow

(* The first request.  A floor cannot be taken away: left empty, it is not  *)
(* sent.  The database refuses one it does not know.                        *)
PutRoom(a) ==
  LET save == saving[a]
      r    == save.room
      to   == IF save.floor = Nowhere THEN rooms[r].floor ELSE save.floor
      gone == IF to # rooms[r].floor THEN {r} ELSE {}
  IN  /\ save # NoSave /\ save.at = "room"
      /\ IF save.add THEN rooms[r].is = "coming" ELSE Known(r)
      /\ save.floor # Nowhere => floors[save.floor] = "there"
      /\ rooms' = [rooms EXCEPT ![r] = [rooms[r] EXCEPT !.is = "there", !.floor = to]]
      /\ strayed' = Leaving(gone)
      /\ saving' = [ b \in Managers |->
                       Missed(IF b # a THEN saving[b]
                              ELSE IF WritesRules(save) THEN [save EXCEPT !.at = "rules"]
                              ELSE NoSave, gone) ]
      /\ form' = IF WritesRules(save) THEN form ELSE [form EXCEPT ![a] = NoForm]
      /\ UNCHANGED <<floors, rulesOf, plans, opened, changed>>

ListSent(save) == IF save.choice = "some" THEN 1 ELSE 0

OnlyAllowed(save) == [k \in {"allowed"} |-> ListSent(save)]

(* "Preserved on save so this form only ever touches allowedUserIds." *)
RulesSent(save) ==
  [ k \in {"allowed"} \cup (IF save.rest = NoRow THEN {} ELSE DOMAIN save.rest) |->
      IF k = "allowed" THEN ListSent(save) ELSE save.rest[k] ]

(* The second one. *)
PutRules(a) ==
  LET save == saving[a]
  IN  /\ save # NoSave /\ save.at = "rules" /\ Known(save.room)
      /\ rulesOf' = [rulesOf EXCEPT ![save.room] = RulesSent(save)]
      /\ saving' = [b \in Managers |-> IF b = a THEN NoSave ELSE Outrun(saving[b], save.room)]
      /\ form' = [b \in Managers |-> IF b = a THEN NoForm ELSE Outdated(form[b], save.room)]
      /\ UNCHANGED <<floors, rooms, plans, opened, changed, strayed>>

(* A request fails or is refused: what came before it stays, and so does    *)
(* the form, if it is still open.                                           *)
EstateSaveFails(a) ==
  /\ saving[a] # NoSave
  /\ saving' = [saving EXCEPT ![a] = NoSave]
  /\ UNCHANGED <<floors, rooms, rulesOf, plans, form, opened, changed, strayed>>

-----------------------------------------------------------------------------
(* The form of policies, and the lists *)

(* What the form of policies may send for a scope: all it knows, and no     *)
(* more, in place of the row.                                               *)
PolicyFormRules(scope) ==
  { rules \in RuleSets :
      /\ "approval" \in DOMAIN rules /\ "hours" \notin DOMAIN rules
      /\ "allowed" \in DOMAIN rules <=> scope \in Rooms }

SavePolicy(a, scope, rules) ==
  /\ Change
  /\ scope \in Rooms => Known(scope)
  /\ Store(scope, rules)
  /\ saving' = [b \in Managers |-> Outrun(saving[b], scope)]
  /\ UNCHANGED <<floors, rooms, plans, opened, strayed>>

RemovePolicy(a, scope) ==
  /\ Change /\ rulesOf[scope] # NoRow
  /\ Store(scope, NoRow)
  /\ saving' = [b \in Managers |-> Outrun(saving[b], scope)]
  /\ UNCHANGED <<floors, rooms, plans, opened, strayed>>

(* A room takes its policy along, and leaves its pins behind. *)
RemoveRoom(a, r) ==
  /\ Change /\ Known(r)
  /\ rooms' = [rooms EXCEPT ![r] = [rooms[r] EXCEPT !.is = "gone", !.floor = Nowhere]]
  /\ Store(r, NoRow)
  /\ strayed' = Leaving({r})
  /\ saving' = [b \in Managers |-> Missed(Outrun(saving[b], r), {r})]
  /\ UNCHANGED <<floors, plans, opened>>

AddFloor(a, f) ==
  /\ Change /\ floors[f] = "coming"
  /\ floors' = [floors EXCEPT ![f] = "there"]
  /\ UNCHANGED <<rooms, rulesOf, plans, form, saving, opened, strayed>>

(* Floors go with their plans.  The rooms stay, on no floor.                *)
FloorsGone(gone) ==
  LET without == { r \in Rooms : rooms[r].floor \in gone }
  IN  /\ Change /\ \A f \in gone : floors[f] = "there"
      /\ floors' = [f \in Floors |-> IF f \in gone THEN "gone" ELSE floors[f]]
      /\ plans' = [f \in Floors |-> IF f \in gone THEN {} ELSE plans[f]]
      /\ rooms' = [ r \in Rooms |->
                      IF r \in without THEN [rooms[r] EXCEPT !.floor = Nowhere] ELSE rooms[r] ]
      /\ strayed' = { pin \in strayed : pin[1] \notin gone }
      /\ saving' = [b \in Managers |-> Missed(saving[b], without)]
      /\ UNCHANGED <<rulesOf, form, opened>>

(* A building takes all its floors along; an office only leaves its         *)
(* buildings without one.                                                   *)
RemoveFloor(f) == FloorsGone({f})
RemoveBuilding(gone) == gone # {} /\ FloorsGone(gone)

-----------------------------------------------------------------------------
(* The editor of a floor plan *)

OpenPlan(a, f) ==
  /\ floors[f] # "coming"
  /\ Open(a, [kind |-> "plan", floor |-> f, read |-> "asked", listed |-> {}, pins |-> {}])

PlanArrives(a) ==
  LET f == form[a].floor
  IN  /\ HasForm(a, "plan") /\ form[a].read = "asked" /\ floors[f] = "there"
      /\ Edit(a, [ form[a] EXCEPT !.read = "shown", !.pins = plans[f],
                     !.listed = { r \in Rooms : rooms[r].floor = f } ])

(* A room of the list is placed, or its pin removed. *)
Place(a, r) ==
  /\ HasForm(a, "plan") /\ r \in form[a].listed
  /\ Edit(a, [form[a] EXCEPT !.pins = @ \cup {r}])

Unpin(a, r) ==
  /\ HasForm(a, "plan") /\ r \in form[a].listed
  /\ Edit(a, [form[a] EXCEPT !.pins = @ \ {r}])

(* It can be saved once the reading is over, even if that failed. *)
SavePlan(a) ==
  /\ HasForm(a, "plan") /\ form[a].read \in {"shown", "failed"}
  /\ Begins(a, [at |-> "check", floor |-> form[a].floor, pins |-> form[a].pins, left |-> {}])

NoStrayUnchecked(f, pins) == TRUE
NoStray(f, pins) == \A r \in pins : rooms[r].floor = f

(* "A pin may only point at a resource that is actually on this floor." *)
CheckPlan(a) ==
  LET save == saving[a]
  IN  /\ save # NoSave /\ save.at = "check" /\ floors[save.floor] = "there"
      /\ NoStray(save.floor, save.pins)
      /\ saving' = [saving EXCEPT ![a].at = "plan"]
      /\ UNCHANGED <<floors, rooms, rulesOf, plans, form, opened, changed, strayed>>

WritePlan(a) ==
  LET save == saving[a]
      f    == save.floor
  IN  /\ save # NoSave /\ save.at = "plan" /\ floors[f] = "there"
      /\ plans' = [plans EXCEPT ![f] = save.pins]
      /\ strayed' = { pin \in strayed : pin[1] # f } \cup ({f} \X (save.pins \cap save.left))
      /\ Done(a)
      /\ UNCHANGED <<floors, rooms, rulesOf, opened, changed>>

EstateNext ==
  \/ \E f \in Floors : RemoveFloor(f)
  \/ \E gone \in SUBSET Floors : RemoveBuilding(gone)
  \/ \E a \in Managers :
       \/ \E r \in Rooms, add \in BOOLEAN : OpenRoom(a, r, add)
       \/ RulesAnswer(a) \/ RulesArrive(a) \/ ReadingFails(a)
       \/ CloseForm(a)
       \/ \E floor \in Floors \cup {Nowhere}, choice \in Choices : SaveRoom(a, floor, choice)
       \/ PutRoom(a) \/ PutRules(a) \/ EstateSaveFails(a)
       \/ \E scope \in Scopes : RemovePolicy(a, scope)
       \/ \E scope \in Scopes : \E rules \in PolicyFormRules(scope) : SavePolicy(a, scope, rules)
       \/ \E r \in Rooms : RemoveRoom(a, r)
       \/ \E f \in Floors : AddFloor(a, f) \/ OpenPlan(a, f)
       \/ \E r \in Rooms : Place(a, r) \/ Unpin(a, r)
       \/ PlanArrives(a) \/ SavePlan(a) \/ CheckPlan(a) \/ WritePlan(a)

EstateSpec == EstateInit /\ [][EstateNext]_estateVars

-----------------------------------------------------------------------------
(* Properties *)

(* What is in force after a step. *)
RulesAfter(r) == Effective(rulesOf', r, rooms'[r].category)

(* The form of a room "never silently wipes a colleague's other room        *)
(* rules": its save leaves every other rule in force as it was, if its      *)
(* reading came, and was not overtaken.                                     *)
OtherRulesKept ==
  [][ \A a \in Managers :
        LET save == saving[a]
        IN  save # NoSave /\ save.at = "rules" /\ saving'[a] = NoSave /\ ~save.unread /\ ~save.late
              => \A k \in Keys \ {"allowed"} :
                   RulesAfter(save.room)[k] = Effective(rulesOf, save.room, rooms[save.room].category)[k]
    ]_estateVars

(* Who may book a room is what the form said that was saved last, if its    *)
(* reading came, and was not overtaken: "anyone" lifts a restriction.       *)
RestrictionAsShown ==
  [][ \A a \in Managers :
        LET save   == saving[a]
            saves  == save # NoSave /\ save.at \in {"room", "rules"}
            closes == saving'[a] = NoSave /\ form[a] # NoForm /\ form'[a] = NoForm
        IN  saves /\ closes /\ ~save.unread /\ ~save.late
              => RulesAfter(save.room)["allowed"] = ListSent(save)
    ]_estateVars

(* A plan shows a room that is not on its floor only if the room has left   *)
(* since the pin was checked.                                               *)
PinsOnFloor ==
  \A f \in Floors : \A r \in plans[f] : rooms[r].floor = f \/ <<f, r>> \in strayed

(* The rows of buildings, rooms and plans go together. *)
EstateInv == EstateTypeOK /\ PinsOnFloor

(* A form of rooms changes the rules it shows, and no others. *)
RoomFormHolds == OtherRulesKept /\ RestrictionAsShown
=============================================================================
