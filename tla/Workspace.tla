----------------------------- MODULE Workspace -----------------------------
(***************************************************************************)
(* One workspace: its registration (onboarding.service.ts), the address it  *)
(* answers to (branding.service.ts) and what its administrators set: the    *)
(* baseline booking policy (policy.service.ts), the hidden menus            *)
(* (menu-visibility.service.ts), an integration's secret                    *)
(* (feature-flag.service.ts); and a task pushed by another platform         *)
(* (approval-hub.service.ts).                                               *)
(*                                                                          *)
(* Every one of them is saved by statements with awaits in between, in no   *)
(* transaction.  `flow` holds how far each request has come.                *)
(***************************************************************************)
EXTENDS Integers, Sequences, FiniteSets

CONSTANTS
  Flows,       \* requests served at the same time
  Rules,       \* what a policy may say
  Baseline,    \* the policy a registration starts with
  MenuItems,   \* menu entries, one for each role
  Secrets,     \* client secrets of an integration
  Nothing,     \* no rules, no secret, a field left blank
  MaxRows,     \* bound: rows of the policy table
  MaxRequests  \* bound: requests begun

ASSUME WorkspaceAssumption ==
  /\ Baseline \in Rules
  /\ Nothing \notin Rules \cup Secrets
  /\ MaxRows \in Nat /\ MaxRequests \in Nat

VARIABLES
  made,      \* the rows a registration has inserted so far
  holder,    \* whose branding has the address of the workspace as subdomain
  policies,  \* the TENANT rows of BookingPolicy by id, removed ones included
  hidden,    \* HiddenMenuItem
  flag,      \* the integration's row: is there one, and its stored secret
  task,      \* decision of the external task
  flow,      \* the requests in flight
  begun,     \* requests begun
  wanted,    \* history: what the last save of each subject asked for
  overtaken, \* history: flows another write to their subject happened to
  clashed,   \* history: subjects whose last save was overtaken or cut
  left       \* history: the workspace once gave its address up

settings == <<policies, hidden, flag, task>>
history == <<wanted, clashed, left>>
vars == <<made, holder, settings, flow, begun, overtaken, history>>

Subjects == {"rules", "menu", "secret"}

Stages ==
  {"idle", "tenant", "branding", "admin", "baseline", "claim", "rules", "menu", "secret", "decide"}

Idle == [at |-> "idle", what |-> Nothing, read |-> Nothing]

(* Decisions of a task, and who may hold an address. *)
Decisions == {"APPROVED", "REJECTED"}
Holders == {"ours", "theirs", "nobody"}

Busy(f) == flow[f] # Idle

(* Types; and rows come in order, of one registration at a time: the slug's *)
(* unique index lets no second one get past its first insert.               *)
TypeOK ==
  /\ made \subseteq {"tenant", "branding", "admin"}
  /\ "admin" \in made => "branding" \in made
  /\ "branding" \in made => "tenant" \in made
  /\ holder \in Holders
  /\ holder = "ours" => "branding" \in made
  /\ policies \in Seq([present : BOOLEAN, rules : Rules]) /\ Len(policies) <= MaxRows
  /\ hidden \subseteq MenuItems
  /\ flag \in [stored : BOOLEAN, secret : Secrets \cup {Nothing}]
  /\ ~flag.stored => flag.secret = Nothing
  /\ task \in Decisions \cup {"PENDING"}
  /\ \A f \in Flows : flow[f].at \in Stages
  /\ Cardinality({ f \in Flows : flow[f].at \in {"branding", "admin", "baseline"} }) <= 1
  /\ begun \in 0..MaxRequests
  /\ overtaken \subseteq { f \in Flows : Busy(f) }
  /\ clashed \subseteq Subjects
  /\ left \in BOOLEAN

Init ==
  /\ made = {}
  /\ holder \in {"nobody", "theirs"}
  /\ policies = <<>>
  /\ hidden = {}
  /\ flag = [stored |-> FALSE, secret |-> Nothing]
  /\ task = "PENDING"
  /\ flow = [f \in Flows |-> Idle]
  /\ begun = 0
  /\ wanted = [rules |-> Nothing, menu |-> {}, secret |-> Nothing]
  /\ overtaken = {} /\ clashed = {}
  /\ left = FALSE

-----------------------------------------------------------------------------
(* Steps of a request *)

Begin(f, stage, what, read) ==
  /\ ~Busy(f) /\ begun < MaxRequests
  /\ begun' = begun + 1
  /\ flow' = [flow EXCEPT ![f] = [at |-> stage, what |-> what, read |-> read]]

Goto(f, stage) == flow' = [flow EXCEPT ![f].at = stage]

Finish(f) == flow' = [flow EXCEPT ![f] = Idle]

(* A write by f to what the flows at these stages are about to write *)
Overtake(f, stages) ==
  overtaken' =
    { g \in overtaken \cup { h \in Flows \ {f} : flow[h].at \in stages } : flow'[g] # Idle }

(* f completes a save of the subject; sound says that it alone decides what *)
(* the subject has become, if nobody overtook it.                           *)
Saved(f, subject, what, sound) ==
  /\ wanted' = [wanted EXCEPT ![subject] = what]
  /\ clashed' =
       IF f \in overtaken THEN clashed \cup {subject}
       ELSE IF sound THEN clashed \ {subject}
       ELSE clashed

(* A request may be refused or fail at any step; what it wrote stays. *)
Abandon(f) ==
  /\ Busy(f)
  /\ Finish(f)
  /\ overtaken' = overtaken \ {f}
  /\ clashed' = IF flow[f].at = "menu" THEN clashed \cup {"menu"} ELSE clashed
  /\ UNCHANGED <<made, holder, settings, begun, wanted, left>>

-----------------------------------------------------------------------------
(* Registration *)

(* register: the address is nobody's slug and nobody's subdomain ... *)
RegisterBegin(f) ==
  /\ "tenant" \notin made /\ holder = "nobody"
  /\ Begin(f, "tenant", Nothing, Nothing)
  /\ UNCHANGED <<made, holder, settings, overtaken, history>>

(* ... then the rows are inserted one by one: the tenant, whose slug is     *)
(* unique, its branding, its administrator ...                              *)
RegisterTenant(f) ==
  /\ flow[f].at = "tenant"
  /\ "tenant" \notin made
  /\ made' = made \cup {"tenant"}
  /\ Goto(f, "branding")
  /\ UNCHANGED <<holder, settings, begun, overtaken, history>>

RegisterBranding(f) ==
  /\ flow[f].at = "branding"
  /\ holder = "nobody"
  /\ made' = made \cup {"branding"} /\ holder' = "ours"
  /\ Goto(f, "admin")
  /\ UNCHANGED <<settings, begun, overtaken, history>>

RegisterAdmin(f) ==
  /\ flow[f].at = "admin"
  /\ made' = made \cup {"admin"}
  /\ Goto(f, "baseline")
  /\ UNCHANGED <<holder, settings, begun, overtaken, history>>

(* ... and the policy last, when the administrator can already sign in. *)
RegisterBaseline(f) ==
  /\ flow[f].at = "baseline"
  /\ Len(policies) < MaxRows
  /\ policies' = Append(policies, [present |-> TRUE, rules |-> Baseline])
  /\ Finish(f)
  /\ Overtake(f, {"rules"})
  /\ Saved(f, "rules", Baseline, TRUE)
  /\ UNCHANGED <<made, holder, hidden, flag, task, begun, left>>

Administered == "admin" \in made

-----------------------------------------------------------------------------
(* The address *)

(* Another workspace has an administrator of its own. *)
MayClaim(who) == who = "theirs" \/ (who = "ours" /\ Administered)

(* BrandingService.update asks whether another branding has the subdomain,  *)
(* never whether another workspace has it as its slug, ...                  *)
ClaimBegin(f, who) ==
  /\ MayClaim(who)
  /\ holder \in {who, "nobody"}
  /\ Begin(f, "claim", who, Nothing)
  /\ UNCHANGED <<made, holder, settings, overtaken, history>>

ClaimWriteNotUnique(f) ==
  /\ flow[f].at = "claim"
  /\ holder' = flow[f].what
  /\ Finish(f)
  /\ overtaken' = overtaken \ {f}
  /\ UNCHANGED <<made, settings, begun, history>>

(* ... and writes it, which the unique index may refuse. *)
ClaimWrite(f) ==
  /\ flow[f].at = "claim"
  /\ holder \in {flow[f].what, "nobody"}
  /\ holder' = flow[f].what
  /\ Finish(f)
  /\ overtaken' = overtaken \ {f}
  /\ UNCHANGED <<made, settings, begun, history>>

(* The same handler with another, free subdomain *)
Release(who) ==
  /\ MayClaim(who) /\ holder = who
  /\ holder' = "nobody"
  /\ left' = (left \/ who = "ours")
  /\ UNCHANGED <<made, settings, flow, begun, overtaken, wanted, clashed>>

-----------------------------------------------------------------------------
(* The baseline policy *)

Rows == { i \in DOMAIN policies : policies[i].present }

(* resolveForResource: ids grow with time and the first row counts. *)
RulesInForce ==
  IF Rows = {} THEN Nothing
  ELSE policies[CHOOSE i \in Rows : \A j \in Rows : i <= j].rules

(* PolicyService.upsert looks for a row, in no order, ... *)
RulesBegin(f, rules) ==
  /\ Administered
  /\ \E row \in IF Rows = {} THEN {0} ELSE Rows : Begin(f, "rules", rules, row)
  /\ UNCHANGED <<made, holder, settings, overtaken, history>>

RulesWriteAlwaysNew(f) ==
  /\ flow[f].at = "rules"
  /\ Len(policies) < MaxRows
  /\ policies' = Append(policies, [present |-> TRUE, rules |-> flow[f].what])
  /\ Finish(f)
  /\ Overtake(f, {"rules", "baseline"})
  /\ Saved(f, "rules", flow[f].what, Cardinality(Rows) <= 1)
  /\ UNCHANGED <<made, holder, hidden, flag, task, begun, left>>

(* ... and writes that row, or a new one if there was none: the unique      *)
(* index lets a second one in, its nullable columns being NULL.             *)
RulesWrite(f) ==
  LET row == flow[f].read
  IN  /\ flow[f].at = "rules"
      /\ \/ /\ row = 0 /\ Len(policies) < MaxRows
            /\ policies' = Append(policies, [present |-> TRUE, rules |-> flow[f].what])
         \/ /\ row # 0 /\ policies[row].present
            /\ policies' = [policies EXCEPT ![row].rules = flow[f].what]
      /\ Finish(f)
      /\ Overtake(f, {"rules", "baseline"})
      /\ Saved(f, "rules", flow[f].what, Cardinality(Rows) <= 1)
      /\ UNCHANGED <<made, holder, hidden, flag, task, begun, left>>

(* PolicyService.remove, of one row by its id *)
RulesRemove(row) ==
  /\ Administered /\ row \in Rows /\ begun < MaxRequests
  /\ begun' = begun + 1
  /\ policies' = [policies EXCEPT ![row].present = FALSE]
  /\ overtaken' = overtaken \cup { f \in Flows : flow[f].at \in {"rules", "baseline"} }
  /\ wanted' = [wanted EXCEPT !.rules = Nothing]
  /\ clashed' = IF Rows = {row} THEN clashed \ {"rules"} ELSE clashed
  /\ UNCHANGED <<made, holder, hidden, flag, task, flow, left>>

-----------------------------------------------------------------------------
(* The other settings, and the external task *)

(* MenuVisibilityService.save deletes every row ... *)
MenuClear(f, items) ==
  /\ Administered
  /\ Begin(f, "menu", items, Nothing)
  /\ hidden' = {}
  /\ Overtake(f, {"menu"})
  /\ UNCHANGED <<made, holder, policies, flag, task, history>>

(* ... and inserts the submitted ones, all of them or, where one is there   *)
(* already, none.                                                           *)
MenuFill(f) ==
  LET items == flow[f].what
  IN  /\ flow[f].at = "menu"
      /\ hidden \cap items = {}
      /\ hidden' = hidden \cup items
      /\ Finish(f)
      /\ Overtake(f, {"menu"})
      /\ Saved(f, "menu", items, TRUE)
      /\ UNCHANGED <<made, holder, policies, flag, task, begun, left>>

(* FeatureFlagService.upsert reads the row, with the secret it stores, ... *)
SecretBegin(f, typed) ==
  /\ Administered
  /\ Begin(f, "secret", typed, flag)
  /\ UNCHANGED <<made, holder, settings, overtaken, history>>

(* A field left blank keeps the secret that was read. *)
NextSecret(typed, stored) == IF typed = Nothing THEN stored ELSE typed

(* ... and writes the whole configuration: into that row, or into a new one *)
(* unless one has been made since.                                          *)
SecretWrite(f) ==
  LET typed == flow[f].what
      read == flow[f].read
  IN  /\ flow[f].at = "secret"
      /\ flag.stored => read.stored
      /\ flag' = [stored |-> TRUE, secret |-> NextSecret(typed, read.secret)]
      /\ Finish(f)
      /\ Overtake(f, {"secret"})
      /\ Saved(f, "secret", IF typed = Nothing THEN wanted.secret ELSE typed, typed # Nothing)
      /\ UNCHANGED <<made, holder, policies, hidden, task, begun, left>>

DecideBeginAgain(f, decision) ==
  /\ Begin(f, "decide", decision, Nothing)
  /\ UNCHANGED <<made, holder, settings, overtaken, history>>

(* ApprovalHubService.decide: "Already decided", or a decision ... *)
DecideBegin(f, decision) ==
  /\ task = "PENDING"
  /\ Begin(f, "decide", decision, Nothing)
  /\ UNCHANGED <<made, holder, settings, overtaken, history>>

(* ... written by id alone. *)
DecideWrite(f) ==
  /\ flow[f].at = "decide"
  /\ task' = flow[f].what
  /\ Finish(f)
  /\ Overtake(f, {"decide"})
  /\ UNCHANGED <<made, holder, policies, hidden, flag, begun, history>>

Next ==
  \/ \E f \in Flows :
       \/ RegisterBegin(f) \/ RegisterTenant(f) \/ RegisterBranding(f)
       \/ RegisterAdmin(f) \/ RegisterBaseline(f)
       \/ \E who \in {"ours", "theirs"} : ClaimBegin(f, who)
       \/ ClaimWrite(f)
       \/ \E rules \in Rules : RulesBegin(f, rules)
       \/ RulesWrite(f)
       \/ \E items \in SUBSET MenuItems : MenuClear(f, items)
       \/ MenuFill(f)
       \/ \E typed \in Secrets \cup {Nothing} : SecretBegin(f, typed)
       \/ SecretWrite(f)
       \/ \E decision \in Decisions : DecideBegin(f, decision)
       \/ DecideWrite(f)
       \/ Abandon(f)
  \/ \E who \in {"ours", "theirs"} : Release(who)
  \/ \E row \in Rows : RulesRemove(row)

Spec == Init /\ [][Next]_vars

-----------------------------------------------------------------------------
(* Properties *)

(* "slug doubles as the subdomain": the host of a workspace that got its    *)
(* branding never leads to another one, unless its administrator had moved  *)
(* it elsewhere; the check of a new subdomain ignores slugs.                *)
AddressLostOnlyIfLeft == holder = "theirs" /\ "branding" \in made => left

(* The rows of a registration, and the address they stand for. *)
WorkspaceInv == TypeOK /\ AddressLostOnlyIfLeft

(* The rules in force are those saved last, though the table may hold       *)
(* several rows and the upsert edits any of them: it takes saves that       *)
(* overlapped, or one that overlapped the registration, to tell them apart. *)
RulesAsSaved == "rules" \notin clashed => RulesInForce = wanted.rules

(* "Replace the tenant's hidden set with exactly what the console           *)
(* submitted": between saves, and when none overlapped another or failed    *)
(* half way.                                                                *)
MenuAsSubmitted ==
  "menu" \notin clashed /\ (\A f \in Flows : flow[f].at # "menu") => hidden = wanted.menu

(* "Keep what is already saved rather than wiping it": the secret stored is *)
(* the last one typed, whatever else of the integration was edited since,   *)
(* but by edits that overlapped.                                            *)
SecretAsTyped == "secret" \notin clashed => flag.secret = wanted.secret

(* What was saved last is in force, though a save is several statements.    *)
SettingsAsSaved == RulesAsSaved /\ MenuAsSubmitted /\ SecretAsTyped

(* "Already decided": a decision of an external task is changed only by one *)
(* that was checked before it.                                              *)
ExternalDecisionStands ==
  [][ task # "PENDING" /\ task' # task
        => \E f \in overtaken : flow[f].at = "decide" /\ flow'[f] # flow[f] ]_vars
=============================================================================
