--------------------------- MODULE Console_proofs ---------------------------
(***************************************************************************)
(* Theorems about what the administrators of a workspace keep in order:     *)
(* its registration and settings (Workspace), its mail server (Mailer), its *)
(* accounts (Roster), and its rooms and policies (Estate), for every value  *)
(* of the constants.                                                        *)
(***************************************************************************)
EXTENDS Workspace, Mailer, Roster, Estate, FiniteSetTheorems, TLAPS

-----------------------------------------------------------------------------
(* Workspace: the invariant *)

Owners == {"ours", "theirs"}
FlagType == [stored : BOOLEAN, secret : Secrets \cup {Nothing}]
PolicyType == [present : BOOLEAN, rules : Rules]

Whats == Owners \cup Rules \cup (SUBSET MenuItems) \cup Secrets \cup Decisions \cup {Nothing}
Reads == Nat \cup FlagType \cup {Nothing}
StepType == [at : Stages, what : Whats, read : Reads]

(* What a request carries at each of its stages *)
Carries(r, table) ==
  /\ r.at = "idle" => r = Idle
  /\ r.at = "claim" => r.what \in Owners
  /\ r.at = "rules" => r.what \in Rules /\ r.read \in 0..Len(table)
  /\ r.at = "menu" => r.what \in SUBSET MenuItems
  /\ r.at = "secret" =>
       r.what \in Secrets \cup {Nothing} /\ r.read \in FlagType
         /\ (~r.read.stored => r.read.secret = Nothing)
  /\ r.at = "decide" => r.what \in Decisions

ValuesOK ==
  /\ holder \in Holders
  /\ policies \in Seq(PolicyType) /\ Len(policies) <= MaxRows
  /\ hidden \subseteq MenuItems
  /\ flag \in FlagType /\ (~flag.stored => flag.secret = Nothing)
  /\ task \in Decisions \cup {"PENDING"}
  /\ begun \in 0..MaxRequests
  /\ wanted \in [ rules : Rules \cup {Nothing}, menu : SUBSET MenuItems,
                  secret : Secrets \cup {Nothing} ]
  /\ clashed \subseteq Subjects
  /\ left \in BOOLEAN

StepsOK ==
  /\ flow \in [Flows -> StepType]
  /\ \A f \in Flows : Carries(flow[f], policies)
  /\ overtaken \subseteq { f \in Flows : Busy(f) }

(* One registration at a time is past its first insert, and how far it is   *)
(* tells which rows there are.                                              *)
Registering(f) == flow[f].at \in {"branding", "admin", "baseline"}

RegistrationInv ==
  /\ made \subseteq {"tenant", "branding", "admin"}
  /\ "admin" \in made => "branding" \in made
  /\ "branding" \in made => "tenant" \in made
  /\ \A f, g \in Flows : Registering(f) /\ Registering(g) => f = g
  /\ \A f \in Flows :
       /\ flow[f].at = "branding" => "tenant" \in made /\ "branding" \notin made
       /\ flow[f].at = "admin" => "branding" \in made /\ "admin" \notin made
       /\ flow[f].at = "baseline" => "admin" \in made
       /\ flow[f].at = "claim" /\ flow[f].what = "ours" => "admin" \in made
       /\ flow[f].at = "rules" => "admin" \in made
  /\ "admin" \notin made => policies = <<>>

(* A branding keeps its address until it is given up. *)
AddressInv ==
  /\ holder = "ours" => "branding" \in made
  /\ "branding" \in made /\ ~left => holder = "ours"

(* What a request read still holds until a write overtakes it: there is no  *)
(* policy when a registration adds its own, the row to update is there, or  *)
(* none is, no menu is hidden after the delete, the integration is as it    *)
(* was, the task is open.                                                   *)
StillSees(f) ==
  /\ flow[f].at = "baseline" => policies = <<>>
  /\ flow[f].at = "rules" => IF flow[f].read = 0 THEN Rows = {} ELSE flow[f].read \in Rows
  /\ flow[f].at = "menu" => hidden = {}
  /\ flow[f].at = "secret" => flow[f].read = flag
  /\ flow[f].at = "decide" => task = "PENDING"

SeesInv == \A f \in Flows \ overtaken : StillSees(f)

(* Unless saves of a subject clashed, it is as the last one wanted; and the *)
(* rules have no second row.                                                *)
OneRow == \A i, j \in Rows : i = j

WantedRules == "rules" \notin clashed => OneRow /\ RulesInForce = wanted.rules
WantedMenu ==
  "menu" \notin clashed /\ (\A f \in Flows : flow[f].at # "menu") => hidden = wanted.menu
WantedSecret == "secret" \notin clashed => flag.secret = wanted.secret

WantedInv == WantedRules /\ WantedMenu /\ WantedSecret

SettingsInv ==
  ValuesOK /\ StepsOK /\ RegistrationInv /\ AddressInv /\ SeesInv /\ WantedInv

-----------------------------------------------------------------------------
(* Workspace: requests in flight *)

LEMMA IdleStep ==
  /\ Idle \in StepType /\ Idle.at = "idle"
  /\ \A table : Carries(Idle, table)
BY DEF Idle, StepType, Whats, Reads, Stages, Carries

(* Only f moves. *)
Still(f) == \A g \in Flows \ {f} : flow'[g] = flow[g]

LEMMA FinishStep ==
  ASSUME StepsOK, NEW f \in Flows, Finish(f)
  PROVE  /\ flow' \in [Flows -> StepType]
         /\ flow'[f] = Idle /\ flow'[f].at = "idle" /\ Still(f)
BY IdleStep DEF StepsOK, Finish, Still

LEMMA GotoStep ==
  ASSUME StepsOK, NEW f \in Flows, NEW stage \in Stages, Goto(f, stage)
  PROVE  /\ flow' \in [Flows -> StepType]
         /\ flow'[f].at = stage /\ flow'[f].what = flow[f].what /\ flow'[f].read = flow[f].read
         /\ Still(f)
<1> DEFINE r == [flow[f] EXCEPT !.at = stage]
<1>1. flow[f] \in StepType
  BY DEF StepsOK
<1>2. r \in StepType /\ r.at = stage /\ r.what = flow[f].what /\ r.read = flow[f].read
  BY <1>1 DEF StepType
<1>3. flow' = [flow EXCEPT ![f] = r] /\ flow \in [Flows -> StepType]
  BY DEF Goto, StepsOK
<1> HIDE DEF r
<1> QED BY <1>2, <1>3 DEF Still

LEMMA BeginStep ==
  ASSUME StepsOK, NEW f \in Flows, NEW stage \in Stages, NEW what, NEW read,
         [at |-> stage, what |-> what, read |-> read] \in StepType,
         Begin(f, stage, what, read)
  PROVE  /\ flow' \in [Flows -> StepType]
         /\ flow'[f].at = stage /\ flow'[f].what = what /\ flow'[f].read = read
         /\ Still(f)
         /\ f \notin overtaken /\ flow[f] = Idle
         /\ begun' = begun + 1 /\ begun < MaxRequests
<1> DEFINE r == [at |-> stage, what |-> what, read |-> read]
<1>1. r.at = stage /\ r.what = what /\ r.read = read
  OBVIOUS
<1>2. flow' = [flow EXCEPT ![f] = r] /\ flow \in [Flows -> StepType] /\ r \in StepType
  BY DEF Begin, StepsOK
<1>3. f \notin overtaken /\ flow[f] = Idle /\ begun' = begun + 1 /\ begun < MaxRequests
  BY DEF Begin, Busy, StepsOK
<1> HIDE DEF r
<1> QED BY <1>1, <1>2, <1>3 DEF Still

(* A write of f overtakes whoever is about to write the same. *)
LEMMA OvertakeStep ==
  ASSUME StepsOK, NEW f \in Flows, Still(f),
         NEW stages, "idle" \notin stages, Overtake(f, stages)
  PROVE  /\ overtaken' \subseteq { g \in Flows : Busy(g)' }
         /\ f \in overtaken' <=> f \in overtaken /\ Busy(f)'
         /\ \A g \in Flows \ {f} :
              g \notin overtaken' => g \notin overtaken /\ flow[g].at \notin stages
BY DEF StepsOK, Still, Overtake, Busy, Idle

-----------------------------------------------------------------------------
(* Workspace: what a step of f keeps *)

LEMMA StepsKept ==
  ASSUME StepsOK, NEW f \in Flows, flow' \in [Flows -> StepType], Still(f),
         Carries(flow'[f], policies'),
         policies \in Seq(PolicyType), policies' \in Seq(PolicyType),
         Len(policies) <= Len(policies'),
         overtaken' \subseteq { g \in Flows : Busy(g)' }
  PROVE  StepsOK'
<1>1. ASSUME NEW g \in Flows \ {f}
      PROVE  Carries(flow'[g], policies')
  <2>1. Carries(flow[g], policies) /\ flow'[g] = flow[g]
    BY DEF StepsOK, Still
  <2>2. 0..Len(policies) \subseteq 0..Len(policies')
    OBVIOUS
  <2> QED BY <2>1, <2>2 DEF Carries
<1> QED BY <1>1 DEF StepsOK

LEMMA SeesKept ==
  ASSUME SeesInv, NEW f \in Flows, Still(f),
         f \notin overtaken' => StillSees(f)',
         \A g \in Flows \ {f} : g \notin overtaken' =>
           /\ g \notin overtaken
           /\ flow[g].at = "baseline" => policies' = policies
           /\ flow[g].at = "rules" => policies' = policies
           /\ flow[g].at = "menu" => hidden' = hidden
           /\ flow[g].at = "secret" => flag' = flag
           /\ flow[g].at = "decide" => task' = task
  PROVE  SeesInv'
<1>1. ASSUME NEW g \in Flows \ {f}, g \notin overtaken'
      PROVE  StillSees(g)'
  BY <1>1 DEF SeesInv, StillSees, Still, Rows
<1> QED BY <1>1 DEF SeesInv

LEMMA RulesKept ==
  ASSUME WantedRules, policies' = policies, wanted'.rules = wanted.rules,
         "rules" \in clashed => "rules" \in clashed'
  PROVE  WantedRules'
BY DEF WantedRules, OneRow, RulesInForce, Rows

LEMMA MenuKept ==
  ASSUME WantedMenu, NEW f \in Flows, Still(f), flow[f].at # "menu",
         hidden' = hidden, wanted'.menu = wanted.menu,
         "menu" \in clashed => "menu" \in clashed'
  PROVE  WantedMenu'
BY DEF WantedMenu, Still

LEMMA SecretKept ==
  ASSUME WantedSecret, flag' = flag, wanted'.secret = wanted.secret,
         "secret" \in clashed => "secret" \in clashed'
  PROVE  WantedSecret'
BY DEF WantedSecret

LEMMA AddressKept ==
  ASSUME AddressInv, made' = made, holder' = holder, left' = left
  PROVE  AddressInv'
BY DEF AddressInv

(* Before and after a step of f that registers nothing *)
LEMMA RegistrationKept ==
  ASSUME RegistrationInv, NEW f \in Flows, Still(f), made' = made,
         ~Registering(f)',
         flow'[f].at = "claim" /\ flow'[f].what = "ours" => "admin" \in made,
         flow'[f].at = "rules" => "admin" \in made,
         "admin" \notin made => policies' = policies
  PROVE  RegistrationInv'
BY DEF RegistrationInv, Registering, Still

(* A request begins: it carries what it has read. *)
LEMMA BeginKeeps ==
  ASSUME SettingsInv, NEW f \in Flows,
         NEW stage \in Stages \ {"branding", "admin", "baseline", "menu"}, NEW what, NEW read,
         [at |-> stage, what |-> what, read |-> read] \in StepType,
         Begin(f, stage, what, read),
         UNCHANGED <<made, holder, settings, overtaken, history>>,
         Carries(flow'[f], policies), StillSees(f)',
         stage = "claim" /\ what = "ours" => "admin" \in made,
         stage = "rules" => "admin" \in made
  PROVE  SettingsInv'
<1>1. /\ flow' \in [Flows -> StepType] /\ flow'[f].at = stage /\ flow'[f].what = what
      /\ Still(f) /\ f \notin overtaken /\ flow[f] = Idle
      /\ begun' = begun + 1 /\ begun < MaxRequests
  BY BeginStep DEF SettingsInv
<1>2. ValuesOK'
  BY <1>1, WorkspaceAssumption DEF SettingsInv, ValuesOK, settings, history
<1>3. StepsOK'
  <2>1. overtaken' \subseteq { g \in Flows : Busy(g)' }
    BY <1>1 DEF SettingsInv, StepsOK, Still, Busy
  <2> QED BY <1>1, <2>1, StepsKept DEF SettingsInv, ValuesOK, settings
<1>4. RegistrationInv'
  BY <1>1, RegistrationKept DEF SettingsInv, settings, Registering
<1>5. AddressInv'
  BY AddressKept DEF SettingsInv, history
<1>6. SeesInv'
  BY <1>1, SeesKept DEF SettingsInv, settings
<1>7. WantedInv'
  <2>1. WantedMenu'
    BY <1>1, MenuKept DEF SettingsInv, WantedInv, settings, history, Idle
  <2> QED BY <2>1, RulesKept, SecretKept DEF SettingsInv, WantedInv, settings, history
<1> QED BY <1>2, <1>3, <1>4, <1>5, <1>6, <1>7 DEF SettingsInv

-----------------------------------------------------------------------------
(* Workspace: each action keeps the invariant *)

LEMMA BeginsKeep ==
  ASSUME SettingsInv, NEW f \in Flows,
         \/ RegisterBegin(f)
         \/ \E who \in Owners : ClaimBegin(f, who)
         \/ \E rules \in Rules : RulesBegin(f, rules)
         \/ \E typed \in Secrets \cup {Nothing} : SecretBegin(f, typed)
         \/ \E decision \in Decisions : DecideBegin(f, decision)
  PROVE  SettingsInv'
<1> USE DEF Stages, Whats, Reads, StepType, Carries, StillSees
<1>0. StepsOK /\ Nothing \in Whats /\ Nothing \in Reads
  BY DEF SettingsInv
<1>1. CASE RegisterBegin(f)
  <2>1. /\ Begin(f, "tenant", Nothing, Nothing)
        /\ UNCHANGED <<made, holder, settings, overtaken, history>>
    BY <1>1 DEF RegisterBegin
  <2>2. flow'[f].at = "tenant"
    BY <1>0, <2>1, BeginStep
  <2> QED BY <1>0, <2>1, <2>2, BeginKeeps
<1>2. CASE \E who \in Owners : ClaimBegin(f, who)
  <2>1. PICK who \in Owners : ClaimBegin(f, who)
    BY <1>2
  <2>2. /\ Begin(f, "claim", who, Nothing)
        /\ UNCHANGED <<made, holder, settings, overtaken, history>>
        /\ who = "ours" => "admin" \in made
    BY <2>1 DEF ClaimBegin, MayClaim, Administered
  <2>3. flow'[f].at = "claim" /\ flow'[f].what = who
    BY <1>0, <2>2, BeginStep
  <2> QED BY <1>0, <2>2, <2>3, BeginKeeps
<1>3. CASE \E rules \in Rules : RulesBegin(f, rules)
  <2>1. PICK rules \in Rules : RulesBegin(f, rules)
    BY <1>3
  <2>2. PICK row \in IF Rows = {} THEN {0} ELSE Rows : Begin(f, "rules", rules, row)
    BY <2>1 DEF RulesBegin
  <2>3. /\ UNCHANGED <<made, holder, settings, overtaken, history>>
        /\ "admin" \in made
    BY <2>1 DEF RulesBegin, Administered
  <2>4. /\ row \in 0..Len(policies) /\ row \in Nat
        /\ IF row = 0 THEN Rows = {} ELSE row \in Rows
    BY DEF SettingsInv, ValuesOK, Rows
  <2>5. flow'[f].at = "rules" /\ flow'[f].what = rules /\ flow'[f].read = row
    BY <1>0, <2>2, <2>4, BeginStep
  <2>6. StillSees(f)'
    BY <2>3, <2>4, <2>5 DEF Rows, settings
  <2> QED BY <1>0, <2>2, <2>3, <2>4, <2>5, <2>6, BeginKeeps
<1>4. CASE \E typed \in Secrets \cup {Nothing} : SecretBegin(f, typed)
  <2>1. PICK typed \in Secrets \cup {Nothing} : SecretBegin(f, typed)
    BY <1>4
  <2>2. /\ Begin(f, "secret", typed, flag)
        /\ UNCHANGED <<made, holder, settings, overtaken, history>>
    BY <2>1 DEF SecretBegin
  <2>3. flag \in FlagType /\ (~flag.stored => flag.secret = Nothing)
    BY DEF SettingsInv, ValuesOK
  <2>4. flow'[f].at = "secret" /\ flow'[f].what = typed /\ flow'[f].read = flag
    BY <1>0, <2>2, <2>3, BeginStep
  <2>5. StillSees(f)'
    BY <2>2, <2>4 DEF settings
  <2> QED BY <1>0, <2>2, <2>3, <2>4, <2>5, BeginKeeps
<1>5. CASE \E decision \in Decisions : DecideBegin(f, decision)
  <2>1. PICK decision \in Decisions : DecideBegin(f, decision)
    BY <1>5
  <2>2. /\ Begin(f, "decide", decision, Nothing) /\ task = "PENDING"
        /\ UNCHANGED <<made, holder, settings, overtaken, history>>
    BY <2>1 DEF DecideBegin
  <2>3. flow'[f].at = "decide" /\ flow'[f].what = decision
    BY <1>0, <2>2, BeginStep
  <2>4. StillSees(f)'
    BY <2>2, <2>3 DEF settings
  <2> QED BY <1>0, <2>2, <2>3, <2>4, BeginKeeps
<1> QED BY <1>1, <1>2, <1>3, <1>4, <1>5

LEMMA RegisterKeeps ==
  ASSUME SettingsInv, NEW f \in Flows,
         RegisterTenant(f) \/ RegisterBranding(f) \/ RegisterAdmin(f)
  PROVE  SettingsInv'
<1>0. PICK stage \in {"branding", "admin", "baseline"} :
         /\ Goto(f, stage)
         /\ UNCHANGED <<settings, begun, overtaken, history>>
  BY DEF RegisterTenant, RegisterBranding, RegisterAdmin
<1>1. /\ flow' \in [Flows -> StepType] /\ flow'[f].at = stage /\ Still(f)
      /\ StepsOK
  BY <1>0, GotoStep DEF SettingsInv, Stages
<1>2. flow[f].at \in {"tenant", "branding", "admin"} /\ holder' \in {holder, "ours"}
  BY DEF RegisterTenant, RegisterBranding, RegisterAdmin
<1>3. ValuesOK'
  BY <1>0, <1>2 DEF SettingsInv, ValuesOK, settings, history, Holders
<1>4. StepsOK'
  <2>1. overtaken' \subseteq { g \in Flows : Busy(g)' }
    BY <1>0, <1>1 DEF StepsOK, Still, Busy, Idle
  <2>2. Carries(flow'[f], policies')
    BY <1>1 DEF Carries
  <2> QED BY <1>0, <1>1, <2>1, <2>2, StepsKept DEF SettingsInv, ValuesOK, settings
<1>5. RegistrationInv'
  <2>1. RegistrationInv /\ \A g \in Flows \ {f} : flow'[g] = flow[g]
    BY <1>1 DEF SettingsInv, Still
  <2>2. CASE RegisterTenant(f)
    <3>1. stage = "branding" /\ "tenant" \notin made /\ made' = made \cup {"tenant"}
      BY <1>1, <2>2, GotoStep DEF RegisterTenant, Stages
    <3>2. \A g \in Flows : ~Registering(g)
      BY <2>1, <3>1 DEF RegistrationInv, Registering
    <3> QED BY <1>0, <1>1, <2>1, <3>1, <3>2 DEF RegistrationInv, Registering, settings
  <2>3. CASE RegisterBranding(f)
    <3>1. stage = "admin" /\ made' = made \cup {"branding"} /\ flow[f].at = "branding"
      BY <1>1, <2>3, GotoStep DEF RegisterBranding, Stages
    <3>2. \A g \in Flows \ {f} : ~Registering(g)
      BY <2>1, <3>1 DEF RegistrationInv, Registering
    <3> QED BY <1>0, <1>1, <2>1, <3>1, <3>2 DEF RegistrationInv, Registering, settings
  <2>4. CASE RegisterAdmin(f)
    <3>1. stage = "baseline" /\ made' = made \cup {"admin"} /\ flow[f].at = "admin"
      BY <1>1, <2>4, GotoStep DEF RegisterAdmin, Stages
    <3>2. \A g \in Flows \ {f} : ~Registering(g)
      BY <2>1, <3>1 DEF RegistrationInv, Registering
    <3> QED BY <1>0, <1>1, <2>1, <3>1, <3>2 DEF RegistrationInv, Registering, settings
  <2> QED BY <2>2, <2>3, <2>4
<1>6. AddressInv'
  BY <1>0 DEF SettingsInv, RegistrationInv, AddressInv, history,
              RegisterTenant, RegisterBranding, RegisterAdmin
<1>7. SeesInv'
  <2>1. StillSees(f)'
    BY <1>0, <1>1
       DEF StillSees, settings, SettingsInv, RegistrationInv,
           RegisterTenant, RegisterBranding, RegisterAdmin, Goto
  <2> QED BY <1>0, <1>1, <2>1, SeesKept DEF SettingsInv, settings
<1>8. WantedInv'
  <2>1. WantedMenu'
    BY <1>0, <1>1, <1>2, MenuKept DEF SettingsInv, WantedInv, settings, history
  <2> QED BY <1>0, <2>1, RulesKept, SecretKept DEF SettingsInv, WantedInv, settings, history
<1> QED BY <1>3, <1>4, <1>5, <1>6, <1>7, <1>8 DEF SettingsInv

(* The only row is the first. *)
LEMMA OnlyRow ==
  ASSUME NEW i \in Nat, Rows = {i}
  PROVE  OneRow /\ RulesInForce = policies[i].rules
<1>1. OneRow
  BY DEF OneRow
<1>2. (CHOOSE k \in Rows : \A j \in Rows : k <= j) = i
  OBVIOUS
<1>3. RulesInForce = policies[i].rules
  BY <1>2 DEF RulesInForce
<1> QED BY <1>1, <1>3

(* At most one row is none, or some row that is the only one. *)
LEMMA FewRows ==
  ASSUME policies \in Seq(PolicyType)
  PROVE  /\ Cardinality(Rows) <= 1 => OneRow
         /\ OneRow => Rows = {} \/ \E i \in DOMAIN policies : Rows = {i}
<1>1. IsFiniteSet(Rows)
  <2>1. DOMAIN policies = 1..Len(policies) /\ Len(policies) \in Nat
    OBVIOUS
  <2>2. IsFiniteSet(1..Len(policies))
    BY <2>1, FS_Interval
  <2>3. Rows \subseteq 1..Len(policies)
    BY <2>1 DEF Rows
  <2> QED BY <2>2, <2>3, FS_Subset
<1>2. ASSUME Cardinality(Rows) <= 1, NEW i \in Rows, NEW j \in Rows, i # j
      PROVE  FALSE
  <2>1. {i, j} \subseteq Rows
    OBVIOUS
  <2>2. Cardinality({i, j}) = 2 /\ Cardinality({i, j}) <= Cardinality(Rows)
    <3>1. IsFiniteSet({i}) /\ Cardinality({i}) = 1
      BY FS_Singleton
    <3>2. j \notin {i} /\ {i} \cup {j} = {i, j}
      BY <1>2
    <3>3. Cardinality({i} \cup {j}) = Cardinality({i}) + 1
      BY <3>1, <3>2, FS_AddElement
    <3>4. Cardinality({i, j}) <= Cardinality(Rows)
      BY <1>1, <2>1, FS_Subset
    <3> QED BY <3>1, <3>2, <3>3, <3>4
  <2>3. Cardinality(Rows) \in Nat
    BY <1>1, FS_CardinalityType
  <2> QED BY <1>2, <2>2, <2>3
<1>3. OneRow => Rows = {} \/ \E i \in DOMAIN policies : Rows = {i}
  BY DEF OneRow, Rows
<1> QED BY <1>2, <1>3 DEF OneRow

(* One more row, where there was none *)
LEMMA FirstRow ==
  ASSUME policies \in Seq(PolicyType), NEW rules \in Rules, Rows = {},
         policies' = Append(policies, [present |-> TRUE, rules |-> rules])
  PROVE  OneRow' /\ RulesInForce' = rules
<1> DEFINE row == [present |-> TRUE, rules |-> rules]
           n == Len(policies) + 1
<1>1. /\ DOMAIN policies' = DOMAIN policies \cup {n} /\ policies'[n] = row
      /\ \A i \in DOMAIN policies : policies'[i] = policies[i]
      /\ n \in Nat
  OBVIOUS
<1>2. row.present /\ row.rules = rules
  OBVIOUS
<1> HIDE DEF row, n
<1>3. Rows' = {n}
  BY <1>1, <1>2 DEF Rows
<1>4. (CHOOSE k \in Rows' : \A j \in Rows' : k <= j) = n
  BY <1>1, <1>3
<1> QED BY <1>1, <1>2, <1>3, <1>4 DEF OneRow, RulesInForce

LEMMA BaselineKeeps ==
  ASSUME SettingsInv, NEW f \in Flows, RegisterBaseline(f)
  PROVE  SettingsInv'
<1> DEFINE row == [present |-> TRUE, rules |-> Baseline]
<1>0. ValuesOK /\ StepsOK /\ RegistrationInv /\ SeesInv /\ WantedInv
  BY DEF SettingsInv
<1>1. /\ flow' \in [Flows -> StepType] /\ flow'[f] = Idle /\ flow'[f].at = "idle" /\ Still(f)
  BY <1>0, FinishStep DEF RegisterBaseline
<1>2. /\ flow[f].at = "baseline" /\ row \in PolicyType
      /\ policies' = Append(policies, row)
      /\ policies' \in Seq(PolicyType) /\ Len(policies') = Len(policies) + 1
      /\ Len(policies') <= MaxRows /\ Len(policies) \in Nat
      /\ UNCHANGED <<made, holder, hidden, flag, task, begun, left>>
  BY <1>0, WorkspaceAssumption DEF RegisterBaseline, ValuesOK, PolicyType
<1>3. /\ overtaken' \subseteq { g \in Flows : Busy(g)' } /\ f \notin overtaken'
      /\ \A g \in Flows \ {f} :
           g \notin overtaken' => g \notin overtaken /\ flow[g].at # "rules"
  BY <1>0, <1>1, OvertakeStep DEF RegisterBaseline, Busy
<1>4. /\ wanted' = [wanted EXCEPT !["rules"] = Baseline]
      /\ clashed' = IF f \in overtaken THEN clashed \cup {"rules"} ELSE clashed \ {"rules"}
  BY DEF RegisterBaseline, Saved
<1>5. /\ wanted'.rules = Baseline /\ wanted'.menu = wanted.menu
      /\ wanted'.secret = wanted.secret
  BY <1>0, <1>4 DEF ValuesOK
<1>6. ValuesOK'
  BY <1>0, <1>2, <1>4, WorkspaceAssumption DEF ValuesOK, Subjects
<1>7. StepsOK'
  <2>1. Carries(flow'[f], policies')
    BY <1>1, IdleStep
  <2> HIDE DEF row
  <2> QED BY <1>0, <1>1, <1>2, <1>3, <2>1, StepsKept DEF ValuesOK
<1>8. RegistrationInv'
  <2>1. "admin" \in made
    BY <1>0, <1>2 DEF RegistrationInv
  <2> QED BY <1>0, <1>1, <1>2, <2>1, RegistrationKept DEF Registering
<1>9. AddressInv'
  BY <1>2, AddressKept DEF SettingsInv
<1>10. SeesInv'
  <2>1. \A g \in Flows \ {f} : flow[g].at # "baseline"
    BY <1>0, <1>2 DEF RegistrationInv, Registering
  <2>2. StillSees(f)'
    BY <1>1 DEF StillSees
  <2> QED BY <1>0, <1>1, <1>2, <1>3, <2>1, <2>2, SeesKept
<1>11. WantedInv'
  <2>1. WantedRules'
    <3>1. CASE f \in overtaken
      BY <1>4, <3>1 DEF WantedRules
    <3>2. CASE f \notin overtaken
      <4>1. policies = <<>>
        BY <1>0, <1>2, <3>2 DEF SeesInv, StillSees
      <4>2. Rows = {}
        BY <4>1 DEF Rows
      <4> QED BY <1>0, <1>2, <1>5, <4>2, FirstRow, WorkspaceAssumption
              DEF WantedRules, ValuesOK
    <3> QED BY <3>1, <3>2
  <2>2. WantedMenu'
    BY <1>0, <1>1, <1>2, <1>4, <1>5, MenuKept DEF WantedInv
  <2>3. WantedSecret'
    BY <1>0, <1>2, <1>4, <1>5, SecretKept DEF WantedInv
  <2> QED BY <2>1, <2>2, <2>3 DEF WantedInv
<1> QED BY <1>6, <1>7, <1>8, <1>9, <1>10, <1>11 DEF SettingsInv

LEMMA ClaimKeeps ==
  ASSUME SettingsInv, NEW f \in Flows, ClaimWrite(f)
  PROVE  SettingsInv'
<1>0. ValuesOK /\ StepsOK /\ RegistrationInv /\ AddressInv /\ SeesInv /\ WantedInv
  BY DEF SettingsInv
<1>1. /\ flow' \in [Flows -> StepType] /\ flow'[f] = Idle /\ flow'[f].at = "idle" /\ Still(f)
  BY <1>0, FinishStep DEF ClaimWrite
<1>2. /\ flow[f].at = "claim" /\ flow[f].what \in Owners /\ holder' = flow[f].what
      /\ overtaken' = overtaken \ {f}
      /\ UNCHANGED <<made, settings, begun, history>>
  BY <1>0 DEF ClaimWrite, StepsOK, Carries
<1>3. ValuesOK'
  BY <1>0, <1>2 DEF ValuesOK, settings, history, Owners, Holders
<1>4. StepsOK'
  <2>1. overtaken' \subseteq { g \in Flows : Busy(g)' }
    BY <1>0, <1>1, <1>2 DEF StepsOK, Still, Busy
  <2> QED BY <1>0, <1>1, <1>2, <2>1, StepsKept, IdleStep DEF ValuesOK, settings
<1>5. RegistrationInv'
  BY <1>0, <1>1, <1>2, RegistrationKept DEF settings, Registering
<1>6. AddressInv'
  BY <1>0, <1>2 DEF ClaimWrite, AddressInv, RegistrationInv, history, Owners
<1>7. SeesInv'
  <2>1. StillSees(f)'
    BY <1>1 DEF StillSees
  <2> QED BY <1>0, <1>1, <1>2, <2>1, SeesKept DEF settings
<1>8. WantedInv'
  <2>1. WantedMenu'
    BY <1>0, <1>1, <1>2, MenuKept DEF WantedInv, settings, history
  <2> QED BY <1>0, <1>2, <2>1, RulesKept, SecretKept DEF WantedInv, settings, history
<1> QED BY <1>3, <1>4, <1>5, <1>6, <1>7, <1>8 DEF SettingsInv

LEMMA ReleaseKeeps ==
  ASSUME SettingsInv, NEW who \in Owners, Release(who)
  PROVE  SettingsInv'
<1>1. /\ UNCHANGED <<made, settings, flow, begun, overtaken, wanted, clashed>>
      /\ holder = who /\ holder' = "nobody" /\ left' = (left \/ who = "ours")
  BY DEF Release
<1>2. ValuesOK' /\ StepsOK'
  BY <1>1 DEF SettingsInv, ValuesOK, StepsOK, settings, Busy, Holders
<1>3. RegistrationInv' /\ AddressInv'
  BY <1>1 DEF SettingsInv, RegistrationInv, AddressInv, settings, Registering
<1>4. SeesInv'
  BY <1>1 DEF SettingsInv, SeesInv, StillSees, settings, Rows
<1>5. WantedInv'
  BY <1>1
     DEF SettingsInv, WantedInv, WantedRules, WantedMenu, WantedSecret, OneRow, RulesInForce,
         settings, Rows
<1> QED BY <1>2, <1>3, <1>4, <1>5 DEF SettingsInv

(* The rules of one row, where it is the only one *)
LEMMA EditedRow ==
  ASSUME policies \in Seq(PolicyType), NEW row \in Rows, NEW rules \in Rules,
         policies' = [policies EXCEPT ![row].rules = rules]
  PROVE  /\ policies' \in Seq(PolicyType) /\ Len(policies') = Len(policies)
         /\ Rows' = Rows
         /\ policies'[row].rules = rules
<1> DEFINE new == [policies[row] EXCEPT !.rules = rules]
<1>1. row \in DOMAIN policies /\ policies[row] \in PolicyType /\ policies[row].present
  BY DEF Rows
<1>2. new \in PolicyType /\ new.rules = rules /\ new.present
  BY <1>1 DEF PolicyType
<1>3. policies' = [policies EXCEPT ![row] = new]
  OBVIOUS
<1> HIDE DEF new
<1>4. /\ policies' \in Seq(PolicyType) /\ Len(policies') = Len(policies)
      /\ DOMAIN policies' = DOMAIN policies /\ policies'[row] = new
      /\ \A i \in DOMAIN policies \ {row} : policies'[i] = policies[i]
  BY <1>1, <1>2, <1>3
<1>5. Rows' = Rows
  BY <1>1, <1>2, <1>4 DEF Rows
<1> QED BY <1>2, <1>4, <1>5

LEMMA RulesWriteKeeps ==
  ASSUME SettingsInv, NEW f \in Flows, RulesWrite(f)
  PROVE  SettingsInv'
<1> DEFINE row == flow[f].read
           rules == flow[f].what
           new == [present |-> TRUE, rules |-> rules]
<1>0. ValuesOK /\ StepsOK /\ RegistrationInv /\ SeesInv /\ WantedInv
  BY DEF SettingsInv
<1>1. /\ flow' \in [Flows -> StepType] /\ flow'[f] = Idle /\ flow'[f].at = "idle" /\ Still(f)
  BY <1>0, FinishStep DEF RulesWrite
<1>2. /\ flow[f].at = "rules" /\ rules \in Rules /\ row \in 0..Len(policies)
      /\ UNCHANGED <<made, holder, hidden, flag, task, begun, left>>
  BY <1>0 DEF RulesWrite, StepsOK, Carries
<1>3. /\ overtaken' \subseteq { g \in Flows : Busy(g)' } /\ f \notin overtaken'
      /\ \A g \in Flows \ {f} :
           g \notin overtaken' => g \notin overtaken /\ flow[g].at \notin {"rules", "baseline"}
  BY <1>0, <1>1, OvertakeStep DEF RulesWrite, Busy
<1>4. /\ wanted' = [wanted EXCEPT !["rules"] = rules]
      /\ clashed' = IF f \in overtaken THEN clashed \cup {"rules"}
                    ELSE IF Cardinality(Rows) <= 1 THEN clashed \ {"rules"} ELSE clashed
  BY DEF RulesWrite, Saved
<1>5. /\ wanted'.rules = rules /\ wanted'.menu = wanted.menu
      /\ wanted'.secret = wanted.secret
  BY <1>0, <1>4 DEF ValuesOK
<1>6. \/ /\ row = 0 /\ policies' = Append(policies, new)
         /\ Len(policies) < MaxRows
      \/ /\ row # 0 /\ row \in Rows
         /\ policies' = [policies EXCEPT ![row].rules = rules]
  BY <1>0, <1>2 DEF RulesWrite, Rows, ValuesOK
<1>7. /\ policies' \in Seq(PolicyType) /\ Len(policies) <= Len(policies')
      /\ Len(policies') <= MaxRows
  <2>1. new \in PolicyType /\ policies \in Seq(PolicyType) /\ Len(policies) <= MaxRows
    BY <1>0, <1>2 DEF PolicyType, ValuesOK
  <2>2. CASE policies' = Append(policies, new) /\ Len(policies) < MaxRows
    <3> HIDE DEF new
    <3>1. policies' \in Seq(PolicyType) /\ Len(policies') = Len(policies) + 1
      BY <2>1, <2>2
    <3> QED BY <2>1, <2>2, <3>1, WorkspaceAssumption
  <2>3. CASE row \in Rows /\ policies' = [policies EXCEPT ![row].rules = rules]
    <3>1. policies' \in Seq(PolicyType) /\ Len(policies') = Len(policies)
      BY <1>2, <2>1, <2>3, EditedRow
    <3>2. Len(policies) \in Nat
      BY <2>1
    <3> QED BY <2>1, <3>1, <3>2
  <2> QED BY <1>6, <2>2, <2>3
<1>8. ValuesOK'
  BY <1>0, <1>2, <1>4, <1>7 DEF ValuesOK, Subjects
<1>9. StepsOK'
  <2>1. Carries(flow'[f], policies')
    BY <1>1, IdleStep
  <2> QED BY <1>0, <1>1, <1>2, <1>3, <1>7, <2>1, StepsKept DEF ValuesOK
<1>10. RegistrationInv'
  <2>1. "admin" \in made
    BY <1>0, <1>2 DEF RegistrationInv
  <2> QED BY <1>0, <1>1, <1>2, <2>1, RegistrationKept DEF Registering
<1>11. AddressInv'
  BY <1>2, AddressKept DEF SettingsInv
<1>12. SeesInv'
  <2>1. StillSees(f)'
    BY <1>1 DEF StillSees
  <2> QED BY <1>0, <1>1, <1>2, <1>3, <2>1, SeesKept
<1>13. WantedRules'
  <2>1. CASE f \in overtaken
    BY <1>4, <2>1 DEF WantedRules
  <2>2. CASE f \notin overtaken /\ row = 0
    <3>1. Rows = {}
      BY <1>0, <1>2, <2>2 DEF SeesInv, StillSees
    <3>2. policies' = Append(policies, new)
      BY <1>6, <2>2
    <3>3. OneRow' /\ RulesInForce' = rules
      BY <1>0, <1>2, <3>1, <3>2, FirstRow DEF ValuesOK
    <3> QED BY <1>5, <3>3 DEF WantedRules
  <2>3. CASE f \notin overtaken /\ row # 0 /\ "rules" \notin clashed'
    <3>1. row \in Rows /\ Rows' = Rows /\ policies'[row].rules = rules
      BY <1>0, <1>2, <1>6, <2>3, EditedRow DEF ValuesOK
    <3>2. OneRow
      BY <1>0, <1>4, <2>3, FewRows DEF WantedInv, WantedRules, ValuesOK
    <3>3. Rows' = {row} /\ row \in Nat
      BY <1>2, <3>1, <3>2 DEF OneRow
    <3>4. (CHOOSE k \in Rows' : \A j \in Rows' : k <= j) = row
      BY <3>3
    <3> QED BY <1>5, <3>1, <3>3, <3>4 DEF WantedRules, OneRow, RulesInForce
  <2> QED BY <2>1, <2>2, <2>3 DEF WantedRules
<1>14. WantedMenu'
  BY <1>0, <1>1, <1>2, <1>4, <1>5, MenuKept DEF WantedInv
<1>15. WantedSecret'
  BY <1>0, <1>2, <1>4, <1>5, SecretKept DEF WantedInv
<1> QED BY <1>8, <1>9, <1>10, <1>11, <1>12, <1>13, <1>14, <1>15 DEF SettingsInv, WantedInv

LEMMA RulesRemoveKeeps ==
  ASSUME SettingsInv, NEW row \in Rows, RulesRemove(row)
  PROVE  SettingsInv'
<1> DEFINE new == [policies[row] EXCEPT !.present = FALSE]
<1>0. ValuesOK /\ StepsOK /\ RegistrationInv /\ SeesInv /\ WantedInv
  BY DEF SettingsInv
<1>1. /\ "admin" \in made /\ begun < MaxRequests /\ begun' = begun + 1
      /\ overtaken' = overtaken \cup { f \in Flows : flow[f].at \in {"rules", "baseline"} }
      /\ wanted' = [wanted EXCEPT !.rules = Nothing]
      /\ clashed' = IF Rows = {row} THEN clashed \ {"rules"} ELSE clashed
      /\ UNCHANGED <<made, holder, hidden, flag, task, flow, left>>
  BY DEF RulesRemove, Administered
<1>2. row \in DOMAIN policies /\ policies[row] \in PolicyType
  BY <1>0 DEF Rows, ValuesOK
<1>3. new \in PolicyType /\ ~new.present
  BY <1>2 DEF PolicyType
<1>4. policies' = [policies EXCEPT ![row] = new] /\ policies \in Seq(PolicyType)
  BY <1>0 DEF RulesRemove, ValuesOK
<1> HIDE DEF new
<1>5. /\ policies' \in Seq(PolicyType) /\ Len(policies') = Len(policies)
      /\ DOMAIN policies' = DOMAIN policies /\ policies'[row] = new
      /\ \A i \in DOMAIN policies \ {row} : policies'[i] = policies[i]
  BY <1>2, <1>3, <1>4
<1>6. Rows' = Rows \ {row}
  BY <1>3, <1>5 DEF Rows
<1>7. ValuesOK'
  BY <1>0, <1>1, <1>5, WorkspaceAssumption DEF ValuesOK, Subjects
<1>8. StepsOK'
  BY <1>0, <1>1, <1>5 DEF StepsOK, Carries, Busy, Idle
<1>9. RegistrationInv' /\ AddressInv'
  BY <1>1 DEF SettingsInv, RegistrationInv, AddressInv, Registering
<1>10. SeesInv'
  BY <1>0, <1>1 DEF SeesInv, StillSees
<1>11. WantedInv'
  <2>1. /\ wanted'.rules = Nothing /\ wanted'.menu = wanted.menu
        /\ wanted'.secret = wanted.secret
    BY <1>0, <1>1 DEF ValuesOK
  <2>2. WantedRules'
    <3>1. CASE Rows = {row}
      <4>1. Rows' = {}
        BY <1>6, <3>1
      <4> QED BY <2>1, <4>1 DEF WantedRules, OneRow, RulesInForce
    <3>2. CASE Rows # {row}
      <4>1. "rules" \in clashed
        BY <1>0, <3>2 DEF WantedInv, WantedRules, OneRow
      <4> QED BY <1>1, <3>2, <4>1 DEF WantedRules
    <3> QED BY <3>1, <3>2
  <2>3. WantedMenu' /\ WantedSecret'
    BY <1>0, <1>1, <2>1 DEF WantedInv, WantedMenu, WantedSecret
  <2> QED BY <2>2, <2>3 DEF WantedInv
<1> QED BY <1>7, <1>8, <1>9, <1>10, <1>11 DEF SettingsInv

LEMMA MenuClearKeeps ==
  ASSUME SettingsInv, NEW f \in Flows, NEW items \in SUBSET MenuItems, MenuClear(f, items)
  PROVE  SettingsInv'
<1>0. ValuesOK /\ StepsOK /\ RegistrationInv /\ SeesInv /\ WantedInv
  BY DEF SettingsInv
<1>1. /\ flow' \in [Flows -> StepType] /\ flow'[f].at = "menu" /\ flow'[f].what = items
      /\ Still(f) /\ f \notin overtaken /\ flow[f] = Idle
      /\ begun' = begun + 1 /\ begun < MaxRequests
  <2>1. [at |-> "menu", what |-> items, read |-> Nothing] \in StepType
    BY DEF StepType, Stages, Whats, Reads
  <2>2. "menu" \in Stages /\ Begin(f, "menu", items, Nothing)
    BY DEF MenuClear, Stages
  <2> QED BY <1>0, <2>1, <2>2, BeginStep
<1>2. hidden' = {} /\ UNCHANGED <<made, holder, policies, flag, task, history>>
  BY DEF MenuClear
<1>3. /\ overtaken' \subseteq { g \in Flows : Busy(g)' } /\ f \notin overtaken'
      /\ \A g \in Flows \ {f} :
           g \notin overtaken' => g \notin overtaken /\ flow[g].at # "menu"
  BY <1>0, <1>1, OvertakeStep DEF MenuClear
<1>4. ValuesOK'
  BY <1>0, <1>1, <1>2, WorkspaceAssumption DEF ValuesOK, history
<1>5. StepsOK'
  <2>1. Carries(flow'[f], policies')
    BY <1>1 DEF Carries
  <2> QED BY <1>0, <1>1, <1>2, <1>3, <2>1, StepsKept DEF ValuesOK
<1>6. RegistrationInv'
  BY <1>0, <1>1, <1>2, RegistrationKept DEF Registering
<1>7. AddressInv'
  BY <1>2, AddressKept DEF SettingsInv, history
<1>8. SeesInv'
  <2>1. StillSees(f)'
    BY <1>1, <1>2 DEF StillSees
  <2> QED BY <1>0, <1>1, <1>2, <1>3, <2>1, SeesKept
<1>9. WantedInv'
  <2>1. WantedMenu'
    BY <1>1 DEF WantedMenu
  <2> QED BY <1>0, <1>2, <2>1, RulesKept, SecretKept DEF WantedInv, history
<1> QED BY <1>4, <1>5, <1>6, <1>7, <1>8, <1>9 DEF SettingsInv

LEMMA MenuFillKeeps ==
  ASSUME SettingsInv, NEW f \in Flows, MenuFill(f)
  PROVE  SettingsInv'
<1> DEFINE items == flow[f].what
<1>0. ValuesOK /\ StepsOK /\ RegistrationInv /\ SeesInv /\ WantedInv
  BY DEF SettingsInv
<1>1. /\ flow' \in [Flows -> StepType] /\ flow'[f] = Idle /\ flow'[f].at = "idle" /\ Still(f)
  BY <1>0, FinishStep DEF MenuFill
<1>2. /\ flow[f].at = "menu" /\ items \in SUBSET MenuItems /\ hidden' = hidden \cup items
      /\ UNCHANGED <<made, holder, policies, flag, task, begun, left>>
  BY <1>0 DEF MenuFill, StepsOK, Carries
<1>3. /\ overtaken' \subseteq { g \in Flows : Busy(g)' } /\ f \notin overtaken'
      /\ \A g \in Flows \ {f} :
           g \notin overtaken' => g \notin overtaken /\ flow[g].at # "menu"
  BY <1>0, <1>1, OvertakeStep DEF MenuFill, Busy
<1>4. /\ wanted' = [wanted EXCEPT !["menu"] = items]
      /\ clashed' = IF f \in overtaken THEN clashed \cup {"menu"} ELSE clashed \ {"menu"}
  BY DEF MenuFill, Saved
<1>5. wanted'.menu = items /\ wanted'.rules = wanted.rules /\ wanted'.secret = wanted.secret
  BY <1>0, <1>4 DEF ValuesOK
<1>6. ValuesOK'
  BY <1>0, <1>2, <1>4 DEF ValuesOK, Subjects
<1>7. StepsOK'
  <2>1. Carries(flow'[f], policies')
    BY <1>1, IdleStep
  <2> QED BY <1>0, <1>1, <1>2, <1>3, <2>1, StepsKept DEF ValuesOK
<1>8. RegistrationInv'
  BY <1>0, <1>1, <1>2, RegistrationKept DEF Registering
<1>9. AddressInv'
  BY <1>2, AddressKept DEF SettingsInv
<1>10. SeesInv'
  <2>1. StillSees(f)'
    BY <1>1 DEF StillSees
  <2> QED BY <1>0, <1>1, <1>2, <1>3, <2>1, SeesKept
<1>11. WantedInv'
  <2>1. WantedMenu'
    <3>1. CASE f \in overtaken
      BY <1>4, <3>1 DEF WantedMenu
    <3>2. CASE f \notin overtaken
      <4>1. hidden = {}
        BY <1>0, <1>2, <3>2 DEF SeesInv, StillSees
      <4> QED BY <1>2, <1>5, <4>1 DEF WantedMenu
    <3> QED BY <3>1, <3>2
  <2> QED BY <1>0, <1>2, <1>4, <1>5, <2>1, RulesKept, SecretKept DEF WantedInv
<1> QED BY <1>6, <1>7, <1>8, <1>9, <1>10, <1>11 DEF SettingsInv

LEMMA SecretWriteKeeps ==
  ASSUME SettingsInv, NEW f \in Flows, SecretWrite(f)
  PROVE  SettingsInv'
<1> DEFINE typed == flow[f].what
           read == flow[f].read
           wants == IF typed = Nothing THEN wanted.secret ELSE typed
<1>0. ValuesOK /\ StepsOK /\ RegistrationInv /\ SeesInv /\ WantedInv
  BY DEF SettingsInv
<1>1. /\ flow' \in [Flows -> StepType] /\ flow'[f] = Idle /\ flow'[f].at = "idle" /\ Still(f)
  BY <1>0, FinishStep DEF SecretWrite
<1>2. /\ flow[f].at = "secret" /\ typed \in Secrets \cup {Nothing} /\ read \in FlagType
      /\ flag' = [stored |-> TRUE, secret |-> NextSecret(typed, read.secret)]
      /\ UNCHANGED <<made, holder, policies, hidden, task, begun, left>>
  BY <1>0 DEF SecretWrite, StepsOK, Carries
<1>3. /\ overtaken' \subseteq { g \in Flows : Busy(g)' } /\ f \notin overtaken'
      /\ \A g \in Flows \ {f} :
           g \notin overtaken' => g \notin overtaken /\ flow[g].at # "secret"
  BY <1>0, <1>1, OvertakeStep DEF SecretWrite, Busy
<1>4. /\ wanted' = [wanted EXCEPT !["secret"] = wants]
      /\ clashed' = IF f \in overtaken THEN clashed \cup {"secret"}
                    ELSE IF typed # Nothing THEN clashed \ {"secret"} ELSE clashed
  BY DEF SecretWrite, Saved
<1>5. wanted'.secret = wants /\ wanted'.rules = wanted.rules /\ wanted'.menu = wanted.menu
  BY <1>0, <1>4 DEF ValuesOK
<1>6. ValuesOK'
  <2>1. flag' \in FlagType /\ flag'.stored
    BY <1>2 DEF FlagType, NextSecret
  <2>2. wants \in Secrets \cup {Nothing}
    BY <1>0, <1>2 DEF ValuesOK
  <2> HIDE DEF wants
  <2> QED BY <1>0, <1>2, <1>4, <2>1, <2>2 DEF ValuesOK, Subjects
<1>7. StepsOK'
  <2>1. Carries(flow'[f], policies')
    BY <1>1, IdleStep
  <2> QED BY <1>0, <1>1, <1>2, <1>3, <2>1, StepsKept DEF ValuesOK
<1>8. RegistrationInv'
  BY <1>0, <1>1, <1>2, RegistrationKept DEF Registering
<1>9. AddressInv'
  BY <1>2, AddressKept DEF SettingsInv
<1>10. SeesInv'
  <2>1. StillSees(f)'
    BY <1>1 DEF StillSees
  <2> QED BY <1>0, <1>1, <1>2, <1>3, <2>1, SeesKept
<1>11. WantedInv'
  <2>1. WantedSecret'
    <3>1. CASE f \in overtaken
      BY <1>4, <3>1 DEF WantedSecret
    <3>2. CASE f \notin overtaken
      <4>1. read = flag
        BY <1>0, <1>2, <3>2 DEF SeesInv, StillSees
      <4> QED BY <1>0, <1>2, <1>4, <1>5, <3>2, <4>1
              DEF WantedInv, WantedSecret, NextSecret
    <3> QED BY <3>1, <3>2
  <2>2. WantedMenu'
    BY <1>0, <1>1, <1>2, <1>4, <1>5, MenuKept DEF WantedInv
  <2> QED BY <1>0, <1>2, <1>4, <1>5, <2>1, <2>2, RulesKept DEF WantedInv
<1> QED BY <1>6, <1>7, <1>8, <1>9, <1>10, <1>11 DEF SettingsInv

LEMMA DecideWriteKeeps ==
  ASSUME SettingsInv, NEW f \in Flows, DecideWrite(f)
  PROVE  SettingsInv'
<1>0. ValuesOK /\ StepsOK /\ RegistrationInv /\ SeesInv /\ WantedInv
  BY DEF SettingsInv
<1>1. /\ flow' \in [Flows -> StepType] /\ flow'[f] = Idle /\ flow'[f].at = "idle" /\ Still(f)
  BY <1>0, FinishStep DEF DecideWrite
<1>2. /\ flow[f].at = "decide" /\ flow[f].what \in Decisions /\ task' = flow[f].what
      /\ UNCHANGED <<made, holder, policies, hidden, flag, begun, history>>
  BY <1>0 DEF DecideWrite, StepsOK, Carries
<1>3. /\ overtaken' \subseteq { g \in Flows : Busy(g)' } /\ f \notin overtaken'
      /\ \A g \in Flows \ {f} :
           g \notin overtaken' => g \notin overtaken /\ flow[g].at # "decide"
  BY <1>0, <1>1, OvertakeStep DEF DecideWrite, Busy
<1>4. ValuesOK'
  BY <1>0, <1>2 DEF ValuesOK, history
<1>5. StepsOK'
  <2>1. Carries(flow'[f], policies')
    BY <1>1, IdleStep
  <2> QED BY <1>0, <1>1, <1>2, <1>3, <2>1, StepsKept DEF ValuesOK
<1>6. RegistrationInv'
  BY <1>0, <1>1, <1>2, RegistrationKept DEF Registering
<1>7. AddressInv'
  BY <1>2, AddressKept DEF SettingsInv, history
<1>8. SeesInv'
  <2>1. StillSees(f)'
    BY <1>1 DEF StillSees
  <2> QED BY <1>0, <1>1, <1>2, <1>3, <2>1, SeesKept
<1>9. WantedInv'
  <2>1. WantedMenu'
    BY <1>0, <1>1, <1>2, MenuKept DEF WantedInv, history
  <2> QED BY <1>0, <1>2, <2>1, RulesKept, SecretKept DEF WantedInv, history
<1> QED BY <1>4, <1>5, <1>6, <1>7, <1>8, <1>9 DEF SettingsInv

LEMMA AbandonKeeps ==
  ASSUME SettingsInv, NEW f \in Flows, Abandon(f)
  PROVE  SettingsInv'
<1>0. ValuesOK /\ StepsOK /\ RegistrationInv /\ SeesInv /\ WantedInv
  BY DEF SettingsInv
<1>1. /\ flow' \in [Flows -> StepType] /\ flow'[f] = Idle /\ flow'[f].at = "idle" /\ Still(f)
  BY <1>0, FinishStep DEF Abandon
<1>2. /\ overtaken' = overtaken \ {f}
      /\ clashed' = IF flow[f].at = "menu" THEN clashed \cup {"menu"} ELSE clashed
      /\ UNCHANGED <<made, holder, settings, begun, wanted, left>>
  BY DEF Abandon
<1>3. ValuesOK'
  BY <1>0, <1>2 DEF ValuesOK, settings, Subjects
<1>4. StepsOK'
  <2>1. overtaken' \subseteq { g \in Flows : Busy(g)' }
    BY <1>0, <1>1, <1>2 DEF StepsOK, Still, Busy
  <2>2. Carries(flow'[f], policies')
    BY <1>1, IdleStep
  <2> QED BY <1>0, <1>1, <1>2, <2>1, <2>2, StepsKept DEF ValuesOK, settings
<1>5. RegistrationInv'
  BY <1>0, <1>1, <1>2, RegistrationKept DEF settings, Registering
<1>6. AddressInv'
  BY <1>2, AddressKept DEF SettingsInv
<1>7. SeesInv'
  <2>1. StillSees(f)'
    BY <1>1 DEF StillSees
  <2> QED BY <1>0, <1>1, <1>2, <2>1, SeesKept DEF settings
<1>8. WantedInv'
  <2>1. WantedMenu'
    <3>1. CASE flow[f].at = "menu"
      BY <1>2, <3>1 DEF WantedMenu
    <3>2. CASE flow[f].at # "menu"
      BY <1>0, <1>1, <1>2, <3>2, MenuKept DEF WantedInv, settings
    <3> QED BY <3>1, <3>2
  <2> QED BY <1>0, <1>2, <2>1, RulesKept, SecretKept DEF WantedInv, settings
<1> QED BY <1>3, <1>4, <1>5, <1>6, <1>7, <1>8 DEF SettingsInv

-----------------------------------------------------------------------------
(* Workspace: theorems *)

(* The invariant holds in every state of the registration and the settings. *)
THEOREM SettingsInvariant == Spec => []SettingsInv
<1>1. Init => SettingsInv
  <2> SUFFICES ASSUME Init PROVE SettingsInv
    OBVIOUS
  <2>1. /\ policies = <<>> /\ \A f \in Flows : flow[f] = Idle
    BY DEF Init
  <2>2. Rows = {}
    BY <2>1 DEF Rows
  <2>3. ValuesOK
    <3>1. policies \in Seq(PolicyType) /\ Len(policies) = 0
      BY <2>1
    <3>2. flag \in FlagType /\ flag.secret = Nothing
      BY DEF Init, FlagType
    <3>3. wanted \in [ rules : Rules \cup {Nothing}, menu : SUBSET MenuItems,
                       secret : Secrets \cup {Nothing} ]
      BY DEF Init
    <3>4. begun \in 0..MaxRequests /\ Len(policies) <= MaxRows
      BY <3>1, WorkspaceAssumption DEF Init
    <3> QED BY <3>1, <3>2, <3>3, <3>4 DEF Init, ValuesOK, Holders
  <2>4. StepsOK
    BY <2>1, IdleStep DEF Init, StepsOK
  <2>5. RegistrationInv /\ AddressInv
    BY <2>1 DEF Init, RegistrationInv, Registering, AddressInv, Idle
  <2>6. SeesInv
    BY <2>1, IdleStep DEF SeesInv, StillSees
  <2>7. WantedInv
    BY <2>2 DEF Init, WantedInv, WantedRules, WantedMenu, WantedSecret, OneRow, RulesInForce
  <2> QED BY <2>3, <2>4, <2>5, <2>6, <2>7 DEF SettingsInv
<1>2. SettingsInv /\ [Next]_vars => SettingsInv'
  <2> SUFFICES ASSUME SettingsInv, [Next]_vars PROVE SettingsInv'
    OBVIOUS
  <2>1. CASE Next
    BY <2>1, BeginsKeep, RegisterKeeps, BaselineKeeps, ClaimKeeps, ReleaseKeeps, RulesWriteKeeps,
       RulesRemoveKeeps, MenuClearKeeps, MenuFillKeeps, SecretWriteKeeps, DecideWriteKeeps,
       AbandonKeeps
       DEF Next, Owners
  <2>2. CASE UNCHANGED vars
    BY <2>2
       DEF vars, settings, history, SettingsInv, ValuesOK, StepsOK, Busy, RegistrationInv,
           Registering, AddressInv, SeesInv, StillSees, WantedInv, WantedRules, WantedMenu,
           WantedSecret, OneRow, RulesInForce, Rows
  <2> QED BY <2>1, <2>2
<1> QED BY <1>1, <1>2, PTL DEF Spec

(* Rows of a registration come in order and of one at a time, and the host  *)
(* of a workspace that got its branding leads to it until it gives it up.   *)
THEOREM WorkspaceSafe == Spec => []WorkspaceInv
<1>1. SettingsInv => WorkspaceInv
  <2> SUFFICES ASSUME SettingsInv PROVE WorkspaceInv
    OBVIOUS
  <2> DEFINE late == { f \in Flows : Registering(f) }
  <2>1. Cardinality(late) <= 1
    <3>1. CASE late = {}
      BY <3>1, FS_EmptySet
    <3>2. CASE late # {}
      <4>1. PICK f \in late : TRUE
        BY <3>2
      <4>2. late = {f}
        BY <4>1 DEF SettingsInv, RegistrationInv
      <4> QED BY <4>2, FS_Singleton
    <3> QED BY <3>1, <3>2
  <2>2. \A f \in Flows : flow[f].at \in Stages
    BY DEF SettingsInv, StepsOK, StepType
  <2>3. policies \in Seq([present : BOOLEAN, rules : Rules])
    BY DEF SettingsInv, ValuesOK, PolicyType
  <2>4. TypeOK
    BY <2>1, <2>2, <2>3
       DEF TypeOK, SettingsInv, ValuesOK, StepsOK, RegistrationInv, AddressInv, Registering,
           FlagType
  <2>5. AddressLostOnlyIfLeft
    BY DEF AddressLostOnlyIfLeft, SettingsInv, AddressInv
  <2> QED BY <2>4, <2>5 DEF WorkspaceInv
<1> QED BY <1>1, SettingsInvariant, PTL

(* The policy in force, the hidden menus and the secret stored are what the *)
(* last save wanted, though a save is several statements, unless saves of   *)
(* the same subject overlapped.                                             *)
THEOREM SettingsHold == Spec => []SettingsAsSaved
<1>1. SettingsInv => SettingsAsSaved
  BY DEF SettingsInv, WantedInv, WantedRules, WantedMenu, WantedSecret, SettingsAsSaved,
         RulesAsSaved, MenuAsSubmitted, SecretAsTyped
<1> QED BY <1>1, SettingsInvariant, PTL

(* A decision of an external task is changed only by one that was checked   *)
(* before it.                                                               *)
THEOREM ExternalDecisionHolds == Spec => ExternalDecisionStands
<1> DEFINE again == \E f \in overtaken : flow[f].at = "decide" /\ flow'[f] # flow[f]
<1>1. ASSUME SettingsInv, [Next]_vars, task # "PENDING", task' # task
      PROVE  again
  <2>1. PICK f \in Flows : DecideWrite(f)
    BY <1>1
       DEF Next, vars, settings, history, RegisterBegin, RegisterTenant, RegisterBranding,
           RegisterAdmin, RegisterBaseline, ClaimBegin, ClaimWrite, Release, RulesBegin,
           RulesWrite, RulesRemove, MenuClear, MenuFill, SecretBegin, SecretWrite, DecideBegin,
           Abandon
  <2>2. flow[f].at = "decide"
    BY <2>1 DEF DecideWrite
  <2>3. f \in overtaken
    BY <1>1, <2>2 DEF SettingsInv, SeesInv, StillSees
  <2>4. flow'[f] = Idle
    BY <1>1, <2>1, FinishStep DEF SettingsInv, DecideWrite
  <2> QED BY <2>2, <2>3, <2>4, IdleStep
<1>2. SettingsInv /\ [Next]_vars => [task # "PENDING" /\ task' # task => again]_vars
  BY <1>1
<1> QED BY <1>2, SettingsInvariant, PTL DEF Spec, ExternalDecisionStands

-----------------------------------------------------------------------------
(* Mailer: the invariant *)

MailCalls == SaveCall \cup ClearCall \cup WrittenCall \cup TryCall \cup {Absent}

(* A call that is past its reading has a transport; one that is past the    *)
(* reading for its verdict has read a row.                                  *)
CallOK(k, c) ==
  IF k \in TryKeys
  THEN c # Absent =>
         /\ c \in TryCall
         /\ c.at # "resolved" => c.of \in Transports
         /\ c.at \in {"failing", "passing"} => c.old \in SettingType
  ELSE c \in SaveCall \cup ClearCall \cup WrittenCall \cup {Absent}

(* A verdict is about the settings stored, or late. *)
About(verdict) == verdict = Absent \/ verdict.of = InForce(Own(setting)) \/ verdict.late

(* What a call has read, resolved or tried is of the row that is stored,    *)
(* until a write overtakes it.                                              *)
SeesRow(c) ==
  c # Absent =>
    /\ c.at = "resolved" => c.late \/ c.of = Own(setting)
    /\ c.at \in {"trying", "failed", "passed", "failing", "passing"} =>
         c.late \/ c.of = InForce(Own(setting))
    /\ c.at \in {"failing", "passing"} => c.late \/ About(c.old.verified)
    /\ c.at = "save" /\ c.old # Absent =>
         c.late \/ (setting # Absent /\ setting.password = c.old.password)

CallsInv ==
  /\ mailCall \in [MailKeys -> MailCalls]
  /\ \A k \in MailKeys : CallOK(k, mailCall[k]) /\ SeesRow(mailCall[k])

RowOK ==
  /\ platform \in BOOLEAN /\ inserted \in 0..MaxInserts /\ requests \in 0..MaxAsks
  /\ setting \in SettingType \cup {Absent}
  /\ cache \in Tries \cup {Absent}

TabsOK ==
  mailTab \in
    [ Admins -> [ at : {"loading", "form"}, saved : BOOLEAN,
                  busy : {"no", "save", "try"}, left : BOOLEAN ] ]

CacheInv == cache # Absent => cache.of = Own(setting) \/ cache.late \/ Unsettled
VerdictInv == setting # Absent => About(setting.verified) /\ About(setting.error)

MailInv == RowOK /\ TabsOK /\ CallsInv /\ CacheInv /\ VerdictInv

-----------------------------------------------------------------------------
(* Mailer: keys, rows and transports *)

LEMMA MailKeyFacts ==
  /\ TryKeys \subseteq MailKeys
  /\ \A a \in Admins :
       <<a, "save">> \in MailKeys \ TryKeys /\ <<a, "try">> \in TryKeys
  /\ <<Absent, "mail">> \in TryKeys
  /\ \A k \in MailKeys \ TryKeys : \E a \in Admins : k = <<a, "save">>
  /\ \A k \in TryKeys : k[2] = "try" => k[1] \in Admins
BY DEF TryKeys, MailKeys

(* A workspace's own transport is one, and is none of the platform's.       *)
LEMMA OwnTransport ==
  ASSUME setting \in SettingType \cup {Absent}
  PROVE  /\ Own(setting) \in Transports \cup {Absent}
         /\ \A own \in Transports : InForce(own) = own
         /\ InForce(Absent) \in Transports \cup {Absent}
<1>1. Absent \notin Transports
  BY AbsentAssumption
<1>2. ASSUME setting \in SettingType
      PROVE  [server |-> setting.server, password |-> setting.password] \in Transports
  BY <1>2 DEF SettingType, Transports
<1>3. Own(setting) \in Transports \cup {Absent}
  BY <1>2 DEF Own
<1>4. Platform \in Transports
  BY DEF Transports
<1> QED BY <1>1, <1>3, <1>4 DEF InForce

(* The row may have been tried, but is as it was saved. *)
SameRow ==
  /\ platform' = platform /\ Own(setting)' = Own(setting)
  /\ setting # Absent => setting' # Absent /\ setting'.password = setting.password

LEMMA SameVerdicts ==
  ASSUME SameRow
  PROVE  \A own : InForce(own)' = InForce(own)
BY DEF SameRow, InForce

Others(k) == \A j \in MailKeys \ {k} : mailCall'[j] = mailCall[j]

LEMMA CallMoves ==
  ASSUME CallsInv, NEW k \in MailKeys, NEW c \in MailCalls,
         mailCall' = [mailCall EXCEPT ![k] = c]
  PROVE  mailCall' \in [MailKeys -> MailCalls] /\ mailCall'[k] = c /\ Others(k)
BY DEF CallsInv, Others

LEMMA CallKeeps ==
  ASSUME CallsInv, SameRow, NEW k \in MailKeys,
         mailCall' \in [MailKeys -> MailCalls], Others(k),
         CallOK(k, mailCall'[k]), SeesRow(mailCall[k])'
  PROVE  CallsInv'
<1>1. ASSUME NEW j \in MailKeys \ {k}
      PROVE  CallOK(j, mailCall'[j]) /\ SeesRow(mailCall[j])'
  <2>1. CallOK(j, mailCall[j]) /\ SeesRow(mailCall[j]) /\ mailCall'[j] = mailCall[j]
    BY DEF CallsInv, Others
  <2>2. SeesRow(mailCall[j])'
    BY <2>1 DEF SeesRow, SameRow, About, InForce
  <2> QED BY <2>1, <2>2
<1> QED BY <1>1 DEF CallsInv, CallOK

(* A write: every call that has read is late from now on. *)
LEMMA CallsLate ==
  ASSUME CallsInv, NEW k \in MailKeys \ TryKeys, NEW c \in WrittenCall,
         mailCall' = Overtaken([mailCall EXCEPT ![k] = c])
  PROVE  CallsInv' /\ mailCall'[k] = c
<1> DEFINE calls == [mailCall EXCEPT ![k] = c]
<1>1. calls \in [MailKeys -> MailCalls] /\ calls[k] = c
  BY DEF CallsInv, MailCalls
<1>2. \A j \in MailKeys : CallOK(j, calls[j])
  BY <1>1 DEF CallsInv, CallOK
<1> HIDE DEF calls
<1>3. ASSUME NEW j \in MailKeys, calls[j] # Absent, calls[j].at \notin {"saved", "cleared"}
      PROVE  LET late == [calls[j] EXCEPT !.late = TRUE]
             IN  /\ late \in MailCalls /\ CallOK(j, late) /\ late.late
                 /\ late # Absent
  <2> DEFINE late == [calls[j] EXCEPT !.late = TRUE]
  <2>1. CASE calls[j] \in SaveCall
    <3>1. late \in SaveCall /\ late.late
      BY <2>1 DEF SaveCall
    <3>2. j \notin TryKeys
      BY <1>2, <1>3, <2>1 DEF CallOK, SaveCall, TryCall
    <3> QED BY <3>1, <3>2, AbsentAssumption DEF CallOK, MailCalls
  <2>2. CASE calls[j] \in ClearCall
    <3>1. late \in ClearCall /\ late.late
      BY <2>2 DEF ClearCall
    <3>2. j \notin TryKeys
      BY <1>2, <1>3, <2>2 DEF CallOK, ClearCall, TryCall
    <3> QED BY <3>1, <3>2, AbsentAssumption DEF CallOK, MailCalls
  <2>3. CASE calls[j] \in TryCall
    <3>1. /\ late \in TryCall /\ late.late
          /\ late.at = calls[j].at /\ late.of = calls[j].of /\ late.old = calls[j].old
      BY <2>3 DEF TryCall
    <3>2. j \in TryKeys
      BY <1>2, <1>3, <2>3 DEF CallOK, TryCall, SaveCall, ClearCall, WrittenCall
    <3> QED BY <1>2, <1>3, <3>1, <3>2, AbsentAssumption DEF CallOK, MailCalls
  <2>4. CASE calls[j] \in WrittenCall
    BY <1>3, <2>4 DEF WrittenCall
  <2> QED BY <1>1, <1>3, <2>1, <2>2, <2>3, <2>4 DEF MailCalls
<1>4. \A j \in MailKeys :
        mailCall'[j] = IF calls[j] # Absent /\ calls[j].at \notin {"saved", "cleared"}
                       THEN [calls[j] EXCEPT !.late = TRUE] ELSE calls[j]
  BY DEF Overtaken, calls
<1>5. mailCall' \in [MailKeys -> MailCalls]
  <2>1. DOMAIN mailCall' = MailKeys /\ mailCall' = [j \in MailKeys |-> mailCall'[j]]
    BY DEF Overtaken
  <2>2. \A j \in MailKeys : mailCall'[j] \in MailCalls
    BY <1>1, <1>3, <1>4
  <2> QED BY <2>1, <2>2
<1>6. \A j \in MailKeys : CallOK(j, mailCall'[j])
  BY <1>2, <1>3, <1>4
<1>7. \A j \in MailKeys : SeesRow(mailCall[j])'
  BY <1>3, <1>4 DEF SeesRow
<1>8. mailCall'[k] = c
  BY <1>1, <1>4 DEF WrittenCall
<1> QED BY <1>5, <1>6, <1>7, <1>8 DEF CallsInv

-----------------------------------------------------------------------------
(* Mailer: steps that leave the row as it is *)

RowKept == UNCHANGED <<platform, setting, inserted>>

LEMMA RowKeptSame ==
  ASSUME RowKept
  PROVE  SameRow /\ (VerdictInv => VerdictInv')
BY DEF RowKept, SameRow, VerdictInv, About, InForce, Own

(* A save or removal that is at its end stays there, unless k is its call.  *)
LEMMA UnsettledKept ==
  ASSUME NEW k \in MailKeys, Others(k), Unsettled,
         \A a \in Admins : k = <<a, "save">> /\ Saving(a) => Saving(a)'
  PROVE  Unsettled'
<1>1. PICK a \in Admins : Saving(a)
  BY DEF Unsettled
<1>2. CASE k = <<a, "save">>
  BY <1>1, <1>2 DEF Unsettled
<1>3. CASE k # <<a, "save">>
  <2>1. mailCall'[<<a, "save">>] = mailCall[<<a, "save">>]
    BY <1>3, MailKeyFacts DEF Others
  <2> QED BY <1>1, <2>1 DEF Saving, Unsettled
<1> QED BY <1>2, <1>3

LEMMA LoadedKeeps ==
  ASSUME MailInv, NEW a \in Admins, Loaded(a)
  PROVE  MailInv'
<1>1. UNCHANGED <<requests, platform, setting, inserted, cache, mailCall>>
  BY DEF Loaded
<1>2. RowOK' /\ CacheInv' /\ VerdictInv'
  BY <1>1, RowKeptSame DEF MailInv, RowKept, RowOK, CacheInv, Own, Unsettled, Saving
<1>3. TabsOK'
  BY DEF Loaded, MailInv, TabsOK
<1>4. CallsInv'
  BY <1>1 DEF MailInv, CallsInv, SeesRow, About, InForce, Own
<1> QED BY <1>2, <1>3, <1>4 DEF MailInv

(* One call of the page moves, the transport and the row stay. *)
LEMMA CallStepKeeps ==
  ASSUME MailInv, RowKept, cache' = cache, requests' \in 0..MaxAsks, TabsOK',
         NEW k \in MailKeys, NEW c \in MailCalls,
         mailCall' = [mailCall EXCEPT ![k] = c],
         CallOK(k, c), SeesRow(mailCall[k])',
         \A a \in Admins : k = <<a, "save">> => ~Saving(a)
  PROVE  MailInv'
<1>1. mailCall' \in [MailKeys -> MailCalls] /\ mailCall'[k] = c /\ Others(k)
  BY CallMoves DEF MailInv
<1>2. SameRow /\ VerdictInv'
  BY RowKeptSame DEF MailInv
<1>3. CallsInv'
  BY <1>1, <1>2, CallKeeps DEF MailInv
<1>4. CacheInv'
  <2>1. Unsettled => Unsettled'
    BY <1>1, UnsettledKept
  <2> QED BY <1>2, <2>1 DEF MailInv, CacheInv, SameRow
<1>5. RowOK'
  BY DEF MailInv, RowOK, RowKept
<1> QED BY <1>2, <1>3, <1>4, <1>5 DEF MailInv

LEMMA AskedBound ==
  ASSUME RowOK, Asked
  PROVE  requests' \in 0..MaxAsks
BY MailerAssumption DEF RowOK, Asked

LEMMA SaveBeginKeeps ==
  ASSUME MailInv, NEW a \in Admins, NEW server \in Servers, NEW enabled \in BOOLEAN,
         NEW typed \in MailSecrets \cup {Absent}, SaveBegin(a, server, enabled, typed)
  PROVE  MailInv'
<1> DEFINE k == <<a, "save">>
           c == [ at |-> "save", server |-> server, enabled |-> enabled, typed |-> typed,
                  left |-> mailTab[a].left /\ typed = Blank, old |-> setting, late |-> FALSE ]
<1>1. k \in MailKeys \ TryKeys /\ mailCall[k] = Absent
  BY MailKeyFacts DEF SaveBegin
<1>2. RowKept /\ cache' = cache /\ requests' \in 0..MaxAsks
  BY AskedBound DEF SaveBegin, RowKept, MailInv
<1>3. TabsOK'
  BY DEF SaveBegin, MailInv, TabsOK
<1>4. mailCall' = [mailCall EXCEPT ![k] = c]
  BY DEF SaveBegin
<1>5. mailTab[a].left \in BOOLEAN /\ setting \in SettingType \cup {Absent}
  BY DEF MailInv, TabsOK, RowOK
<1>6. c \in SaveCall
  BY <1>5 DEF SaveCall
<1>7. c \in MailCalls /\ CallOK(k, c)
  BY <1>1, <1>6 DEF MailCalls, CallOK
<1>8. SeesRow(mailCall[k])'
  <2>1. mailCall'[k] = c
    BY <1>1, <1>4, <1>7, CallMoves DEF MailInv
  <2>2. c.at = "save" /\ c.old = setting
    OBVIOUS
  <2> HIDE DEF c
  <2> QED BY <1>2, <2>1, <2>2 DEF SeesRow, RowKept
<1>9. ~Saving(a)
  BY <1>1 DEF Saving
<1> HIDE DEF c
<1> QED BY <1>1, <1>2, <1>3, <1>4, <1>7, <1>8, <1>9, CallStepKeeps

LEMMA ClearBeginKeeps ==
  ASSUME MailInv, NEW a \in Admins, NEW touched \in BOOLEAN, ClearBegin(a, touched)
  PROVE  MailInv'
<1> DEFINE k == <<a, "save">>
           c == IF setting = Absent THEN [at |-> "cleared", left |-> touched]
                ELSE [at |-> "clear", left |-> touched, old |-> setting, late |-> FALSE]
<1>1. k \in MailKeys \ TryKeys /\ mailCall[k] = Absent
  BY MailKeyFacts DEF ClearBegin
<1>2. RowKept /\ cache' = cache /\ requests' \in 0..MaxAsks
  BY AskedBound DEF ClearBegin, RowKept, MailInv
<1>3. TabsOK'
  BY DEF ClearBegin, MailInv, TabsOK
<1>4. mailCall' = [mailCall EXCEPT ![k] = c]
  BY DEF ClearBegin
<1>5. c \in ClearCall \cup WrittenCall
  BY DEF ClearCall, WrittenCall, MailInv, RowOK
<1>6. c \in MailCalls /\ CallOK(k, c)
  BY <1>1, <1>5 DEF MailCalls, CallOK
<1>7. SeesRow(mailCall[k])'
  <2>1. mailCall'[k] = c
    BY <1>1, <1>4, <1>6, CallMoves DEF MailInv
  <2>2. c.at \in {"clear", "cleared"}
    OBVIOUS
  <2> HIDE DEF c
  <2> QED BY <2>1, <2>2 DEF SeesRow
<1>8. ~Saving(a)
  BY <1>1 DEF Saving
<1> HIDE DEF c
<1> QED BY <1>1, <1>2, <1>3, <1>4, <1>6, <1>7, <1>8, CallStepKeeps

(* The end of a save or removal: the transport goes, or is late. *)
LEMMA SaveEndKeeps ==
  ASSUME MailInv, NEW a \in Admins,
         SaveFails(a) \/ \E heard \in BOOLEAN : Invalidate(a, heard)
  PROVE  MailInv'
<1> DEFINE k == <<a, "save">>
<1>1. k \in MailKeys \ TryKeys
  BY MailKeyFacts
<1>2. /\ RowKept /\ requests' = requests
      /\ mailCall' = [mailCall EXCEPT ![k] = Absent]
  BY DEF SaveFails, Invalidate, RowKept
<1>3. mailCall' \in [MailKeys -> MailCalls] /\ mailCall'[k] = Absent /\ Others(k)
  BY <1>1, <1>2, CallMoves DEF MailInv, MailCalls
<1>4. SameRow /\ VerdictInv'
  BY <1>2, RowKeptSame DEF MailInv
<1>5. CallsInv'
  BY <1>1, <1>3, <1>4, CallKeeps DEF MailInv, CallOK, SeesRow
<1>6. TabsOK'
  <2>1. CASE SaveFails(a)
    BY <2>1 DEF SaveFails, MailInv, TabsOK
  <2>2. ASSUME NEW heard \in BOOLEAN, Invalidate(a, heard)
        PROVE  TabsOK'
    <3>1. mailCall[k] \in WrittenCall
      BY <1>1, <2>2
         DEF Invalidate, Saving, MailInv, CallsInv, CallOK, SaveCall, ClearCall
    <3>2. mailCall[k].left \in BOOLEAN
      BY <3>1 DEF WrittenCall
    <3> QED BY <2>2, <3>2 DEF Invalidate, MailInv, TabsOK
  <2> QED BY <2>1, <2>2
<1>7. CacheInv' /\ cache' \in Tries \cup {Absent}
  <2>1. CASE cache' = Absent
    BY <2>1 DEF CacheInv
  <2>2. CASE cache' = [cache EXCEPT !.late = TRUE] /\ cache # Absent
    BY <2>2 DEF MailInv, RowOK, CacheInv, Tries
  <2>3. CASE cache' = cache /\ ~Saving(a)
    <3>1. Unsettled => Unsettled'
      BY <1>1, <1>3, <2>3, UnsettledKept
    <3> QED BY <1>4, <2>3, <3>1 DEF MailInv, RowOK, CacheInv, SameRow
  <2>4. CASE cache' = cache /\ cache = Absent
    BY <2>4 DEF CacheInv
  <2> QED BY <2>1, <2>2, <2>3, <2>4 DEF SaveFails, Invalidate, Dropped
<1>8. RowOK'
  BY <1>2, <1>7 DEF MailInv, RowOK, RowKept
<1> QED BY <1>4, <1>5, <1>6, <1>7, <1>8 DEF MailInv

-----------------------------------------------------------------------------
(* Mailer: mails and trials *)

LEMMA BegunOK ==
  ASSUME MailInv, NEW k \in TryKeys, NEW verify \in BOOLEAN
  PROVE  /\ Begun(verify) \in TryCall /\ CallOK(k, Begun(verify))
         /\ Begun(verify).at \in {"resolved", "trying"}
         /\ Begun(verify).at = "resolved" => Begun(verify).of = Own(setting)
         /\ Begun(verify).at = "trying" =>
              Begun(verify).late \/ Begun(verify).of = InForce(Own(setting))
<1>1. Own(setting) \in Transports \cup {Absent} /\ Absent \notin Transports
      /\ \A own \in Transports : InForce(own) = own
  BY OwnTransport, AbsentAssumption DEF MailInv, RowOK
<1>2. CASE cache # Absent
  <2>1. cache \in Tries
    BY <1>2 DEF MailInv, RowOK
  <2>2. cache.of \in Transports /\ cache.late \in BOOLEAN /\ Unsettled \in BOOLEAN
    BY <2>1 DEF Tries, Unsettled
  <2>3. /\ Begun(verify) \in TryCall /\ Begun(verify).at = "trying"
        /\ Begun(verify).of = cache.of /\ Begun(verify).late = (cache.late \/ Unsettled)
    BY <1>2, <2>2 DEF Begun, TryCall
  <2>4. Begun(verify).late \/ Begun(verify).of = InForce(Own(setting))
    BY <1>1, <1>2, <2>2, <2>3 DEF MailInv, CacheInv
  <2> QED BY <2>2, <2>3, <2>4 DEF CallOK
<1>3. CASE cache = Absent
  <2>1. /\ Begun(verify) \in TryCall /\ Begun(verify).at = "resolved"
        /\ Begun(verify).of = Own(setting)
    BY <1>1, <1>3 DEF Begun, TryCall
  <2> QED BY <2>1 DEF CallOK
<1> QED BY <1>2, <1>3

LEMMA TryBeginKeeps ==
  ASSUME MailInv, MailBegin \/ \E a \in Admins, verify \in BOOLEAN : TrialBegin(a, verify)
  PROVE  MailInv'
<1>1. PICK k \in TryKeys, verify \in BOOLEAN :
        mailCall' = [mailCall EXCEPT ![k] = Begun(verify)]
  BY MailKeyFacts DEF MailBegin, TrialBegin
<1>2. RowKept /\ cache' = cache /\ requests' \in 0..MaxAsks
  BY AskedBound DEF MailBegin, TrialBegin, RowKept, MailInv
<1>3. TabsOK'
  BY DEF MailBegin, TrialBegin, MailInv, TabsOK
<1>4. k \in MailKeys /\ Begun(verify) \in MailCalls /\ CallOK(k, Begun(verify))
  BY BegunOK, MailKeyFacts DEF MailCalls
<1>5. SeesRow(mailCall[k])'
  <2>1. mailCall'[k] = Begun(verify)
    BY <1>1, <1>4, CallMoves DEF MailInv
  <2>2. SameRow /\ \A own : InForce(own)' = InForce(own)
    BY <1>2, RowKeptSame, SameVerdicts
  <2> QED BY <2>1, <2>2, BegunOK DEF SeesRow, SameRow
<1>6. \A a \in Admins : k # <<a, "save">>
  BY MailKeyFacts
<1> QED BY <1>1, <1>2, <1>3, <1>4, <1>5, <1>6, CallStepKeeps

(* The end of a mail or trial, maybe with another trial *)
LEMMA OverCall ==
  ASSUME MailInv, NEW k \in TryKeys, mailCall[k] # Absent, NEW sent \in BOOLEAN, Over(k, sent),
         SameRow
  PROVE  /\ TabsOK' /\ CallsInv' /\ Others(k)
<1> DEFINE c == IF k[2] = "try" /\ ~mailCall[k].verify /\ ~sent THEN Begun(TRUE) ELSE Absent
<1>1. k \in MailKeys /\ c \in MailCalls /\ CallOK(k, c)
  BY BegunOK, MailKeyFacts DEF MailCalls, CallOK
<1>2. mailCall' = [mailCall EXCEPT ![k] = c]
  BY DEF Over
<1>3. mailCall' \in [MailKeys -> MailCalls] /\ mailCall'[k] = c /\ Others(k)
  BY <1>1, <1>2, CallMoves DEF MailInv
<1>4. TabsOK'
  BY MailKeyFacts DEF Over, MailInv, TabsOK
<1>5. SeesRow(mailCall[k])'
  <2>1. \A own : InForce(own)' = InForce(own)
    BY SameVerdicts
  <2>2. c = Absent \/ c = Begun(TRUE)
    OBVIOUS
  <2> HIDE DEF c
  <2> QED BY <1>3, <2>1, <2>2, BegunOK DEF SeesRow, SameRow
<1> QED BY <1>1, <1>3, <1>4, <1>5, CallKeeps DEF MailInv

LEMMA OverKeeps ==
  ASSUME MailInv, NEW k \in TryKeys, mailCall[k] # Absent, NEW sent \in BOOLEAN, Over(k, sent),
         RowKept, cache' = cache, requests' = requests
  PROVE  MailInv'
<1>1. SameRow /\ VerdictInv'
  BY RowKeptSame DEF MailInv
<1>2. TabsOK' /\ CallsInv' /\ Others(k)
  BY <1>1, OverCall
<1>3. CacheInv'
  <2>1. \A a \in Admins : k # <<a, "save">>
    BY MailKeyFacts
  <2>2. Unsettled => Unsettled'
    BY <1>2, <2>1, UnsettledKept, MailKeyFacts
  <2> QED BY <1>1, <2>2 DEF MailInv, CacheInv, SameRow
<1>4. RowOK'
  BY DEF MailInv, RowOK, RowKept
<1> QED BY <1>1, <1>2, <1>3, <1>4 DEF MailInv

(* A mail or trial takes one step further. *)
LEMMA TryMoves ==
  ASSUME MailInv, NEW k \in TryKeys, RowKept, requests' = requests, UNCHANGED <<cache, mailTab>>,
         NEW c \in TryCall, CallOK(k, c),
         mailCall' = [mailCall EXCEPT ![k] = c],
         c.at \in {"trying", "failed", "passed", "failing", "passing"} =>
           c.late \/ c.of = InForce(Own(setting)),
         c.at \in {"failing", "passing"} => c.late \/ About(c.old.verified),
         c.at \notin {"resolved", "save"}
  PROVE  MailInv'
<1>1. k \in MailKeys /\ c \in MailCalls /\ \A a \in Admins : k # <<a, "save">>
  BY MailKeyFacts DEF MailCalls
<1>2. mailCall'[k] = c
  BY <1>1, CallMoves DEF MailInv
<1>3. SeesRow(mailCall[k])'
  BY <1>2, RowKeptSame DEF SeesRow, SameRow, About, InForce
<1>4. TabsOK' /\ requests' \in 0..MaxAsks
  BY DEF MailInv, TabsOK, RowOK
<1> QED BY <1>1, <1>3, <1>4, CallStepKeeps

LEMMA TryFacts ==
  ASSUME MailInv, NEW k \in TryKeys, mailCall[k] # Absent
  PROVE  /\ mailCall[k] \in TryCall
         /\ mailCall[k].at # "resolved" => mailCall[k].of \in Transports
         /\ mailCall[k].at \in {"failing", "passing"} => mailCall[k].old \in SettingType
         /\ SeesRow(mailCall[k])
BY MailKeyFacts DEF MailInv, CallsInv, CallOK

LEMMA BuildKeeps ==
  ASSUME MailInv, NEW k \in TryKeys, Build(k)
  PROVE  MailInv'
<1> DEFINE call == mailCall[k]
           of == InForce(call.of)
           c == [call EXCEPT !.at = "trying", !.of = of]
<1>1. /\ call # Absent /\ call.at = "resolved" /\ call \in TryCall
      /\ call.late \/ call.of = Own(setting)
  BY TryFacts DEF Build, At, SeesRow
<1>2. RowKept /\ requests' = requests
  BY DEF Build, RowKept
<1>3. Absent \notin Transports /\ call.of \in Transports \cup {Absent}
      /\ of \in Transports \cup {Absent}
  BY <1>1, AbsentAssumption, OwnTransport DEF TryCall, MailInv, RowOK
<1>4. CASE of = Absent
  <2>1. call.of = Absent
    BY <1>3, <1>4, OwnTransport DEF MailInv, RowOK
  <2>2. Over(k, FALSE) /\ cache' = cache
    BY <1>4, <2>1 DEF Build
  <2> QED BY <1>1, <1>2, <2>2, OverKeeps
<1>5. CASE of # Absent
  <2>1. c \in TryCall /\ c.at = "trying" /\ c.of = of /\ c.late = call.late
    BY <1>1, <1>3 DEF TryCall
  <2>2. mailCall' = [mailCall EXCEPT ![k] = c] /\ UNCHANGED mailTab
    BY <1>5 DEF Build
  <2>3. CallOK(k, c)
    BY <1>3, <1>5, <2>1 DEF CallOK
  <2> HIDE DEF c
  <2>4. k \in MailKeys /\ c \in MailCalls /\ \A a \in Admins : k # <<a, "save">>
    BY <2>1, MailKeyFacts DEF MailCalls
  <2>5. mailCall' \in [MailKeys -> MailCalls] /\ mailCall'[k] = c /\ Others(k)
    BY <2>2, <2>4, CallMoves DEF MailInv
  <2>6. SameRow /\ VerdictInv'
    BY <1>2, RowKeptSame DEF MailInv
  <2>7. SeesRow(mailCall[k])'
    BY <1>1, <2>1, <2>5, <2>6 DEF SeesRow, SameRow, InForce
  <2>8. CallsInv'
    BY <2>3, <2>4, <2>5, <2>6, <2>7, CallKeeps DEF MailInv
  <2>9. CacheInv' /\ cache' \in Tries \cup {Absent}
    <3>1. CASE call.of = Absent
      <4>1. cache' = cache
        BY <3>1 DEF Build
      <4>2. Unsettled => Unsettled'
        BY <2>4, <2>5, UnsettledKept
      <4> QED BY <2>6, <4>1, <4>2 DEF MailInv, RowOK, CacheInv, SameRow
    <3>2. CASE call.of # Absent
      <4>1. cache' = [of |-> call.of, late |-> call.late]
        BY <3>2 DEF Build
      <4>2. call.late \in BOOLEAN
        BY <1>1 DEF TryCall
      <4> QED BY <1>1, <1>3, <2>6, <3>2, <4>1, <4>2 DEF CacheInv, Tries, SameRow
    <3> QED BY <3>1, <3>2
  <2>10. RowOK' /\ TabsOK'
    BY <1>2, <2>2, <2>9 DEF MailInv, RowOK, RowKept, TabsOK
  <2> QED BY <2>6, <2>8, <2>9, <2>10 DEF MailInv
<1> QED BY <1>4, <1>5

LEMMA TriedKeeps ==
  ASSUME MailInv, NEW k \in TryKeys, NEW ok \in BOOLEAN, Tried(k, ok)
  PROVE  MailInv'
<1> DEFINE call == mailCall[k]
           c == [call EXCEPT !.at = IF ok THEN "passed" ELSE "failed"]
<1>1. /\ call # Absent /\ call.at = "trying" /\ call \in TryCall /\ call.of \in Transports
      /\ call.late \/ call.of = InForce(Own(setting))
  BY TryFacts DEF Tried, At, SeesRow
<1>2. RowKept /\ requests' = requests /\ cache' = cache
  BY DEF Tried, RowKept
<1>3. CASE ok /\ ~call.verify
  BY <1>1, <1>2, <1>3, OverKeeps DEF Tried
<1>4. CASE ~(ok /\ ~call.verify)
  <2>1. /\ c \in TryCall /\ c.at \in {"passed", "failed"} /\ c.of = call.of
        /\ c.late = call.late
    BY <1>1 DEF TryCall
  <2>2. mailCall' = [mailCall EXCEPT ![k] = c] /\ UNCHANGED mailTab
    BY <1>4 DEF Tried
  <2> HIDE DEF c
  <2>3. CallOK(k, c)
    BY <1>1, <2>1 DEF CallOK
  <2> QED BY <1>1, <1>2, <2>1, <2>2, <2>3, TryMoves
<1> QED BY <1>3, <1>4

LEMMA RecordReadKeeps ==
  ASSUME MailInv, NEW k \in TryKeys, RecordRead(k)
  PROVE  MailInv'
<1> DEFINE call == mailCall[k]
           c == [ call EXCEPT !.at = IF call.at = "passed" THEN "passing" ELSE "failing",
                              !.old = setting ]
<1>1. /\ call # Absent /\ call.at \in {"passed", "failed"} /\ call \in TryCall
      /\ call.of \in Transports
      /\ call.late \/ call.of = InForce(Own(setting))
  BY TryFacts DEF RecordRead, At, SeesRow
<1>2. RowKept /\ requests' = requests /\ cache' = cache
  BY DEF RecordRead, RowKept
<1>3. CASE setting = Absent
  BY <1>1, <1>2, <1>3, OverKeeps DEF RecordRead
<1>4. CASE setting # Absent
  <2>1. setting \in SettingType
    BY <1>4 DEF MailInv, RowOK
  <2>2. /\ c \in TryCall /\ c.at \in {"passing", "failing"} /\ c.of = call.of
        /\ c.late = call.late /\ c.old = setting
    BY <1>1, <2>1 DEF TryCall
  <2>3. mailCall' = [mailCall EXCEPT ![k] = c]
    BY <1>4 DEF RecordRead
  <2>4. UNCHANGED mailTab
    BY <1>4 DEF RecordRead
  <2> HIDE DEF c
  <2>5. CallOK(k, c)
    BY <1>1, <2>1, <2>2 DEF CallOK
  <2>6. About(c.old.verified)
    BY <1>4, <2>2 DEF MailInv, VerdictInv
  <2> QED BY <1>1, <1>2, <2>2, <2>3, <2>4, <2>5, <2>6, TryMoves
<1> QED BY <1>3, <1>4

(* The verdict is written: the row is otherwise as it was. *)
LEMMA RecordWriteKeeps ==
  ASSUME MailInv, NEW k \in TryKeys, RecordWrite(k)
  PROVE  MailInv'
<1> DEFINE call == mailCall[k]
           verdict == [of |-> call.of, late |-> call.late]
           before == IF call.old.verified = Absent THEN Absent
                     ELSE [call.old.verified EXCEPT !.late = @ \/ call.late]
           row == [ setting EXCEPT
                      !.verified = IF call.at = "passing" THEN verdict ELSE before,
                      !.error = IF call.at = "passing" THEN Absent ELSE verdict ]
<1>1. /\ call # Absent /\ call.at \in {"passing", "failing"} /\ call \in TryCall
      /\ call.of \in Transports /\ call.old \in SettingType /\ call.late \in BOOLEAN
      /\ call.late \/ call.of = InForce(Own(setting))
      /\ call.late \/ About(call.old.verified)
  BY TryFacts DEF RecordWrite, At, SeesRow, TryCall
<1>2. Over(k, FALSE) /\ UNCHANGED <<requests, platform, inserted, cache>>
  BY DEF RecordWrite
<1>3. setting' = setting \/ (setting # Absent /\ setting' = row)
  BY DEF RecordWrite
<1>4. verdict \in Tries /\ About(verdict)
  BY <1>1 DEF Tries, About
<1>5. before \in Tries \cup {Absent} /\ About(before)
  <2>1. CASE call.old.verified = Absent
    BY <2>1 DEF About
  <2>2. CASE call.old.verified # Absent
    <3>1. call.old.verified \in Tries
      BY <1>1, <2>2 DEF SettingType
    <3>2. /\ before \in Tries /\ before.of = call.old.verified.of
          /\ before.late = (call.old.verified.late \/ call.late)
      BY <1>1, <2>2, <3>1 DEF Tries
    <3> HIDE DEF before
    <3> QED BY <1>1, <2>2, <3>2 DEF About
  <2> QED BY <2>1, <2>2
<1> HIDE DEF before, verdict
<1>6. ASSUME setting # Absent
      PROVE  /\ row \in SettingType /\ row # Absent
             /\ row.server = setting.server /\ row.password = setting.password
             /\ row.enabled = setting.enabled
             /\ row.verified \in {verdict, before} /\ row.error \in {verdict, Absent}
  <2>1. setting \in SettingType
    BY <1>6 DEF MailInv, RowOK
  <2>2. /\ row.server = setting.server /\ row.password = setting.password
        /\ row.enabled = setting.enabled
        /\ row.verified \in {verdict, before} /\ row.error \in {verdict, Absent}
    BY <2>1 DEF SettingType
  <2>3. row \in SettingType
    BY <1>4, <1>5, <2>1 DEF SettingType
  <2> QED BY <2>2, <2>3, AbsentAssumption
<1> HIDE DEF row
<1>7. SameRow
  BY <1>2, <1>3, <1>6 DEF SameRow, Own
<1>8. TabsOK' /\ CallsInv' /\ Others(k)
  BY <1>1, <1>2, <1>7, OverCall
<1>9. VerdictInv'
  <2>1. \A own : InForce(own)' = InForce(own)
    BY <1>7, SameVerdicts
  <2>2. CASE setting' = setting
    BY <1>7, <2>1, <2>2 DEF MailInv, VerdictInv, About, SameRow
  <2>3. CASE setting # Absent /\ setting' = row
    BY <1>4, <1>5, <1>6, <1>7, <2>1, <2>3 DEF VerdictInv, About, SameRow
  <2> QED BY <1>3, <2>2, <2>3
<1>10. CacheInv'
  <2>1. Unsettled => Unsettled'
    BY <1>8, UnsettledKept, MailKeyFacts
  <2> QED BY <1>2, <1>7, <2>1 DEF MailInv, CacheInv, SameRow
<1>11. RowOK'
  BY <1>2, <1>3, <1>6 DEF MailInv, RowOK
<1> QED BY <1>8, <1>9, <1>10, <1>11 DEF MailInv

-----------------------------------------------------------------------------
(* Mailer: the two writes *)

(* A row written anew has not been tried, and whoever wrote it is not done: *)
(* the transport may be of the row before.                                  *)
LEMMA WriteKeeps ==
  ASSUME MailInv, NEW a \in Admins, NEW c \in WrittenCall,
         mailCall' = Overtaken([mailCall EXCEPT ![<<a, "save">>] = c]),
         setting' \in SettingType \cup {Absent},
         setting' # Absent => setting'.verified = Absent /\ setting'.error = Absent,
         inserted' \in 0..MaxInserts,
         UNCHANGED <<requests, platform, cache, mailTab>>
  PROVE  MailInv'
<1>1. <<a, "save">> \in MailKeys \ TryKeys
  BY MailKeyFacts
<1>2. CallsInv' /\ mailCall'[<<a, "save">>] = c
  BY <1>1, CallsLate DEF MailInv
<1>3. Unsettled'
  BY <1>2, AbsentAssumption DEF Unsettled, Saving, WrittenCall
<1>4. CacheInv'
  BY <1>3 DEF CacheInv
<1>5. VerdictInv'
  BY DEF VerdictInv, About
<1>6. RowOK' /\ TabsOK'
  BY DEF MailInv, RowOK, TabsOK
<1> QED BY <1>2, <1>4, <1>5, <1>6 DEF MailInv

LEMMA SaveCallFacts ==
  ASSUME MailInv, NEW a \in Admins, mailCall[<<a, "save">>] # Absent
  PROVE  /\ mailCall[<<a, "save">>].at = "save" => mailCall[<<a, "save">>] \in SaveCall
         /\ mailCall[<<a, "save">>].at = "clear" => mailCall[<<a, "save">>] \in ClearCall
         /\ SeesRow(mailCall[<<a, "save">>])
<1>1. <<a, "save">> \in MailKeys \ TryKeys
  BY MailKeyFacts
<1>2. mailCall[<<a, "save">>] \in SaveCall \cup ClearCall \cup WrittenCall
      /\ SeesRow(mailCall[<<a, "save">>])
  BY <1>1 DEF MailInv, CallsInv, CallOK
<1> QED BY <1>2 DEF SaveCall, ClearCall, WrittenCall

LEMMA SaveWriteKeeps ==
  ASSUME MailInv, NEW a \in Admins, SaveWrite(a)
  PROVE  MailInv'
<1> DEFINE call == mailCall[<<a, "save">>]
           id == IF call.old = Absent THEN inserted + 1 ELSE setting.id
<1>1. call \in SaveCall
  BY SaveCallFacts DEF SaveWrite
<1>2. /\ call.server \in Servers /\ call.enabled \in BOOLEAN
      /\ StoredPassword(call) \in MailSecrets
  BY <1>1 DEF SaveCall, StoredPassword, SettingType, MailSecrets
<1>3. id \in 1..MaxInserts /\ inserted' \in 0..MaxInserts
  <2> MaxInserts \in Nat /\ inserted \in 0..MaxInserts
    BY MailerAssumption DEF MailInv, RowOK
  <2>1. CASE call.old = Absent
    <3>1. inserted < MaxInserts /\ inserted' = inserted + 1
      BY <2>1 DEF SaveWrite
    <3> QED BY <2>1, <3>1
  <2>2. CASE call.old # Absent
    <3>1. setting # Absent /\ inserted' = inserted
      BY <2>2 DEF SaveWrite
    <3>2. setting \in SettingType
      BY <3>1 DEF MailInv, RowOK
    <3> QED BY <2>2, <3>1, <3>2 DEF SettingType
  <2> QED BY <2>1, <2>2
<1>4. setting' = SavedRow(call, id)
  BY DEF SaveWrite
<1>5. SavedRow(call, id) \in SettingType
  BY <1>2, <1>3 DEF SavedRow, Written, SettingType
<1>6. SavedRow(call, id).verified = Absent /\ SavedRow(call, id).error = Absent
  BY DEF SavedRow, Written
<1>7. [at |-> "saved", left |-> FALSE] \in WrittenCall
  BY DEF WrittenCall
<1>8. /\ mailCall' = Overtaken([ mailCall EXCEPT
                                   ![<<a, "save">>] = [at |-> "saved", left |-> FALSE] ])
      /\ UNCHANGED <<requests, platform, cache, mailTab>>
  BY DEF SaveWrite
<1> HIDE DEF id
<1> QED BY <1>3, <1>4, <1>5, <1>6, <1>7, <1>8, WriteKeeps

LEMMA ClearWriteKeeps ==
  ASSUME MailInv, NEW a \in Admins, ClearWrite(a)
  PROVE  MailInv'
<1> DEFINE call == mailCall[<<a, "save">>]
           c == [at |-> "cleared", left |-> call.left]
<1>1. c \in WrittenCall
  BY SaveCallFacts DEF ClearWrite, ClearCall, WrittenCall
<1>2. /\ mailCall' = Overtaken([mailCall EXCEPT ![<<a, "save">>] = c])
      /\ setting' = Absent /\ UNCHANGED <<requests, platform, inserted, cache, mailTab>>
  BY DEF ClearWrite
<1>3. inserted' \in 0..MaxInserts
  BY <1>2 DEF MailInv, RowOK
<1> HIDE DEF c
<1> QED BY <1>1, <1>2, <1>3, WriteKeeps

LEMMA MailerRestartKeeps ==
  ASSUME MailInv, MailerRestart
  PROVE  MailInv'
<1>1. RowKept /\ requests' = requests /\ cache' = Absent
      /\ mailCall' = [k \in MailKeys |-> Absent]
  BY DEF MailerRestart, RowKept
<1>2. VerdictInv'
  BY <1>1, RowKeptSame DEF MailInv
<1>3. CallsInv'
  BY <1>1 DEF CallsInv, CallOK, SeesRow, MailCalls
<1>4. TabsOK'
  BY DEF MailerRestart, MailInv, TabsOK
<1>5. RowOK' /\ CacheInv'
  BY <1>1 DEF MailInv, RowOK, RowKept, CacheInv
<1> QED BY <1>2, <1>3, <1>4, <1>5 DEF MailInv

-----------------------------------------------------------------------------
(* Mailer: the theorems *)

LEMMA MailInit == MailerInit => MailInv
<1> SUFFICES ASSUME MailerInit PROVE MailInv
  OBVIOUS
<1>1. RowOK /\ TabsOK
  BY MailerAssumption DEF MailerInit, RowOK, TabsOK
<1>2. CallsInv
  BY DEF MailerInit, CallsInv, CallOK, SeesRow, MailCalls
<1> QED BY <1>1, <1>2 DEF MailerInit, MailInv, CacheInv, VerdictInv

LEMMA MailStutters ==
  ASSUME MailInv, UNCHANGED mailVars
  PROVE  MailInv'
<1> USE DEF mailVars
<1>1. SameRow /\ VerdictInv'
  BY RowKeptSame DEF MailInv, RowKept
<1>2. RowOK' /\ TabsOK'
  BY DEF MailInv, RowOK, TabsOK
<1>3. CallsInv'
  BY DEF MailInv, CallsInv, SeesRow, About, InForce, Own
<1>4. CacheInv'
  BY DEF MailInv, CacheInv, Own, Unsettled, Saving
<1> QED BY <1>1, <1>2, <1>3, <1>4 DEF MailInv

LEMMA MailStepKeeps ==
  ASSUME MailInv, [MailerNext]_mailVars
  PROVE  MailInv'
<1>1. ASSUME NEW a \in Admins, Loaded(a) PROVE MailInv'
  BY <1>1, LoadedKeeps
<1>2. ASSUME NEW a \in Admins, NEW server \in Servers, NEW enabled \in BOOLEAN,
             NEW typed \in MailSecrets \cup {Absent}, SaveBegin(a, server, enabled, typed)
      PROVE  MailInv'
  BY <1>2, SaveBeginKeeps
<1>3. ASSUME NEW a \in Admins, SaveWrite(a) \/ ClearWrite(a) PROVE MailInv'
  BY <1>3, SaveWriteKeeps, ClearWriteKeeps
<1>4. ASSUME NEW a \in Admins, NEW touched \in BOOLEAN, ClearBegin(a, touched) PROVE MailInv'
  BY <1>4, ClearBeginKeeps
<1>5. ASSUME NEW a \in Admins, SaveFails(a) \/ \E heard \in BOOLEAN : Invalidate(a, heard)
      PROVE  MailInv'
  BY <1>5, SaveEndKeeps
<1>6. CASE MailBegin \/ \E a \in Admins, verify \in BOOLEAN : TrialBegin(a, verify)
  BY <1>6, TryBeginKeeps
<1>7. ASSUME NEW k \in TryKeys, Build(k) \/ RecordRead(k) \/ RecordWrite(k) PROVE MailInv'
  BY <1>7, BuildKeeps, RecordReadKeeps, RecordWriteKeeps
<1>8. ASSUME NEW k \in TryKeys, NEW ok \in BOOLEAN, Tried(k, ok) PROVE MailInv'
  BY <1>8, TriedKeeps
<1>9. CASE MailerRestart
  BY <1>9, MailerRestartKeeps
<1>10. CASE UNCHANGED mailVars
  BY <1>10, MailStutters
<1> QED
  BY <1>1, <1>2, <1>3, <1>4, <1>5, <1>6, <1>7, <1>8, <1>9, <1>10 DEF MailerNext

(* The mail settings' inductive invariant: everything a request or the      *)
(* process has read of the row is of the row stored, or a write has         *)
(* overtaken it (mail.service.ts, mail-settings.service.ts).                *)
THEOREM MailInvariant == MailerSpec => []MailInv
<1>1. MailInv /\ [MailerNext]_mailVars => MailInv'
  BY MailStepKeeps
<1> QED BY MailInit, <1>1, PTL DEF MailerSpec

LEMMA MailInvSafe ==
  ASSUME MailInv
  PROVE  MailerInv
<1>1. MailerTypeOK
  <2>1. ASSUME NEW a \in Admins
        PROVE  mailCall[a, "save"] \in SaveCall \cup ClearCall \cup WrittenCall \cup {Absent}
    BY MailKeyFacts DEF MailInv, CallsInv, CallOK
  <2>2. ASSUME NEW k \in TryKeys
        PROVE  mailCall[k] \in TryCall \cup {Absent}
    BY MailKeyFacts DEF MailInv, CallsInv, CallOK
  <2> QED BY <2>1, <2>2 DEF MailInv, RowOK, TabsOK, MailerTypeOK
<1>2. SettingsInForce
  BY DEF MailInv, CacheInv, SettingsInForce
<1>3. VerdictIsOfSettings
  BY DEF MailInv, VerdictInv, About, VerdictIsOfSettings
<1> QED BY <1>1, <1>2, <1>3 DEF MailerInv

(* A mail goes by the settings stored, and a verdict shown is about them,   *)
(* unless a write came between reading and using them.                      *)
THEOREM MailerSafe == MailerSpec => []MailerInv
<1>1. MailInv => MailerInv
  BY MailInvSafe
<1> QED BY MailInvariant, <1>1, PTL

(* A write of the row is a save's, or leaves server and password alone.     *)
LEMMA PasswordStep ==
  ASSUME MailInv, [MailerNext]_mailVars,
         setting # Absent, setting' # Absent, setting'.password # setting.password
  PROVE  \E a \in Admins : SaveWrite(a)
<1>1. ASSUME NEW k \in TryKeys, RecordWrite(k)
      PROVE  setting'.password = setting.password
  <2>1. setting \in SettingType
    BY DEF MailInv, RowOK
  <2> QED BY <1>1, <2>1 DEF RecordWrite, SettingType
<1>2. setting' # setting
  OBVIOUS
<1>3. ASSUME NEW a \in Admins, ClearWrite(a) PROVE FALSE
  BY <1>3 DEF ClearWrite
<1> QED
  BY <1>1, <1>2, <1>3
     DEF MailerNext, mailVars, Loaded, SaveBegin, ClearBegin, Invalidate, SaveFails, TrialBegin,
         MailBegin, Build, RecordRead, Tried, MailerRestart

(* "The stored value must survive an edit to any other field": a save that  *)
(* sends no password keeps the one it read, which is the one stored unless  *)
(* another save overtook it (mail-settings.service.ts).                     *)
THEOREM PasswordSurvives == MailerSpec => PasswordKept
<1>1. ASSUME MailInv, [MailerNext]_mailVars,
             setting # Absent, setting' # Absent, setting'.id = setting.id,
             setting'.password # setting.password
      PROVE  \E a \in Admins :
               LET call == mailCall[a, "save"]
               IN  /\ call # Absent /\ call.at = "save" /\ Saving(a)'
                   /\ call.typed # Absent \/ call.late
  <2>1. PICK a \in Admins : SaveWrite(a)
    BY <1>1, PasswordStep
  <2> DEFINE call == mailCall[<<a, "save">>]
  <2>2. call # Absent /\ call.at = "save" /\ SeesRow(call) /\ call \in SaveCall
    BY <1>1, <2>1, SaveCallFacts DEF SaveWrite
  <2>3. Saving(a)'
    <3> DEFINE c == [at |-> "saved", left |-> FALSE]
    <3>1. c \in WrittenCall /\ c.at = "saved"
      BY DEF WrittenCall
    <3>2. mailCall' = Overtaken([mailCall EXCEPT ![<<a, "save">>] = c])
      BY <2>1 DEF SaveWrite
    <3> HIDE DEF c
    <3>3. mailCall'[<<a, "save">>] = c
      BY <1>1, <3>1, <3>2, CallsLate, MailKeyFacts DEF MailInv
    <3>4. c # Absent
      BY <3>1, AbsentAssumption
    <3> QED BY <3>1, <3>3, <3>4 DEF Saving
  <2>4. call.typed # Absent \/ call.late
    <3>1. CASE call.old = Absent
      BY <1>1, <2>1, <3>1 DEF SaveWrite
    <3>2. CASE call.old # Absent /\ call.typed = Absent
      <4>1. setting'.password = call.old.password
        BY <2>1, <3>2 DEF SaveWrite, SavedRow, Written, StoredPassword
      <4> QED BY <1>1, <2>2, <3>2, <4>1 DEF SeesRow
    <3> QED BY <3>1, <3>2
  <2> QED BY <2>2, <2>3, <2>4
<1>2. MailInv /\ [MailerNext]_mailVars =>
        (setting # Absent /\ setting' # Absent /\ setting'.id = setting.id
           => \/ setting'.password = setting.password
              \/ \E a \in Admins :
                   LET call == mailCall[a, "save"]
                   IN  /\ call # Absent /\ call.at = "save" /\ Saving(a)'
                       /\ call.typed # Absent \/ call.late)
  BY <1>1
<1> QED BY MailInvariant, <1>2, PTL DEF MailerSpec, PasswordKept

-----------------------------------------------------------------------------
(* Roster: the invariant *)

(* A dialog on a role is never on one's own. *)
RoleDialogs ==
  \A a \in Consoles : dialog[a] # Closed /\ dialog[a].kind = "role" => dialog[a].who # a

RosterInv == RosterTypeOK /\ AdminRemains /\ RoleDialogs

LEMMA CurrentTable ==
  ASSUME RosterTypeOK
  PROVE  /\ Len(tables) \in 1..(MaxWrites + 1) /\ Len(tables) \in Nat \ {0}
         /\ users \in [People -> RowType]
<1>1. tables \in Seq([People -> RowType]) /\ Len(tables) \in 1..(MaxWrites + 1)
  BY DEF RosterTypeOK
<1>2. Len(tables) \in Nat \ {0}
  BY <1>1
<1>3. users \in [People -> RowType]
  BY <1>1, <1>2 DEF users
<1> QED BY <1>1, <1>2, <1>3

-----------------------------------------------------------------------------
(* Roster: steps of the page alone *)

TableKept == UNCHANGED <<tables, lapsed>>

LEMMA DialogStepKeeps ==
  ASSUME RosterInv, TableKept, holds' \subseteq Consoles, dialogs' \in 0..MaxDialogs,
         seen' \in [Consoles -> 0..(MaxWrites + 1)],
         dialog' \in [Consoles -> DialogType], RoleDialogs'
  PROVE  RosterInv'
<1>1. RosterTypeOK'
  BY DEF RosterInv, RosterTypeOK, TableKept
<1>2. AdminRemains'
  BY DEF RosterInv, AdminRemains, TableKept, users, IsAdmin
<1> QED BY <1>1, <1>2 DEF RosterInv

(* One console's dialog changes, to one it may have. *)
LEMMA OneDialog ==
  ASSUME RosterInv, NEW a \in Consoles, NEW d \in DialogType,
         dialog' = [dialog EXCEPT ![a] = d],
         d # Closed /\ d.kind = "role" => d.who # a
  PROVE  dialog' \in [Consoles -> DialogType] /\ RoleDialogs'
<1>1. dialog \in [Consoles -> DialogType]
  BY DEF RosterInv, RosterTypeOK
<1>2. dialog' \in [Consoles -> DialogType] /\ dialog'[a] = d
      /\ \A b \in Consoles \ {a} : dialog'[b] = dialog[b]
  BY <1>1
<1>3. ASSUME NEW b \in Consoles, dialog'[b] # Closed, dialog'[b].kind = "role"
      PROVE  dialog'[b].who # b
  BY <1>2, <1>3 DEF RosterInv, RoleDialogs
<1> QED BY <1>2, <1>3 DEF RoleDialogs

(* A dialog stays on what it is on, whatever its stage. *)
LEMMA DialogGoesOn ==
  ASSUME RosterInv, NEW a \in Consoles, NEW stage \in {"form", "sent", "report"},
         dialog[a] # Closed
  PROVE  LET d == [dialog[a] EXCEPT !.stage = stage]
         IN  d \in DialogType /\ (d # Closed /\ d.kind = "role" => d.who # a)
<1> DEFINE d == [dialog[a] EXCEPT !.stage = stage]
<1>1. dialog[a] \in DialogType \ {Closed}
  BY DEF RosterInv, RosterTypeOK
<1>2. d \in DialogType /\ d.kind = dialog[a].kind /\ d.who = dialog[a].who
  BY <1>1 DEF DialogType
<1> QED BY <1>2 DEF RosterInv, RoleDialogs

LEMMA ClosedIsDialog == Closed \in DialogType
BY DEF DialogType

LEMMA PageStepKeeps ==
  ASSUME RosterInv, NEW a \in Consoles,
         \/ Show(a) \/ ShowFails(a) \/ Submit(a) \/ Close(a) \/ Refuse(a)
         \/ Lapse(a) \/ Enter(a)
  PROVE  RosterInv'
<1> USE DEF TableKept
<1>1. /\ holds \subseteq Consoles /\ dialogs \in 0..MaxDialogs
      /\ seen \in [Consoles -> 0..(MaxWrites + 1)] /\ dialog \in [Consoles -> DialogType]
      /\ RoleDialogs
  BY DEF RosterInv, RosterTypeOK
<1>2. CASE Show(a)
  <2>1. seen' \in [Consoles -> 0..(MaxWrites + 1)]
    BY <1>1, <1>2, CurrentTable DEF Show, RosterInv
  <2>2. RoleDialogs'
    BY <1>1, <1>2 DEF Show, RoleDialogs
  <2> QED BY <1>1, <1>2, <2>1, <2>2, DialogStepKeeps DEF Show
<1>3. CASE ShowFails(a)
  <2>1. dialog' \in [Consoles -> DialogType] /\ RoleDialogs'
    BY <1>3, DialogGoesOn, OneDialog DEF ShowFails
  <2> QED BY <1>1, <1>3, <2>1, DialogStepKeeps DEF ShowFails
<1>4. CASE Submit(a)
  <2>1. dialog' \in [Consoles -> DialogType] /\ RoleDialogs'
    BY <1>4, DialogGoesOn, OneDialog DEF Submit
  <2> QED BY <1>1, <1>4, <2>1, DialogStepKeeps DEF Submit
<1>5. CASE Close(a)
  <2>1. dialog' \in [Consoles -> DialogType] /\ RoleDialogs'
    BY <1>5, ClosedIsDialog, OneDialog DEF Close
  <2> QED BY <1>1, <1>5, <2>1, DialogStepKeeps DEF Close
<1>6. CASE Refuse(a)
  <2>1. dialog' \in [Consoles -> DialogType] /\ RoleDialogs'
    <3>1. CASE dialog[a].kind = "activate"
      <4>1. dialog' = [dialog EXCEPT ![a] = Closed]
        BY <1>6, <3>1 DEF Refuse
      <4> QED BY <4>1, ClosedIsDialog, OneDialog
    <3>2. CASE dialog[a].kind # "activate"
      <4>1. dialog' = [dialog EXCEPT ![a] = [dialog[a] EXCEPT !.stage = "form"]]
        BY <1>6, <3>2 DEF Refuse
      <4> QED BY <1>6, <4>1, DialogGoesOn, OneDialog DEF Refuse, Waiting
    <3> QED BY <3>1, <3>2
  <2> QED BY <1>1, <1>6, <2>1, DialogStepKeeps DEF Refuse
<1>7. CASE Lapse(a)
  <2>1. dialog' \in [Consoles -> DialogType] /\ RoleDialogs'
    BY <1>7, ClosedIsDialog, OneDialog DEF Lapse
  <2>2. holds' \subseteq Consoles
    BY <1>1, <1>7 DEF Lapse
  <2> QED BY <1>1, <1>7, <2>1, <2>2, DialogStepKeeps DEF Lapse
<1>8. CASE Enter(a)
  <2>1. RoleDialogs'
    BY <1>1, <1>8 DEF Enter, RoleDialogs
  <2>2. holds' \subseteq Consoles /\ seen' \in [Consoles -> 0..(MaxWrites + 1)]
    BY <1>1, <1>8, RosterAssumption DEF Enter
  <2> QED BY <1>1, <1>8, <2>1, <2>2, DialogStepKeeps DEF Enter
<1> QED BY <1>2, <1>3, <1>4, <1>5, <1>6, <1>7, <1>8

(* A dialog is opened on a row that is listed; on a role, not on one's own. *)
LEMMA OpenKeeps ==
  ASSUME RosterInv, NEW a \in Consoles, NEW p \in People, NEW role \in Roles,
         \/ \E kind \in OnRow : OpenOnRow(a, kind, p, role)
         \/ \E kind \in OnNew : OpenOnNew(a, kind, p, role)
  PROVE  RosterInv'
<1>1. /\ holds \subseteq Consoles /\ dialogs \in 0..MaxDialogs /\ MaxDialogs \in Nat
      /\ seen \in [Consoles -> 0..(MaxWrites + 1)] /\ dialog \in [Consoles -> DialogType]
  BY RosterAssumption DEF RosterInv, RosterTypeOK
<1>2. PICK kind \in OnRow \cup OnNew, stage \in {"form", "sent"} :
        /\ dialog' = [dialog EXCEPT ![a] = Dialog(kind, p, role, seen[a], stage)]
        /\ seen[a] # 0 /\ NewDialog /\ (kind = "role" => p # a)
        /\ UNCHANGED <<tables, seen, holds, lapsed>>
  BY DEF OpenOnRow, OpenOnNew, Listed, OnNew
<1> DEFINE d == Dialog(kind, p, role, seen[a], stage)
<1>3. d \in DialogType /\ d.kind = kind /\ d.who = p
  <2>1. seen[a] \in 1..(MaxWrites + 1)
    BY <1>1, <1>2, RosterAssumption
  <2> QED BY <2>1 DEF Dialog, DialogType
<1> HIDE DEF d
<1>4. dialog' \in [Consoles -> DialogType] /\ RoleDialogs'
  BY <1>2, <1>3, OneDialog DEF d
<1>5. dialogs' \in 0..MaxDialogs
  BY <1>1, <1>2 DEF NewDialog
<1> QED BY <1>1, <1>2, <1>4, <1>5, DialogStepKeeps DEF TableKept

LEMMA ChooseRoleKeeps ==
  ASSUME RosterInv, NEW a \in Consoles, NEW role \in Roles, ChooseRole(a, role)
  PROVE  RosterInv'
<1> DEFINE d == [dialog[a] EXCEPT !.role = role]
<1>1. dialog[a] \in DialogType \ {Closed} /\ dialog[a].kind = "edit"
  BY DEF RosterInv, RosterTypeOK, ChooseRole
<1>2. d \in DialogType /\ d.kind = "edit"
  BY <1>1 DEF DialogType
<1>3. dialog' = [dialog EXCEPT ![a] = d]
  BY DEF ChooseRole
<1> HIDE DEF d
<1>4. dialog' \in [Consoles -> DialogType] /\ RoleDialogs'
  BY <1>2, <1>3, OneDialog
<1> QED BY <1>4, DialogStepKeeps DEF ChooseRole, RosterInv, RosterTypeOK, TableKept

-----------------------------------------------------------------------------
(* Roster: a request *)

(* The row a request leaves; on one's own row, an administrator stays one.  *)
LEMMA RowLeft ==
  ASSUME RosterInv, NEW a \in Consoles, Waiting(a), Accepted(a, dialog[a])
  PROVE  /\ dialog[a] \in DialogType \ {Closed} /\ dialog[a].who \in People
         /\ NewRow(a, dialog[a]) \in RowType
         /\ dialog[a].who = a /\ IsAdmin(users[a]) => IsAdmin(NewRow(a, dialog[a]))
<1> DEFINE d == dialog[a]
           row == users[d.who]
<1>1. d \in DialogType \ {Closed}
  BY DEF Waiting, RosterInv, RosterTypeOK
<1>2. d.kind \in OnRow \cup OnNew /\ d.who \in People /\ d.role \in Roles
  BY <1>1 DEF DialogType
<1>3. d.kind = "role" => d.who # a
  BY <1>1 DEF RosterInv, RoleDialogs
<1>4. row \in RowType
  BY <1>2, CurrentTable DEF RosterInv
<1>5. d.kind \in OnNew => row = Gone
  <2> SUFFICES ASSUME d.kind \in OnNew PROVE row = Gone
    OBVIOUS
  <2>1. \A i \in DOMAIN tables : tables[i][d.who] = Gone
    BY DEF Accepted
  <2>2. Len(tables) \in DOMAIN tables
    BY CurrentTable DEF RosterInv, RosterTypeOK
  <2> QED BY <2>1, <2>2 DEF users
<1>6. d.kind \in OnRow => row \in AccountRow
  BY <1>4 DEF Accepted, OnRow, OnNew, RowType
<1>7. /\ d.kind \in {"deactivate", "remove"} => d.who # a
  BY DEF Accepted, NotSelf, OnNew
<1>8. ASSUME d.kind \in OnRow, d.kind # "remove"
      PROVE  /\ NewRow(a, d) \in AccountRow
             /\ NewRow(a, d) =
                  [row EXCEPT !.role = NewRow(a, d).role, !.active = NewRow(a, d).active]
             /\ d.who = a /\ d.kind # "role" => NewRow(a, d).role = row.role
             /\ d.kind # "deactivate" /\ row.active => NewRow(a, d).active
  BY <1>2, <1>6, <1>8 DEF OnRow, OnNew, NewRow, Edited, AccountRow
<1>9. NewRow(a, d) \in RowType
  <2>1. CASE d.kind \in OnNew
    BY <1>2, <2>1 DEF OnNew, NewRow, RowType, AccountRow
  <2>2. CASE d.kind = "remove"
    BY <2>2 DEF NewRow, OnNew, RowType
  <2>3. CASE d.kind \in OnRow /\ d.kind # "remove"
    BY <1>8, <2>3 DEF RowType
  <2> QED BY <1>2, <2>1, <2>2, <2>3
<1>10. ASSUME d.who = a, IsAdmin(users[a])
       PROVE  IsAdmin(NewRow(a, d))
  <2>1. d.kind \in OnRow /\ d.kind \notin {"remove", "deactivate", "role"}
    BY <1>2, <1>3, <1>5, <1>7, <1>10 DEF IsAdmin
  <2>2. NewRow(a, d) \in AccountRow /\ NewRow(a, d).role = row.role /\ NewRow(a, d).active
    BY <1>8, <1>10, <2>1 DEF IsAdmin
  <2> QED BY <1>10, <2>2, GoneAssumption DEF IsAdmin
<1> QED BY <1>1, <1>2, <1>9, <1>10

(* What stands in for a dialog after its request *)
LEMMA AfterDialog ==
  ASSUME RosterInv, NEW a \in Consoles, Waiting(a),
         NEW after \in After(dialog[a]) \cup {[dialog[a] EXCEPT !.stage = "form"]}
  PROVE  after \in DialogType /\ (after # Closed /\ after.kind = "role" => after.who # a)
<1>1. after = Closed \/ \E stage \in {"form", "report"} : after = [dialog[a] EXCEPT !.stage = stage]
  BY DEF After, AfterReset, AfterImport, AfterCreate, AfterApproval, Reported
<1> QED BY <1>1, DialogGoesOn, ClosedIsDialog DEF Waiting

LEMMA ServeKeeps ==
  ASSUME RosterInv, NEW a \in Consoles, NEW heard \in BOOLEAN, Serve(a, heard)
  PROVE  RosterInv'
<1> DEFINE d == dialog[a]
           next == [users EXCEPT ![d.who] = NewRow(a, d)]
<1>1. /\ d.who \in People /\ NewRow(a, d) \in RowType
      /\ d.who = a /\ IsAdmin(users[a]) => IsAdmin(NewRow(a, d))
  BY RowLeft DEF Serve
<1>2. next \in [People -> RowType]
      /\ \A p \in People : next[p] = IF p = d.who THEN NewRow(a, d) ELSE users[p]
  BY <1>1, CurrentTable DEF RosterInv
<1>3. lapsed' = (lapsed \/ ~IsAdmin(users[a])) /\ UNCHANGED <<seen, dialogs, holds>>
  BY DEF Serve
<1>4. /\ tables' = tables \/ (Len(tables) =< MaxWrites /\ tables' = Append(tables, next))
      /\ users' = next
  <2>1. CASE next = users
    BY <2>1 DEF Serve, users
  <2>2. CASE next # users
    <3>1. Len(tables) =< MaxWrites /\ tables' = Append(tables, next)
      BY <2>2 DEF Serve
    <3>2. users' = next
      BY <1>2, <3>1, CurrentTable DEF users, RosterInv, RosterTypeOK
    <3> QED BY <3>1, <3>2
  <2> QED BY <2>1, <2>2
<1> HIDE DEF next
<1>5. tables' \in Seq([People -> RowType]) /\ Len(tables') \in 1..(MaxWrites + 1)
  <2>1. CASE tables' = tables
    BY <2>1 DEF RosterInv, RosterTypeOK
  <2>2. CASE Len(tables) =< MaxWrites /\ tables' = Append(tables, next)
    <3>1. tables \in Seq([People -> RowType]) /\ Len(tables) \in 1..(MaxWrites + 1)
      BY DEF RosterInv, RosterTypeOK
    <3> QED BY <1>2, <2>2, <3>1, RosterAssumption
  <2> QED BY <1>4, <2>1, <2>2
<1>6. dialog' \in [Consoles -> DialogType] /\ RoleDialogs'
  <2>1. PICK after \in After(d) \cup {[d EXCEPT !.stage = "form"]} :
          dialog' = [dialog EXCEPT ![a] = after]
    BY DEF Serve
  <2> QED BY <2>1, AfterDialog, OneDialog DEF Serve
<1>7. AdminRemains'
  <2>1. CASE lapsed \/ ~IsAdmin(users[a])
    BY <1>3, <2>1 DEF AdminRemains
  <2>2. CASE IsAdmin(users[a])
    <3>1. IsAdmin(next[a]) /\ a \in People
      BY <1>1, <1>2, <2>2, RosterAssumption
    <3> QED BY <1>4, <3>1 DEF AdminRemains
  <2> QED BY <2>1, <2>2
<1>8. RosterTypeOK'
  BY <1>3, <1>5, <1>6 DEF RosterInv, RosterTypeOK
<1> QED BY <1>6, <1>7, <1>8 DEF RosterInv

-----------------------------------------------------------------------------
(* Roster: the theorems *)

LEMMA RosterBegins == RosterInit => RosterInv
<1> SUFFICES ASSUME RosterInit PROVE RosterInv
  OBVIOUS
<1> DEFINE table == [ p \in People |->
                        IF p \in Consoles THEN [role |-> "ADMIN", active |-> TRUE] ELSE Gone ]
<1>1. tables = <<table>> /\ table \in [People -> RowType]
  BY DEF RosterInit, RowType, AccountRow, Roles
<1>2. users = table /\ Len(tables) = 1
  BY <1>1 DEF users
<1>3. RosterTypeOK
  <2>1. tables \in Seq([People -> RowType])
    BY <1>1
  <2>2. MaxWrites \in Nat /\ MaxDialogs \in Nat
    BY RosterAssumption
  <2>3. Len(tables) \in 1..(MaxWrites + 1) /\ 0 \in 0..(MaxWrites + 1) /\ 0 \in 0..MaxDialogs
    BY <1>2, <2>2
  <2> QED BY <2>1, <2>3 DEF RosterInit, RosterTypeOK, DialogType
<1>4. PICK a \in Consoles : a \in People
  BY RosterAssumption
<1>5. table[a] = [role |-> "ADMIN", active |-> TRUE]
  BY <1>4
<1>6. [role |-> "ADMIN", active |-> TRUE] # Gone
  <2>1. [role |-> "ADMIN", active |-> TRUE] \in AccountRow
    BY DEF AccountRow, Roles
  <2> QED BY <2>1, GoneAssumption
<1>7. AdminRemains
  BY <1>2, <1>4, <1>5, <1>6 DEF AdminRemains, IsAdmin
<1> QED BY <1>3, <1>7 DEF RosterInit, RosterInv, RoleDialogs

LEMMA RosterStepKeeps ==
  ASSUME RosterInv, [RosterNext]_rosterVars
  PROVE  RosterInv'
<1>1. ASSUME NEW a \in Consoles,
             \/ Show(a) \/ ShowFails(a) \/ Submit(a) \/ Close(a) \/ Refuse(a)
             \/ Lapse(a) \/ Enter(a)
      PROVE  RosterInv'
  BY <1>1, PageStepKeeps
<1>2. ASSUME NEW a \in Consoles, NEW kind \in OnRow, NEW p \in People, NEW role \in Roles,
             OpenOnRow(a, kind, p, role)
      PROVE  RosterInv'
  BY <1>2, OpenKeeps
<1>3. ASSUME NEW a \in Consoles, NEW kind \in OnNew, NEW p \in People, NEW role \in Roles,
             OpenOnNew(a, kind, p, role)
      PROVE  RosterInv'
  BY <1>3, OpenKeeps
<1>4. ASSUME NEW a \in Consoles, NEW role \in Roles, ChooseRole(a, role) PROVE RosterInv'
  BY <1>4, ChooseRoleKeeps
<1>5. ASSUME NEW a \in Consoles, NEW heard \in BOOLEAN, Serve(a, heard) PROVE RosterInv'
  BY <1>5, ServeKeeps
<1>6. CASE UNCHANGED rosterVars
  BY <1>6 DEF rosterVars, RosterInv, RosterTypeOK, AdminRemains, RoleDialogs, users, IsAdmin
<1> QED BY <1>1, <1>2, <1>3, <1>4, <1>5, <1>6 DEF RosterNext

(* An administrator remains whatever several of them do to each other in    *)
(* dialogs that were opened on older lists (users/page.tsx,                 *)
(* user-admin.service.ts).                                                  *)
THEOREM RosterInvariant == RosterSpec => []RosterInv
<1>1. RosterInv /\ [RosterNext]_rosterVars => RosterInv'
  BY RosterStepKeeps
<1> QED BY RosterBegins, <1>1, PTL DEF RosterSpec

(* The only step that changes a row is a request that is served.            *)
LEMMA RoleStep ==
  ASSUME RosterInv, [RosterNext]_rosterVars, NEW p \in People,
         users[p] # Gone, users'[p] # Gone, users'[p].role # users[p].role
  PROVE  \E a \in Consoles :
           LET d == dialog[a]
           IN  /\ Waiting(a) /\ d.who = p
               /\ \/ d.kind \in OnNew
                  \/ d.role = users'[p].role /\ tables[d.opened][p].role # d.role
                  \/ tables[d.opened][p].role # users[p].role
<1>1. tables' # tables
  BY DEF users
<1>2. PICK a \in Consoles, heard \in BOOLEAN : Serve(a, heard)
  BY <1>1 DEF RosterNext, rosterVars, Show, ShowFails, OpenOnRow, OpenOnNew, ChooseRole, Submit,
              Close, Refuse, Lapse, Enter
<1> DEFINE d == dialog[a]
           next == [users EXCEPT ![d.who] = NewRow(a, d)]
<1>3. d.who \in People /\ d \in DialogType \ {Closed} /\ NewRow(a, d) \in RowType
      /\ Waiting(a) /\ Accepted(a, d)
  BY <1>2, RowLeft DEF Serve
<1>4. users' = next
  <2>1. next # users /\ tables' = Append(tables, next)
    BY <1>1, <1>2 DEF Serve
  <2>2. next \in [People -> RowType]
    BY <1>3, CurrentTable DEF RosterInv
  <2> QED BY <2>1, <2>2, CurrentTable DEF users, RosterInv, RosterTypeOK
<1>5. d.who = p /\ users'[p] = NewRow(a, d)
  BY <1>3, <1>4, CurrentTable DEF RosterInv
<1>6. users[p] \in AccountRow
  BY CurrentTable DEF RosterInv, RowType
<1>7. CASE d.kind \in OnNew
  BY <1>3, <1>5, <1>7
<1>8. CASE d.kind \in OnRow
  <2>1. d.kind \in {"role", "edit"}
    BY <1>5, <1>6, <1>8 DEF OnRow, OnNew, NewRow, AccountRow
  <2>2. NewRow(a, d) = Edited(a, d)
    BY <2>1 DEF NewRow, OnNew
  <2>3. Edited(a, d).role = d.role
    BY <1>5, <1>6, <2>2 DEF Edited, AccountRow
  <2> QED BY <1>3, <1>5, <2>2, <2>3
<1> QED BY <1>3, <1>7, <1>8 DEF DialogType

(* Rights are where the administrators put them, and someone has them: a    *)
(* role that changes was chosen against the row shown, or the row shown was *)
(* out of date.                                                             *)
THEOREM RightsHold == RosterSpec => RolesHold
<1>1. RosterInv => RosterTypeOK /\ AdminRemains
  BY DEF RosterInv
<1>2. RosterInv /\ [RosterNext]_rosterVars =>
        (\A p \in People :
           users[p] # Gone /\ users'[p] # Gone /\ users'[p].role # users[p].role
             => \E a \in Consoles :
                  LET d == dialog[a]
                  IN  /\ Waiting(a) /\ d.who = p
                      /\ \/ d.kind \in OnNew
                         \/ d.role = users'[p].role /\ tables[d.opened][p].role # d.role
                         \/ tables[d.opened][p].role # users[p].role)
  BY RoleStep
<1> QED BY RosterInvariant, <1>1, <1>2, PTL DEF RosterSpec, RolesHold, RoleWasChosen

-----------------------------------------------------------------------------
(* Estate: the invariant *)

(* A room that is to come has no rules; the rules of the workspace and of a *)
(* category do not say who may book.                                        *)
RulesInv ==
  /\ \A r \in Rooms : rooms[r].is = "coming" => rulesOf[r] = NoRow
  /\ \A scope \in {"TENANT", "CATEGORY"} :
       rulesOf[scope] # NoRow => "allowed" \notin DOMAIN rulesOf[scope]

(* What a form of a room has read is what is stored, or late; and so is     *)
(* what a save has taken from one.                                          *)
FormSees(f) ==
  f # NoForm /\ f.kind = "room" /\ f.read \in {"answered", "shown"} =>
    f.late \/ f.rules = rulesOf[f.room]
SaveSees(s) ==
  s # NoSave /\ s.at \in {"room", "rules"} => s.unread \/ s.late \/ s.rest = rulesOf[s.room]

(* A plan that was checked has its pins on its floor, but for those that    *)
(* have left since.                                                         *)
PlanSees(s) ==
  s # NoSave /\ s.at = "plan" =>
    \A r \in s.pins : rooms[r].floor = s.floor \/ r \in s.left

ReadersSee ==
  \A a \in Managers : FormSees(form[a]) /\ SaveSees(saving[a])
PlannersSee == \A a \in Managers : PlanSees(saving[a])

ConsoleInv == EstateTypeOK /\ RulesInv /\ ReadersSee /\ PlannersSee /\ PinsOnFloor

Forms == RoomForm \cup PlanForm \cup {NoForm}
Saves == RoomSave \cup PlanSave \cup {NoSave}

-----------------------------------------------------------------------------
(* Estate: forms, saves and rules *)

LEMMA SetOfRules ==
  ASSUME NEW rules
  PROVE  rules \in RuleSets <=> rules \in [DOMAIN rules -> 0..1] /\ DOMAIN rules \subseteq Keys
<1>1. ASSUME rules \in RuleSets
      PROVE  rules \in [DOMAIN rules -> 0..1] /\ DOMAIN rules \subseteq Keys
  <2>1. PICK keys \in SUBSET Keys : rules \in [keys -> 0..1]
    BY <1>1 DEF RuleSets
  <2> QED BY <2>1
<1>2. ASSUME rules \in [DOMAIN rules -> 0..1], DOMAIN rules \subseteq Keys
      PROVE  rules \in RuleSets
  <2>1. DOMAIN rules \in SUBSET Keys
    BY <1>2
  <2> QED BY <1>2, <2>1 DEF RuleSets
<1> QED BY <1>1, <1>2

LEMMA FormKinds ==
  ASSUME NEW f \in Forms, f # NoForm
  PROVE  /\ f.kind = "room" => f \in RoomForm
         /\ f.kind = "plan" => f \in PlanForm
         /\ f.kind \in {"room", "plan"}
BY DEF Forms, RoomForm, PlanForm

LEMMA SaveKinds ==
  ASSUME NEW s \in Saves, s # NoSave
  PROVE  /\ s.at \in {"room", "rules"} => s \in RoomSave
         /\ s.at \in {"check", "plan"} => s \in PlanSave
         /\ s.at \in {"room", "rules", "check", "plan"}
BY DEF Saves, RoomSave, PlanSave

LEMMA OutdatedForm ==
  ASSUME NEW f \in Forms, NEW scope
  PROVE  LET g == Outdated(f, scope)
         IN  /\ g \in Forms /\ (f # NoForm => g # NoForm /\ g.kind = f.kind)
             /\ f # NoForm /\ f.kind = "room" =>
                  /\ g.room = f.room /\ g.read = f.read /\ g.rules = f.rules
                  /\ g.late = (f.late \/ (f.room = scope /\ f.read # "asked"))
             /\ f = NoForm => g = NoForm
<1> DEFINE g == [f EXCEPT !.late = f.late \/ f.read # "asked"]
<1>1. CASE f # NoForm /\ f.kind = "room" /\ f.room = scope
  <2>1. f \in RoomForm
    BY <1>1, FormKinds
  <2>2. /\ g \in RoomForm /\ g.kind = f.kind /\ g.room = f.room /\ g.read = f.read
        /\ g.rules = f.rules /\ g.late = (f.late \/ f.read # "asked")
    BY <2>1 DEF RoomForm
  <2>3. Outdated(f, scope) = g
    BY <1>1 DEF Outdated
  <2> HIDE DEF g
  <2> QED BY <1>1, <2>2, <2>3, NoneAssumption DEF Forms
<1>2. CASE ~(f # NoForm /\ f.kind = "room" /\ f.room = scope)
  <2>1. Outdated(f, scope) = f
    BY <1>2 DEF Outdated
  <2>2. f # NoForm /\ f.kind = "room" => f.late \in BOOLEAN
    BY FormKinds DEF RoomForm
  <2> QED BY <1>2, <2>1, <2>2
<1> QED BY <1>1, <1>2

LEMMA OutrunSave ==
  ASSUME NEW s \in Saves, NEW scope
  PROVE  LET t == Outrun(s, scope)
         IN  /\ t \in Saves /\ (s # NoSave => t # NoSave /\ t.at = s.at)
             /\ s # NoSave /\ s.at \in {"room", "rules"} =>
                  /\ t.room = s.room /\ t.rest = s.rest /\ t.unread = s.unread
                  /\ t.late = (s.late \/ s.room = scope)
             /\ s = NoSave \/ s.at \in {"check", "plan"} => t = s
<1> DEFINE t == [s EXCEPT !.late = TRUE]
<1>1. CASE s # NoSave /\ s.at \in {"room", "rules"} /\ s.room = scope
  <2>1. s \in RoomSave
    BY <1>1, SaveKinds
  <2>2. /\ t \in RoomSave /\ t.at = s.at /\ t.room = s.room /\ t.rest = s.rest
        /\ t.unread = s.unread /\ t.late
    BY <2>1 DEF RoomSave
  <2>3. Outrun(s, scope) = t
    BY <1>1 DEF Outrun
  <2> HIDE DEF t
  <2> QED BY <1>1, <2>2, <2>3, NoneAssumption DEF Saves
<1>2. CASE ~(s # NoSave /\ s.at \in {"room", "rules"} /\ s.room = scope)
  <2>1. Outrun(s, scope) = s
    BY <1>2 DEF Outrun
  <2>2. s # NoSave /\ s.at \in {"room", "rules"} => s.late \in BOOLEAN
    BY SaveKinds DEF RoomSave
  <2> QED BY <1>2, <2>1, <2>2
<1> QED BY <1>1, <1>2

LEMMA MissedSave ==
  ASSUME NEW s \in Saves, NEW leavers \in SUBSET Rooms
  PROVE  LET t == Missed(s, leavers)
         IN  /\ t \in Saves /\ (s # NoSave => t # NoSave /\ t.at = s.at)
             /\ s # NoSave /\ s.at = "plan" =>
                  t.floor = s.floor /\ t.pins = s.pins /\ t.left = s.left \cup leavers
             /\ s = NoSave \/ s.at # "plan" => t = s
<1> DEFINE t == [s EXCEPT !.left = s.left \cup leavers]
<1>1. CASE s # NoSave /\ s.at = "plan"
  <2>1. s \in PlanSave
    BY <1>1, SaveKinds
  <2>2. /\ t \in PlanSave /\ t.at = s.at /\ t.floor = s.floor /\ t.pins = s.pins
        /\ t.left = s.left \cup leavers
    BY <2>1 DEF PlanSave
  <2>3. Missed(s, leavers) = t
    BY <1>1 DEF Missed
  <2> HIDE DEF t
  <2> QED BY <1>1, <2>2, <2>3, NoneAssumption DEF Saves
<1>2. CASE ~(s # NoSave /\ s.at = "plan")
  BY <1>2 DEF Missed
<1> QED BY <1>1, <1>2

LEMMA EstateTypes ==
  ASSUME EstateTypeOK
  PROVE  /\ form \in [Managers -> Forms] /\ saving \in [Managers -> Saves]
         /\ opened \in 0..MaxForms /\ changed \in 0..MaxChanges
         /\ MaxForms \in Nat /\ MaxChanges \in Nat
BY EstateAssumption DEF EstateTypeOK, Forms, Saves

-----------------------------------------------------------------------------
(* Estate: steps that leave rooms and rules as they are *)

TablesKept == UNCHANGED <<floors, rooms, rulesOf, plans, strayed>>

(* A form comes, changes or goes; a save begins, goes on or ends. *)
LEMMA ClientStepKeeps ==
  ASSUME ConsoleInv, TablesKept, NEW a \in Managers, NEW f \in Forms, NEW s \in Saves,
         form' = [form EXCEPT ![a] = f], saving' = [saving EXCEPT ![a] = s],
         opened' \in 0..MaxForms, changed' \in 0..MaxChanges,
         FormSees(f), SaveSees(s), PlanSees(s)
  PROVE  ConsoleInv'
<1>1. form \in [Managers -> Forms] /\ saving \in [Managers -> Saves]
  BY EstateTypes DEF ConsoleInv
<1>2. form' \in [Managers -> Forms] /\ saving' \in [Managers -> Saves]
  BY <1>1
<1>3. EstateTypeOK'
  BY <1>2 DEF ConsoleInv, EstateTypeOK, TablesKept, Forms, Saves
<1>4. RulesInv' /\ PinsOnFloor'
  BY DEF ConsoleInv, RulesInv, PinsOnFloor, TablesKept
<1>5. ASSUME NEW b \in Managers
      PROVE  FormSees(form[b])' /\ SaveSees(saving[b])' /\ PlanSees(saving[b])'
  <2>1. FormSees(form'[b])
    BY <1>1 DEF ConsoleInv, ReadersSee
  <2>2. SaveSees(saving'[b]) /\ PlanSees(saving'[b])
    BY <1>1 DEF ConsoleInv, ReadersSee, PlannersSee
  <2> QED BY <2>1, <2>2 DEF TablesKept, FormSees, SaveSees, PlanSees
<1> QED BY <1>3, <1>4, <1>5 DEF ConsoleInv, ReadersSee, PlannersSee

LEMMA FormStepKeeps ==
  ASSUME ConsoleInv, NEW a \in Managers, NEW f \in Forms, Edit(a, f) \/ Open(a, f), FormSees(f)
  PROVE  ConsoleInv'
<1>1. TablesKept /\ form' = [form EXCEPT ![a] = f]
  BY DEF Edit, Open, TablesKept
<1>2. saving' = [saving EXCEPT ![a] = saving[a]] /\ saving[a] \in Saves
  BY EstateTypes DEF ConsoleInv, Edit, Open
<1>3. opened' \in 0..MaxForms /\ changed' \in 0..MaxChanges
  BY EstateTypes DEF ConsoleInv, Edit, Open
<1>4. SaveSees(saving[a]) /\ PlanSees(saving[a])
  BY DEF ConsoleInv, ReadersSee, PlannersSee
<1> QED BY <1>1, <1>2, <1>3, <1>4, ClientStepKeeps

LEMMA SaveStepKeeps ==
  ASSUME ConsoleInv, NEW a \in Managers, NEW s \in Saves,
         saving' = [saving EXCEPT ![a] = s],
         UNCHANGED <<floors, rooms, rulesOf, plans, form, opened, changed, strayed>>,
         SaveSees(s), PlanSees(s)
  PROVE  ConsoleInv'
<1>1. TablesKept
  BY DEF TablesKept
<1>2. form' = [form EXCEPT ![a] = form[a]] /\ form[a] \in Forms
  BY EstateTypes DEF ConsoleInv
<1>3. opened' \in 0..MaxForms /\ changed' \in 0..MaxChanges
  BY EstateTypes DEF ConsoleInv
<1>4. FormSees(form[a])
  BY DEF ConsoleInv, ReadersSee
<1> QED BY <1>1, <1>2, <1>3, <1>4, ClientStepKeeps

LEMMA RoomFormKeeps ==
  ASSUME ConsoleInv, NEW a \in Managers,
         \/ \E r \in Rooms, add \in BOOLEAN : OpenRoom(a, r, add)
         \/ RulesAnswer(a) \/ RulesArrive(a) \/ ReadingFails(a) \/ CloseForm(a)
  PROVE  ConsoleInv'
<1>1. form[a] \in Forms /\ FormSees(form[a])
  BY EstateTypes DEF ConsoleInv, ReadersSee
<1>2. ASSUME NEW r \in Rooms, NEW add \in BOOLEAN, OpenRoom(a, r, add)
      PROVE  ConsoleInv'
  <2> DEFINE f == [ kind |-> "room", room |-> r, add |-> add,
                    read |-> IF add THEN "shown" ELSE "asked", rules |-> NoRow, late |-> FALSE ]
  <2>1. f \in Forms /\ f.room = r /\ f.rules = NoRow /\ (f.read \in {"answered", "shown"} => add)
    BY DEF Forms, RoomForm, Readings
  <2>2. Open(a, f) /\ (add => rooms[r].is = "coming")
    BY <1>2 DEF OpenRoom
  <2> HIDE DEF f
  <2>3. FormSees(f)
    BY <2>1, <2>2 DEF FormSees, ConsoleInv, RulesInv
  <2> QED BY <2>1, <2>2, <2>3, FormStepKeeps
<1>3. CASE RulesAnswer(a)
  <2> DEFINE f == [form[a] EXCEPT !.read = "answered", !.rules = rulesOf[form[a].room]]
  <2>1. form[a] \in RoomForm
    BY <1>1, <1>3, FormKinds DEF RulesAnswer, HasForm
  <2>2. rulesOf[form[a].room] \in RuleSets \cup {NoRow}
    BY <2>1 DEF RoomForm, ConsoleInv, EstateTypeOK, Scopes
  <2>3. f \in Forms /\ f.rules = rulesOf[f.room]
    BY <2>1, <2>2 DEF Forms, RoomForm, Readings
  <2>4. Edit(a, f)
    BY <1>3 DEF RulesAnswer
  <2> HIDE DEF f
  <2> QED BY <2>3, <2>4, FormStepKeeps DEF FormSees
<1>4. CASE RulesArrive(a)
  <2> DEFINE f == [form[a] EXCEPT !.read = "shown"]
  <2>1. form[a] \in RoomForm /\ form[a] # NoForm /\ form[a].read = "answered"
    BY <1>1, <1>4, FormKinds DEF RulesArrive, HasForm
  <2>2. /\ f \in Forms /\ f.rules = form[a].rules /\ f.room = form[a].room
        /\ f.late = form[a].late
    BY <2>1 DEF Forms, RoomForm, Readings
  <2>3. Edit(a, f)
    BY <1>4 DEF RulesArrive
  <2>4. form[a].kind = "room"
    BY <1>4 DEF RulesArrive, HasForm
  <2> HIDE DEF f
  <2> QED BY <1>1, <2>1, <2>2, <2>3, <2>4, FormStepKeeps DEF FormSees
<1>5. CASE ReadingFails(a)
  <2> DEFINE f == [form[a] EXCEPT !.read = "failed"]
  <2>1. form[a] \in RoomForm \cup PlanForm /\ form[a].read = "asked"
    BY <1>1, <1>5 DEF ReadingFails, Forms
  <2>2. f \in Forms /\ f.read = "failed"
    BY <2>1 DEF Forms, RoomForm, PlanForm, Readings
  <2>3. Edit(a, f)
    BY <1>5 DEF ReadingFails
  <2> HIDE DEF f
  <2> QED BY <2>2, <2>3, FormStepKeeps DEF FormSees
<1>6. CASE CloseForm(a)
  BY <1>6, FormStepKeeps DEF CloseForm, Forms, FormSees
<1> QED BY <1>2, <1>3, <1>4, <1>5, <1>6

LEMMA PlanFormKeeps ==
  ASSUME ConsoleInv, NEW a \in Managers,
         \/ \E f \in Floors : OpenPlan(a, f)
         \/ \E r \in Rooms : Place(a, r) \/ Unpin(a, r)
         \/ PlanArrives(a)
  PROVE  ConsoleInv'
<1>1. form[a] \in Forms
  BY EstateTypes DEF ConsoleInv
<1>2. PICK f \in PlanForm : Edit(a, f) \/ Open(a, f)
  <2>1. ASSUME NEW e \in Floors, OpenPlan(a, e)
        PROVE  \E f \in PlanForm : Edit(a, f) \/ Open(a, f)
    BY <2>1 DEF OpenPlan, PlanForm, Readings
  <2>2. ASSUME HasForm(a, "plan") PROVE form[a] \in PlanForm
    BY <1>1, <2>2, FormKinds DEF HasForm
  <2>3. ASSUME NEW r \in Rooms, Place(a, r) \/ Unpin(a, r)
        PROVE  \E f \in PlanForm : Edit(a, f) \/ Open(a, f)
    <3>1. form[a] \in PlanForm
      BY <2>2, <2>3 DEF Place, Unpin
    <3>2. [form[a] EXCEPT !.pins = form[a].pins \cup {r}] \in PlanForm
          /\ [form[a] EXCEPT !.pins = form[a].pins \ {r}] \in PlanForm
      BY <3>1 DEF PlanForm
    <3> QED BY <2>3, <3>2 DEF Place, Unpin
  <2>4. ASSUME PlanArrives(a)
        PROVE  \E f \in PlanForm : Edit(a, f) \/ Open(a, f)
    <3>1. form[a] \in PlanForm /\ plans[form[a].floor] \in SUBSET Rooms
      BY <2>2, <2>4 DEF PlanArrives, PlanForm, ConsoleInv, EstateTypeOK
    <3>2. [ form[a] EXCEPT !.read = "shown", !.pins = plans[form[a].floor],
              !.listed = { r \in Rooms : rooms[r].floor = form[a].floor } ] \in PlanForm
      BY <3>1 DEF PlanForm, Readings
    <3> QED BY <2>4, <3>2 DEF PlanArrives
  <2> QED BY <2>1, <2>3, <2>4
<1>3. f \in Forms /\ f.kind = "plan"
  BY DEF Forms, PlanForm
<1> QED BY <1>2, <1>3, FormStepKeeps DEF FormSees

LEMMA SaveBeginsKeeps ==
  ASSUME ConsoleInv, NEW a \in Managers,
         \/ \E floor \in Floors \cup {Nowhere}, choice \in Choices : SaveRoom(a, floor, choice)
         \/ SavePlan(a) \/ EstateSaveFails(a)
  PROVE  ConsoleInv'
<1>1. form[a] \in Forms /\ FormSees(form[a])
  BY EstateTypes DEF ConsoleInv, ReadersSee
<1>2. ASSUME NEW floor \in Floors \cup {Nowhere}, NEW choice \in Choices,
             SaveRoom(a, floor, choice)
      PROVE  ConsoleInv'
  <2> DEFINE shown == form[a].read = "shown"
             s == [ at |-> "room", room |-> form[a].room, add |-> form[a].add, floor |-> floor,
                    rest |-> IF shown THEN form[a].rules ELSE NoRow, choice |-> choice,
                    unread |-> ~shown, late |-> form[a].late ]
  <2>1. form[a] \in RoomForm /\ form[a] # NoForm /\ form[a].kind = "room"
    BY <1>1, <1>2, FormKinds DEF SaveRoom, HasForm
  <2>2. s \in RoomSave
    BY <2>1 DEF RoomSave, RoomForm
  <2>3. s \in Saves /\ s.at = "room" /\ (s.unread \/ s.late \/ s.rest = rulesOf[s.room])
    BY <1>1, <2>1, <2>2 DEF Saves, FormSees
  <2>4. Begins(a, s)
    BY <1>2 DEF SaveRoom
  <2> HIDE DEF s
  <2> QED BY <2>3, <2>4, SaveStepKeeps DEF Begins, SaveSees, PlanSees
<1>3. CASE SavePlan(a)
  <2> DEFINE s == [ at |-> "check", floor |-> form[a].floor, pins |-> form[a].pins,
                    left |-> {} ]
  <2>1. form[a] \in PlanForm
    BY <1>1, <1>3, FormKinds DEF SavePlan, HasForm
  <2>2. s \in Saves /\ s.at = "check"
    BY <2>1 DEF Saves, PlanSave, PlanForm
  <2>3. Begins(a, s)
    BY <1>3 DEF SavePlan
  <2> HIDE DEF s
  <2> QED BY <2>2, <2>3, SaveStepKeeps DEF Begins, SaveSees, PlanSees
<1>4. CASE EstateSaveFails(a)
  BY <1>4, SaveStepKeeps DEF EstateSaveFails, Saves, SaveSees, PlanSees
<1> QED BY <1>2, <1>3, <1>4

LEMMA CheckPlanKeeps ==
  ASSUME ConsoleInv, NEW a \in Managers, CheckPlan(a)
  PROVE  ConsoleInv'
<1> DEFINE save == saving[a]
           s == [save EXCEPT !.at = "plan"]
<1>1. save \in PlanSave
  BY SaveKinds, EstateTypes DEF CheckPlan, ConsoleInv
<1>2. s \in PlanSave /\ s.at = "plan" /\ s.pins = save.pins /\ s.floor = save.floor
  BY <1>1 DEF PlanSave
<1>3. saving' = [saving EXCEPT ![a] = s]
  BY DEF CheckPlan
<1> HIDE DEF s
<1>4. SaveSees(s) /\ PlanSees(s)
  BY <1>2 DEF CheckPlan, NoStray, SaveSees, PlanSees
<1> QED BY <1>2, <1>3, <1>4, SaveStepKeeps DEF CheckPlan, Saves

-----------------------------------------------------------------------------
(* Estate: steps that write *)

(* A scope's rules are written, for the workspace or a category without     *)
(* saying who may book: whoever had read them is late.                      *)
LEMMA RulesWritten ==
  ASSUME ConsoleInv, NEW scope \in Scopes, NEW rules \in RuleSets \cup {NoRow},
         rulesOf' = [rulesOf EXCEPT ![scope] = rules],
         scope \notin Rooms => rules = NoRow \/ "allowed" \notin DOMAIN rules,
         scope \in Rooms => rules = NoRow \/ rooms'[scope].is # "coming",
         \A r \in Rooms : rooms'[r].is = "coming" => rooms[r].is = "coming",
         \A b \in Managers : form'[b] \in {NoForm, Outdated(form[b], scope)}
  PROVE  /\ rulesOf' \in [Scopes -> RuleSets \cup {NoRow}] /\ RulesInv'
         /\ \A b \in Managers : form'[b] \in Forms /\ FormSees(form[b])'
<1>1. rulesOf \in [Scopes -> RuleSets \cup {NoRow}] /\ form \in [Managers -> Forms]
      /\ {"TENANT", "CATEGORY"} \cup Rooms \subseteq Scopes
      /\ Rooms \cap {"TENANT", "CATEGORY"} = {}
  BY EstateTypes, EstateAssumption DEF ConsoleInv, EstateTypeOK, Scopes
<1>2. rulesOf' \in [Scopes -> RuleSets \cup {NoRow}]
      /\ \A other \in Scopes : rulesOf'[other] = IF other = scope THEN rules ELSE rulesOf[other]
  BY <1>1
<1>3. RulesInv'
  <2>1. ASSUME NEW r \in Rooms, rooms'[r].is = "coming" PROVE rulesOf'[r] = NoRow
    BY <1>1, <1>2, <2>1 DEF ConsoleInv, RulesInv
  <2>2. ASSUME NEW other \in {"TENANT", "CATEGORY"}, rulesOf'[other] # NoRow
        PROVE  "allowed" \notin DOMAIN rulesOf'[other]
    <3>1. other \in Scopes /\ other \notin Rooms
      BY <1>1
    <3>2. CASE other = scope
      BY <1>2, <2>2, <3>1, <3>2
    <3>3. CASE other # scope
      <4>1. rulesOf'[other] = rulesOf[other]
        BY <1>2, <3>1, <3>3
      <4> QED BY <2>2, <4>1 DEF ConsoleInv, RulesInv
    <3> QED BY <3>2, <3>3
  <2> QED BY <2>1, <2>2 DEF RulesInv
<1>4. ASSUME NEW b \in Managers
      PROVE  form'[b] \in Forms /\ FormSees(form[b])'
  <2> DEFINE f == form[b]
             g == Outdated(f, scope)
  <2>1. f \in Forms /\ FormSees(f)
    BY <1>1 DEF ConsoleInv, ReadersSee
  <2>2. g \in Forms
    BY <2>1, OutdatedForm
  <2>3. CASE form'[b] = NoForm
    BY <2>3 DEF FormSees, Forms
  <2>4. CASE form'[b] = g
    <3>1. ASSUME g # NoForm, g.kind = "room", g.read \in {"answered", "shown"}
          PROVE  g.late \/ g.rules = rulesOf'[g.room]
      <4>1. f # NoForm /\ f.kind = "room"
        BY <2>1, <3>1, OutdatedForm
      <4>2. /\ g.room = f.room /\ g.read = f.read /\ g.rules = f.rules
            /\ g.late = (f.late \/ (f.room = scope /\ f.read # "asked"))
        BY <2>1, <4>1, OutdatedForm
      <4>3. f.room \in Rooms
        BY <2>1, <4>1, FormKinds DEF RoomForm
      <4> HIDE DEF g, f
      <4> QED BY <1>1, <1>2, <2>1, <3>1, <4>1, <4>2, <4>3 DEF FormSees
    <3> QED BY <2>2, <2>4, <3>1 DEF FormSees
  <2> QED BY <2>3, <2>4
<1> QED BY <1>2, <1>3, <1>4

(* A save goes on that was under way, and is late if it had read the scope. *)
LEMMA SaveOutrun ==
  ASSUME ConsoleInv, NEW scope \in Scopes, NEW rules \in RuleSets \cup {NoRow},
         rulesOf' = [rulesOf EXCEPT ![scope] = rules], NEW b \in Managers
  PROVE  LET t == Outrun(saving[b], scope)
         IN  /\ t \in Saves /\ PlanSees(t)
             /\ t # NoSave /\ t.at \in {"room", "rules"} =>
                  t.unread \/ t.late \/ t.rest = rulesOf'[t.room]
<1> DEFINE s == saving[b]
           t == Outrun(s, scope)
<1>1. s \in Saves /\ SaveSees(s) /\ PlanSees(s) /\ t \in Saves
  BY EstateTypes, OutrunSave DEF ConsoleInv, ReadersSee, PlannersSee
<1>2. PlanSees(t)
  <2>1. CASE s = NoSave \/ s.at \in {"check", "plan"}
    BY <1>1, <2>1, OutrunSave
  <2>2. CASE s # NoSave /\ s.at \in {"room", "rules"}
    BY <1>1, <2>2, OutrunSave DEF PlanSees
  <2> QED BY <1>1, <2>1, <2>2, SaveKinds
<1>3. ASSUME t # NoSave, t.at \in {"room", "rules"}
      PROVE  t.unread \/ t.late \/ t.rest = rulesOf'[t.room]
  <2>1. s # NoSave /\ s.at \in {"room", "rules"}
    BY <1>1, <1>3, OutrunSave
  <2>2. /\ t.room = s.room /\ t.rest = s.rest /\ t.unread = s.unread
        /\ t.late = (s.late \/ s.room = scope)
    BY <1>1, <2>1, OutrunSave
  <2>3. s.room \in Scopes
    BY <1>1, <2>1, SaveKinds DEF RoomSave, Scopes
  <2>4. s.room # scope => rulesOf'[s.room] = rulesOf[s.room]
    BY <2>3 DEF ConsoleInv, EstateTypeOK
  <2> HIDE DEF s, t
  <2> QED BY <1>1, <2>1, <2>2, <2>4 DEF SaveSees
<1> QED BY <1>1, <1>2, <1>3

LEMMA RuleStepKeeps ==
  ASSUME ConsoleInv, NEW scope \in Scopes, NEW rules \in RuleSets \cup {NoRow},
         rulesOf' = [rulesOf EXCEPT ![scope] = rules],
         scope \notin Rooms => rules = NoRow \/ "allowed" \notin DOMAIN rules,
         scope \in Rooms => rules = NoRow \/ rooms[scope].is # "coming",
         UNCHANGED <<floors, rooms, plans, strayed>>,
         opened' \in 0..MaxForms, changed' \in 0..MaxChanges,
         DOMAIN form' = Managers, form' = [b \in Managers |-> form'[b]],
         saving' = [b \in Managers |-> saving'[b]],
         \A b \in Managers : form'[b] \in {NoForm, Outdated(form[b], scope)},
         \A b \in Managers : saving'[b] \in {NoSave, Outrun(saving[b], scope)}
  PROVE  ConsoleInv'
<1>1. /\ rulesOf' \in [Scopes -> RuleSets \cup {NoRow}] /\ RulesInv'
      /\ \A b \in Managers : form'[b] \in Forms /\ FormSees(form[b])'
  BY RulesWritten
<1>2. ASSUME NEW b \in Managers
      PROVE  saving'[b] \in Saves /\ SaveSees(saving[b])' /\ PlanSees(saving[b])'
  <2>1. CASE saving'[b] = NoSave
    BY <2>1 DEF Saves, SaveSees, PlanSees
  <2>2. CASE saving'[b] = Outrun(saving[b], scope)
    <3>1. saving'[b] \in Saves /\ SaveSees(saving[b])'
      BY <2>2, SaveOutrun DEF SaveSees
    <3>2. PlanSees(saving'[b])
      BY <2>2, SaveOutrun
    <3> QED BY <3>1, <3>2 DEF PlanSees
  <2> QED BY <2>1, <2>2
<1>3. form' \in [Managers -> Forms] /\ saving' \in [Managers -> Saves]
  BY <1>1, <1>2
<1>4. EstateTypeOK'
  BY <1>1, <1>3 DEF ConsoleInv, EstateTypeOK, Forms, Saves
<1>5. PinsOnFloor'
  BY DEF ConsoleInv, PinsOnFloor
<1> QED BY <1>1, <1>2, <1>4, <1>5 DEF ConsoleInv, ReadersSee, PlannersSee

LEMMA ChangeCounted ==
  ASSUME ConsoleInv, Change
  PROVE  changed' \in 0..MaxChanges
BY EstateTypes DEF Change, ConsoleInv

LEMMA PolicyKeeps ==
  ASSUME ConsoleInv, NEW a \in Managers, NEW scope \in Scopes,
         RemovePolicy(a, scope) \/ \E rules \in PolicyFormRules(scope) : SavePolicy(a, scope, rules)
  PROVE  ConsoleInv'
<1>1. PICK rules \in RuleSets \cup {NoRow} :
        /\ rulesOf' = [rulesOf EXCEPT ![scope] = rules]
        /\ scope \notin Rooms => rules = NoRow \/ "allowed" \notin DOMAIN rules
        /\ scope \in Rooms => rules = NoRow \/ Known(scope)
  <2>1. CASE RemovePolicy(a, scope)
    BY <2>1 DEF RemovePolicy, Store
  <2>2. ASSUME NEW rules \in PolicyFormRules(scope), SavePolicy(a, scope, rules)
        PROVE  /\ rules \in RuleSets /\ (scope \notin Rooms => "allowed" \notin DOMAIN rules)
               /\ scope \in Rooms => Known(scope)
               /\ rulesOf' = [rulesOf EXCEPT ![scope] = rules]
    BY <2>2 DEF PolicyFormRules, SavePolicy, Store
  <2> QED BY <2>1, <2>2
<1>2. /\ UNCHANGED <<floors, rooms, plans, strayed, opened>> /\ Change
      /\ form' = [b \in Managers |-> Outdated(form[b], scope)]
      /\ saving' = [b \in Managers |-> Outrun(saving[b], scope)]
  BY DEF RemovePolicy, SavePolicy, Store
<1>3. opened' \in 0..MaxForms /\ changed' \in 0..MaxChanges
  BY <1>2, EstateTypes, ChangeCounted DEF ConsoleInv
<1>4. /\ DOMAIN form' = Managers /\ form' = [b \in Managers |-> form'[b]]
      /\ saving' = [b \in Managers |-> saving'[b]]
      /\ \A b \in Managers : form'[b] = Outdated(form[b], scope)
      /\ \A b \in Managers : saving'[b] = Outrun(saving[b], scope)
  BY <1>2
<1>5. scope \in Rooms => rules = NoRow \/ rooms[scope].is # "coming"
  BY <1>1 DEF Known
<1> QED BY <1>1, <1>2, <1>3, <1>4, <1>5, RuleStepKeeps

LEMMA SentRules ==
  ASSUME NEW save \in RoomSave
  PROVE  /\ RulesSent(save) \in RuleSets /\ "allowed" \in DOMAIN RulesSent(save)
         /\ RulesSent(save)["allowed"] = ListSent(save)
         /\ save.rest = NoRow => DOMAIN RulesSent(save) = {"allowed"}
         /\ save.rest # NoRow =>
              /\ DOMAIN RulesSent(save) = {"allowed"} \cup DOMAIN save.rest
              /\ \A k \in DOMAIN save.rest \ {"allowed"} : RulesSent(save)[k] = save.rest[k]
<1> DEFINE rules == RulesSent(save)
<1>1. ListSent(save) \in 0..1
  BY DEF ListSent
<1>2. save.rest \in RuleSets \cup {NoRow}
  BY DEF RoomSave
<1>3. CASE save.rest = NoRow
  <2>1. rules \in [{"allowed"} -> 0..1] /\ rules["allowed"] = ListSent(save)
    BY <1>1, <1>3 DEF RulesSent
  <2>2. {"allowed"} \subseteq Keys
    BY DEF Keys
  <2> HIDE DEF rules
  <2> QED BY <1>3, <2>1, <2>2, SetOfRules DEF rules
<1>4. CASE save.rest # NoRow
  <2>1. save.rest \in [DOMAIN save.rest -> 0..1] /\ DOMAIN save.rest \subseteq Keys
    BY <1>2, <1>4, SetOfRules
  <2>2. /\ DOMAIN rules = {"allowed"} \cup DOMAIN save.rest
        /\ \A k \in DOMAIN rules : rules[k] = IF k = "allowed" THEN ListSent(save) ELSE save.rest[k]
        /\ rules = [k \in DOMAIN rules |-> rules[k]]
    BY <1>4 DEF RulesSent
  <2>3. DOMAIN rules \subseteq Keys
    BY <2>1, <2>2 DEF Keys
  <2> HIDE DEF rules
  <2>4. rules \in [DOMAIN rules -> 0..1]
    BY <1>1, <2>1, <2>2
  <2>5. rules \in RuleSets
    BY <2>3, <2>4, SetOfRules
  <2> QED BY <1>4, <2>2, <2>5 DEF rules
<1> QED BY <1>3, <1>4

LEMMA PutRulesKeeps ==
  ASSUME ConsoleInv, NEW a \in Managers, PutRules(a)
  PROVE  ConsoleInv'
<1> DEFINE save == saving[a]
           scope == save.room
           rules == RulesSent(save)
<1>1. save \in RoomSave /\ scope \in Rooms
  BY SaveKinds, EstateTypes DEF PutRules, ConsoleInv, RoomSave
<1>2. scope \in Scopes /\ rules \in RuleSets
  BY <1>1, SentRules DEF Scopes
<1>3. /\ rulesOf' = [rulesOf EXCEPT ![scope] = rules] /\ rooms[scope].is # "coming"
      /\ UNCHANGED <<floors, rooms, plans, opened, changed, strayed>>
      /\ form' = [b \in Managers |-> IF b = a THEN NoForm ELSE Outdated(form[b], scope)]
      /\ saving' = [b \in Managers |-> IF b = a THEN NoSave ELSE Outrun(saving[b], scope)]
  BY DEF PutRules, Known
<1>4. opened' \in 0..MaxForms /\ changed' \in 0..MaxChanges
  BY <1>3, EstateTypes DEF ConsoleInv
<1>5. /\ DOMAIN form' = Managers /\ form' = [b \in Managers |-> form'[b]]
      /\ saving' = [b \in Managers |-> saving'[b]]
      /\ \A b \in Managers : form'[b] \in {NoForm, Outdated(form[b], scope)}
      /\ \A b \in Managers : saving'[b] \in {NoSave, Outrun(saving[b], scope)}
  BY <1>3
<1> HIDE DEF rules, scope
<1> QED BY <1>1, <1>2, <1>3, <1>4, <1>5, RuleStepKeeps

(* Rooms leave their floors: a plan that was checked knows. *)
LEMMA PlanMissed ==
  ASSUME ConsoleInv, NEW leavers \in SUBSET Rooms,
         \A r \in Rooms \ leavers : rooms'[r].floor = rooms[r].floor,
         NEW s \in Saves, PlanSees(s)
  PROVE  LET t == Missed(s, leavers)
         IN  /\ t \in Saves
             /\ t # NoSave /\ t.at = "plan" =>
                  \A r \in t.pins : rooms'[r].floor = t.floor \/ r \in t.left
             /\ t # NoSave /\ t.at # "plan" => t = s
             /\ s = NoSave => t = NoSave
<1> DEFINE t == Missed(s, leavers)
<1>1. CASE s # NoSave /\ s.at = "plan"
  <2>1. /\ t \in Saves /\ t.at = "plan" /\ t.floor = s.floor /\ t.pins = s.pins
        /\ t.left = s.left \cup leavers
    BY <1>1, MissedSave
  <2>2. s.pins \subseteq Rooms
    BY <1>1, SaveKinds DEF PlanSave
  <2>3. \A r \in t.pins : rooms'[r].floor = t.floor \/ r \in t.left
    BY <1>1, <2>1, <2>2 DEF PlanSees
  <2> QED BY <1>1, <2>1, <2>3
<1>2. CASE ~(s # NoSave /\ s.at = "plan")
  BY <1>2 DEF Missed
<1> QED BY <1>1, <1>2

LEMMA StrayedPins ==
  ASSUME EstateTypeOK, NEW leavers \in SUBSET Rooms
  PROVE  /\ Leaving(leavers) \subseteq Floors \X Rooms /\ strayed \subseteq Leaving(leavers)
         /\ \A f \in Floors, r \in leavers : r \in plans[f] => <<f, r>> \in Leaving(leavers)
BY DEF EstateTypeOK, Leaving

LEMMA PinsLeave ==
  ASSUME ConsoleInv, NEW leavers \in SUBSET Rooms,
         \A r \in Rooms \ leavers : rooms'[r].floor = rooms[r].floor,
         plans' = plans, strayed' = Leaving(leavers)
  PROVE  PinsOnFloor' /\ strayed' \subseteq Floors \X Rooms
<1>1. EstateTypeOK /\ PinsOnFloor /\ \A f \in Floors : plans[f] \subseteq Rooms
  BY DEF ConsoleInv, EstateTypeOK
<1>2. ASSUME NEW f \in Floors, NEW r \in plans[f]
      PROVE  rooms'[r].floor = f \/ <<f, r>> \in Leaving(leavers)
  <2>1. CASE r \in leavers
    BY <1>1, <2>1, StrayedPins
  <2>2. CASE r \notin leavers
    BY <1>1, <2>2, StrayedPins DEF PinsOnFloor
  <2> QED BY <2>1, <2>2
<1> QED BY <1>1, <1>2, StrayedPins DEF PinsOnFloor

LEMMA PutRoomKeeps ==
  ASSUME ConsoleInv, NEW a \in Managers, PutRoom(a)
  PROVE  ConsoleInv'
<1> DEFINE save == saving[a]
           r    == save.room
           to   == IF save.floor = Nowhere THEN rooms[r].floor ELSE save.floor
           gone == IF to # rooms[r].floor THEN {r} ELSE {}
           next(b) == IF b # a THEN saving[b]
                      ELSE IF WritesRules(save) THEN [save EXCEPT !.at = "rules"] ELSE NoSave
<1>1. save \in RoomSave /\ save # NoSave /\ save.at = "room" /\ r \in Rooms
  BY SaveKinds, EstateTypes DEF PutRoom, ConsoleInv, RoomSave
<1>2. /\ rooms' = [rooms EXCEPT ![r] = [rooms[r] EXCEPT !.is = "there", !.floor = to]]
      /\ strayed' = Leaving(gone)
      /\ saving' = [b \in Managers |-> Missed(next(b), gone)]
      /\ form' = IF WritesRules(save) THEN form ELSE [form EXCEPT ![a] = NoForm]
      /\ UNCHANGED <<floors, rulesOf, plans, opened, changed>>
  BY DEF PutRoom
<1>3. rooms[r] \in RoomType /\ to \in Floors \cup {Nowhere} /\ rooms \in [Rooms -> RoomType]
  BY <1>1 DEF ConsoleInv, EstateTypeOK, RoomType, RoomSave
<1>4. /\ rooms' \in [Rooms -> RoomType] /\ rooms'[r].is = "there" /\ rooms'[r].floor = to
      /\ \A other \in Rooms \ {r} : rooms'[other] = rooms[other]
  BY <1>1, <1>2, <1>3 DEF RoomType
<1>5. gone \in SUBSET Rooms /\ \A other \in Rooms \ gone : rooms'[other].floor = rooms[other].floor
  BY <1>1, <1>4
<1>6. ASSUME NEW b \in Managers
      PROVE  next(b) \in Saves /\ SaveSees(next(b)) /\ PlanSees(next(b))
  <2>1. saving[b] \in Saves /\ SaveSees(saving[b]) /\ PlanSees(saving[b])
    BY EstateTypes DEF ConsoleInv, ReadersSee, PlannersSee
  <2>2. CASE b # a
    BY <2>1, <2>2
  <2>3. CASE b = a /\ WritesRules(save)
    <3> DEFINE s == [save EXCEPT !.at = "rules"]
    <3>1. /\ s \in Saves /\ s.at = "rules" /\ s.rest = save.rest /\ s.room = save.room
          /\ s.unread = save.unread /\ s.late = save.late
      BY <1>1 DEF RoomSave, Saves
    <3>2. next(b) = s
      BY <2>3
    <3> HIDE DEF s, next
    <3> QED BY <1>1, <2>1, <2>3, <3>1, <3>2 DEF SaveSees, PlanSees
  <2>4. CASE b = a /\ ~WritesRules(save)
    BY <2>4 DEF Saves, SaveSees, PlanSees
  <2> QED BY <2>2, <2>3, <2>4
<1> HIDE DEF next, gone, to
<1>7. ASSUME NEW b \in Managers
      PROVE  saving'[b] \in Saves /\ SaveSees(saving[b])' /\ PlanSees(saving[b])'
  <2>1. saving'[b] = Missed(next(b), gone)
    BY <1>2
  <2>2. saving'[b] \in Saves /\ PlanSees(saving[b])'
    BY <1>5, <1>6, <2>1, PlanMissed DEF PlanSees
  <2>3. saving'[b] # NoSave /\ saving'[b].at # "plan" => saving'[b] = next(b)
    BY <1>5, <1>6, <2>1, PlanMissed
  <2>4. SaveSees(saving[b])'
    BY <1>2, <1>6, <2>3 DEF SaveSees
  <2> QED BY <2>2, <2>4
<1>8. saving' \in [Managers -> Saves]
  BY <1>2, <1>7
<1>9. form' \in [Managers -> Forms] /\ \A b \in Managers : FormSees(form[b])'
  <2>1. form \in [Managers -> Forms] /\ \A b \in Managers : FormSees(form[b])
    BY EstateTypes DEF ConsoleInv, ReadersSee
  <2>2. \A b \in Managers : form'[b] \in {form[b], NoForm}
    BY <1>2, <2>1
  <2> QED BY <1>2, <2>1, <2>2 DEF FormSees, Forms
<1>10. PinsOnFloor' /\ strayed' \subseteq Floors \X Rooms
  BY <1>2, <1>5, PinsLeave
<1>11. RulesInv'
  BY <1>1, <1>2, <1>4 DEF ConsoleInv, RulesInv
<1>12. EstateTypeOK'
  BY <1>2, <1>4, <1>8, <1>9, <1>10 DEF ConsoleInv, EstateTypeOK, Forms, Saves
<1> QED BY <1>7, <1>9, <1>10, <1>11, <1>12 DEF ConsoleInv, ReadersSee, PlannersSee

LEMMA RemoveRoomKeeps ==
  ASSUME ConsoleInv, NEW a \in Managers, NEW r \in Rooms, RemoveRoom(a, r)
  PROVE  ConsoleInv'
<1>1. /\ Change /\ rulesOf' = [rulesOf EXCEPT ![r] = NoRow] /\ strayed' = Leaving({r})
      /\ rooms' = [rooms EXCEPT ![r] = [rooms[r] EXCEPT !.is = "gone", !.floor = Nowhere]]
      /\ form' = [b \in Managers |-> Outdated(form[b], r)]
      /\ saving' = [b \in Managers |-> Missed(Outrun(saving[b], r), {r})]
      /\ UNCHANGED <<floors, plans, opened>>
  BY DEF RemoveRoom, Store
<1>2. rooms \in [Rooms -> RoomType]
  BY DEF ConsoleInv, EstateTypeOK
<1>3. /\ rooms' \in [Rooms -> RoomType] /\ rooms'[r].is = "gone"
      /\ \A other \in Rooms \ {r} : rooms'[other] = rooms[other]
  BY <1>1, <1>2 DEF RoomType
<1>4. r \in Scopes /\ {r} \in SUBSET Rooms
      /\ \A other \in Rooms \ {r} : rooms'[other].floor = rooms[other].floor
  BY <1>3 DEF Scopes
<1>5. /\ rulesOf' \in [Scopes -> RuleSets \cup {NoRow}] /\ RulesInv'
      /\ \A b \in Managers : form'[b] \in Forms /\ FormSees(form[b])'
  <2>1. \A other \in Rooms : rooms'[other].is = "coming" => rooms[other].is = "coming"
    BY <1>3
  <2>2. \A b \in Managers : form'[b] \in {NoForm, Outdated(form[b], r)}
    BY <1>1
  <2> QED BY <1>1, <1>4, <2>1, <2>2, RulesWritten
<1>6. ASSUME NEW b \in Managers
      PROVE  saving'[b] \in Saves /\ SaveSees(saving[b])' /\ PlanSees(saving[b])'
  <2> DEFINE s == Outrun(saving[b], r)
  <2>1. /\ s \in Saves /\ PlanSees(s)
        /\ s # NoSave /\ s.at \in {"room", "rules"} =>
             s.unread \/ s.late \/ s.rest = rulesOf'[s.room]
    BY <1>1, <1>4, SaveOutrun
  <2>2. saving'[b] = Missed(s, {r})
    BY <1>1
  <2> HIDE DEF s
  <2>3. saving'[b] \in Saves /\ PlanSees(saving[b])'
    BY <1>4, <2>1, <2>2, PlanMissed DEF PlanSees
  <2>4. saving'[b] # NoSave /\ saving'[b].at # "plan" => saving'[b] = s
    BY <1>4, <2>1, <2>2, PlanMissed
  <2> QED BY <2>1, <2>3, <2>4 DEF SaveSees
<1>7. form' \in [Managers -> Forms] /\ saving' \in [Managers -> Saves]
  BY <1>1, <1>5, <1>6
<1>8. PinsOnFloor' /\ strayed' \subseteq Floors \X Rooms
  BY <1>1, <1>4, PinsLeave
<1>9. EstateTypeOK'
  BY <1>1, <1>3, <1>5, <1>7, <1>8, ChangeCounted DEF ConsoleInv, EstateTypeOK, Forms, Saves
<1> QED BY <1>5, <1>6, <1>8, <1>9 DEF ConsoleInv, ReadersSee, PlannersSee

LEMMA FloorsGoneKeeps ==
  ASSUME ConsoleInv, NEW gone \in SUBSET Floors, FloorsGone(gone)
  PROVE  ConsoleInv'
<1> DEFINE without == { r \in Rooms : rooms[r].floor \in gone }
<1>1. /\ Change /\ UNCHANGED <<rulesOf, form, opened>>
      /\ floors' = [f \in Floors |-> IF f \in gone THEN "gone" ELSE floors[f]]
      /\ plans' = [f \in Floors |-> IF f \in gone THEN {} ELSE plans[f]]
      /\ rooms' = [ r \in Rooms |->
                      IF r \in without THEN [rooms[r] EXCEPT !.floor = Nowhere] ELSE rooms[r] ]
      /\ strayed' = { pin \in strayed : pin[1] \notin gone }
      /\ saving' = [b \in Managers |-> Missed(saving[b], without)]
  BY DEF FloorsGone
<1>2. EstateTypeOK /\ PinsOnFloor
  BY DEF ConsoleInv
<1>3. /\ floors' \in [Floors -> {"coming", "there", "gone"}] /\ plans' \in [Floors -> SUBSET Rooms]
      /\ strayed' \subseteq Floors \X Rooms
  BY <1>1, <1>2 DEF EstateTypeOK
<1>4. /\ rooms' \in [Rooms -> RoomType]
      /\ \A r \in Rooms : rooms'[r].is = rooms[r].is
      /\ \A r \in Rooms \ without : rooms'[r].floor = rooms[r].floor
  <2>1. rooms \in [Rooms -> RoomType]
    BY <1>2 DEF EstateTypeOK
  <2> QED BY <1>1, <2>1 DEF RoomType
<1>5. ASSUME NEW f \in Floors, NEW r \in plans'[f]
      PROVE  rooms'[r].floor = f \/ <<f, r>> \in strayed'
  <2>1. f \notin gone /\ r \in plans[f] /\ r \in Rooms
    BY <1>1, <1>2 DEF EstateTypeOK
  <2>2. rooms[r].floor = f \/ <<f, r>> \in strayed
    BY <1>2, <2>1 DEF PinsOnFloor
  <2>3. r \in without => rooms[r].floor # f
    BY <2>1
  <2>4. <<f, r>> \in strayed => <<f, r>> \in strayed'
    BY <1>1, <2>1
  <2> QED BY <1>4, <2>1, <2>2, <2>3, <2>4
<1>6. without \in SUBSET Rooms
  OBVIOUS
<1> HIDE DEF without
<1>7. ASSUME NEW b \in Managers
      PROVE  /\ saving'[b] \in Saves /\ SaveSees(saving[b])' /\ PlanSees(saving[b])'
             /\ FormSees(form[b])'
  <2>1. saving[b] \in Saves /\ SaveSees(saving[b]) /\ PlanSees(saving[b]) /\ FormSees(form[b])
    BY EstateTypes DEF ConsoleInv, ReadersSee, PlannersSee
  <2>2. saving'[b] = Missed(saving[b], without)
    BY <1>1
  <2>3. saving'[b] \in Saves /\ PlanSees(saving[b])'
    BY <1>4, <1>6, <2>1, <2>2, PlanMissed DEF PlanSees
  <2>4. saving'[b] # NoSave /\ saving'[b].at # "plan" => saving'[b] = saving[b]
    BY <1>4, <1>6, <2>1, <2>2, PlanMissed
  <2> QED BY <1>1, <2>1, <2>3, <2>4 DEF SaveSees, FormSees
<1>8. saving' \in [Managers -> Saves]
  BY <1>1, <1>7
<1>9. EstateTypeOK'
  BY <1>1, <1>2, <1>3, <1>4, <1>8, ChangeCounted DEF EstateTypeOK, Saves
<1>10. RulesInv'
  BY <1>1, <1>4 DEF ConsoleInv, RulesInv
<1> QED BY <1>5, <1>7, <1>9, <1>10 DEF ConsoleInv, ReadersSee, PlannersSee, PinsOnFloor

LEMMA AddFloorKeeps ==
  ASSUME ConsoleInv, NEW a \in Managers, NEW f \in Floors, AddFloor(a, f)
  PROVE  ConsoleInv'
<1>1. EstateTypeOK'
  BY ChangeCounted DEF AddFloor, ConsoleInv, EstateTypeOK
<1>2. RulesInv' /\ ReadersSee' /\ PlannersSee' /\ PinsOnFloor'
  BY DEF AddFloor, ConsoleInv, RulesInv, ReadersSee, FormSees, SaveSees, PlannersSee, PlanSees,
         PinsOnFloor
<1> QED BY <1>1, <1>2 DEF ConsoleInv

(* A plan is written as it was checked: pins that have left are strayed. *)
LEMMA WritePlanKeeps ==
  ASSUME ConsoleInv, NEW a \in Managers, WritePlan(a)
  PROVE  ConsoleInv'
<1> DEFINE save == saving[a]
           f    == save.floor
<1>1. save \in PlanSave /\ save # NoSave /\ save.at = "plan" /\ f \in Floors
      /\ save.pins \subseteq Rooms
  BY SaveKinds, EstateTypes DEF WritePlan, ConsoleInv, PlanSave
<1>2. /\ plans' = [plans EXCEPT ![f] = save.pins]
      /\ strayed' = { pin \in strayed : pin[1] # f } \cup ({f} \X (save.pins \cap save.left))
      /\ saving' = [saving EXCEPT ![a] = NoSave] /\ form' = [form EXCEPT ![a] = NoForm]
      /\ UNCHANGED <<floors, rooms, rulesOf, opened, changed>>
  BY DEF WritePlan, Done
<1>3. plans' \in [Floors -> SUBSET Rooms] /\ strayed' \subseteq Floors \X Rooms
  BY <1>1, <1>2 DEF ConsoleInv, EstateTypeOK
<1>4. PinsOnFloor'
  <2>1. ASSUME NEW e \in Floors, NEW r \in plans'[e]
        PROVE  rooms[r].floor = e \/ <<e, r>> \in strayed'
    <3>1. CASE e = f
      <4>1. r \in save.pins
        BY <1>1, <1>2, <3>1 DEF ConsoleInv, EstateTypeOK
      <4>2. rooms[r].floor = f \/ r \in save.left
        BY <1>1, <4>1 DEF ConsoleInv, PlannersSee, PlanSees
      <4> QED BY <1>2, <3>1, <4>1, <4>2
    <3>2. CASE e # f
      <4>1. r \in plans[e]
        BY <1>2, <3>2 DEF ConsoleInv, EstateTypeOK
      <4>2. rooms[r].floor = e \/ <<e, r>> \in strayed
        BY <4>1 DEF ConsoleInv, PinsOnFloor
      <4> QED BY <1>2, <3>2, <4>2
    <3> QED BY <3>1, <3>2
  <2> QED BY <1>2, <2>1 DEF PinsOnFloor
<1>5. form \in [Managers -> Forms] /\ saving \in [Managers -> Saves]
  BY EstateTypes DEF ConsoleInv
<1>6. \A b \in Managers : form'[b] \in {form[b], NoForm} /\ saving'[b] \in {saving[b], NoSave}
  BY <1>2, <1>5
<1>7. form' \in [Managers -> Forms] /\ saving' \in [Managers -> Saves]
  BY <1>2, <1>5 DEF Forms, Saves
<1>8. ReadersSee' /\ PlannersSee'
  BY <1>2, <1>6 DEF ConsoleInv, ReadersSee, PlannersSee, FormSees, SaveSees, PlanSees
<1>9. EstateTypeOK'
  BY <1>2, <1>3, <1>7 DEF ConsoleInv, EstateTypeOK, Forms, Saves
<1>10. RulesInv'
  BY <1>2 DEF ConsoleInv, RulesInv
<1> QED BY <1>4, <1>8, <1>9, <1>10 DEF ConsoleInv

-----------------------------------------------------------------------------
(* Estate: the theorems *)

LEMMA EstateBegins == EstateInit => ConsoleInv
<1> SUFFICES ASSUME EstateInit PROVE ConsoleInv
  OBVIOUS
<1>1. ASSUME NEW keys \in SUBSET Keys PROVE [k \in keys |-> 1] \in RuleSets
  <2>1. [k \in keys |-> 1] \in [keys -> 0..1]
    OBVIOUS
  <2> QED BY <2>1 DEF RuleSets
<1>2. rulesOf \in [Scopes -> RuleSets \cup {NoRow}]
  <2>1. {"approval"} \in SUBSET Keys /\ {"hours", "allowed"} \in SUBSET Keys
    BY DEF Keys
  <2> QED BY <1>1, <2>1 DEF EstateInit
<1>3. rooms \in [Rooms -> RoomType] /\ floors \in [Floors -> {"coming", "there", "gone"}]
  BY DEF EstateInit, RoomType
<1>4. EstateTypeOK
  BY <1>2, <1>3, EstateAssumption DEF EstateInit, EstateTypeOK
<1>5. RulesInv
  BY DEF EstateInit, RulesInv, Known
<1> QED
  BY <1>4, <1>5 DEF EstateInit, ConsoleInv, ReadersSee, PlannersSee, FormSees, SaveSees, PlanSees,
                    PinsOnFloor

LEMMA EstateStepKeeps ==
  ASSUME ConsoleInv, [EstateNext]_estateVars
  PROVE  ConsoleInv'
<1>1. CASE \/ \E f \in Floors : RemoveFloor(f)
           \/ \E gone \in SUBSET Floors : RemoveBuilding(gone)
  BY <1>1, FloorsGoneKeeps DEF RemoveFloor, RemoveBuilding
<1>2. ASSUME NEW a \in Managers,
             \/ \E r \in Rooms, add \in BOOLEAN : OpenRoom(a, r, add)
             \/ RulesAnswer(a) \/ RulesArrive(a) \/ ReadingFails(a) \/ CloseForm(a)
      PROVE  ConsoleInv'
  BY <1>2, RoomFormKeeps
<1>3. ASSUME NEW a \in Managers,
             \/ \E f \in Floors : OpenPlan(a, f)
             \/ \E r \in Rooms : Place(a, r) \/ Unpin(a, r)
             \/ PlanArrives(a)
      PROVE  ConsoleInv'
  BY <1>3, PlanFormKeeps
<1>4. ASSUME NEW a \in Managers,
             \/ \E floor \in Floors \cup {Nowhere}, choice \in Choices :
                  SaveRoom(a, floor, choice)
             \/ SavePlan(a) \/ EstateSaveFails(a)
      PROVE  ConsoleInv'
  BY <1>4, SaveBeginsKeeps
<1>5. ASSUME NEW a \in Managers, PutRoom(a) \/ PutRules(a) PROVE ConsoleInv'
  BY <1>5, PutRoomKeeps, PutRulesKeeps
<1>6. ASSUME NEW a \in Managers, NEW scope \in Scopes,
             \/ RemovePolicy(a, scope)
             \/ \E rules \in PolicyFormRules(scope) : SavePolicy(a, scope, rules)
      PROVE  ConsoleInv'
  BY <1>6, PolicyKeeps
<1>7. ASSUME NEW a \in Managers, NEW r \in Rooms, RemoveRoom(a, r) PROVE ConsoleInv'
  BY <1>7, RemoveRoomKeeps
<1>8. ASSUME NEW a \in Managers, NEW f \in Floors, AddFloor(a, f) PROVE ConsoleInv'
  BY <1>8, AddFloorKeeps
<1>9. ASSUME NEW a \in Managers, CheckPlan(a) \/ WritePlan(a) PROVE ConsoleInv'
  BY <1>9, CheckPlanKeeps, WritePlanKeeps
<1>10. CASE UNCHANGED estateVars
  BY <1>10 DEF estateVars, ConsoleInv, EstateTypeOK, RulesInv, ReadersSee, FormSees, SaveSees,
               PlannersSee, PlanSees, PinsOnFloor
<1> QED BY <1>1, <1>2, <1>3, <1>4, <1>5, <1>6, <1>7, <1>8, <1>9, <1>10 DEF EstateNext

(* What the forms of rooms and plans have read is what is stored, or they   *)
(* are known to be late (resources, policies and locations pages).          *)
THEOREM EstateInvariant == EstateSpec => []ConsoleInv
<1>1. ConsoleInv /\ [EstateNext]_estateVars => ConsoleInv'
  BY EstateStepKeeps
<1> QED BY EstateBegins, <1>1, PTL DEF EstateSpec

(* A plan shows only rooms of its floor, and those that left it after they  *)
(* were checked (location.service.ts).                                      *)
THEOREM EstateSafe == EstateSpec => []EstateInv
<1>1. ConsoleInv => EstateInv
  BY DEF ConsoleInv, EstateInv
<1> QED BY EstateInvariant, <1>1, PTL

(* The rules in force, key by key *)
LEMMA OverrideAt ==
  ASSUME NEW base, NEW rules, NEW k \in Keys
  PROVE  Override(base, rules)[k] =
           IF rules # NoRow /\ k \in DOMAIN rules THEN rules[k] ELSE base[k]
BY DEF Override

Above(table, category) ==
  Override(Override(DefaultRules, table["TENANT"]),
           IF category THEN table["CATEGORY"] ELSE NoRow)

LEMMA EffectiveAt ==
  ASSUME NEW table, NEW r, NEW category \in BOOLEAN, NEW k \in Keys
  PROVE  Effective(table, r, category)[k] =
           IF table[r] # NoRow /\ k \in DOMAIN table[r] THEN table[r][k]
           ELSE Above(table, category)[k]
<1>1. Effective(table, r, category) = Override(Above(table, category), table[r])
  BY DEF Effective, Above
<1> QED BY <1>1, OverrideAt

(* Without a say of the workspace or the category, anyone may book.         *)
LEMMA AnyoneAbove ==
  ASSUME RulesInv, NEW category \in BOOLEAN
  PROVE  Above(rulesOf, category)["allowed"] = 0
<1>1. "allowed" \in Keys /\ DefaultRules["allowed"] = 0
  BY DEF Keys, DefaultRules
<1> DEFINE tenant == Override(DefaultRules, rulesOf["TENANT"])
           next == IF category THEN rulesOf["CATEGORY"] ELSE NoRow
<1>2. tenant["allowed"] = 0
  BY <1>1, OverrideAt DEF RulesInv
<1>3. next = NoRow \/ "allowed" \notin DOMAIN next
  BY DEF RulesInv
<1>4. Above(rulesOf, category) = Override(tenant, next)
  BY DEF Above
<1> HIDE DEF tenant, next
<1> QED BY <1>1, <1>2, <1>3, <1>4, OverrideAt

(* A save is over when its requests are, or when one of them fails. *)
LEMMA SaveEnds ==
  ASSUME ConsoleInv, [EstateNext]_estateVars, NEW a \in Managers,
         saving[a] # NoSave, saving'[a] = NoSave
  PROVE  \/ PutRoom(a) /\ ~WritesRules(saving[a])
         \/ PutRules(a) \/ EstateSaveFails(a) \/ WritePlan(a)
<1>1. saving \in [Managers -> Saves] /\ saving[a] \in Saves
  BY EstateTypes DEF ConsoleInv
<1>2. \A scope : Outrun(saving[a], scope) \in Saves /\ Outrun(saving[a], scope) # NoSave
  BY <1>1, OutrunSave
<1>3. \A s \in Saves, leavers \in SUBSET Rooms : s # NoSave => Missed(s, leavers) # NoSave
  BY MissedSave
<1>4. saving' # saving
  OBVIOUS
<1>5. ASSUME NEW gone \in SUBSET Floors, FloorsGone(gone) PROVE FALSE
  <2> DEFINE without == { r \in Rooms : rooms[r].floor \in gone }
  <2>1. without \in SUBSET Rooms /\ saving'[a] = Missed(saving[a], without)
    BY <1>5 DEF FloorsGone
  <2> HIDE DEF without
  <2> QED BY <1>1, <1>3, <2>1
<1>6. ASSUME NEW b \in Managers, PutRoom(b), ~(b = a /\ ~WritesRules(saving[a])) PROVE FALSE
  <2> DEFINE save == saving[b]
             r    == save.room
             to   == IF save.floor = Nowhere THEN rooms[r].floor ELSE save.floor
             gone == IF to # rooms[r].floor THEN {r} ELSE {}
             s    == IF a # b THEN saving[a] ELSE [save EXCEPT !.at = "rules"]
  <2>1. saving'[a] = Missed(s, gone)
    BY <1>6 DEF PutRoom
  <2>2. save \in RoomSave
    BY <1>1, <1>6, SaveKinds DEF PutRoom
  <2>3. gone \in SUBSET Rooms
    BY <2>2 DEF RoomSave
  <2>4. s \in Saves /\ s # NoSave
    <3>1. [save EXCEPT !.at = "rules"] \in RoomSave
      BY <2>2 DEF RoomSave
    <3> QED BY <1>1, <3>1, NoneAssumption DEF Saves
  <2> HIDE DEF s, gone
  <2> QED BY <1>3, <2>1, <2>3, <2>4
<1>7. ASSUME NEW b \in Managers, PutRules(b), b # a PROVE FALSE
  BY <1>2, <1>7 DEF PutRules
<1>8. ASSUME NEW b \in Managers, NEW scope \in Scopes,
             \/ RemovePolicy(b, scope)
             \/ \E rules \in PolicyFormRules(scope) : SavePolicy(b, scope, rules)
      PROVE  FALSE
  BY <1>2, <1>8 DEF RemovePolicy, SavePolicy
<1>9. ASSUME NEW b \in Managers, NEW r \in Rooms, RemoveRoom(b, r) PROVE FALSE
  <2>1. saving'[a] = Missed(Outrun(saving[a], r), {r}) /\ {r} \in SUBSET Rooms
    BY <1>9 DEF RemoveRoom
  <2> QED BY <1>2, <1>3, <2>1
<1>10. ASSUME NEW b \in Managers, NEW s, Begins(b, s) PROVE FALSE
  BY <1>1, <1>10 DEF Begins
<1>11. ASSUME NEW b \in Managers, CheckPlan(b) PROVE FALSE
  <2>1. b = a /\ saving'[a] = [saving[a] EXCEPT !.at = "plan"]
    BY <1>1, <1>4, <1>11 DEF CheckPlan
  <2>2. saving[a] \in PlanSave
    BY <1>1, <1>11, <2>1, SaveKinds DEF CheckPlan
  <2>3. [saving[a] EXCEPT !.at = "plan"] \in PlanSave
    BY <2>2 DEF PlanSave
  <2> QED BY <2>1, <2>3, NoneAssumption
<1>12. ASSUME NEW b \in Managers, EstateSaveFails(b) \/ WritePlan(b), b # a PROVE FALSE
  BY <1>1, <1>12 DEF EstateSaveFails, WritePlan, Done
<1>13. ASSUME UNCHANGED saving PROVE FALSE
  BY <1>4, <1>13
<1> QED
  BY <1>5, <1>6, <1>7, <1>8, <1>9, <1>10, <1>11, <1>12, <1>13
     DEF EstateNext, estateVars, RemoveFloor, RemoveBuilding, OpenRoom, Open, RulesAnswer,
         RulesArrive, ReadingFails, CloseForm, Edit, SaveRoom, AddFloor, OpenPlan, Place, Unpin,
         PlanArrives, SavePlan

LEMMA OthersKept ==
  ASSUME ConsoleInv, [EstateNext]_estateVars, NEW a \in Managers,
         saving[a] # NoSave, saving[a].at = "rules", saving'[a] = NoSave,
         ~saving[a].unread, ~saving[a].late, NEW k \in Keys \ {"allowed"}
  PROVE  RulesAfter(saving[a].room)[k] =
           Effective(rulesOf, saving[a].room, rooms[saving[a].room].category)[k]
<1> DEFINE save == saving[a]
           r == save.room
<1>1. save \in RoomSave /\ r \in Rooms /\ save.rest = rulesOf[r]
  BY EstateTypes, SaveKinds DEF ConsoleInv, ReadersSee, SaveSees, RoomSave
<1>2. rooms[r].category \in BOOLEAN
  BY <1>1 DEF ConsoleInv, EstateTypeOK, RoomType
<1>3. CASE EstateSaveFails(a)
  BY <1>3 DEF EstateSaveFails, RulesAfter
<1>4. CASE PutRules(a)
  <2>1. rulesOf' = [rulesOf EXCEPT ![r] = RulesSent(save)] /\ rooms' = rooms
    BY <1>4 DEF PutRules
  <2>2. rulesOf'[r] = RulesSent(save) /\ Above(rulesOf', rooms[r].category)
                                            = Above(rulesOf, rooms[r].category)
    <3>1. r \in Scopes /\ r \notin {"TENANT", "CATEGORY"}
      BY <1>1, EstateAssumption DEF Scopes
    <3>2. rulesOf'["TENANT"] = rulesOf["TENANT"] /\ rulesOf'["CATEGORY"] = rulesOf["CATEGORY"]
      BY <2>1, <3>1
    <3>3. rulesOf'[r] = RulesSent(save)
      BY <2>1, <3>1 DEF ConsoleInv, EstateTypeOK
    <3> QED BY <3>2, <3>3 DEF Above
  <2>3. RulesSent(save) # NoRow
    BY <1>1, SentRules, NoneAssumption
  <2>4. RulesAfter(r) = Effective(rulesOf', r, rooms[r].category)
    BY <2>1 DEF RulesAfter
  <2>5. RulesAfter(r)[k] = IF k \in DOMAIN RulesSent(save) THEN RulesSent(save)[k]
                           ELSE Above(rulesOf, rooms[r].category)[k]
    BY <1>2, <2>2, <2>3, <2>4, EffectiveAt
  <2>6. Effective(rulesOf, r, rooms[r].category)[k] =
          IF save.rest # NoRow /\ k \in DOMAIN save.rest THEN save.rest[k]
          ELSE Above(rulesOf, rooms[r].category)[k]
    BY <1>1, <1>2, EffectiveAt
  <2>7. RulesAfter(r)[k] = Effective(rulesOf, r, rooms[r].category)[k]
    <3> HIDE DEF save, r
    <3> QED BY <1>1, <2>5, <2>6, SentRules
  <2> QED BY <2>7
<1>5. ~PutRoom(a) /\ ~WritePlan(a)
  BY DEF PutRoom, WritePlan
<1> QED BY <1>3, <1>4, <1>5, SaveEnds

LEMMA AllowedAsShown ==
  ASSUME ConsoleInv, [EstateNext]_estateVars, NEW a \in Managers,
         saving[a] # NoSave, saving[a].at \in {"room", "rules"}, saving'[a] = NoSave,
         form[a] # NoForm, form'[a] = NoForm, ~saving[a].unread, ~saving[a].late
  PROVE  RulesAfter(saving[a].room)["allowed"] = ListSent(saving[a])
<1> DEFINE save == saving[a]
           r == save.room
<1>1. save \in RoomSave /\ r \in Rooms /\ save.rest = rulesOf[r] /\ "allowed" \in Keys
  BY EstateTypes, SaveKinds DEF ConsoleInv, ReadersSee, SaveSees, RoomSave, Keys
<1>2. \A category : Effective(rulesOf', r, category)["allowed"] =
                      Override(Above(rulesOf', category), rulesOf'[r])["allowed"]
  BY DEF Effective, Above
<1>3. CASE PutRoom(a) /\ ~WritesRules(save)
  <2>1. save.choice = "anyone" /\ rulesOf[r] = NoRow /\ rulesOf' = rulesOf
    BY <1>1, <1>3 DEF PutRoom, WritesRules
  <2>2. rooms'[r].category \in BOOLEAN
    BY <1>3, PutRoomKeeps, <1>1 DEF ConsoleInv, EstateTypeOK, RoomType
  <2>3. Above(rulesOf, rooms'[r].category)["allowed"] = 0
    BY <2>2, AnyoneAbove DEF ConsoleInv
  <2>4. RulesAfter(r)["allowed"] = Above(rulesOf, rooms'[r].category)["allowed"]
    BY <1>1, <2>1, <2>2, EffectiveAt DEF RulesAfter
  <2> QED BY <2>1, <2>3, <2>4 DEF ListSent
<1>4. CASE PutRules(a)
  <2>1. rulesOf'[r] = RulesSent(save) /\ rooms' = rooms
    BY <1>1, <1>4 DEF PutRules, ConsoleInv, EstateTypeOK, Scopes
  <2>2. RulesSent(save) # NoRow /\ "allowed" \in DOMAIN RulesSent(save)
        /\ RulesSent(save)["allowed"] = ListSent(save)
    BY <1>1, SentRules, NoneAssumption
  <2>3. RulesAfter(r)["allowed"] = RulesSent(save)["allowed"]
    BY <1>1, <1>2, <2>1, <2>2, OverrideAt DEF RulesAfter
  <2> QED BY <2>2, <2>3
<1>5. ~EstateSaveFails(a) /\ ~WritePlan(a)
  BY DEF EstateSaveFails, WritePlan
<1> QED BY <1>3, <1>4, <1>5, SaveEnds

(* A room's form changes who may book, as it was shown, and no other rule,  *)
(* if its reading came and was not overtaken (resources/page.tsx).          *)
THEOREM RoomFormSafe == EstateSpec => RoomFormHolds
<1>1. ConsoleInv /\ [EstateNext]_estateVars =>
        /\ \A a \in Managers :
             LET save == saving[a]
             IN  save # NoSave /\ save.at = "rules" /\ saving'[a] = NoSave
                   /\ ~save.unread /\ ~save.late
                   => \A k \in Keys \ {"allowed"} :
                        RulesAfter(save.room)[k] =
                          Effective(rulesOf, save.room, rooms[save.room].category)[k]
        /\ \A a \in Managers :
             LET save   == saving[a]
                 saves  == save # NoSave /\ save.at \in {"room", "rules"}
                 closes == saving'[a] = NoSave /\ form[a] # NoForm /\ form'[a] = NoForm
             IN  saves /\ closes /\ ~save.unread /\ ~save.late
                   => RulesAfter(save.room)["allowed"] = ListSent(save)
  BY OthersKept, AllowedAsShown
<1> QED
  BY EstateInvariant, <1>1, PTL DEF EstateSpec, RoomFormHolds, OtherRulesKept, RestrictionAsShown
=============================================================================
