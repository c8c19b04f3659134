---------------------------- MODULE SignIn_proofs ----------------------------
(***************************************************************************)
(* Theorems about how an account is signed in to, for every value of the    *)
(* constants.  The argument behind both: until another write overtakes a    *)
(* request, the account and the link are as it read them.                   *)
(***************************************************************************)
EXTENDS SignIn, TLAPS

Holds(kind) == link[kind] # None

(* The links: numbered as issued, one of a kind at a time, and unused while *)
(* the account holds them.                                                  *)
LinksInv ==
  /\ DOMAIN link = Kinds
  /\ \A kind \in Kinds :
       Holds(kind) => /\ link[kind] \in [id : 1..links, until : Nat]
                      /\ link[kind].until <= now + LinkTtl[kind]
                      /\ redeemed[link[kind].id] = 0
                      /\ \A other \in Kinds \ {kind} :
                           Holds(other) => link[other].id # link[kind].id
  /\ \A l \in 1..MaxLinks : l > links => redeemed[l] = 0

(* What a request has in hand, and what it is still worth unless a write    *)
(* has overtaken it.                                                        *)
HandOK(r) ==
  r.at = "redeem" =>
    /\ r.id <= links
    /\ \A other \in Kinds \ {r.kind} : Holds(other) => link[other].id # r.id

StillTrue(r) ==
  /\ r.at = "redeem" => account.active /\ Holds(r.kind) /\ link[r.kind].id = r.id
  /\ r.at = "sign" => account.active /\ r.role = account.role

FlowInv ==
  \A f \in Flows : HandOK(flow[f]) /\ (f \notin overtaken => StillTrue(flow[f]))

(* A token's life began no later than now.                                  *)
TokenInv ==
  /\ \A t \in access : t.until <= now + AccessTtl
  /\ StaleRightsExpire

(* The types, but for what LinksInv says of the links.                      *)
TypesInv ==
  /\ now \in 0..MaxTime
  /\ account \in AccountType
  /\ links \in 0..MaxLinks
  /\ access \subseteq TokenType
  /\ refresh \in Nat
  /\ flow \in [Flows -> FlowType]
  /\ redeemed \in [1..MaxLinks -> Nat]
  /\ changed \in 0..now
  /\ overtaken \subseteq Flows

Inv == TypesInv /\ LinksInv /\ FlowInv /\ TokenInv

LEMMA InitInv == Init => Inv
<1> SUFFICES ASSUME Init
             PROVE  Inv
  OBVIOUS
<1>1. TypesInv
  <2>1. account \in AccountType
    BY DEF Init, AccountType
  <2>2. flow \in [Flows -> FlowType]
    <3>1. Idle \in FlowType
      BY DEF Idle, FlowType
    <3> QED BY <3>1 DEF Init
  <2>3. /\ now \in 0..MaxTime /\ links \in 0..MaxLinks /\ changed \in 0..now
        /\ access \subseteq TokenType /\ refresh \in Nat
        /\ redeemed \in [1..MaxLinks -> Nat] /\ overtaken \subseteq Flows
    BY SignInAssumption DEF Init
  <2> QED BY <2>1, <2>2, <2>3 DEF TypesInv
<1>2. DOMAIN link = Kinds /\ \A kind \in Kinds : ~Holds(kind)
  BY DEF Init, Holds
<1>3. LinksInv
  BY <1>2 DEF LinksInv, Init
<1>4. FlowInv
  BY DEF FlowInv, HandOK, StillTrue, Init, Idle
<1> QED BY <1>1, <1>3, <1>4 DEF Inv, TokenInv, StaleRightsExpire, Init

-----------------------------------------------------------------------------
(* Requests in flight *)

LEMMA InFlight ==
  ASSUME Inv, NEW f \in Flows
  PROVE  /\ flow[f] \in FlowType
         /\ flow[f].at = "link" => flow[f].kind \in Kinds
         /\ flow[f].at = "redeem" => flow[f].kind \in Kinds /\ flow[f].id \in 1..MaxLinks
         /\ flow[f].at = "sign" => flow[f].role \in Roles
         /\ flow[f].at \in {"redeem", "sign"} => flow[f] # Idle
  BY DEF Inv, TypesInv, FlowType, Idle

LEMMA OneGoes ==
  ASSUME Inv, NEW f \in Flows, NEW step, Goto(f, step)
  PROVE  /\ flow'[f] = step
         /\ \A g \in Flows : g # f => flow'[g] = flow[g]
         /\ step \in FlowType => flow' \in [Flows -> FlowType]
  BY DEF Inv, TypesInv, Goto

LEMMA IdleOK ==
  Idle \in FlowType /\ HandOK(Idle) /\ StillTrue(Idle) /\ HandOK(Idle)' /\ StillTrue(Idle)'
  BY DEF Idle, FlowType, HandOK, StillTrue

(* Whoever is not overtaken by a write was doing nothing.                   *)
LEMMA Overtaken ==
  ASSUME Inv, NEW fs \in SUBSET Flows, Overtake(fs)
  PROVE  /\ overtaken' \subseteq Flows
         /\ \A g \in Flows \ fs : g \notin overtaken' => flow'[g] = Idle
         /\ \A g \in fs : g \notin overtaken' => g \notin overtaken \/ flow'[g] = Idle
  BY DEF Inv, TypesInv, Overtake

(* What is in hand stays in order while no link is issued.                  *)
LEMMA HandKept ==
  ASSUME NEW r, HandOK(r), links' >= links, links \in Int, links' \in Int,
         r.at = "redeem" => r.id \in Int,
         \A kind \in Kinds : Holds(kind)' => Holds(kind) /\ link'[kind] = link[kind]
  PROVE  HandOK(r)'
  BY DEF HandOK

-----------------------------------------------------------------------------
(* The steps *)

LEMMA BeginStep ==
  ASSUME Inv, NEW f \in Flows, NEW step \in FlowType, Begin(f, step),
         HandOK(step), StillTrue(step)
  PROVE  Inv'
<1>1. /\ UNCHANGED <<now, account, link, links, access, refresh, redeemed, changed, overtaken>>
      /\ Goto(f, step)
  BY DEF Begin, Goto, tokens
<1>2. /\ flow'[f] = step /\ flow' \in [Flows -> FlowType]
      /\ \A g \in Flows : g # f => flow'[g] = flow[g]
  BY <1>1, OneGoes
<1>3. TypesInv'
  BY <1>1, <1>2 DEF Inv, TypesInv
<1>4. LinksInv' /\ TokenInv'
  BY <1>1 DEF Inv, LinksInv, TokenInv, Holds, StaleRightsExpire
<1>5. FlowInv'
  <2>1. \A r : (HandOK(r) => HandOK(r)') /\ (StillTrue(r) => StillTrue(r)')
    BY <1>1 DEF HandOK, StillTrue, Holds
  <2> QED BY <1>1, <1>2, <2>1 DEF Inv, FlowInv
<1> QED BY <1>3, <1>4, <1>5 DEF Inv

(* A request that begins has just read what it will act upon.               *)
LEMMA Begins ==
  ASSUME Inv, NEW f \in Flows,
         \/ \E kind \in Kinds : LinkBegin(f, kind) \/ RedeemBegin(f, kind)
         \/ InviteBegin(f) \/ LoginBegin(f) \/ RefreshBegin(f)
  PROVE  Inv'
<1>1. ASSUME NEW kind \in Kinds, Begin(f, [at |-> "link", kind |-> kind])
      PROVE  Inv'
  <2> DEFINE step == [at |-> "link", kind |-> kind]
  <2>1. step \in FlowType /\ HandOK(step) /\ StillTrue(step)
    BY DEF FlowType, HandOK, StillTrue
  <2> QED BY <1>1, <2>1, BeginStep
<1>2. ASSUME NEW kind \in Kinds, RedeemBegin(f, kind)
      PROVE  Inv'
  <2> DEFINE step == [at |-> "redeem", kind |-> kind, id |-> link[kind].id]
  <2>1. Holds(kind) /\ account.active /\ Begin(f, step)
    BY <1>2 DEF RedeemBegin, Holds
  <2>2. /\ link[kind].id \in 1..links /\ links \in 0..MaxLinks /\ MaxLinks \in Nat
        /\ \A other \in Kinds \ {kind} : Holds(other) => link[other].id # link[kind].id
    BY <2>1, SignInAssumption DEF Inv, LinksInv, TypesInv
  <2>3. step \in FlowType
    BY <2>2 DEF FlowType
  <2>4. HandOK(step) /\ StillTrue(step)
    BY <2>1, <2>2 DEF HandOK, StillTrue
  <2> HIDE DEF step
  <2> QED BY <2>1, <2>3, <2>4, BeginStep
<1>3. ASSUME LoginBegin(f) \/ RefreshBegin(f)
      PROVE  Inv'
  <2> DEFINE step == [at |-> "sign", role |-> account.role]
  <2>1. account.active /\ Begin(f, step)
    BY <1>3 DEF LoginBegin, RefreshBegin
  <2>2. step \in FlowType
    BY DEF FlowType, Inv, TypesInv, AccountType
  <2>3. HandOK(step) /\ StillTrue(step)
    BY <2>1 DEF HandOK, StillTrue
  <2> HIDE DEF step
  <2> QED BY <2>1, <2>2, <2>3, BeginStep
<1>4. "activation" \in Kinds
  BY DEF Kinds
<1> QED BY <1>1, <1>2, <1>3, <1>4 DEF LinkBegin, InviteBegin

(* The write of a link overtakes everyone else, so what it replaces was in  *)
(* nobody's hand who still counts on it.                                    *)
LEMMA LinkWriteStep ==
  ASSUME Inv, NEW f \in Flows, LinkWrite(f)
  PROVE  Inv'
<1> DEFINE kind == flow[f].kind
<1>1. /\ flow[f].at = "link" /\ links < MaxLinks /\ links' = links + 1
      /\ link' = [link EXCEPT ![kind] = [id |-> links + 1, until |-> now + LinkTtl[kind]]]
      /\ Goto(f, Idle) /\ Overtake({f})
      /\ UNCHANGED <<now, account, access, refresh, redeemed, changed>>
  BY DEF LinkWrite, NewLink, tokens
<1>2. kind \in Kinds /\ LinkTtl[kind] \in Nat /\ MaxLinks \in Nat /\ now \in Nat
  BY <1>1, InFlight, SignInAssumption DEF Inv, TypesInv
<1> HIDE DEF kind
<1>3. /\ TypesInv /\ LinksInv /\ FlowInv /\ TokenInv
      /\ links \in 0..MaxLinks /\ links' \in 0..MaxLinks
  BY <1>1, <1>2 DEF Inv, TypesInv
<1>4. /\ flow' \in [Flows -> FlowType] /\ flow'[f] = Idle
      /\ \A g \in Flows : g # f => flow'[g] = flow[g]
  BY <1>1, OneGoes, IdleOK
<1>5. /\ overtaken' \subseteq Flows
      /\ \A g \in Flows : g \notin overtaken' => flow'[g] = Idle
  BY <1>1, <1>4, Overtaken
<1>6. /\ DOMAIN link' = Kinds
      /\ link'[kind] = [id |-> links + 1, until |-> now + LinkTtl[kind]]
      /\ \A other \in Kinds \ {kind} : link'[other] = link[other]
  BY <1>1, <1>2, <1>3 DEF LinksInv
<1>7. \A other \in Kinds \ {kind} : Holds(other)' => Holds(other) /\ link[other].id <= links
  BY <1>3, <1>6 DEF Holds, LinksInv
<1>8. TypesInv'
  BY <1>1, <1>3, <1>4, <1>5 DEF TypesInv
<1>9. LinksInv'
  <2>1. \A l \in 1..MaxLinks : l > links' => redeemed'[l] = 0
    BY <1>1, <1>3 DEF LinksInv
  <2>2. ASSUME NEW k \in Kinds, Holds(k)'
        PROVE  /\ link'[k] \in [id : 1..links', until : Nat]
               /\ link'[k].until <= now' + LinkTtl[k]
               /\ redeemed'[link'[k].id] = 0
               /\ \A other \in Kinds \ {k} : Holds(other)' => link'[other].id # link'[k].id
    <3>1. CASE k = kind
      <4>1. links + 1 \in 1..MaxLinks /\ redeemed[links + 1] = 0
        BY <1>1, <1>2, <1>3 DEF LinksInv
      <4> QED BY <1>1, <1>2, <1>3, <1>6, <1>7, <3>1, <4>1
    <3>2. CASE k # kind
      <4>1. Holds(k) /\ link'[k] = link[k]
        BY <1>6, <1>7, <2>2, <3>2
      <4>2. /\ link[k] \in [id : 1..links, until : Nat]
            /\ link[k].until <= now + LinkTtl[k] /\ redeemed[link[k].id] = 0
            /\ \A other \in Kinds \ {k} : Holds(other) => link[other].id # link[k].id
        BY <1>3, <4>1 DEF LinksInv
      <4>3. ASSUME NEW other \in Kinds \ {k}, Holds(other)'
            PROVE  link'[other].id # link'[k].id
        BY <1>2, <1>3, <1>6, <1>7, <4>1, <4>2, <4>3
      <4> QED BY <1>1, <1>3, <4>1, <4>2, <4>3
    <3> QED BY <3>1, <3>2
  <2> QED BY <1>6, <2>1, <2>2 DEF LinksInv
<1>10. FlowInv'
  <2>1. ASSUME NEW g \in Flows, g # f
        PROVE  HandOK(flow[g])'
    <3>1. HandOK(flow[g]) /\ (flow[g].at = "redeem" => flow[g].id \in Nat)
      BY <1>3, InFlight DEF FlowInv
    <3>2. flow'[g] = flow[g]
      BY <1>4, <2>1
    <3>3. ASSUME flow[g].at = "redeem"
          PROVE  /\ flow[g].id <= links'
                 /\ \A other \in Kinds \ {flow[g].kind} :
                      Holds(other)' => link'[other].id # flow[g].id
      <4>1. flow[g].id <= links
        BY <3>1, <3>3 DEF HandOK
      <4>2. ASSUME NEW other \in Kinds \ {flow[g].kind}, Holds(other)'
            PROVE  link'[other].id # flow[g].id
        <5>1. CASE other = kind
          BY <1>3, <1>6, <3>1, <3>3, <4>1, <5>1
        <5>2. CASE other # kind
          BY <1>6, <1>7, <3>1, <3>3, <4>2, <5>2 DEF HandOK
        <5> QED BY <5>1, <5>2
      <4> QED BY <1>1, <1>3, <3>1, <3>3, <4>1, <4>2
    <3> QED BY <3>2, <3>3 DEF HandOK
  <2>2. \A g \in Flows : HandOK(flow[g])'
    <3>1. HandOK(flow[f])'
      BY <1>4 DEF HandOK, Idle
    <3> QED BY <2>1, <3>1
  <2>3. \A g \in Flows : g \notin overtaken' => StillTrue(flow[g])'
    BY <1>5 DEF StillTrue, Idle
  <2> QED BY <2>2, <2>3 DEF FlowInv
<1>11. TokenInv'
  BY <1>1, <1>3 DEF TokenInv, StaleRightsExpire
<1> QED BY <1>8, <1>9, <1>10, <1>11 DEF Inv

(* Redeeming sets the password and clears the link of that kind; whoever    *)
(* holds the same link is overtaken by it.                                  *)
LEMMA RedeemWriteStep ==
  ASSUME Inv, NEW f \in Flows, RedeemWrite(f)
  PROVE  /\ Inv'
         /\ \A l \in 1..MaxLinks :
              redeemed[l] > 0 /\ redeemed'[l] # redeemed[l] =>
                f \in overtaken /\ flow[f].at = "redeem" /\ flow[f].id = l
<1> DEFINE kind == flow[f].kind
           id == flow[f].id
           step == [at |-> "sign", role |-> account.role]
<1>1. /\ flow[f].at = "redeem"
      /\ account' = [account EXCEPT !.password = "own"]
      /\ link' = [link EXCEPT ![kind] = None]
      /\ redeemed' = [redeemed EXCEPT ![id] = @ + 1]
      /\ Goto(f, step) /\ Overtake({f})
      /\ UNCHANGED <<now, links, access, refresh, changed>>
  BY DEF RedeemWrite, Redeemed, tokens
<1>2. /\ TypesInv /\ LinksInv /\ FlowInv /\ TokenInv
      /\ kind \in Kinds /\ id \in 1..MaxLinks /\ HandOK(flow[f])
      /\ links \in 0..MaxLinks /\ MaxLinks \in Nat
  BY <1>1, InFlight, SignInAssumption DEF Inv, TypesInv, FlowInv
<1>3. /\ account' \in AccountType /\ account'.active = account.active
      /\ account'.role = account.role
  BY <1>1, <1>2 DEF TypesInv, AccountType
<1>4. step \in FlowType /\ step # Idle
  BY <1>2 DEF TypesInv, AccountType, FlowType, Idle
<1>5. /\ flow' \in [Flows -> FlowType] /\ flow'[f] = step
      /\ \A g \in Flows : g # f => flow'[g] = flow[g]
  BY <1>1, <1>4, OneGoes
<1>6. /\ overtaken' \subseteq Flows
      /\ \A g \in Flows \ {f} : g \notin overtaken' => flow'[g] = Idle
      /\ f \notin overtaken' => f \notin overtaken
  BY <1>1, <1>4, <1>5, Overtaken
<1>7. /\ redeemed' \in [1..MaxLinks -> Nat]
      /\ redeemed'[id] = redeemed[id] + 1
      /\ \A l \in 1..MaxLinks : l # id => redeemed'[l] = redeemed[l]
  BY <1>1, <1>2 DEF TypesInv
<1>8. /\ DOMAIN link' = Kinds /\ link'[kind] = None
      /\ \A k \in Kinds : Holds(k)' => k # kind /\ Holds(k) /\ link'[k] = link[k]
  <2>1. /\ DOMAIN link' = Kinds /\ link'[kind] = None
        /\ \A k \in Kinds : k # kind => link'[k] = link[k]
    BY <1>1, <1>2 DEF LinksInv
  <2> HIDE DEF kind
  <2> QED BY <2>1 DEF Holds
<1>9. id <= links /\ \A k \in Kinds \ {kind} : Holds(k) => link[k].id # id
  BY <1>1, <1>2 DEF HandOK
<1>10. TypesInv'
  BY <1>1, <1>2, <1>3, <1>5, <1>6, <1>7 DEF TypesInv
<1>11. LinksInv'
  <2>1. \A l \in 1..MaxLinks : l > links' => redeemed'[l] = 0
    BY <1>1, <1>2, <1>7, <1>9 DEF LinksInv
  <2>2. ASSUME NEW k \in Kinds, Holds(k)'
        PROVE  /\ link'[k] \in [id : 1..links', until : Nat]
               /\ link'[k].until <= now' + LinkTtl[k]
               /\ redeemed'[link'[k].id] = 0
               /\ \A other \in Kinds \ {k} : Holds(other)' => link'[other].id # link'[k].id
    <3>1. k # kind /\ Holds(k) /\ link'[k] = link[k] /\ link[k].id # id
      BY <1>8, <1>9, <2>2
    <3>2. /\ link[k] \in [id : 1..links, until : Nat]
          /\ link[k].until <= now + LinkTtl[k] /\ redeemed[link[k].id] = 0
          /\ \A other \in Kinds \ {k} : Holds(other) => link[other].id # link[k].id
      BY <1>2, <3>1 DEF LinksInv
    <3>3. link[k].id \in 1..MaxLinks
      BY <1>2, <3>2
    <3> QED BY <1>1, <1>7, <1>8, <3>1, <3>2, <3>3
  <2> QED BY <1>8, <2>1, <2>2 DEF LinksInv
<1>12. FlowInv'
  <2>1. ASSUME NEW g \in Flows
        PROVE  HandOK(flow[g])'
    <3>1. CASE g = f
      BY <1>5, <3>1 DEF HandOK
    <3>2. CASE g # f
      <4>1. HandOK(flow[g]) /\ flow'[g] = flow[g]
        BY <1>2, <1>5, <3>2 DEF FlowInv
      <4> QED BY <1>1, <1>8, <4>1 DEF HandOK
    <3> QED BY <3>1, <3>2
  <2>2. ASSUME NEW g \in Flows, g \notin overtaken'
        PROVE  StillTrue(flow[g])'
    <3>1. CASE g = f
      <4>1. account.active
        BY <1>1, <1>2, <1>6, <2>2, <3>1 DEF FlowInv, StillTrue
      <4> QED BY <1>3, <1>5, <3>1, <4>1 DEF StillTrue
    <3>2. CASE g # f
      BY <1>6, <2>2, <3>2 DEF StillTrue, Idle
    <3> QED BY <3>1, <3>2
  <2> QED BY <2>1, <2>2 DEF FlowInv
<1>13. TokenInv'
  BY <1>1, <1>2, <1>3 DEF TokenInv, StaleRightsExpire
<1>14. ASSUME NEW l \in 1..MaxLinks, redeemed[l] > 0, redeemed'[l] # redeemed[l]
       PROVE  f \in overtaken /\ id = l
  <2>1. l = id
    BY <1>7, <1>14
  <2>2. ASSUME f \notin overtaken
        PROVE  FALSE
    <3>1. Holds(kind) /\ link[kind].id = id
      BY <1>1, <1>2, <2>2 DEF FlowInv, StillTrue
    <3>2. redeemed[id] = 0
      BY <1>2, <3>1 DEF LinksInv
    <3> QED BY <1>14, <2>1, <3>2
  <2> QED BY <2>1, <2>2
<1> QED BY <1>1, <1>10, <1>11, <1>12, <1>13, <1>14 DEF Inv

(* A token is signed for what the request read, and late if a write         *)
(* overtook it.                                                             *)
LEMMA SignStep ==
  ASSUME Inv, NEW f \in Flows, Sign(f)
  PROVE  Inv'
<1> DEFINE t == [role |-> flow[f].role, until |-> now + AccessTtl, late |-> f \in overtaken]
<1>1. /\ flow[f].at = "sign"
      /\ access' = access \cup {t} /\ refresh' = now + RefreshTtl
      /\ Goto(f, Idle) /\ overtaken' = overtaken \ {f}
      /\ UNCHANGED <<now, account, link, links, redeemed, changed>>
  BY DEF Sign
<1>2. /\ TypesInv /\ LinksInv /\ FlowInv /\ TokenInv
      /\ now \in Nat /\ AccessTtl \in Nat /\ RefreshTtl \in Nat
  BY SignInAssumption DEF Inv, TypesInv
<1>3. /\ flow' \in [Flows -> FlowType] /\ flow'[f] = Idle
      /\ \A g \in Flows : g # f => flow'[g] = flow[g]
  BY <1>1, OneGoes, IdleOK
<1>4. t \in TokenType
  <2>1. flow[f].role \in Roles
    BY <1>1, InFlight
  <2> QED BY <1>2, <2>1 DEF TokenType
<1>5. /\ t.until = now + AccessTtl
      /\ t.late \/ (account.active /\ t.role = account.role)
  BY <1>1, <1>2 DEF FlowInv, StillTrue
<1> HIDE DEF t
<1>6. TypesInv'
  BY <1>1, <1>2, <1>3, <1>4 DEF TypesInv
<1>7. LinksInv'
  BY <1>1, <1>2 DEF LinksInv, Holds
<1>8. FlowInv'
  <2>1. \A r : (HandOK(r) => HandOK(r)') /\ (StillTrue(r) => StillTrue(r)')
    BY <1>1 DEF HandOK, StillTrue, Holds
  <2>2. HandOK(Idle)' /\ StillTrue(Idle)'
    BY IdleOK
  <2> QED BY <1>1, <1>2, <1>3, <2>1, <2>2 DEF FlowInv
<1>9. TokenInv'
  <2>1. \A u \in access' : u.until <= now' + AccessTtl
    BY <1>1, <1>2, <1>4, <1>5 DEF TokenInv
  <2>2. StaleRightsExpire'
    BY <1>1, <1>2, <1>5 DEF TokenInv, StaleRightsExpire
  <2> QED BY <2>1, <2>2 DEF TokenInv
<1> QED BY <1>6, <1>7, <1>8, <1>9 DEF Inv

LEMMA AbandonStep ==
  ASSUME Inv, NEW f \in Flows, Abandon(f)
  PROVE  Inv'
<1>1. /\ Goto(f, Idle) /\ overtaken' = overtaken \ {f}
      /\ UNCHANGED <<now, account, link, links, access, refresh, redeemed, changed>>
  BY DEF Abandon, tokens
<1>2. /\ flow' \in [Flows -> FlowType] /\ flow'[f] = Idle
      /\ \A g \in Flows : g # f => flow'[g] = flow[g]
  BY <1>1, OneGoes, IdleOK
<1>3. TypesInv'
  BY <1>1, <1>2 DEF Inv, TypesInv
<1>4. LinksInv' /\ TokenInv'
  BY <1>1 DEF Inv, LinksInv, TokenInv, Holds, StaleRightsExpire
<1>5. FlowInv'
  <2>1. \A r : (HandOK(r) => HandOK(r)') /\ (StillTrue(r) => StillTrue(r)')
    BY <1>1 DEF HandOK, StillTrue, Holds
  <2>2. HandOK(Idle)' /\ StillTrue(Idle)'
    BY IdleOK
  <2> QED BY <1>1, <1>2, <2>1, <2>2 DEF Inv, FlowInv
<1> QED BY <1>3, <1>4, <1>5 DEF Inv

(* A write of the account alone overtakes everyone under way.               *)
LEMMA AccountWritten ==
  ASSUME Inv, account' \in AccountType, changed' \in 0..now, Overtake({}),
         UNCHANGED <<now, link, links, access, refresh, flow, redeemed>>,
         StaleRightsExpire'
  PROVE  Inv'
<1>1. /\ overtaken' \subseteq Flows
      /\ \A g \in Flows : g \notin overtaken' => flow'[g] = Idle
  BY Overtaken
<1>2. TypesInv'
  BY <1>1 DEF Inv, TypesInv
<1>3. LinksInv'
  BY DEF Inv, LinksInv, Holds
<1>4. FlowInv'
  <2>1. \A g \in Flows : HandOK(flow[g])'
    BY DEF Inv, FlowInv, HandOK, Holds
  <2>2. \A g \in Flows : g \notin overtaken' => StillTrue(flow[g])'
    BY <1>1 DEF StillTrue, Idle
  <2> QED BY <2>1, <2>2 DEF FlowInv
<1>5. TokenInv'
  BY DEF Inv, TokenInv
<1> QED BY <1>2, <1>3, <1>4, <1>5 DEF Inv

LEMMA SetPasswordStep ==
  ASSUME Inv, NEW whose \in {"issued", "own"}, SetPassword(whose)
  PROVE  Inv'
<1>1. /\ account' = [account EXCEPT !.password = whose]
      /\ Overtake({})
      /\ UNCHANGED <<now, link, links, access, refresh, flow, redeemed, changed>>
  BY DEF SetPassword, tokens
<1>2. /\ account' \in AccountType /\ account'.active = account.active
      /\ account'.role = account.role
  BY <1>1 DEF Inv, TypesInv, AccountType
<1>3. StaleRightsExpire'
  BY <1>1, <1>2 DEF Inv, TokenInv, StaleRightsExpire
<1>4. changed' \in 0..now
  BY <1>1 DEF Inv, TypesInv
<1> QED BY <1>1, <1>2, <1>3, <1>4, AccountWritten

(* A change of role or standing starts the clock for all tokens signed.     *)
LEMMA ChangeStep ==
  ASSUME Inv, NEW row \in AccountType, Change(row)
  PROVE  Inv'
<1>1. /\ account' = row /\ changed' = now /\ Overtake({})
      /\ UNCHANGED <<now, link, links, access, refresh, flow, redeemed>>
  BY DEF Change, tokens
<1>2. StaleRightsExpire'
  BY <1>1 DEF Inv, TokenInv, StaleRightsExpire
<1>3. changed' \in 0..now
  BY <1>1, SignInAssumption DEF Inv, TypesInv
<1> QED BY <1>1, <1>2, <1>3, AccountWritten

LEMMA TickStep ==
  ASSUME Inv, Tick
  PROVE  Inv'
<1>1. /\ now < MaxTime /\ now' = now + 1 /\ access' \subseteq access
      /\ UNCHANGED <<account, link, links, refresh, flow, redeemed, changed, overtaken>>
  BY DEF Tick
<1>2. /\ TypesInv /\ LinksInv /\ FlowInv /\ TokenInv
      /\ now \in Nat /\ MaxTime \in Nat /\ AccessTtl \in Nat
      /\ \A kind \in Kinds : LinkTtl[kind] \in Nat
  BY SignInAssumption DEF Inv, TypesInv
<1>3. TypesInv'
  BY <1>1, <1>2 DEF TypesInv
<1>4. LinksInv'
  <2>1. \A kind \in Kinds : Holds(kind) => link[kind].until <= now' + LinkTtl[kind]
    BY <1>1, <1>2 DEF LinksInv
  <2> QED BY <1>1, <1>2, <2>1 DEF LinksInv, Holds
<1>5. FlowInv'
  BY <1>1, <1>2 DEF FlowInv, HandOK, StillTrue, Holds
<1>6. TokenInv'
  <2>1. \A t \in access : t.until \in Nat
    BY <1>2 DEF TypesInv, TokenType
  <2> QED BY <1>1, <1>2, <2>1 DEF TokenInv, StaleRightsExpire
<1> QED BY <1>3, <1>4, <1>5, <1>6 DEF Inv

-----------------------------------------------------------------------------
(* All steps *)

SecondOnlyOvertaken ==
  \A l \in DOMAIN redeemed :
    redeemed[l] > 0 /\ redeemed'[l] # redeemed[l]
      => \E f \in overtaken : flow[f].at = "redeem" /\ flow[f].id = l

LEMMA NextStep ==
  ASSUME Inv, [Next]_vars
  PROVE  Inv' /\ SecondOnlyOvertaken
<1>1. CASE UNCHANGED vars
  BY <1>1 DEF vars, tokens, Inv, TypesInv, LinksInv, FlowInv, HandOK, StillTrue, Holds, TokenInv,
              StaleRightsExpire, SecondOnlyOvertaken
<1>2. ASSUME NEW f \in Flows, RedeemWrite(f)
      PROVE  Inv' /\ SecondOnlyOvertaken
  <2>1. DOMAIN redeemed = 1..MaxLinks
    BY DEF Inv, TypesInv
  <2> QED BY <1>2, <2>1, RedeemWriteStep DEF SecondOnlyOvertaken
<1>3. ASSUME NEW f \in Flows,
             \/ \E kind \in Kinds : LinkBegin(f, kind) \/ RedeemBegin(f, kind)
             \/ InviteBegin(f) \/ LoginBegin(f) \/ RefreshBegin(f)
      PROVE  Inv' /\ redeemed' = redeemed
  <2>1. redeemed' = redeemed
    BY <1>3 DEF LinkBegin, RedeemBegin, InviteBegin, LoginBegin, RefreshBegin, Begin
  <2> QED BY <1>3, <2>1, Begins
<1>4. ASSUME NEW f \in Flows, LinkWrite(f) \/ Sign(f) \/ Abandon(f)
      PROVE  Inv' /\ redeemed' = redeemed
  <2>1. redeemed' = redeemed
    BY <1>4 DEF LinkWrite, Sign, Abandon
  <2> QED BY <1>4, <2>1, LinkWriteStep, SignStep, AbandonStep
<1>5. ASSUME ChangePassword \/ ResetPassword
      PROVE  Inv' /\ redeemed' = redeemed
  <2>1. PICK whose \in {"issued", "own"} : SetPassword(whose)
    BY <1>5 DEF ChangePassword, ResetPassword
  <2> QED BY <2>1, SetPasswordStep DEF SetPassword
<1>6. ASSUME \/ \E role \in Roles : SetRole(role)
             \/ \E active \in BOOLEAN : SetActive(active)
             \/ Remove
      PROVE  Inv' /\ redeemed' = redeemed
  <2>1. \E row \in AccountType : Change(row)
    <3>1. account \in AccountType
      BY DEF Inv, TypesInv
    <3>2. ASSUME NEW role \in Roles
          PROVE  [account EXCEPT !.role = role] \in AccountType
      BY <3>1 DEF AccountType
    <3>3. ASSUME NEW active \in BOOLEAN
          PROVE  [account EXCEPT !.active = active] \in AccountType
      BY <3>1 DEF AccountType
    <3>4. [account EXCEPT !.present = FALSE, !.active = FALSE] \in AccountType
      BY <3>1 DEF AccountType
    <3> QED BY <1>6, <3>2, <3>3, <3>4 DEF SetRole, SetActive, Remove
  <2> QED BY <2>1, ChangeStep DEF Change
<1>7. ASSUME Tick
      PROVE  Inv' /\ redeemed' = redeemed
  BY <1>7, TickStep DEF Tick
<1>8. redeemed' = redeemed => SecondOnlyOvertaken
  BY DEF SecondOnlyOvertaken
<1> QED BY <1>1, <1>2, <1>3, <1>4, <1>5, <1>6, <1>7, <1>8 DEF Next

-----------------------------------------------------------------------------
(* Theorems *)

(* The inductive invariant: links in order, requests that know the account  *)
(* unless overtaken, tokens no older than their life.                       *)
THEOREM SignInInvariant == Spec => []Inv
<1>1. Init => Inv
  BY InitInv
<1>2. Inv /\ [Next]_vars => Inv'
  BY NextStep
<1> QED BY <1>1, <1>2, PTL DEF Spec

(* What a role change, a deactivation or a removal took away is gone one    *)
(* access token's life later, except for tokens signed late, however        *)
(* requests and administrators interleave.                                  *)
THEOREM SignInSafe == Spec => []SignInInv
<1>1. Inv => SignInInv
  BY DEF Inv, TypesInv, LinksInv, TokenInv, SignInInv, TypeOK, Holds
<1> QED BY <1>1, SignInInvariant, PTL

(* A link is redeemed a second time only by a request that had found it     *)
(* before a write overtook it.                                              *)
THEOREM LinksWorkOnce == Spec => LinkWorksOnce
<1>1. Inv /\ [Next]_vars => [SecondOnlyOvertaken]_vars
  BY NextStep
<1>2. Spec => [][SecondOnlyOvertaken]_vars
  BY <1>1, SignInInvariant, PTL DEF Spec
<1> QED BY <1>2 DEF LinkWorksOnce, SecondOnlyOvertaken
=============================================================================
