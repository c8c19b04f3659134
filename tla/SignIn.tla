------------------------------- MODULE SignIn -------------------------------
(***************************************************************************)
(* How one account is signed in to: one-time links, password changes and    *)
(* sessions (auth.service.ts, profile.service.ts, the administrator's       *)
(* operations of user-admin.service.ts, the check of a token in             *)
(* tenant.middleware.ts).                                                   *)
(*                                                                          *)
(* A request reads the account and later writes it or signs tokens for what *)
(* it read.  Tokens carry the role and an expiry and nothing else; the      *)
(* server keeps no list of them.  A password is whose it is; hashing,       *)
(* signing and the mails are left out.                                      *)
(***************************************************************************)
EXTENDS Integers

CONSTANTS
  Flows,      \* requests on the account served at the same time
  Roles,
  LinkTtl,    \* how long a link of each kind may be redeemed
  AccessTtl,  \* how long an access token is accepted
  RefreshTtl, \* how long a refresh token is
  None,       \* no link
  MaxLinks,   \* bound: links issued
  MaxTime     \* bound: the last instant of the clock

Kinds == {"activation", "reset"}

ASSUME SignInAssumption ==
  /\ LinkTtl \in [Kinds -> Nat]
  /\ {AccessTtl, RefreshTtl, MaxLinks, MaxTime} \subseteq Nat
  /\ Roles # {}

VARIABLES
  now,       \* the server's clock
  account,   \* the row of the account
  link,      \* the link of each kind the row holds the hash of
  links,     \* number of links issued so far; links are numbered
  access,    \* the access tokens signed and not yet expired
  refresh,   \* until when the last refresh token is accepted
  flow,      \* the requests in flight
  redeemed,  \* history: how often each link was redeemed
  changed,   \* history: when role or standing of the account last changed
  overtaken  \* history: requests another write happened to since they read

vars == <<now, account, link, links, access, refresh, flow, redeemed, changed, overtaken>>
tokens == <<access, refresh>>

AccountType ==
  [present : BOOLEAN, active : BOOLEAN, role : Roles, password : {"none", "issued", "own"}]

TokenType == [role : Roles, until : Nat, late : BOOLEAN]

FlowType ==
  [at : {"idle"}] \cup [at : {"link"}, kind : Kinds]
    \cup [at : {"redeem"}, kind : Kinds, id : 1..MaxLinks]
    \cup [at : {"sign"}, role : Roles]

Idle == [at |-> "idle"]

TypeOK ==
  /\ now \in 0..MaxTime
  /\ account \in AccountType
  /\ \A kind \in Kinds :
       link[kind] # None => /\ link[kind] \in [id : 1..links, until : Nat]
                            /\ link[kind].until <= now + LinkTtl[kind]
  /\ links \in 0..MaxLinks
  /\ access \subseteq TokenType
  /\ refresh \in Nat
  /\ flow \in [Flows -> FlowType]
  /\ redeemed \in [1..MaxLinks -> Nat]
  /\ changed \in 0..now
  /\ overtaken \subseteq Flows

(* An account as create, import or single sign-on leave it. *)
Init ==
  /\ now = 0
  /\ account \in [ present : {TRUE}, active : {TRUE}, role : Roles,
                   password : {"none", "issued"} ]
  /\ link = [kind \in Kinds |-> None]
  /\ links = 0
  /\ access = {} /\ refresh = 0
  /\ flow = [f \in Flows |-> Idle]
  /\ redeemed = [l \in 1..MaxLinks |-> 0]
  /\ changed = 0 /\ overtaken = {}

-----------------------------------------------------------------------------
(* Steps of a request. *)

Begin(f, step) ==
  /\ flow[f] = Idle
  /\ account.present
  /\ flow' = [flow EXCEPT ![f] = step]
  /\ UNCHANGED <<now, account, link, links, tokens, redeemed, changed, overtaken>>

Goto(f, step) == flow' = [flow EXCEPT ![f] = step]

(* A write overtakes every request under way outside fs. *)
Overtake(fs) ==
  overtaken' = { g \in overtaken \cup (Flows \ fs) : flow'[g] # Idle }

(* A request may be refused or fail at any step; what it wrote stays. *)
Abandon(f) ==
  /\ flow[f] # Idle
  /\ Goto(f, Idle)
  /\ overtaken' = overtaken \ {f}
  /\ UNCHANGED <<now, account, link, links, tokens, redeemed, changed>>

-----------------------------------------------------------------------------
(* Links *)

(* May a link of this kind be asked for?  Activation is for those who never *)
(* chose a password, a reset for those who have one.                        *)
Eligible(kind) ==
  /\ account.active
  /\ IF kind = "activation" THEN account.password # "own" ELSE account.password # "none"

(* requestActivation, requestPasswordReset *)
LinkBegin(f, kind) == Eligible(kind) /\ Begin(f, [at |-> "link", kind |-> kind])

(* sendActivationEmail after an import or an approval: unconditional *)
InviteBegin(f) == Begin(f, [at |-> "link", kind |-> "activation"])

NewLink(kind) == [id |-> links + 1, until |-> now + LinkTtl[kind]]

LinkWrite(f) ==
  LET kind == flow[f].kind
  IN  /\ flow[f].at = "link"
      /\ account.present
      /\ links < MaxLinks
      /\ links' = links + 1
      /\ link' = [link EXCEPT ![kind] = NewLink(kind)]
      /\ Goto(f, Idle)
      /\ Overtake({f})
      /\ UNCHANGED <<now, account, tokens, redeemed, changed>>

(* completeActivation, completePasswordReset: the link is found and fresh ... *)
RedeemBegin(f, kind) ==
  /\ link[kind] # None
  /\ now <= link[kind].until
  /\ account.active
  /\ Begin(f, [at |-> "redeem", kind |-> kind, id |-> link[kind].id])

RedeemedKept(kind) == link

(* The links of the row once one of this kind was used *)
Redeemed(kind) == [link EXCEPT ![kind] = None]

(* ... and, whatever became of the row, its password is set, its link of    *)
(* that kind cleared and a session issued.                                  *)
RedeemWrite(f) ==
  /\ flow[f].at = "redeem"
  /\ account.present
  /\ account' = [account EXCEPT !.password = "own"]
  /\ link' = Redeemed(flow[f].kind)
  /\ redeemed' = [redeemed EXCEPT ![flow[f].id] = @ + 1]
  /\ Goto(f, [at |-> "sign", role |-> account.role])
  /\ Overtake({f})
  /\ UNCHANGED <<now, links, tokens, changed>>

-----------------------------------------------------------------------------
(* Sessions *)

(* login, with the password; or callback, of a single sign-on provider. *)
LoginBegin(f) ==
  /\ account.active
  /\ Begin(f, [at |-> "sign", role |-> account.role])

RefreshBeginUnread(f) ==
  /\ now < refresh
  /\ \E t \in access : Begin(f, [at |-> "sign", role |-> t.role])

(* refresh: the token is checked, then the account read afresh. *)
RefreshBegin(f) ==
  /\ now < refresh
  /\ account.active
  /\ Begin(f, [at |-> "sign", role |-> account.role])

(* signTokens, for the role as read; the clock counts from here. *)
Sign(f) ==
  /\ flow[f].at = "sign"
  /\ access' = access \cup { [ role |-> flow[f].role, until |-> now + AccessTtl,
                               late |-> f \in overtaken ] }
  /\ refresh' = now + RefreshTtl
  /\ Goto(f, Idle)
  /\ overtaken' = overtaken \ {f}
  /\ UNCHANGED <<now, account, link, links, redeemed, changed>>

-----------------------------------------------------------------------------
(* Single writes of the user and of an administrator *)

SetPassword(whose) ==
  /\ account.present
  /\ account' = [account EXCEPT !.password = whose]
  /\ UNCHANGED <<now, link, links, tokens, flow, redeemed, changed>>
  /\ Overtake({})

(* changePassword of the profile *)
ChangePassword == account.password # "none" /\ SetPassword("own")

(* resetPassword of the administration *)
ResetPassword == SetPassword("issued")

(* update (role), setActive, remove *)
Change(row) ==
  /\ account.present /\ row # account
  /\ account' = row
  /\ changed' = now
  /\ UNCHANGED <<now, link, links, tokens, flow, redeemed>>
  /\ Overtake({})

SetRole(role) == Change([account EXCEPT !.role = role])

SetActive(active) == Change([account EXCEPT !.active = active])

Remove == Change([account EXCEPT !.present = FALSE, !.active = FALSE])

(* Time passes; expired tokens are forgotten. *)
Tick ==
  /\ now < MaxTime
  /\ now' = now + 1
  /\ access' = { t \in access : now + 1 < t.until }
  /\ UNCHANGED <<account, link, links, refresh, flow, redeemed, changed, overtaken>>

Next ==
  \/ \E f \in Flows :
       \/ \E kind \in Kinds : LinkBegin(f, kind) \/ RedeemBegin(f, kind)
       \/ InviteBegin(f) \/ LinkWrite(f) \/ RedeemWrite(f)
       \/ LoginBegin(f) \/ RefreshBegin(f) \/ Sign(f)
       \/ Abandon(f)
  \/ ChangePassword \/ ResetPassword
  \/ \E role \in Roles : SetRole(role)
  \/ \E active \in BOOLEAN : SetActive(active)
  \/ Remove
  \/ Tick

Spec == Init /\ [][Next]_vars

-----------------------------------------------------------------------------
(* Properties. *)

(* "The link ... can only be used once": a second time only by a request    *)
(* that looked the link up before the first one cleared it.                 *)
LinkWorksOnce ==
  [][ \A l \in DOMAIN redeemed :
        redeemed[l] > 0 /\ redeemed'[l] # redeemed[l]
          => \E f \in overtaken : flow[f].at = "redeem" /\ flow[f].id = l ]_vars

(* Rights are read from the token alone, so a token may outlive them: what  *)
(* a role change, a deactivation or a removal took away is gone one access  *)
(* token's life later, except for tokens signed late, for what a request    *)
(* had read before the change.                                              *)
StaleRightsExpire ==
  \A t \in access :
    \/ t.late
    \/ account.active /\ t.role = account.role
    \/ t.until <= changed + AccessTtl

(* The tokens in circulation, and all that lets them be issued. *)
SignInInv == TypeOK /\ StaleRightsExpire
=============================================================================
