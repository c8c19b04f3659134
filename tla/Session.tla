------------------------------ MODULE Session ------------------------------
(***************************************************************************)
(* Who a browser is signed in as (lib/api.ts and lib/auth.tsx of both       *)
(* portals, and the pages that sign in).  The tokens are in the browser's   *)
(* storage, which its tabs share; what a tab shows is in the tab's memory,  *)
(* which a navigation to a new document wipes: when the document is         *)
(* replaced, not when the navigation is begun.                              *)
(*                                                                          *)
(* The user portal renews an expired access token, at most once at a time   *)
(* in a tab, and replays the call; the console does not.  Whether the       *)
(* server grants a renewal is SignIn's matter: here it may or may not.      *)
(* Branding, the workspace typed and error messages are left out.           *)
(***************************************************************************)
EXTENDS Naturals, FiniteSets

CONSTANTS
  Tabs,       \* tabs of one browser
  Lanes,      \* calls a tab may have under way
  Accounts,
  NoOne,      \* no token, no user, no renewal
  MaxSignIns, \* bound on sign-ins
  MaxCalls    \* bound on the calls under way

ASSUME SessionAssumption ==
  /\ NoOne \notin Accounts \cup [who : Accounts, fresh : BOOLEAN]
  /\ Lanes # {}
  /\ {MaxSignIns, MaxCalls} \subseteq Nat

VARIABLES
  renews,   \* the user portal, or the console
  store,    \* the access and refresh token in the storage
  tab,      \* how far a tab's boot is, the user shown, its form unanswered
  calls,    \* the calls under way
  renewal,  \* the renewal a tab has under way: whose token was sent
  last,     \* history: who signed in last and has not signed out
  crossed,  \* history: the session changed while another one was renewed
  foreign,  \* history: tabs that held a session when the storage changed
  signIns   \* sign-ins so far

sessionVars == <<renews, store, tab, calls, renewal, last, crossed, foreign, signIns>>

TokenSet == [who : Accounts, fresh : BOOLEAN] \cup {NoOne}

Signed(who) == [access |-> [who |-> who, fresh |-> TRUE], refresh |-> who]
SignedOut == [access |-> NoOne, refresh |-> NoOne]
NoCall == [at |-> "idle"]

(* A call and whether its 401 may still be answered by a renewal. *)
CallType ==
  [ at : {"sent", "renewing"}, kind : {"boot", "login", "reread", "work"},
    token : TokenSet, retry : BOOLEAN, as : Accounts \cup {NoOne} ]

TabType ==
  [at : {"boot", "asking", "ready"}, user : Accounts \cup {NoOne}, form : BOOLEAN]

(* A document just loaded.                                                  *)
NewTab == [at |-> "boot", user |-> NoOne, form |-> TRUE]

SessionTypeOK ==
  /\ renews \in BOOLEAN
  /\ store \in [access : TokenSet, refresh : Accounts \cup {NoOne}]
  /\ tab \in [Tabs -> TabType]
  /\ calls \in [Tabs \X Lanes -> {NoCall} \cup CallType]
  /\ renewal \in [Tabs -> Accounts \cup {NoOne}]
  /\ last \in Accounts \cup {NoOne} /\ crossed \in BOOLEAN /\ foreign \subseteq Tabs
  /\ signIns \in 0..MaxSignIns

(* The storage outlives the browser's tabs.                                 *)
SessionInit ==
  /\ renews \in BOOLEAN
  /\ last \in Accounts \cup {NoOne}
  /\ store = IF last = NoOne THEN SignedOut ELSE Signed(last)
  /\ tab = [t \in Tabs |-> NewTab]
  /\ calls = [k \in Tabs \X Lanes |-> NoCall]
  /\ renewal = [t \in Tabs |-> NoOne]
  /\ crossed = FALSE /\ foreign = {} /\ signIns = 0

-----------------------------------------------------------------------------
(* The storage *)

(* A tab that shows someone or has a call under way holds to a session.     *)
Holding(t) == tab[t].user # NoOne \/ \E slot \in Lanes : calls[<<t, slot>>] # NoCall

(* The session becomes next, by a sign-in of who or by signing out.  What   *)
(* is under way, in this tab as in the others, goes on.                     *)
Become(next, who) ==
  /\ store' = next
  /\ last' = who
  /\ crossed' = (\E u \in Tabs : renewal[u] \notin {NoOne, who})
  /\ foreign' = { u \in Tabs : Holding(u) }
  /\ IF who = NoOne THEN UNCHANGED signIns
     ELSE signIns < MaxSignIns /\ signIns' = signIns + 1

(* A boot that was refused clears whatever is stored by now.                *)
Dropped ==
  /\ store' = SignedOut
  /\ foreign' = { u \in Tabs : Holding(u) }
  /\ UNCHANGED <<last, crossed, signIns>>

(* The access token expires, in the storage and in the calls under way. *)
Aged(token) == IF token = NoOne THEN NoOne ELSE [token EXCEPT !.fresh = FALSE]

Expire ==
  /\ store.access # NoOne
  /\ store' = [store EXCEPT !.access = Aged(@)]
  /\ calls' = [ k \in DOMAIN calls |->
                  IF calls[k] = NoCall THEN NoCall ELSE [calls[k] EXCEPT !.token = Aged(@)] ]
  /\ UNCHANGED <<renews, tab, renewal, last, crossed, foreign, signIns>>

-----------------------------------------------------------------------------
(* Documents *)

StayingShown(t) ==
  [ tab     |-> [tab EXCEPT ![t] = [NewTab EXCEPT !.user = tab[t].user]],
    calls   |-> calls,
    renewal |-> renewal ]

(* What is left of tab t when its document is replaced.                     *)
Wiped(t) ==
  [ tab     |-> [tab EXCEPT ![t] = NewTab],
    calls   |-> [k \in DOMAIN calls |-> IF k[1] = t THEN NoCall ELSE calls[k]],
    renewal |-> [renewal EXCEPT ![t] = NoOne] ]

(* At any time: by the user, or by a navigation begun before.               *)
LoadDocument(t) ==
  LET rest == Wiped(t)
  IN  /\ tab' = rest.tab /\ calls' = rest.calls /\ renewal' = rest.renewal
      /\ foreign' = foreign \ {t}
      /\ UNCHANGED <<renews, store, last, crossed, signIns>>

FreeLane(t) == CHOOSE slot \in Lanes : calls[<<t, slot>>] = NoCall

Request(kind, retry, as) ==
  [at |-> "sent", kind |-> kind, token |-> store.access, retry |-> retry, as |-> as]

(* Tab t makes the call, if one more may be under way.                      *)
Ask(t, request) ==
  /\ Cardinality({ k \in DOMAIN calls : calls[k] # NoCall }) < MaxCalls
  /\ \E slot \in Lanes : calls[<<t, slot>>] = NoCall
  /\ calls' = [calls EXCEPT ![<<t, FreeLane(t)>>] = request]

(* AuthProvider, once it has asked for the branding: without a token the    *)
(* tab is signed out, with one it asks /auth/me.                            *)
Boot(t) ==
  /\ tab[t].at = "boot"
  /\ IF store.access = NoOne
     THEN tab' = [tab EXCEPT ![t].at = "ready"] /\ UNCHANGED calls
     ELSE tab' = [tab EXCEPT ![t].at = "asking"] /\ Ask(t, Request("boot", TRUE, NoOne))
  /\ UNCHANGED <<renews, store, renewal, last, crossed, foreign, signIns>>

-----------------------------------------------------------------------------
(* Signing in and out *)

(* login of AuthProvider, its form answered: the tokens are stored, then    *)
(* /auth/me is asked.  The form does not wait for the boot, and the page    *)
(* that sends a user on may do so while the answer is on its way.           *)
SignsIn(t, who) ==
  /\ tab[t].form
  /\ Become(Signed(who), who)
  /\ tab' = [tab EXCEPT ![t].form = FALSE]
  /\ Ask(t, [ at |-> "sent", kind |-> "login", retry |-> TRUE,
              token |-> Signed(who).access, as |-> who ])
  /\ UNCHANGED <<renews, renewal>>

(* The console stores nothing for a user who is no administrator. *)
Login(t, who) == renews /\ SignsIn(t, who)
ConsoleLogin(t, who) == ~renews /\ SignsIn(t, who)

(* The portal alone: the tokens are stored and a navigation is begun; until *)
(* the document is replaced, it goes on.                                    *)
EnterAnew(t, who) ==
  /\ renews /\ tab[t].form
  /\ Become(Signed(who), who)
  /\ UNCHANGED <<renews, tab, calls, renewal>>

SsoSignIn(t, who) == tab[t].user = NoOne /\ EnterAnew(t, who)

(* A link is redeemed, on pages open to anyone, also to those signed in. *)
ActivateInner(t, who) == EnterAnew(t, who)
ResetInner(t, who) == EnterAnew(t, who)

(* The storage is cleared, nobody shown and a navigation begun. *)
Logout(t) ==
  /\ tab[t].at = "ready" /\ tab[t].user # NoOne
  /\ Become(SignedOut, NoOne)
  /\ tab' = [tab EXCEPT ![t].user = NoOne, ![t].form = TRUE]
  /\ UNCHANGED <<renews, calls, renewal>>

-----------------------------------------------------------------------------
(* Calls *)

(* Any call of a page. *)
Calls(t, request) ==
  /\ tab[t].at = "ready" /\ tab[t].user # NoOne
  /\ Ask(t, request)
  /\ UNCHANGED <<renews, store, tab, renewal, last, crossed, foreign, signIns>>

Send(t) == Calls(t, Request("work", TRUE, NoOne))

(* An upload is never replayed. *)
Upload(t) == Calls(t, Request("work", FALSE, NoOne))

(* refresh of AuthProvider: who am I, now? *)
Reread(t) ==
  /\ renews /\ store.access # NoOne
  /\ Calls(t, Request("reread", TRUE, NoOne))

(* The call is over: what its caller makes of it. *)
TabSettled(t, slot, ok) ==
  LET call == calls[<<t, slot>>]
  IN  /\ calls' = [calls EXCEPT ![<<t, slot>>] = NoCall]
      /\ tab' = [ tab EXCEPT
                    ![t].at   = IF call.kind = "boot" THEN "ready" ELSE @,
                    ![t].user = IF call.kind # "work" /\ ok THEN call.token.who
                                ELSE IF call.kind = "login" THEN call.as ELSE @ ]
      /\ IF call.kind = "boot" /\ ~ok
         THEN Dropped
         ELSE UNCHANGED <<store, last, crossed, foreign, signIns>>

Accepted(token) == token # NoOne /\ token.fresh

CallAnswered(t, slot) ==
  /\ calls[<<t, slot>>].at = "sent"
  /\ Accepted(calls[<<t, slot>>].token)
  /\ TabSettled(t, slot, TRUE)
  /\ UNCHANGED <<renews, renewal>>

(* The network fails, or the server refuses for good. *)
CallFails(t, slot) ==
  /\ calls[<<t, slot>>].at = "sent"
  /\ TabSettled(t, slot, FALSE)
  /\ UNCHANGED <<renews, renewal>>

MayRenew(call) == renews /\ call.retry /\ store.refresh # NoOne

(* 401: one renewal for all calls of the tab, begun unless there is one. *)
Refused(t, slot) ==
  LET call == calls[<<t, slot>>]
  IN  /\ call.at = "sent"
      /\ ~Accepted(call.token)
      /\ MayRenew(call)
      /\ renewal' = [renewal EXCEPT ![t] = IF @ = NoOne THEN store.refresh ELSE @]
      /\ calls' = [calls EXCEPT ![<<t, slot>>].at = "renewing"]
      /\ UNCHANGED <<renews, store, tab, last, crossed, foreign, signIns>>

ReplayedAgain(call, access) == [call EXCEPT !.at = "sent", !.token = access]

(* The replay of a call, with the token in the storage; it is the last one. *)
Replayed(call, access) == [call EXCEPT !.at = "sent", !.token = access, !.retry = FALSE]

(* The renewed tokens are stored, whatever the storage holds by now. *)
RenewalGranted(t) ==
  LET next == Signed(renewal[t])
  IN  /\ renewal[t] # NoOne
      /\ store' = next
      /\ renewal' = [renewal EXCEPT ![t] = NoOne]
      /\ calls' = [ k \in DOMAIN calls |->
                      IF k[1] = t /\ calls[k].at = "renewing"
                      THEN Replayed(calls[k], next.access) ELSE calls[k] ]
      /\ foreign' = IF store.refresh = renewal[t] THEN foreign
                    ELSE { u \in Tabs : Holding(u) }
      /\ UNCHANGED <<renews, tab, last, crossed, signIns>>

(* Without a renewal, the calls that waited fail with their 401. *)
RenewalRefused(t) ==
  LET waiting == { slot \in Lanes : calls[<<t, slot>>].at = "renewing" }
      asking  == \E slot \in waiting : calls[<<t, slot>>].kind = "boot"
      as      == { calls[<<t, slot>>].as : slot \in { s \in waiting : calls[<<t, s>>].kind = "login" } }
  IN  /\ renewal[t] # NoOne
      /\ renewal' = [renewal EXCEPT ![t] = NoOne]
      /\ calls' = [ k \in DOMAIN calls |->
                      IF k[1] = t /\ k[2] \in waiting THEN NoCall ELSE calls[k] ]
      /\ tab' = [ tab EXCEPT
                    ![t].at   = IF asking THEN "ready" ELSE @,
                    ![t].user = IF as # {} THEN CHOOSE who \in as : TRUE ELSE @ ]
      /\ IF asking THEN Dropped
                   ELSE UNCHANGED <<store, last, crossed, foreign, signIns>>
      /\ UNCHANGED renews

(* The browser hears of every call it made, if only that it failed. *)
CallReplies(t, slot) == CallAnswered(t, slot) \/ CallFails(t, slot) \/ Refused(t, slot)
RenewalReplies(t) == RenewalGranted(t) \/ RenewalRefused(t)

SessionNext ==
  \/ \E t \in Tabs :
       \/ LoadDocument(t) \/ Boot(t)
       \/ \E who \in Accounts :
            \/ Login(t, who) \/ ConsoleLogin(t, who)
            \/ SsoSignIn(t, who) \/ ActivateInner(t, who) \/ ResetInner(t, who)
       \/ Logout(t)
       \/ Send(t) \/ Upload(t) \/ Reread(t)
       \/ \E slot \in Lanes : CallReplies(t, slot)
       \/ RenewalReplies(t)
  \/ Expire

(* A browser hears of every call in the end, if only of its failure. *)
SessionFairness ==
  /\ \A t \in Tabs, slot \in Lanes : WF_sessionVars(CallReplies(t, slot))
  /\ \A t \in Tabs : WF_sessionVars(RenewalReplies(t))

SessionSpec == SessionInit /\ [][SessionNext]_sessionVars /\ SessionFairness

-----------------------------------------------------------------------------
(* Properties *)

(* The storage holds the session that was signed in to last or none, and    *)
(* none after signing out, unless a renewal of another session was under    *)
(* way just then, be it in the same tab: its reply brings that one back.    *)
SessionIsLast ==
  store.refresh \in {NoOne, last} \/ crossed

(* What a tab asks for is asked in the name of the user it shows, unless    *)
(* the session was changed, by another tab or by its own form, or cleared,  *)
(* or brought back, while the tab showed someone or had a call under way    *)
(* (its boot, say, which the forms do not wait for) and its document has    *)
(* not been replaced since.                                                 *)
AskedAsShown ==
  \A t \in Tabs \ foreign, slot \in Lanes :
    LET call == calls[<<t, slot>>]
    IN  call # NoCall /\ call.kind = "work" /\ call.token # NoOne
          => call.token.who = tab[t].user

(* What the storage and the tabs of a browser hold agrees. *)
SessionInv == SessionTypeOK /\ SessionIsLast /\ AskedAsShown

(* "Guards against a loop when the refresh token is dead too": every call   *)
(* comes to an end, however often tokens expire.                            *)
CallsEnd ==
  \A t \in Tabs, slot \in Lanes : calls[<<t, slot>>] # NoCall ~> calls[<<t, slot>>] = NoCall
=============================================================================
