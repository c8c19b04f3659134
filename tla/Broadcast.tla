------------------------------ MODULE Broadcast ------------------------------
(***************************************************************************)
(* The console's page that mails many people at once (web-admin             *)
(* broadcast/page.tsx), over the service that does it                       *)
(* (broadcast.service.ts).  A list is filtered, people are ticked or all    *)
(* who match are taken, a dialog says how many, and the service works out   *)
(* again who they are.  Meanwhile people activate their accounts, come and  *)
(* go, replies cross, and a send may break off.                             *)
(*                                                                          *)
(* Left out: the message, its templates and its preview, pages of the list  *)
(* (ticks outlive a change of page as they outlive one of filter), and a    *)
(* service that goes on when its caller has given up on it.                 *)
(***************************************************************************)
EXTENDS Naturals, FiniteSets, Sequences, SequencesExt

CONSTANTS
  People,
  Groups,         \* whom a search, a role or a status picks out
  Statuses,        \* what can be asked of their activation
  Missing,        \* no such account
  NoSend, Nothing,  \* no send under way; no list yet, nothing promised
  MAX_RECIPIENTS,
  MaxTurns,       \* bound on changes of accounts
  MaxReads,       \* bound on requests for the list under way
  MaxBreaks       \* bound on requests that fail

ASSUME BroadcastAssumption ==
  /\ IsFiniteSet(People) /\ Missing \notin {"activated", "pending"}
  /\ Groups \subseteq SUBSET People /\ People \in Groups
  /\ {"any", "false"} \subseteq Statuses /\ Statuses \subseteq {"any", "true", "false"}
  /\ {MAX_RECIPIENTS, MaxTurns, MaxReads, MaxBreaks} \subseteq Nat /\ MAX_RECIPIENTS > 0

VARIABLES
  people,      \* the accounts: activated by their owner or not
  turns,       \* history: how often they have changed
  mode, filter,
  list,        \* the reply on show
  reads,       \* the filters of the requests for it under way
  listErr,
  selected,    \* the ticks
  allMatching,
  confirming,  \* the dialog is open
  sending,     \* the send under way
  since,       \* history: activated since the send found its targets
  breaks       \* requests failed so far

broadcastVars ==
  <<people, turns, mode, filter, list, reads, listErr, selected, allMatching, confirming,
    sending, since, breaks>>

AccountStates == {"activated", "pending", Missing}

FilterType == [who : Groups, hasPassword : Statuses]
ListType   == [filter : FilterType, at : 0..MaxTurns, rows : SUBSET People]

ASSUME ListAssumption == Nothing \notin ListType

(* A tick and the list it was made in: its age, and whether it was another  *)
(* mode's, which stays on show until the reply for this one comes.          *)
TickType == [who : People, at : 0..MaxTurns, astray : BOOLEAN]

(* Whom a send is for, by the filter, which the page loads again after it,  *)
(* or by the ticks; the number its dialog showed, while that should hold;   *)
(* and the targets it has left.                                             *)
SendType ==
  [ mode : {"ACTIVATION", "ANNOUNCEMENT"}, filter : FilterType, all : BOOLEAN,
    userIds : SUBSET People, promised : Nat \cup {Nothing},
    stage : {"sent", "mailing", "done", "failed"}, left : SUBSET People ]

BroadcastTypeOK ==
  /\ people \in [People -> AccountStates] /\ turns \in 0..MaxTurns
  /\ mode \in {"ACTIVATION", "ANNOUNCEMENT"}
  /\ filter \in FilterType /\ (mode = "ACTIVATION" => filter.hasPassword = "false")
  /\ list \in ListType \cup {Nothing}
  /\ reads \in Seq(FilterType)
  /\ listErr \in BOOLEAN /\ allMatching \in BOOLEAN /\ confirming \in BOOLEAN
  /\ selected \subseteq TickType
  /\ \A t, u \in selected : t.who = u.who => t = u
  /\ sending \in SendType \cup {NoSend}
  /\ since \subseteq People /\ breaks \in 0..MaxBreaks

(* The page has just been opened, on everyone who has not activated. *)
BroadcastInit ==
  /\ people \in [People -> AccountStates] /\ turns = 0
  /\ mode = "ACTIVATION"
  /\ filter = [who |-> People, hasPassword |-> "false"]
  /\ list = Nothing /\ reads = <<filter>> /\ listErr = FALSE
  /\ selected = {} /\ allMatching = FALSE /\ confirming = FALSE
  /\ sending = NoSend /\ since = {} /\ breaks = 0

-----------------------------------------------------------------------------
(* The accounts: activated, reset or added by an administrator, removed. *)

Awaited == sending # NoSend /\ sending.stage = "sent"

AccountTurns(p, to) ==
  /\ turns < MaxTurns /\ turns' = turns + 1
  /\ people[p] # to /\ (to = "activated" => people[p] = "pending")
  /\ people' = [people EXCEPT ![p] = to]
  /\ since' = IF sending # NoSend /\ to = "activated" THEN since \cup {p} ELSE since
  /\ sending' = IF Awaited THEN [sending EXCEPT !.promised = Nothing] ELSE sending
  /\ UNCHANGED <<mode, filter, list, reads, listErr, selected, allMatching, confirming, breaks>>

NotActivated(p) == people[p] = "pending"

Fits(p, hasPassword) ==
  /\ people[p] # Missing
  /\ (hasPassword = "false" => NotActivated(p)) /\ (hasPassword = "true" => ~NotActivated(p))

(* Two clauses that use OR, spread into one object: the search replaces. *)
WhereForSpread(f) ==
  {p \in f.who : Fits(p, IF f.who = People THEN f.hasPassword ELSE "any")}

(* Every clause is under one AND. *)
WhereFor(f) == {p \in f.who : Fits(p, f.hasPassword)}

-----------------------------------------------------------------------------
(* The page *)

Ask(f) ==
  /\ Len(reads) < MaxReads
  /\ reads' = Append(reads, f)
  /\ listErr' = FALSE

(* What can be used while no dialog covers it. *)
Uncovered == ~confirming

(* A change of mode starts the choice again; what is on show stays. *)
SwitchMode(m) ==
  /\ Uncovered /\ m # mode /\ mode' = m
  /\ selected' = {} /\ allMatching' = FALSE
  /\ filter' = [filter EXCEPT !.hasPassword = IF m = "ACTIVATION" THEN "false" ELSE "any"]
  /\ Ask(filter')
  /\ UNCHANGED <<people, turns, list, confirming, sending, since, breaks>>

(* A change of filter does not. *)
SetFilter(f) ==
  /\ Uncovered /\ f # filter /\ filter' = f
  /\ mode = "ACTIVATION" => f.hasPassword = "false"
  /\ Ask(f)
  /\ UNCHANGED <<people, turns, mode, list, selected, allMatching, confirming, sending, since,
                 breaks>>

Retry ==
  /\ Uncovered /\ listErr
  /\ Ask(filter)
  /\ UNCHANGED <<people, turns, mode, filter, list, selected, allMatching, confirming, sending,
                 since, breaks>>

TableShown == Uncovered /\ list # Nothing /\ ~listErr

Picked == {t.who : t \in selected}

Ticks(ps) ==
  {[who |-> p, at |-> list.at,
    astray |-> mode = "ACTIVATION" /\ list.filter.hasPassword # "false"] : p \in ps}

(* A box, or the one above them all: empties what is full. *)
Toggle(ps) ==
  /\ TableShown /\ ~allMatching
  /\ ps # {} /\ ps \subseteq list.rows
  /\ selected' = IF ps \subseteq Picked THEN {t \in selected : t.who \notin ps}
                 ELSE selected \cup Ticks(ps \ Picked)
  /\ UNCHANGED <<people, turns, mode, filter, list, reads, listErr, allMatching, confirming,
                 sending, since, breaks>>

ToggleOne == \E p \in People : Toggle({p})
TogglePage == list # Nothing /\ Toggle(list.rows)

ToggleAllMatching ==
  /\ TableShown /\ list.rows # {}
  /\ allMatching' = ~allMatching
  /\ UNCHANGED <<people, turns, mode, filter, list, reads, listErr, selected, confirming, sending,
                 since, breaks>>

RecipientCount ==
  IF ~allMatching THEN Cardinality(selected)
  ELSE IF list = Nothing THEN 0 ELSE Cardinality(list.rows)

(* The button is below the list, and there when the list is not. *)
OpenConfirm ==
  /\ Uncovered /\ RecipientCount > 0
  /\ confirming' = TRUE
  /\ UNCHANGED <<people, turns, mode, filter, list, reads, listErr, selected, allMatching, sending,
                 since, breaks>>

(* Also by the key or beside it, while it is busy. *)
CloseConfirm ==
  /\ confirming /\ confirming' = FALSE
  /\ UNCHANGED <<people, turns, mode, filter, list, reads, listErr, selected, allMatching, sending,
                 since, breaks>>

(* The number was of the people as they are, and of the choice as it is. *)
Sound ==
  IF allMatching THEN list.filter = filter /\ list.at = turns
  ELSE \A t \in selected : t.at = turns /\ ~t.astray

Send ==
  /\ confirming /\ sending = NoSend
  /\ sending' =
       [ mode |-> mode, filter |-> filter, all |-> allMatching,
         userIds |-> IF allMatching THEN {} ELSE Picked,
         promised |-> IF Sound THEN RecipientCount ELSE Nothing, stage |-> "sent", left |-> {} ]
  /\ since' = {}
  /\ UNCHANGED <<people, turns, mode, filter, list, reads, listErr, selected, allMatching,
                 confirming, breaks>>

(* The load it knows is the one of when it was sent. *)
Answered ==
  /\ sending # NoSend /\ sending.stage \in {"done", "failed"}
  /\ sending' = NoSend
  /\ IF sending.stage = "done"
     THEN /\ selected' = {} /\ allMatching' = FALSE /\ confirming' = FALSE
          /\ Ask(sending.filter)
     ELSE UNCHANGED <<selected, allMatching, confirming, reads, listErr>>
  /\ UNCHANGED <<people, turns, mode, filter, list, since, breaks>>

-----------------------------------------------------------------------------
(* The service *)

(* Whichever reply comes last is on show.  (The accounts may change the     *)
(* moment after: a reply that is old when it comes is one that got old.)    *)
Recipients(i) ==
  /\ list' = [filter |-> reads[i], at |-> turns, rows |-> WhereFor(reads[i])]
  /\ reads' = RemoveAt(reads, i)
  /\ UNCHANGED <<people, turns, mode, filter, listErr, selected, allMatching, confirming, sending,
                 since, breaks>>

Break == breaks < MaxBreaks /\ breaks' = breaks + 1

Unlisted(i) ==
  /\ Break
  /\ reads' = RemoveAt(reads, i) /\ listErr' = TRUE
  /\ UNCHANGED <<people, turns, mode, filter, list, selected, allMatching, confirming, sending,
                 since>>

(* An activation is forced upon the filter, and upon the ids. *)
Forced(hasPassword) == IF sending.mode = "ACTIVATION" THEN "false" ELSE hasPassword

UpToTheCap(n) == IF n < MAX_RECIPIENTS THEN n ELSE MAX_RECIPIENTS

Capped(ps) == {T \in SUBSET ps : Cardinality(T) = UpToTheCap(Cardinality(ps))}

ResolveTargets ==
  IF sending.all
  THEN Capped(WhereFor([sending.filter EXCEPT !.hasPassword = Forced(@)]))
  ELSE {{p \in sending.userIds : Fits(p, Forced("any"))}}

(* The dialog's number, as far as the service goes. *)
Promised ==
  IF sending.promised # Nothing /\ sending.all THEN UpToTheCap(sending.promised) ELSE sending.promised

FindTargets ==
  /\ Awaited
  /\ \E T \in ResolveTargets :
       sending' = [sending EXCEPT !.stage = "mailing", !.left = T, !.all = FALSE, !.userIds = {},
                                  !.promised = Promised]
  /\ since' = {}
  /\ UNCHANGED <<people, turns, mode, filter, list, reads, listErr, selected, allMatching,
                 confirming, breaks>>

Mailing == sending # NoSend /\ sending.stage = "mailing"

Ended(how) == [sending EXCEPT !.stage = how, !.left = {}, !.all = FALSE, !.userIds = {},
                                 !.promised = Nothing]

(* One token and one mail after the other; it ends at an account that is    *)
(* gone, whose token cannot be stored.                                      *)
ResendActivation(p) ==
  /\ Mailing /\ sending.mode = "ACTIVATION" /\ p \in sending.left
  /\ sending' = IF people[p] = Missing THEN Ended("failed")
                ELSE [sending EXCEPT !.left = @ \ {p}, !.promised = Nothing]
  /\ UNCHANGED <<people, turns, mode, filter, list, reads, listErr, selected, allMatching,
                 confirming, since, breaks>>

(* All at once, nobody waiting for what becomes of it. *)
SendAnnouncement ==
  /\ Mailing /\ sending.mode = "ANNOUNCEMENT" /\ sending.left # {}
  /\ sending' = [sending EXCEPT !.left = {}, !.promised = Nothing]
  /\ UNCHANGED <<people, turns, mode, filter, list, reads, listErr, selected, allMatching,
                 confirming, since, breaks>>

(* The audit, and the reply; either may fail, and so may the rest. *)
Sent ==
  /\ Mailing /\ sending.left = {}
  /\ sending' = Ended("done")
  /\ UNCHANGED <<people, turns, mode, filter, list, reads, listErr, selected, allMatching,
                 confirming, since, breaks>>

Unsent ==
  /\ sending # NoSend /\ sending.stage # "failed" /\ Break
  /\ sending' = Ended("failed")
  /\ UNCHANGED <<people, turns, mode, filter, list, reads, listErr, selected, allMatching,
                 confirming, since>>

BroadcastNext ==
  \/ \E p \in People, to \in AccountStates : AccountTurns(p, to)
  \/ \E m \in {"ACTIVATION", "ANNOUNCEMENT"} : SwitchMode(m)
  \/ \E f \in FilterType : SetFilter(f)
  \/ Retry \/ ToggleOne \/ TogglePage \/ ToggleAllMatching
  \/ OpenConfirm \/ CloseConfirm \/ Send \/ Answered
  \/ \E i \in DOMAIN reads : Recipients(i) \/ Unlisted(i)
  \/ FindTargets \/ SendAnnouncement \/ Sent \/ Unsent
  \/ \E p \in People : ResendActivation(p)

BroadcastSpec == BroadcastInit /\ [][BroadcastNext]_broadcastVars

-----------------------------------------------------------------------------
(* Properties *)

(* As many are written to as the dialog said, and of all who match no more  *)
(* than the cap, unless the accounts changed before they were found, the    *)
(* list on show was old or not the one asked for, or a tick was made in the *)
(* other mode's list.                                                       *)
SentAsConfirmed ==
  Mailing /\ sending.promised # Nothing => Cardinality(sending.left) = sending.promised

(* "Only ever reaches accounts that are not genuinely activated yet": a     *)
(* link is to be mailed to nobody who was activated when its targets were   *)
(* found.                                                                   *)
OnlyTheNotActivated ==
  Mailing /\ sending.mode = "ACTIVATION" =>
    \A p \in sending.left : people[p] = "activated" => p \in since

(* What the page sends is what it said, to whom it may be sent. *)
BroadcastInv == BroadcastTypeOK /\ SentAsConfirmed /\ OnlyTheNotActivated
=============================================================================
