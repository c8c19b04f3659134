# MeetNippon: a verification project in TLA+

MeetNippon is a multi-tenant booking system for meeting rooms: a NestJS API over
PostgreSQL (`apps/api`), and two Next.js portals (`apps/web-user`,
`apps/web-admin`). This directory models the API, whose state is the database and
whose steps are its request handlers and its interval jobs, and the parts of the
portals that decide what is asked of it; it model-checks them with TLC and proves
theorems about them with TLAPS.

The API uses **no database transactions**. A handler reads, checks and writes in
separate `await`ed statements, and between any two of them other requests run.
The portals compute on replies that may be late. Two questions therefore organise
the project: what does each handler guarantee if it runs alone (`Booking`,
`ChangeRequest`), and what is left of it when requests, jobs, failures, late
replies and forms that are out of date interleave (all the other modules)? Where the
answer to the second is "less", the property says exactly which overlap it takes.

## Inventory

Paths are under `apps/api/src`. "Jobs" are `setInterval` loops in the process.

| Component | State | Operations | What makes it correct |
|---|---|---|---|
| Booking rules (`booking/booking.rules.ts`) | none | validate a slot, business hours, horizon, expand a recurrence | accepts exactly the slots the policy allows; occurrences keep their wall-clock time |
| Booking service (`booking/booking.service.ts`) | `Booking` rows | create (also series), update, cancel, check in, free windows and slots | no two active bookings of a room overlap; a started meeting does not move; quotas hold |
| Approvals (`booking/approval.service.ts`) | `ApprovalStep` rows | list, decide | a booking's status is what its approvers decided; it is never stuck |
| Policies (`booking/policy/`) | `BookingPolicy` rows, three scopes | upsert, remove, resolve | the most specific layer wins; one row per scope |
| Resources (`resource/`, `admin/resource-admin.service.ts`) | `Resource` rows with a status | create, update, remove, list | only ACTIVE rooms are booked |
| No-show sweep (`booking/no-show.service.ts`, job) | `noShowAt` | mark ended, unused bookings and warn once | who is warned did not use the room; once each |
| Change requests (`booking/change-request.service.ts`) | `BookingChangeRequest` rows | ask for part of a colleague's slot, decide | granted means shrunk *and* booked; declined changes nothing of the owner's |
| Reminders (`reminder/`, job) | `remindersSent` | deliver what is due | each once, none lost |
| Accounts (`auth/`, `admin/user-admin.service.ts`, `sso/`) | `User`, `RegistrationRequest`, one-time tokens | activate, reset, register, approve, reject, import, remove | one account per address; a token works once |
| Plans (`billing/`), onboarding (`onboarding/`) | feature-flag row, `Tenant` and its first rows | limits, register a workspace | limits hold; a workspace is complete |
| Chat and presence (`chat/`, `presence/`) | conversations, members, messages, last seen | send, read, mute, open a conversation | unread counts; one e-mail per quiet period |
| Approval hub, broadcast, work location, feedback, menus, flags, uploads, recordings | one table or none each | single writes | configuration and records |
| Tenant isolation (`prisma/`, `tenant/`) | request context | rewrites every query | no row of another tenant |
| Time zones (`common/tz.util.ts`, `web-user/lib/format.ts`) | none | wall clock and instants | days and minutes across daylight-saving changes |
| Mail (`mail/`) | a workspace's own server, the cached transport, the last verdict | save, clear, try, send | what is stored is what is used and what was tried |
| Broadcast (`broadcast/`) | none; issues activation links | list, find the targets again, mail them | as many as confirmed, none of them activated |
| Calendar, notifications, audit | outbound | format and send, fire and forget | - |

The portals, whose paths are under `apps/`:

| Component | State | Operations | What makes it correct |
|---|---|---|---|
| Meeting form (`web-user/components/MeetingComposer.tsx`) | date, duration, type, picked slot, the free-windows reply | open, change any of them, pick, submit | what it offers can be booked, and is what it shows |
| Request dialogs (`RequestChangeModal.tsx`, `ApproveRescheduleModal.tsx`) | part asked for, pick, the booking as listed | ask, approve, decline | they offer what the service accepts and show what it then does |
| Sessions (`lib/api.ts`, `lib/auth.tsx` of both) | tokens in the browser's storage, a user per tab | sign in and out, call, renew, replay | a tab asks in the name it shows; every call ends |
| Pages with lists (schedule, calendar, floor plan, history, chat, ...) | selection, rows, requests under way | select, load more, poll | what is shown is what is selected |
| Console: users (`web-admin/app/(app)/users`) | list, dialog | create, edit, import, approve, reset, remove | an administrator remains; roles are those chosen |
| Console: rooms, policies, places (`resources`, `policies`, `locations`) | forms over earlier readings | save a room in two requests, save policies and plans | saving changes what was shown, nothing else |
| Console: mail, broadcast (`mail`, `broadcast`) | form with a touched password; filter, ticks, dialog | save, clear, try; choose and send | a stored password survives; the number confirmed is the number mailed |

How they interact: the booking service calls policy resolution and its own
conflict query before it writes; approvals and the no-show sweep write the rows
of the booking service directly, without asking it; a change request calls
`update` or `cancel` and then `create`, the second as another user; reminders,
presence and the public pages read bookings. All calls are in-process, all shared
state is in the database, but for the transports `MailService` caches, and only the
jobs guard against overlapping with themselves (`running`). The portals call the
API over HTTP, keep what they read for as long as a page or dialog is open, and
share between tabs nothing but the browser's storage.

Hard behaviours, each at its line under `hazards` in `PROJECT.json`: check then
write without a transaction; approval steps that outlive what they were about;
steps issued one at a time; series stored row by row; a restart between two
writes; decisions, moves and cancellations of one booking in any order; a sweep
racing a check-in; a warning or a reminder lost or repeated around a failure;
half an approved change request; count-then-create limits; boundaries in
rounded minutes; replies that cross; dialogs that act on rows others have changed;
a save made of two requests; a cache filled from a reading that a write overtook.

## Modules

| Module | Models |
|---|---|
| `BookingRules` | the pure rules, as operators |
| `RoomCalendar` | the abstract promise: holdings of a room, a fixed gap apart, taken all or nothing, changed one at a time |
| `Booking` | the booking core, one request at a time; implements `RoomCalendar` |
| `BookingRace` | create, update, cancel and decide, one database call per step, and restarts |
| `ChangeRequest` | asking for part of a colleague's slot, granting, declining; composed with `Booking` |
| `OneWarning` | the abstract promise of the sweep: claimed, then warned, once |
| `Jobs` | the no-show sweep and the reminder dispatcher, call by call, among the requests on the same rows; implements `OneWarning` |
| `Accounts` | creation, import, provisioning, parked registrations and their decisions, removal, the plan's limit |
| `SignIn` | one account's links, passwords and tokens, while its role and standing change |
| `Chat` | conversations, messages, read marks and the e-mail nudge, with presence |
| `Workspace` | a registration, the address, and the settings saved by several statements |
| `LocalDays` | wall clock and instants, as API and portal convert between them |
| `Composer` | the meeting form over free-windows replies, on `LocalDays` |
| `RequestForms` | the two dialogs around change requests, composed with `ChangeRequest` |
| `Session` | the tokens of a browser, its tabs, their calls, renewal and replay |
| `Screens` | how the pages that show lists ask for them and show the replies |
| `Mailer` | a workspace's mail settings, the cached transport and the console's page |
| `Roster` | the console's page of users, over the service it calls |
| `Estate` | the console's pages of rooms, policies, floors and plans, over their services |
| `Broadcast` | the console's page that mails many, over its service |
| `MC...` | small instances |
| `..._proofs` | theorems: `Booking_proofs` also about `ChangeRequest` and `RequestForms`, `Jobs_proofs` about `Session`, `Accounts_proofs` about `Broadcast`, `Composer_proofs` about `LocalDays` and `Screens`; `Console_proofs` about `Workspace`, `Mailer`, `Roster` and `Estate` |

`Booking` implements `RoomCalendar`, `Jobs` implements `OneWarning`;
`RequestForms` extends `ChangeRequest`, which extends `Booking`, which uses
`BookingRules`; `Composer` extends `LocalDays`. The others stand alone: what they
take from another component is named in their heads.

In every module an action is a handler, or the part of a handler up to its next
`await` where the module is about interleaving; a refused request changes nothing
and is not a step. History variables record what a property has to excuse
(`raced`, `overtaken`, ...) and are read by no guard.

### Booking

`bookings` is the table in creation order, an id being a position; a row carries
its own approval steps, whose positions are their levels. `policy` maps a room to
its *effective* rules, the result of the three-layer merge, which an
administrator replaces at once (`SetPolicy`). `now` is the clock. `unchecked` is a
history variable: the bookings no conflict check compared with a rival, because an
approval brought them back from a final state, or because they were booked in one
series with that rival (`Crowded`).

Each action is a whole handler, with its guards in the `...Accepted` operators
and its writes in `NewRows`, `UpdatedRow` and the action itself: `Create`,
`Update`, `Cancel`, `CheckIn` (`booking.service.ts`), `Decide`
(`approval.service.ts`), `NoShowSweep` (`no-show.service.ts`), `SetPolicy`,
`SetRoomStatus` and `Tick`. A refused request changes nothing and is not a step.

Abstracted: titles, participants, reminders, invitations, audit rows, the token
string (a row has one or not; a request carries it or not), and the external
participants rule, which reads only the request. A request's rules are those of
the moment it starts. Time has two ticks to the minute, because
`minutesBetween` rounds: a booking may start half a minute in the past.

### BookingRace

`req[r]` holds how far request `r` has come and what it has read; every `await`
that reads or writes the tables is a boundary between steps. Steps have ids of
their own here, since a move deletes and reissues them while deciders may hold
an old one. An update that names the room its booking is in is `ResendRead` and
`ResendWrite`: nothing is checked, and the room as read is written back, wherever the
booking is by then. `Restart` loses all requests in flight. `together` is a history
variable: the pairs of creates and updates that were in flight at the same time.
The clock, rooms and policies stand still and no daily quota is set; what depends
on them is in `Booking`.

### ChangeRequest

`requests` is the table of change requests; `EXTENDS Booking` gives it the
bookings, and its decisions use `Booking`'s acceptance operators, the last one as
the requester. `Grant` is the whole approval: the owner's part (carved off, moved
or cancelled, `OwnerGives`), then the requester's. When the second is refused,
the first stays applied and the request stays open; the history variable `half`
remembers such requests. `Decline` books the `Fallback`, if it is free, and
settles the request in either case. Each request runs to completion.

### Jobs

`rows` are bookings of rooms that ask for check-in; `sweep` and `dispatch` are the
passes of the two jobs, with what they have read; `request` is what a handler is
about to write to a booking after its checks. `SweepStart`, `SweepClaim`,
`SweepWarn` are the query, the conditional update and the warning of
`NoShowService.tick`; `DispatchStart`, `DispatchDeliver`, `DispatchRecord` those of
`ReminderService.tick`, which works on rows as read, at the time it took first.
`SweepFails`, `DispatchFails` end a pass at any call; `Restart` ends both and every
request. Check-in and reschedule are split between check and write; cancelling is
one write, and so is a decision's status (`Decide`), since bookings that still wait
for approval are reminded of as well. Recipients and channels are left out: delivering
and warning are counted.

### Accounts and SignIn

`Accounts` has the `User` table in creation order, the registration of each
address and `flow`, what each request in flight is doing. `CreateBegin` and
`Insert` are `create` and an import's row; `ProvisionBegin` is single sign-on's
first visit; `ParkBegin`, `ParkLookup`, `ParkWrite` park a registration;
`ApproveCheck`, `ApproveCreate`, `ApproveMark` and `RejectWrite` decide it;
`RemoveBegin` counts the bookings, `RemoveWrite` deletes. The unique index on the
address is the guard of `Insert`.

`SignIn` looks at one account. A link is a number with an expiry; a token is a role
with an expiry, since the server keeps no list of tokens and reads the role from
them. `LinkBegin`/`LinkWrite` issue a link, `RedeemBegin`/`RedeemWrite` use it,
`LoginBegin`, `RefreshBegin` and `Sign` make a session. The administrator's writes
may come between any two steps. Hashing, signing and mails are left out.

### Chat

`convs`, `messages` and `member` are the three tables. Opening a conversation is
`OpenBegin`, `OpenCreate`, `OpenMembers`; sending is `SendInsert`, `SendRead`, then
for each absent recipient `NudgeStart` and `Claim`. The recipient's presence row is
any that heartbeats and choices can leave (`PersonRows`). A reading finds the member
(`ReadBegin`) and then writes the time it took (`ReadWrite`). `mark` remembers how many
messages there were when a member last read. Bodies and notifications are left
out.

### Workspace

A registration inserts tenant, branding, administrator and policy (`Register...`)
against another workspace that claims the address (`ClaimBegin`, `ClaimWrite`,
`Release`) and against its own administrator, who can sign in before the policy is
there. The settings are those whose save is more than one statement: the baseline
policy (`Rules...`), the hidden menus (`MenuClear`, `MenuFill`), an integration's
secret (`SecretBegin`, `SecretWrite`) and the decision of an external task
(`DecideBegin`, `DecideWrite`). `Abandon` is a failure between statements.
`wanted` is what the last save asked for, `clashed` the subjects whose saves
overlapped or died half way.

### LocalDays and Composer

`LocalDays` is `tz.util.ts` and the portal's `zonedToUtcIso`: a zone has an offset
before and one after a change, and the two-pass conversion is translated as it is.
`Ordinary`, `Skipped` and `Repeated` say what the clock does with a day or reading.

`Composer` is the meeting form. `form` holds the date, duration, type, pick and the
reply it shows; `asked` are the requests under way, answered (`Answer`) and
delivered (`Deliver`) in any order, or failing. After every change the effects of
the React component run (`ApplyPreset`, `KeepPick`, in `Settled`). The operators of
`freeWindows`, `createRaw` and `update` are those of the API, evaluated when the
reply is made. Until the first reply the limits on the duration are those of
`Unanswered`. `Submit...` closes the form or leaves it open as the API answers.
Titles, participants, series and approval are left out.

### RequestForms

`asking` and `answering` are the two dialogs, each with the booking as it was
listed. `OpenAsk` and `SendAsk` are `RequestChangeModal`:
`Carvable`, `Wanted` and `Sent` reckon in minutes of the day, as it does, and the
service's `AskAccepted` in instants. `OpenAnswer`, `WindowsArrive`, `Duration`,
`Pick`, `CancelInstead` and `Approve` are `ApproveRescheduleModal`: `AutoMode`
decides whether the owner must choose, `Offered` cuts the window to be granted
out of the free windows, `StartOptions` are the times offered. Meanwhile every
action of `ChangeRequest` may happen.

### Session

`store` is the browser's storage, `tab` how far each tab's boot is and whom it shows,
`calls` the requests of a tab in its `Lanes`, `renewal` the renewal a tab has under
way. `Boot`, `Login` and `Logout` are `AuthProvider`; `SsoSignIn`, `ActivateInner` and
`ResetInner` the pages that store tokens and then navigate; `CallReplies` is `request`
of `lib/api.ts` with its one replay, `RenewalReplies` is `renewAccess`. `renews` tells
the user portal from the console, which never renews.

A form may be sent while the tab's own boot is still asking, and neither signing in
nor `Logout` ends what is under way: it goes on until the document is replaced
(`LoadDocument`, which a navigation comes to in the end). So a boot's late reply may
show the old user over the new session, or clear its tokens (`Dropped`), and a renewal
may store a session that was left. `crossed` and `foreign` are history variables: the
session changed while another one was being renewed, in any tab; and the tabs that
showed someone or had a call under way when the storage changed, until their document
is replaced. Whether the server grants a renewal is `SignIn`'s matter.

### Screens

A page is a set of traits, translated from its effects: whether it selects,
cancels what an earlier effect asked for (`guards`), polls, continues a list, is
blank on an error, writes and reloads, and so on. Of the data only the selection
and its age (`world`) are kept. `Select`, `Again`, `More` and `OwnChange` ask,
`Serve` answers, `Arrive` shows and `Fail` reports. "Load more" asks for what comes
after as many rows as are shown, in a list that grows at its head as meetings end:
`Row` is the row a part begins with, the rows numbered as their meetings ended.
`disturbed` is a history variable: an overtaken reply was shown since the last load that met no other.

### Mailer

`setting` is the row, `cache` the transport built from it, `mailTab` a page,
`mailCall` the calls under way of a page (one save, one trial) and of the jobs that
mail. Saves are split into `SaveBegin` (which reads the row), `SaveWrite` and
`Invalidate`; a mail or trial into `Begun` (which looks into the cache, then reads
the row), `Build`, `Tried`, and a trial also into `RecordRead` and `RecordWrite`.
`left` is the page's flag that the password field was touched, which clearing
the settings does not reset. `MailerRestart` empties the cache.

### Roster

`tables` is the history of the `User` table, `seen` which of its states a
console's list shows, `dialog` the dialog it has open. `OpenOnRow`, `OpenOnNew`,
`ChooseRole`, `Submit` and `Close` are `users/page.tsx`, `Serve` and `Refuse` the
replies of `user-admin.service.ts`. `holds` says who still has an administrator's
token, which outlives the right to it until `Lapse`; `lapsed` is a history
variable: someone wrote with such a token.

### Estate

`rooms`, `rulesOf`, `floors` and `plans` are the tables, `form` and `saving` what
each administrator has open and is saving. Saving a room is two requests,
`PutRoom` and `PutRules`, the second with the room's other rules as read when the
form was opened (`RulesArrive`), or with none if the reading had not come. Saving
a plan checks the pins, then writes (`at` is "check", then "plan").
`Effective` merges the three scopes as `mergeRules` does. `strayed` is a history
variable: pins whose room left its floor after they were checked.

### Broadcast

The page's `filter`, `list`, ticks (`selected`), `allMatching` and dialog, and the
send under way: `FindTargets` works the recipients out again, `SendAnnouncement`
or one `ResendActivation` per account mails them, `Sent` and `Unsent` end it.
`promised` is the number the dialog said, if it was of the people as they were;
`since` is a history variable: who was activated after the targets were found.

## What the runs check

A run is one question asked of the system. Where several machines answer it that
share no state, they run side by side in one instance: a variable `side` says which
of them moves, the others rest where they begin. So `jobs` is `Jobs` and `Session`
(its liveness), `sign_in` is `SignIn` and `Session` (its safety),
`accounts` is `Accounts`, `Broadcast` and `Chat`, `workspace` is `Workspace`, `Mailer`,
`Roster` and `Estate`, and `composer` is `Composer` and `Screens`. In
`change_request`, `side` says whether requests come from anyone or from the
portal's dialogs. Some properties join several claims, a type invariant among them;
their parts are named below.

| Run | Instance | Result |
|---|---|---|
| `booking` | 2 users (one an administrator, the other an approver), 1 room and online, 2 policies, 3 slots, 2 bookings, series of 2, 4 instants | passes |
| `race` | 4 requests, 2 rooms (one gated by two approvers), restarts | passes |
| `change_request` | 2 users, 1 room and online, 3 slots, 4 windows and drafts, 3 bookings, 1 request | passes |
| `jobs` | 1 booking, 3 slots, 2 reminders, 7 instants, 2 failures or restarts; 2 tabs of 2 calls, 1 account, 1 sign-in | passes |
| `accounts` | 2 addresses, 2 requests, plans of 1 and 2 accounts, 3 rows; 2 people, 2 filters, at most 1 recipient; 2 users, 2 requests, 2 conversations (1 written in), 2 messages, 3 instants | passes |
| `sign_in` | 2 requests, 2 roles, 2 links, 4 instants; 2 tabs, 2 calls at a time, 2 accounts, 2 sign-ins | passes |
| `workspace` | 2 requests at a time, 7 in all, 2 policies, 2 menus, 2 secrets, 3 policy rows; 2 administrators on 1 server and 2 passwords; 3 accounts and 2 dialogs; 1 room, 1 floor, 2 forms | passes |
| `composer` | 5 zones, 2 policies, 2 dates of 8 ticks, 3 instants, 2 rows, 2 replies under way; every kind of page, 2 selections, 2 replies under way | passes |
| `revived` | as `booking` | violated |
| `race_approval` | 3 requests, no restart | violated |
| `half_grant` | as `change_request`, with a buffer | violated |
| `start_lost` | as `composer` | violated |

`booking` shows, of every sequence of complete requests:
- `ExclusiveUnlessUnchecked`: two active bookings of a room keep the smallest
  configured buffer between them, unless a late approval brought one back or one was
  booked too close to another occurrence of its own series;
- `RowsAgree`, what a row says of its approval and of its use is so. It joins
  `StatusMatchesSteps` (PENDING means a step someone can still decide and no
  rejection, APPROVED no open and no rejected step, REJECTED a rejection) and
  `NoShowMeansUnused` (who is warned never checked in, and cannot any more: the
  windows of check-in, extension and sweep do not overlap);
- `SlotFrozen`: a started meeting keeps room and start, an ended one its end;
- `CalendarSpec`: the core implements `RoomCalendar`, the same bookings left out.

`race` shows what remains under interleaving and restarts:
- `RaceInv`, its types and `DoubleBookingNeedsRace`: a double booking requires two requests that wrote
  these very bookings to have been in flight together. A finished request is
  seen by every later one;
- `NeverStuck`: when the requests on a booking have returned, it is not PENDING
  with nobody left to decide, however deciders, moves and cancellations
  interleave.

`change_request` shows, however the owner edits the booking while a request is
open:
- `RequestInv`: the table's types, and `ExclusiveUnlessUnchecked` again: neither
  granting nor declining double-books the room;
- `DecisionApplied`: an approved request was applied in full, the requester holding
  the whole meeting and the owner being out of the window (`GrantApplied`); what a
  declined request books lies within the meeting asked for and outside the window
  (`DeclineTrims`);
- `FormsHold`: of a booking listed at whole minutes the asking dialog lets through
  what the service takes, and a meeting that fits beside the owner's leftover
  (`AskAgrees`); nothing the approving dialog lists is refused while the bookings
  are as they were when it read them and the owner's is in that room still
  (`OfferAgrees`); an approval does what the dialog showed if the booking is where
  it was listed (`ShownIsGiven`).

`jobs` shows, with failures and restarts at any call:
- `WarningSpec`: seen from the owners the sweep is `OneWarning`: no warning without
  a claim, one each, and each claim warned about unless its pass died;
- `UsedAndStampedNeedsRace`: a booking is both used and stamped only if a request
  had passed its checks when the sweep listed it;
- `RemindedOnceUnlessCut`: only a failure repeats a reminder;
- `ReminderNotForgotten`, `UnusedIsFound`: what is due is dealt with, in spite of
  failed passes;
- `CallsEnd`: every call comes to an end, however often tokens expire.

`accounts` shows of each promise that only a request another write overtook can
break it: `DecisionStands`, `WithinPlan`, `HistoryKept`; and `ApprovedHadAccount`
without exception. `BroadcastInv`: as many are mailed as the dialog said, unless its
number was of an older list or another filter (`SentAsConfirmed`), and a link goes
to nobody who was activated when the targets were found (`OnlyTheNotActivated`).

`accounts` also shows of the chat `ChatInv`, its types and `OneDirectUnlessRaced`: one
direct conversation per pair unless two creations overlapped; `UnreadIsWhatCameAfter`
the last reading; `QuietBetweenNudges`, one nudge per quiet period however sends race.

`sign_in` shows of the server `LinkWorksOnce`, but for a redemption that had looked the
link up before the first one cleared it; and `SignInInv`, its types and
`StaleRightsExpire`: an access token's life after a change of role or standing, but
for tokens signed from an earlier reading. Of a browser it shows `SessionInv`:
- `SessionIsLast`: the storage holds the session signed in to last or none, unless
  the session changed while another one was being renewed, in this tab or another;
- `AskedAsShown`: what a tab asks for is asked in the name of the user it shows, unless
  the storage changed while the tab showed someone or had a call under way, be it by
  its own form during its own boot, and it has loaded no document since.

`workspace` shows of the console:
- `WorkspaceInv`, its types and `AddressLostOnlyIfLeft`: the address leads to whom it
  was given unless they left it;
- `SettingsAsSaved`: rules (`RulesAsSaved`), hidden menus (`MenuAsSubmitted`) and
  secrets (`SecretAsTyped`) saved last are in force unless saves overlapped or one
  was cut;
- `ExternalDecisionStands`, but for overlapping decisions;
- `MailerInv`: a cached transport is of the settings stored (`SettingsInForce`), a
  verdict is of the settings it stands beside (`VerdictIsOfSettings`), unless a
  write overtook the call that built or tried it;
- `PasswordKept`: a stored password changes only by a save in which another was
  typed, or one another save overtook, or one after the settings were cleared;
- `RolesHold`: an administrator remains unless one acted on a token that outlived
  their rights (`AdminRemains`), and a role becomes what was chosen against the row
  seen (`RoleWasChosen`);
- `EstateInv`: a plan shows a room that is not on its floor only if the room left
  after the pin was checked (`PinsOnFloor`);
- `RoomFormHolds`: saving a room keeps its other rules (`OtherRulesKept`) and brings
  the restriction shown into force (`RestrictionAsShown`), if the form's reading
  came and was not overtaken.

`composer`, with replies late, lost and reordered, across clock changes:
- `ClockKept`: API and portal convert without loss, and days are tiled;
- `PickIsBookable`: what is picked, the API would have accepted when it made the
  reply shown;
- `PickIsOfDayShown`: a pick lies on the date shown, unless the date was changed
  while a request was under way;
- `EditKeepsItsSlot`: an untouched edit of a meeting still to come holds the
  booking's slot, if that slot could still be booked when the reply was made: not
  closer than the shortest notice, not past the horizon, not against changed rules;
- `ScreensInv`: a page with nothing under way shows what is selected, no older than
  the reader's last change to it; and where rows are added below, each part goes on
  where the one above it ends, but that one row comes twice for every meeting that
  ended between the reading of the two (`ShowsSelected`). All this unless replies
  crossed on a page that does not cancel the older;
- `CatchesUp`: a polling page left on one selection shows it as it is in the end.

The violated runs are the project's findings. They state what the repository's
documents or comments say and show that the code does otherwise:
1. `revived`: `decide` does not read the booking's status. Book a gated room,
   cancel, let someone else book the slot, approve the old step.
2. `race_approval`: levels are inserted one at a time; a decision on the first,
   tallied before the second exists, approves the booking.
3. `half_grant`: a grant changes the owner's booking, then fails to book the
   requester's, and stays open. With any buffer the automatic carve-out always
   ends so: the requester's meeting begins where the owner's leftover ends.
4. `start_lost`: a comment in the form (`MeetingComposer.tsx:169`) keeps the start of
   a meeting under way selectable. Free windows begin at the shortest notice from
   now, so that start lies in none of them, the form drops its pick, and without one
   it can neither cut the meeting short nor extend it. `EditKeepsItsSlot` says
   nothing of such meetings because of this.

### Bounds, and why they suffice

`MaxBookings`, `MaxSeries`, `MaxTime`, `Horizon` and `LastDay` bound `Booking`;
each is named in the module and only restricts which requests are explored.
Exclusion, freezing and agreement are about one booking, or a pair: two rows
cover a pair, and two occurrences a series. Four instants let a meeting be
booked, started, extended, ended and swept. The buffer of one minute is larger
than the gap between some of the slots and not others. A day has four ticks, so
that a second day is within reach; one of the slots, repeated daily, does not leave
the buffer before its own next occurrence. The proofs below remove all these bounds.

In `change_request`, slots, windows and drafts are the two halves of a meeting, all
of it, and a stretch over its end; durations and steps are one and two minutes.
Three bookings are the owner's, the requester's and one in
the way. One open request is enough for what is stated of one: a second request
would act on the first only by changing the bookings, as updates and
cancellations already do. With one room no booking leaves it while a dialog is
open; that case is only in the proof of `DialogsAgree`. A week has seven days, since
the proof needs neighbouring days to be told apart.

In `race`, four requests allow two that race, one that decides and one that
cancels. Request identities are symmetric: nothing compares them, and the
initial rows mention none. The seeded bookings spare the requests that would
create them. A request is served once, so that behaviours end: deadlock is not
checked there.

`jobs` needs one booking, because the passes treat bookings one by one and the
properties speak of one; seven instants let it be reminded twice, used or not,
moved past its end, swept, and age out of the lookback. Two cuts are a failure and
a second one while recovering. Two `accounts` make one request meet another on the
same address and on another one; a limit of one is passed by the second row. Two
requests are what a race takes, in `sign_in`, the chat and `workspace` too; three
instants there let a token or quiet period expire once. `workspace` bounds the
requests instead of the clock, so its behaviours end and deadlock is not checked;
three policy rows are the registration's, one inserted beside it and one later.

The other machines of these runs are bounded in what may be begun: `MaxSignIns` and
`MaxCalls` (in `sign_in`, where either tab may sign in as either account, sessions
that change twice beside a boot and a renewal; in `jobs`, where only the end of calls
is asked for, one account), `MaxTurns`, `MaxReads` and
`MaxBreaks` (the accounts turn once between the dialog and the mails; crossing
replies are the matter of `Screens`), `MaxInserts` and `MaxAsks` (a save, a removal
and a trial), `MaxWrites` and `MaxDialogs` (each of two administrators acts once),
`MaxForms` and `MaxChanges` (two forms and a change from a list between reading and
saving). The cap on recipients is one, so that two people exceed it.

In `composer` a day has eight ticks, the room opens for part of it, and the zones
have their one change in the afternoon, at midnight (both ways) or far from here;
one is five ticks ahead, past half a day, where noon UTC is another date. Two
dates, two replies under way and two bookings let any reply be late and stale. The
form is opened once and the clock is bounded: deadlock is not checked. A page has
`MaxLoads` two requests under way, so that one can overtake the other, two changes,
one failure, three parts of a list, and a cap (`Limit`) of one change.

### Fairness

`Jobs` assumes `WF_vars(SweepStep)` and `WF_vars(DispatchStep)`. Both jobs
are `setInterval` loops that `onModuleInit` starts, so a restarted process has
them again; a pass that has begun runs on unless a call fails, and a failing call
is caught and resets `running`, so the next tick starts over. `MaxCuts` bounds the
failures: a database that fails for ever starves the jobs, in the code as in the
model. `Session` assumes that calls and renewals are answered, by a reply or an
error (`CallReplies`, `RenewalReplies`): the browser ends every `fetch`. `Screens`
assumes that the interval timer of a polling page fires (`Again("poll")`) and that
the oldest request under way is served and its reply delivered in the end
(`Reply(1)`); it does not assume that replies come in order. Clock, requests and
approvers are not fair anywhere: they need not come.

## What is proved

For every value of the constants that satisfies the named assumptions of the
modules (`TimeAssumption`, `ActorAssumption`, `BoundAssumption`,
`PolicyAssumption`, `BufferAssumption`, `JobsAssumption`, `AccountsAssumption`, `ZoneAssumption` and
the others `Composer` names, `WorkspaceAssumption`, `MailerAssumption`,
`RosterAssumption`, `EstateAssumption`, `ChatAssumption`, `SignInAssumption`,
`SessionAssumption`, `BroadcastAssumption`, `ScreensAssumption`; `FormsAssumption`: days
of whole minutes, business hours that end by 23:59 (`HHMM` in `upsert-policy.dto.ts`)
and weeks of more than one day; and `BookingRace`'s
`SlotAssumption` and `SeedAssumption`: the occurrences of a series do not overlap each
other, which the code does not check (see `Crowded` in `Booking`); and the table a
behaviour starts from is one that earlier requests left when they had returned and
did not race). Some of these only say that a value standing for "none" is none of the values it stands beside
(`AbsentAssumption`, `GoneAssumption`, `NoneAssumption`, `ListAssumption`, `Keep` in
`RequestAssumption`, `NoOne` in `SessionAssumption`, and that no room is called
like a policy's scope, which the schema keeps in a column of its own).

`PolicyAssumption` asks of policies what `upsert-policy.dto.ts` validates: least values,
and no greatest ones. `BufferAssumption` only says what `MinBuffer` stands for, and 0
always satisfies it. Two assumptions go beyond what the code asks of an administrator,
and their theorems hold of workspaces that keep to them: `SlotAssumption` above, used
in `BookingRace_proofs`, and `DayLongAssumption`, that no policy allows a meeting longer
than a day, used in the theorems about `RequestForms`. The theorems about `Booking` and
`ChangeRequest` use neither.

| Theorem | States |
|---|---|
| `TypeCorrect`, `JobsTypeCorrect`, `AccountsTypeCorrect`, `FormTyped` | `Spec => []TypeOK` of `Booking`, `Jobs`, `Accounts`, `Composer` |
| `Exclusive` | `Spec => []ExclusiveUnlessUnchecked` |
| `SeriesNeverCrowded` | under rules by which a meeting and its buffer fit into a day, no series `create` accepts is `Crowded` |
| `StepsAgree`, `WarnedMeansUnused`, `RowsAlwaysAgree` | `Spec => []StatusMatchesSteps`, `Spec => []NoShowMeansUnused`, and both together: `Spec => []RowsAgree` |
| `StartedStays` | `Spec => SlotFrozen` |
| `ImplementsCalendar` | `Spec => CalendarSpec` |
| `RaceInvariant`, `RaceSafe`, `StuckNever` | `Spec => []Inv` of `BookingRace`, and from it `RaceInv`, `NeverStuck` |
| `ChangeInvariant`, `RequestsSafe`, `DecisionsApply` | `RequestSpec => []ChangeInv` of `ChangeRequest`, and from it `RequestInv`, `DecisionApplied` |
| `FormsInvariant`, `DialogsAgree` | `FormsSpec => []FormsInv` of `RequestForms`, and from it `FormsHold` |
| `UsedAndStampedRaced`, `RepeatsAreCuts` | those invariants of `Jobs` |
| `NoSecondWarning`, `SweepWarnsOnce` | no owner is warned twice; `Spec => Warning!Safety` |
| `ApprovalMakesAccount`, `DecisionsStand`, `PlanHolds`, `HistoryStays` | the properties of `Accounts` |
| `InstantShows`, `DayIsTiled`, `ShiftKeepsTime` | what the conversions of `LocalDays` compute, of any zone |
| `ClockIsKept`, `PicksAreBookable`, `PicksAreOfDayShown`, `UntouchedEditKeepsSlot` | the properties of `Composer` |
| `SettingsInvariant`, `WorkspaceSafe`, `SettingsHold`, `ExternalDecisionHolds` | `Spec => []SettingsInv`, and from it `WorkspaceInv`, `SettingsAsSaved`, `ExternalDecisionStands` of `Workspace` |
| `MailInvariant`, `MailerSafe`, `PasswordSurvives` | `MailerSpec => []MailInv`, and from it `MailerInv`, `PasswordKept` |
| `RosterInvariant`, `RightsHold` | `RosterSpec => []RosterInv`, and from it `RolesHold` |
| `EstateInvariant`, `EstateSafe`, `RoomFormSafe` | `EstateSpec => []ConsoleInv`, and from it `EstateInv`, `RoomFormHolds` |
| `SignInInvariant`, `SignInSafe`, `LinksWorkOnce` | `Spec => []Inv` of `SignIn`, and from it `SignInInv`, `LinkWorksOnce` |
| `BrowserInvariant`, `SessionsSafe` | `SessionSpec => []BrowserInv`, and from it `SessionInv` |
| `BroadcastInvariant`, `BroadcastSafe` | `BroadcastSpec => []PageInv`, and from it `BroadcastInv` |
| `ScreensInvariant`, `ScreensSafe` | `ScreensSpec => []PageShowsInv`, and from it `ScreensInv` |
| `ThreadsInvariant`, `ChatSafe`, `UnreadHolds`, `QuietHolds` | `ChatSpec => []ThreadsInv` of `Chat`, and from it `ChatInv`, `UnreadIsWhatCameAfter`, `QuietBetweenNudges` |

The theorems about one of several machines of a run are about that machine alone:
beside the others it does what it does alone, since they share no state.

The arguments.

*Booking.* Types are inductive once the slots of a series are known to stay
in `Instants` (`Fits`). Exclusion is not inductive alone: extending a running
meeting checks only the time it gains, so the proof also needs that rows are well
formed (`RowsOrdered`: start before end). Then a create is checked against the
old rows, and those of its occurrences that are too close to each other are put
among the `unchecked`: nothing bounds `maxDurationMinutes` or `bufferMinutes`, and the
occurrences of a series are never compared with each other. `SeriesNeverCrowded` says
when there are none: the occurrences lie on different days, in order, so they are apart
if a meeting and its buffer fit into a day. Agreement follows from `StepsInv`, which adds that
only a gated booking has steps and that a decided set of steps has its outcome
as status unless the booking was cancelled. No-shows need that the sweep's
bound is strict where check-in's is not. The calendar is implemented because a
booking no check compared with a rival is out of the mapping for good, and every other
step reserves, changes or releases holdings, or stutters.

*BookingRace.* A double booking is the work of handlers whose checks and writes lie
apart, so the invariant has to say what a check is still worth at the write.
`FoundInv`: a slot a request has found free and has still to write is free, or taken
by a booking that one in flight with it has written; of a series these are the
occurrences checked and not yet stored. `KeptInv` says the same of what an update
has read of its own booking and will not send, and of the room one sends again as read.
`TogetherInv` says that all creates and
updates in flight know of each other, which is what makes a write that one of them
finds in its way the work of one that raced it. A restart needs nothing new: who is
dead writes nothing, and what it wrote is seen by all that come later. `PendingInv` is
about the other property: a PENDING booking has an open step, or somebody is about
to issue its steps, to tally or to settle it, or died doing so. The case that matters
is two deciders: the last to write its decision reads all of them.

*ChangeRequest.* A grant is two requests of the core on one table, so the lemmas
about the core are stated of tables: `UpdateSound` and `CreateSound` take a sound
table (`Sound`: typed, ordered, exclusive) to a sound one, and `CreateCalendar`,
`UpdateCalendar`, `OwnersPart` and `RequestersPart` are all instances of them. The
invariant adds what the service checked of a request when it was made (`AskedFor`),
without which a refused request's fallback need not lie within the meeting asked for.

*RequestForms.* A dialog is right about a booking it saw earlier because some things
never change: whose it is, that it is in a room, and that a meeting in a room ends on
the day it starts (`DaysOK`: it is no longer than a day, and neighbouring days are
different weekdays). `AskingHolds` and `AnsweringHolds` carry these, and that free
windows still fresh are what the service would answer now; a grant applied by half
keeps them so, since it moves no booking but the owner's, which the windows leave out.
`AskAgrees` is then arithmetic of minutes, `OfferAgrees` a comparison of each check of
`update` with what the windows were made from (`WindowIsFree`, `DayWindowBounds`,
`OfferedOff`). Neither would hold of a booking at a half minute, or of one that has
moved to another room; see the observations.

*Jobs.* The inductive invariant `JobsInv` adds to the types what a pass holds:
a booking about to be warned is stamped and not yet warned of (`WarnInv`); what
a dispatch has delivered and not recorded counts as at most one repetition per cut
so far (`RepeatInv`); a listed booking that is in use had a request in flight
(`RaceInv`). The refinement maps `claimed` to the stamped rows; every step claims,
tells, loses or stutters. Only the safety part is proved; fairness stays with TLC.

*Accounts.* `FreshInv`: a flow no write has overtaken still sees what it read.
`MarkInv`: whoever is about to mark an approval has made the account. The four
properties are then about single steps.

*LocalDays.* Case distinction on the side of the change each of the two passes
lands on; a change smaller than half a day keeps the second pass on the right
side unless the reading is skipped.

*Composer.* The form is right about its reply because every step that touches
date, duration, type or reply ends in `Settled`: `FormOK` says that a pick is one
of the offered ones or the edited booking's own slot, which is in table and reply,
and that the reply is of the date shown or a change of date overtook it. Then
offered slots are bookable (`DayWindow`, hours and conflict checks agree between
`freeWindows` and `createRaw`), which is the bulk of the proof. `UntouchedInv`
carries the edited slot through the first reply.

*Workspace.* `SettingsAsSaved` is not inductive, because a save writes what it read
several steps earlier. `SettingsInv` adds what that reading is worth: unless a write
overtook the request, it still holds (`SeesInv`), so the row to be updated is there,
or there is none, and an unclashed subject has the one row that was wanted
(`WantedInv`). `RegistrationInv` says that one registration at a time is past its
first insert, and how far it is tells which rows exist; hence a branding keeps its
address until it is given up (`AddressInv`).

*Mailer.* `MailInv` follows a reading of the settings through the calls that hold
it: a call that is not `late` holds what is stored (`CallsInv`), so a transport it
caches (`CacheInv`) and a verdict it records (`VerdictInv`) are of what is stored.
`RowOK` and `TabsOK` type rows and pages. The proof shows where the "unless" comes
from: between the write and the invalidation the cache is allowed to be old, and
nothing but `late` says that a reading survived both.

*Roster.* `AdminRemains` needs `RoleDialogs`: no dialog on a role is on the one who
opened it. Whoever writes is an administrator, or `lapsed` says that they are not
any more; they cannot write their own row's role or standing, so they remain.
`RoleWasChosen` is then about the single step that serves a dialog.

*Estate.* `ReadersSee` says that what a form has read, and what a save took from it,
is stored still, unless it was unread or overtaken (`late`); `PlannersSee` that a
plan past its check has its pins on its floor, but for those that left since;
`RulesInv` that a room to come has no rules, and that only a room's rules say who may
book it. The action properties compare the merged rules before and after `PutRules`,
whose reading is the row stored.

*Chat.* `ThreadsInv` adds two facts to the types. Whoever is making a conversation
for a pair found none, so if there is one by now the two overlapped (`RaceInv`;
`FlowsInv` says that no two requests fill the same conversation). And messages up
to a member's mark are not younger than their reading, those after it not older
(`MarkInv`), which holds because the clock only goes on and messages are appended
with its time. A nudge compares with a time that has been, hence keeps its
distance from what it overwrites even if other sends ran in between.

*SignIn.* Until a write overtakes a request, account and link are as it read them.
Links are numbered in the order they are made and are each of one kind, and the one a
request is about to redeem is unused unless another request that had read it was
there first. A token expires at the latest `AccessTtl` after it was signed, so rights
that changed longer ago than that are in no token but one signed by a request that
had read the account before.

*Session.* `SessionIsLast` needs to know what a renewal may store: somebody waits for
a renewal under way (`Waited`), and it is of the session signed in to last unless
`crossed` (`RenewOK`). `Own` carries `AskedAsShown`: a tab that held nothing when the
storage last changed shows nobody or whom the storage names, renews only that session,
and every call it made, its boot and its login among them, asks in that name
(`InName`), also when it is replayed. A sign-in in a tab that is still booting makes
that tab `foreign`, and so does the boot that then clears the new tokens; nothing is
assumed of a navigation but that a replaced document has no calls.

*Broadcast.* What the dialog says is a number worked out from a list, so the
invariant says what a list is worth: one that is not old has the rows it should have
now, and ticks that are neither old nor astray are of people who may be written to.
A promise made before the targets are found is about the people the service then
finds, unless they changed in between (`since`).

*Screens.* `ShowsSelected` speaks of pages at rest, and says nothing of how they come
to rest. `ShowOK` does: until an overtaken reply is shown or a request fails, either
the load begun last is still under way and is for what is selected (`AwaitedLast`), or
what it brought is on show and whatever is under way was overtaken by it (`Rested`).
`InOrder` says of the parts on show that each was asked for after as many rows as stand
above it; which rows those are then depends on when each part was read.
Any new load is the last; a reply that is neither the last nor overtaken leaves the last
one awaited. Titles follow a list, so the titles awaited last have a list in order
before them; the rows of "load more" are awaited only when asked for alone. `WaysOK`
says what the ways of a page exclude: one that cleans up, and browses nowhere, has one
load at a time.

Model-checked only:
- the liveness properties `ReminderNotForgotten`, `UnusedIsFound`, `CallsEnd`,
  `CatchesUp` and the liveness part of `WarningSpec`: liveness under fairness and
  `ENABLED` are out of the provers' reach;
- what recursive definitions compute for every input would take induction over
  data, which is out of reach too; no module uses a `RECURSIVE` operator.

## Observations

Met while modelling, and modelled as the code is; no run is expected to fail for
them.

- Two concurrent creates both find the slot free and both insert
  (`booking.service.ts:415`); `DoubleBookingNeedsRace` shows that nothing else does.
- A booking moved while PENDING keeps the approvals of its old slot: only an
  APPROVED one goes back through approval. Moves never count the daily quota.
- An edit form also drops a slot that ends past the horizon, or that is closer than the
  shortest notice, and silently clamps one that is longer than the rules now allow.
- A series is never compared with itself: daily meetings longer than a day, or whose
  buffer reaches over the night, overlap or crowd each other, if a policy allows them.
- An update that names the booking's own room checks nothing and writes that room as it
  was read, so it undoes a move another update made meanwhile, into a slot that may
  have been given away (`booking.service.ts:699`, `:801`).
- A booking that starts or ends at a half minute cannot be asked for by its edge:
  the asking dialog sends whole minutes (`RequestChangeModal.tsx:106`). The approving
  dialog offers times of the room listed (`ApproveRescheduleModal.tsx:66`), also when
  the booking has moved to another room since.
- A late free-windows reply shows another day's times (`MeetingComposer.tsx:124`).
- `${day}T12:00Z` is the next day in zones at UTC+12 and beyond, and
  `addLocalDays` does not correct itself where the clock skips a midnight.
- Online bookings use `DEFAULT_RULES` while the form offers the room's hours.
- A no-show warning is lost if the pass dies between stamp and warning.
- Nudges judge by the stored presence, by default OFFLINE, which heartbeats leave
  as it is. `getMessages` returns the oldest 200 messages of a conversation.
- A workspace whose registration died before its administrator was inserted is
  never repaired. Branding checks other subdomains, but not slugs.
- Removing an account whose bookings were just made deletes those too.

Of the mail settings:
- A transport built from a reading that a save overtook stays in the cache until the
  next save or restart, although `mail.service.ts` says that a change "takes effect
  immediately"; a failing audit between write and invalidation leaves it too.
- After clearing the settings the page still counts the password as touched, so a
  later save with an empty field stores an empty password.
- A trial that runs on the platform's server is recorded on the workspace's row.

Of the console's users, rooms and broadcasts:
- A list that fails to load unmounts the open dialog (`users/page.tsx:118`), and with
  it a temporary password or an import's report that is shown only once.
- A room saved before its form had read the rules loses its other rules, which the
  comment at `resources/page.tsx:124` rules out. The second request of a new room may
  fail after the first created it; trying again creates another.
- A floor, a category, an address and coordinates cannot be cleared by the form.
- A room moved off a floor whose plan pins it makes later saves of that plan fail, and
  the pin cannot be removed by the editor, which no longer lists the room.
- `updateFloor` clears the site contacts when they are not sent
  (`location.service.ts:98`).
- Ticks made in one mode of the broadcast are sent in the other, where the service
  drops them silently. The recipients are capped at `MAX_RECIPIENTS` without a word,
  although `broadcast.service.ts:101` says that everyone "really means everyone".
  After a failure the ticks stay,
  so trying again mails the same people twice.

Of the portal's pages:
- Most lists show replies in the order they come: schedule, calendar, floor plan and
  history have no guard against an overtaken reply. Two "load more" around a change
  of filter repeat rows; and a meeting that ends between a page of the history and the
  next shifts the list, so that one row is shown twice (`history/page.tsx:59`).
- A chat thread keeps the old messages until the reply comes, and a failed message is
  given back into whatever thread is open. `sendMessage` stores before it notifies, so
  a failure in between makes the client send again. `chat.service.ts:249` says that
  the body is left out of the e-mail; line 295 includes a preview of it.
- After half a grant the approving dialog stays open with the booking as it was. A
  stretch that ends at midnight cannot be asked for, because the dialog reckons in
  minutes of one day.
- A renewal under way, in another tab or the same, brings back a session that was just
  left. A sign-in sent before the page's own boot is answered may be shown as the old
  user, or its tokens cleared by the boot's failure (`auth.tsx:77-78`).

## Not modelled

- Decisions on one change request that interleave: `ChangeRequest` runs each to
  completion. `BookingRace` covers the races of the calls a decision is made of.
- The plan's limit on rooms is the code of the limit on users over another table.
- Tenant isolation rewrites every query of every model; the modules describe one
  tenant, whose rows nobody else sees.
- Mail texts, SMTP, calendar invitations, notifications and the audit are written and
  forgotten: nothing reads them back to decide.
- Work location, feedback, error reports, uploads and recordings are single inserts or
  file operations; analytics, the public calendar and the room displays only read.
- Branding's colours, integrations, menu access and the profile are pages of one read
  and one write each; the races of their writes are in `Workspace` and `SignIn`.
- The derived presence, the notification bell's list, the directory and rendering are
  functions of what was read. The chat's gateway relays to connected clients and
  keeps nothing.
- Cryptography: hashes, signatures and tokens are taken to be unforgeable.

