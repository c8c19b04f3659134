------------------------------- MODULE Screens -------------------------------
(***************************************************************************)
(* The pages that show lists: how what they asked for becomes what they     *)
(* show.  Nearly all are written the same way: a load per selection, whose  *)
(* reply is shown whenever it comes.  A page is the set of ways in which it *)
(* differs, and Init opens one of them.                                     *)
(*                                                                          *)
(* Of the data only its selection and its age are kept; filters that are    *)
(* applied to what is shown, wording and layout are left out, and so is a   *)
(* search box emptied again, which keeps what it shows.  Replies come in    *)
(* any order, and may fail; err is kept for a page that does not say so.    *)
(***************************************************************************)
EXTENDS Integers, Sequences, SequencesExt

CONSTANTS
  Keys,        \* days, months, floors, filters, terms
  Nothing,     \* no titles
  MaxLoads,    \* bound on requests under way
  MaxChanges,  \* bound on changes to the data
  MaxFailures, \* bound on requests that fail
  MaxParts,    \* bound on pages of rows shown one below the other
  Limit        \* changes after which what is capped shows no more

ASSUME ScreensAssumption ==
  /\ Nothing \notin Keys
  /\ {MaxLoads, MaxChanges, MaxFailures, MaxParts, Limit} \subseteq Nat
  /\ MaxLoads > 0 /\ MaxParts > 0

VARIABLES
  page,      \* what the page open does
  world,     \* the age of the data, per selection
  changes,   \* changes to it so far
  key,       \* what is selected
  loads,     \* requests under way, oldest first
  shown,     \* the rows on show, by the reply they came with
  titles,    \* the selection of the titles on show, at a door
  err, loading,
  session,   \* a token is there
  mine,      \* history: the age the reader's own last change made
  fails,     \* requests failed so far
  disturbed  \* history: an overtaken reply was shown since the last calm load

screensVars ==
  <<page, world, changes, key, loads, shown, titles, err, loading, session, mine, fails,
    disturbed>>

-----------------------------------------------------------------------------
(* The pages of the user portal.                                            *)
(*   selects    the reader chooses what is loaded                           *)
(*   polls      loads again every minute                                    *)
(*   continues  adds the next rows below                                    *)
(*   guards     ignores replies to what is no longer selected               *)
(*   browses    its first load is cancelled by nothing                      *)
(*   empties    shows nothing when a request fails                          *)
(*   writes     the reader changes the data, and it loads again             *)
(*   blanks     loading or an error takes the place of the page             *)
(*   keeps      but loading does so only the first time                     *)
(*   titled     asks for the titles once it has the public view             *)
(*   capped     is given the oldest messages only (getMessages)             *)
(*   carries    loads again what was selected when the change was made      *)
SchedulePage    == {"selects", "writes"}
CalendarPage    == {"selects", "writes"}
DenahPage       == {"selects", "polls", "writes"}
HistoryPage     == {"selects", "continues"}
BookingsPage    == {"writes", "blanks"}
ApprovalsPage   == {"writes", "blanks"}
HubPage         == {"writes", "blanks"}
DashboardPage   == {}
BookPage        == {}
PublicRoomPage  == {"selects", "polls", "blanks", "keeps", "titled"}
DirectorySearch == {"selects", "guards", "empties"}
PeoplePicker    == {"selects", "browses", "guards", "empties"}
BookingDetail   == {"guards", "empties"}
ChatThread      == {"selects", "polls", "writes", "capped", "carries"}
ChatList        == {"polls", "writes"}
ChatBadge       == {"polls"}
BellCount       == {"polls"}

(* The console's. *)
UsersPage         == {"selects", "writes", "blanks", "keeps"}
RecipientsList    == {"selects"}
RoomsPage         == {"writes", "blanks"}
PoliciesPage      == {"writes", "blanks"}
LocationsPage     == {"writes", "blanks"}
AuditPage         == {"selects"}
AdminBookingsPage == {"selects"}
ErrorReportsPage  == {"selects"}
AdminDashboard    == {"blanks", "keeps"}
AnalyticsPage     == {"blanks", "keeps"}
BillingPage       == {"writes", "blanks", "keeps"}

Pages ==
  { SchedulePage, CalendarPage, DenahPage, HistoryPage, BookingsPage, ApprovalsPage, HubPage,
    DashboardPage, BookPage, PublicRoomPage, DirectorySearch, PeoplePicker, BookingDetail,
    ChatThread, ChatList, ChatBadge, BellCount, UsersPage, RecipientsList, RoomsPage,
    PoliciesPage, LocationsPage, AuditPage, AdminBookingsPage, ErrorReportsPage,
    AdminDashboard, AnalyticsPage, BillingPage }

Does(way) == way \in page

-----------------------------------------------------------------------------

LoadType ==
  [ what : {"browse", "list", "more", "titles"}, key : Keys, from : 0..MaxParts, token : BOOLEAN,
    answered : BOOLEAN, ver : 0..MaxChanges, late : BOOLEAN ]
PartType == [key : Keys, from : 0..MaxParts, ver : 0..MaxChanges]

Load(what, k, from) ==
  [ what |-> what, key |-> k, from |-> from, token |-> session,
    answered |-> FALSE, ver |-> 0, late |-> FALSE ]

ScreensTypeOK ==
  /\ page \in Pages /\ key \in Keys
  /\ world \in [Keys -> 0..MaxChanges] /\ mine \in [Keys -> 0..MaxChanges]
  /\ changes \in 0..MaxChanges
  /\ loads \in Seq(LoadType) /\ Len(loads) <= MaxLoads
  /\ shown \in Seq(PartType)
  /\ titles \in Keys \cup {Nothing}
  /\ err \in BOOLEAN /\ loading \in BOOLEAN /\ session \in BOOLEAN /\ disturbed \in BOOLEAN
  /\ fails \in 0..MaxFailures

(* A page that has just been opened, and asks. *)
ScreensInit ==
  /\ page \in Pages /\ key \in Keys
  /\ session \in IF Does("titled") THEN BOOLEAN ELSE {TRUE}
  /\ loads = <<Load(IF Does("browses") THEN "browse" ELSE "list", key, 0)>>
  /\ shown = <<>> /\ titles = Nothing
  /\ err = FALSE /\ loading = TRUE
  /\ world = [k \in Keys |-> 0] /\ mine = world /\ changes = 0
  /\ fails = 0 /\ disturbed = FALSE

(* What the reader can use. *)
Blank == Does("blanks") /\ (err \/ (loading /\ (Does("keeps") => shown = <<>>)))

-----------------------------------------------------------------------------
(* Asking *)

Room == Len(loads) < MaxLoads

(* Any load starts with a clean slate, but for the rows, which stay.  It    *)
(* may ask for what is no longer selected.                                  *)
Begin(next, astray) ==
  /\ loads' = next
  /\ err' = FALSE /\ loading' = TRUE
  /\ disturbed' = ((disturbed /\ loads # <<>>) \/ astray)

Reload(k) == Append(loads, Load("list", k, 0))

Uncancelled(k) == Reload(k)

(* The clean-up of the effect cancels what that effect had asked for, but   *)
(* not the first load of a page that browses.                               *)
Browsing == loads # <<>> /\ loads[1].what = "browse"

Reselected(k) ==
  IF ~Does("guards") THEN Reload(k)
  ELSE IF Browsing THEN <<loads[1], Load("list", k, 0)>>
  ELSE <<Load("list", k, 0)>>

Select(k) ==
  /\ Does("selects") /\ ~Blank /\ Room
  /\ k # key /\ key' = k
  /\ Begin(Reselected(k), FALSE)
  /\ UNCHANGED <<page, world, changes, shown, titles, session, mine, fails>>

PollsUnlessFailed == Does("polls") /\ ~err

PollsNow == Does("polls")

(* The button beside the error, and the timer. *)
Again(way) ==
  /\ IF way = "retry" THEN err ELSE PollsNow
  /\ Room
  /\ Begin(Reload(key), FALSE)
  /\ UNCHANGED <<page, world, changes, key, shown, titles, session, mine, fails>>

(* The rows after the first so many, as many as are on show now, of a list  *)
(* that goes on changing.                                                   *)
More ==
  /\ Does("continues") /\ ~loading /\ Room
  /\ shown # <<>> /\ Len(shown) < MaxParts
  /\ loads' = Append(loads, Load("more", key, Len(shown)))
  /\ loading' = TRUE
  /\ disturbed' = (disturbed \/ loads # <<>>)
  /\ UNCHANGED <<page, world, changes, key, shown, titles, err, session, mine, fails>>

-----------------------------------------------------------------------------
(* The data *)

(* In a list that continues, of meetings that are over, a change is one more *)
(* of them, which comes on top and moves the others down.                   *)
Change(k) ==
  /\ changes < MaxChanges /\ changes' = changes + 1
  /\ world' = [world EXCEPT ![k] = @ + 1]

OthersChange(k) ==
  /\ Change(k)
  /\ UNCHANGED <<page, key, loads, shown, titles, err, loading, session, mine, fails, disturbed>>

(* A message may be sent for long enough to leave its thread. *)
AfterSaving(k) == Reload(IF Does("carries") THEN k ELSE key)

(* The reader books, moves, cancels, checks in or decides, and it succeeds. *)
OwnChange(k) ==
  /\ Does("writes") /\ ~Blank /\ Room
  /\ Change(k)
  /\ mine' = [mine EXCEPT ![k] = world'[k]]
  /\ Begin(AfterSaving(k), Does("carries") /\ k # key)
  /\ UNCHANGED <<page, key, shown, titles, session, fails>>

SignedOutElsewhere ==
  /\ Does("titled") /\ session
  /\ session' = FALSE
  /\ UNCHANGED <<page, world, changes, key, loads, shown, titles, err, loading, mine, fails,
                 disturbed>>

-----------------------------------------------------------------------------
(* Replies *)

Served(age) == IF Does("capped") /\ age > Limit THEN Limit ELSE age

Serve(i) ==
  /\ ~loads[i].answered
  /\ loads' = [loads EXCEPT ![i].answered = TRUE, ![i].ver = Served(world[loads[i].key])]
  /\ UNCHANGED <<page, world, changes, key, shown, titles, err, loading, session, mine, fails,
                 disturbed>>

(* Whoever asked before load i will be late. *)
Overtaken(i) == [j \in DOMAIN loads |-> [loads[j] EXCEPT !.late = @ \/ j < i]]

(* The first row of a part, the rows numbered as their meetings ended: so   *)
(* many after the newest one when it was read.                              *)
Row(part) == part.ver - part.from

Part(load) == [key |-> load.key, from |-> load.from, ver |-> load.ver]

ShownAfter(load) ==
  CASE load.what \in {"list", "browse"} -> <<Part(load)>>
    [] load.what = "more"   -> Append(shown, Part(load))
    [] load.what = "titles" -> shown

(* At a door, whoever had a token asks for the titles next. *)
FollowedByTitles(load) == load.what = "list" /\ Does("titled") /\ load.token

Arrive(i) ==
  LET load == loads[i]
  IN  /\ load.answered
      /\ shown' = ShownAfter(load)
      /\ titles' = IF load.what = "titles" THEN load.key ELSE titles
      /\ IF FollowedByTitles(load)
         THEN /\ loads' = [Overtaken(i) EXCEPT ![i] = [Load("titles", load.key, 0) EXCEPT !.late = load.late]]
              /\ UNCHANGED loading
         ELSE loads' = RemoveAt(Overtaken(i), i) /\ loading' = FALSE
      /\ disturbed' = (disturbed \/ load.late)
      /\ UNCHANGED <<page, world, changes, key, err, session, mine, fails>>

(* Without the titles, a door shows what anyone may see. *)
Fail(i) ==
  /\ fails < MaxFailures /\ fails' = fails + 1
  /\ loads' = RemoveAt(IF Does("empties") THEN Overtaken(i) ELSE loads, i)
  /\ loading' = FALSE
  /\ titles' = IF loads[i].what = "titles" THEN Nothing ELSE titles
  /\ shown' = IF Does("empties") THEN <<>> ELSE shown
  /\ err' = (err \/ (loads[i].what # "titles" /\ ~Does("empties")))
  /\ UNCHANGED <<page, world, changes, key, session, mine, disturbed>>

Reply(i) == i \in DOMAIN loads /\ (Serve(i) \/ Arrive(i) \/ Fail(i))

ScreensNext ==
  \/ \E k \in Keys : Select(k) \/ OthersChange(k) \/ OwnChange(k)
  \/ \E way \in {"retry", "poll"} : Again(way)
  \/ More \/ SignedOutElsewhere
  \/ \E i \in 1..MaxLoads : Reply(i)

(* The timer fires, and the browser hears of the oldest request in the end. *)
ScreensFairness == WF_screensVars(Again("poll")) /\ WF_screensVars(Reply(1))

ScreensSpec == ScreensInit /\ [][ScreensNext]_screensVars /\ ScreensFairness

-----------------------------------------------------------------------------
(* Properties *)

Calm == loads = <<>> /\ ~err /\ (disturbed => Does("guards") /\ ~Does("browses"))

(* A page with nothing under way shows what is selected, no older than the  *)
(* reader's last change to it, and at a door the titles of no other day.    *)
(* Where rows are added below, every part goes on where the one above it    *)
(* ends, but that one row comes again for every meeting that ended between  *)
(* the reading of the two: none comes twice only if none did.  All this     *)
(* unless replies crossed, or rows were asked for beside another load.      *)
(* Where the effect cleans up, crossing does no harm, but for a list that   *)
(* was asked for elsewhere.  A thread is shown up to its cap only.          *)
ShowsSelected ==
  Calm =>
    /\ \A i \in DOMAIN shown :
         /\ shown[i].key = key /\ shown[i].ver >= Served(mine[key])
         /\ IF i = 1 THEN Row(shown[i]) = shown[i].ver
            ELSE LET ended == shown[i].ver - shown[i - 1].ver
                 IN  Row(shown[i]) = Row(shown[i - 1]) - 1 + ended
    /\ session => titles \in {key, Nothing}

(* What is on the screen is what it may be. *)
ScreensInv == ScreensTypeOK /\ ShowsSelected

(* "Keep free / in use honest": a page left open on one thing shows it as   *)
(* it is in the end, up to its cap, whatever failed or crossed before.      *)
CatchesUp ==
  \A k \in Keys :
    <>[](key = k) =>
      <>[](Does("polls") => shown # <<>> /\ shown[1].key = k /\ shown[1].ver = Served(world[k]))
=============================================================================
