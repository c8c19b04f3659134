----------------------------- MODULE MCComposer -----------------------------
(* A form on two dates of eight ticks, in five zones; and a page that shows *)
(* one of two things.  They share no state: a behaviour is of one of them.  *)
EXTENDS Composer, Screens, TLC

Zone(before, after, at) == [before |-> before, after |-> after, at |-> at]

(* Forwards and back within the hours; forwards and back at the *)
(* midnight between the days; more than half a day ahead.                  *)
MCZones ==
  { Zone(0, 1, 11), Zone(1, 0, 12), Zone(0, 1, 16), Zone(1, 0, 16),
    Zone(5, 5, 0) }

Policy(over) ==
  [ open |-> 2, close |-> 7, min |-> 1, max |-> 3, buffer |-> 1, minAdvance |-> 1,
    maxAdvanceDays |-> 1, overAdvanceApproval |-> over, days |-> {1, 2} ]

MCRoomPolicies == { Policy(TRUE), Policy(FALSE) }

MCDefaultRules == [Policy(FALSE) EXCEPT !.open = 3]

(* Narrower than the policies: a typed duration may have to be widened.     *)
MCUnanswered == [min |-> 1, max |-> 2]

Wallclock(day, from, to) ==
  [start |-> Midnight(day) + from, end |-> Midnight(day) + to]

MCSlots == { Wallclock(1, 3, 4), Wallclock(2, 2, 4) }

CONSTANTS k1, k2

VARIABLE side

MCInit ==
  /\ side \in {"form", "page"}
  /\ Init /\ ScreensInit
  /\ side = "form" => page = HistoryPage /\ key = k1
  /\ side = "page" => site = CHOOSE s \in SiteType : TRUE

MCNext ==
  \/ side = "form" /\ Next /\ UNCHANGED <<side, screensVars>>
  \/ side = "page" /\ ScreensNext /\ UNCHANGED <<side, vars>>

(* ScreensFairness, where the page moves. *)
MCFairness ==
  /\ WF_screensVars(side = "page" /\ Again("poll"))
  /\ WF_screensVars(side = "page" /\ Reply(1))

MCSpec == MCInit /\ [][MCNext]_<<side, vars, screensVars>> /\ MCFairness
=============================================================================
