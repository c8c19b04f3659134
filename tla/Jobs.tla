-------------------------------- MODULE Jobs --------------------------------
(***************************************************************************)
(* The interval jobs of the API: the no-show sweep (no-show.service.ts) and *)
(* the reminder dispatcher (reminder.service.ts), one database call or      *)
(* notification per step, among the requests that touch the same rows:      *)
(* check-in, reschedule, decision and cancellation.  That a move may send   *)
(* a booking back to its approvers, and a late decision bring one back, is  *)
(* Booking's.                                                               *)
(*                                                                          *)
(* A pass works on the rows as it read them, at the time it started, while  *)
(* the clock and the rows move on.  A failing call ends the pass; a restart *)
(* ends both passes and every request in flight.                            *)
(***************************************************************************)
EXTENDS Integers, FiniteSets

CONSTANTS
  Bookings,   \* bookings of rooms that ask for check-in
  Offsets,    \* how long before the start their reminders fire
  Slots,      \* the times bookings are made for or moved to
  Ahead,      \* HORIZON_MIN of the dispatcher
  Lookback,   \* LOOKBACK_MS of the sweep
  Grace,      \* how early a check-in may be
  None,       \* no request, no booking in hand
  CheckIn,    \* a check-in, among the requests in flight
  MaxTime,    \* bound: the last instant of the clock
  MaxCuts     \* bound: failures and restarts

ASSUME JobsAssumption ==
  /\ Offsets \subseteq Nat \ {0}
  /\ Slots \subseteq [start : Nat, end : Nat]
  /\ {Ahead, Lookback, Grace, MaxTime, MaxCuts} \subseteq Nat
  /\ None \notin Bookings \cup Slots \cup {CheckIn}
  /\ CheckIn \notin Slots

VARIABLES
  now,       \* the server's clock
  rows,      \* the Booking table
  request,   \* the request in flight on each booking, past its checks
  sweep,     \* the pass of the no-show sweep
  dispatch,  \* the pass of the reminder dispatcher
  warned,    \* how often the owner was warned of a no-show
  reminded,  \* how often each reminder was delivered
  cuts,      \* failures and restarts so far
  raced,     \* history: bookings a sweep listed while a request was in flight
  lost       \* history: bookings stamped by a pass that ended before warning

vars == <<now, rows, request, sweep, dispatch, warned, reminded, cuts, raced, lost>>
jobs == <<sweep, dispatch>>
told == <<warned, reminded>>
history == <<cuts, raced, lost>>

ActiveStates == {"PENDING", "APPROVED"}

(* A rejected booking counts as cancelled: both are out of the jobs' sight. *)
RowType ==
  [ status : {"PENDING", "APPROVED", "CANCELLED"}, slot : Slots, used : BOOLEAN,
    stamped : BOOLEAN, sent : SUBSET Offsets ]

NoSweep == [at |-> "idle", todo |-> {}, cur |-> None]
NoDispatch == [at |-> "idle", time |-> 0, seen |-> <<>>, cur |-> None, already |-> {}]

TypeOK ==
  /\ now \in 0..MaxTime
  /\ rows \in [Bookings -> RowType]
  /\ request \in [Bookings -> {None, CheckIn} \cup Slots]
  /\ sweep \in [ at : {"idle", "claim", "warn"}, todo : SUBSET Bookings,
                 cur : Bookings \cup {None} ]
  /\ dispatch.at \in {"idle", "deliver", "record"}
  /\ dispatch.already \subseteq Offsets
  /\ DOMAIN dispatch.seen \subseteq Bookings
  /\ warned \in [Bookings -> Nat]
  /\ reminded \in [Bookings \X Offsets -> Nat]
  /\ cuts \in 0..MaxCuts
  /\ raced \subseteq Bookings /\ lost \subseteq Bookings

Init ==
  /\ now = 0
  /\ rows \in [Bookings -> [ status : ActiveStates, slot : Slots, used : {FALSE},
                             stamped : {FALSE}, sent : {{}} ]]
  /\ request = [b \in Bookings |-> None]
  /\ sweep = NoSweep /\ dispatch = NoDispatch
  /\ warned = [b \in Bookings |-> 0]
  /\ reminded = [n \in Bookings \X Offsets |-> 0]
  /\ cuts = 0 /\ raced = {} /\ lost = {}

-----------------------------------------------------------------------------
(* NoShowService.tick *)

UnusedTooEarly(row) ==
  /\ row.status = "APPROVED"
  /\ row.slot.start < now
  /\ row.slot.end > now - Lookback
  /\ ~row.used /\ ~row.stamped

(* The candidates of a pass. *)
Unused(row) ==
  /\ row.status = "APPROVED"
  /\ row.slot.end < now
  /\ row.slot.end > now - Lookback
  /\ ~row.used /\ ~row.stamped

SweepStart ==
  LET found == { b \in Bookings : Unused(rows[b]) }
  IN  /\ sweep.at = "idle"
      /\ found # {}
      /\ sweep' = [NoSweep EXCEPT !.at = "claim", !.todo = found]
      /\ raced' = raced \cup { b \in found : request[b] # None }
      /\ UNCHANGED <<now, rows, request, dispatch, told, cuts, lost>>

(* The pass after booking b is dealt with. *)
SweepPast(b) ==
  IF sweep.todo = {b} THEN NoSweep
  ELSE [NoSweep EXCEPT !.at = "claim", !.todo = sweep.todo \ {b}]

Stamped(row) == [row EXCEPT !.stamped = TRUE]

SweepClaimWarningAll(b) ==
  /\ sweep.at = "claim" /\ b \in sweep.todo
  /\ rows' = IF ~rows[b].used THEN [rows EXCEPT ![b] = Stamped(@)] ELSE rows
  /\ sweep' = [sweep EXCEPT !.at = "warn", !.cur = b]
  /\ UNCHANGED <<now, request, dispatch, told, history>>

(* The conditional update: only a row nobody stamped or used meanwhile. *)
SweepClaim(b) ==
  /\ sweep.at = "claim" /\ b \in sweep.todo
  /\ IF ~rows[b].stamped /\ ~rows[b].used
     THEN /\ rows' = [rows EXCEPT ![b] = Stamped(@)]
          /\ sweep' = [sweep EXCEPT !.at = "warn", !.cur = b]
     ELSE sweep' = SweepPast(b) /\ UNCHANGED rows
  /\ UNCHANGED <<now, request, dispatch, told, history>>

SweepWarn ==
  /\ sweep.at = "warn"
  /\ warned' = [warned EXCEPT ![sweep.cur] = @ + 1]
  /\ sweep' = SweepPast(sweep.cur)
  /\ UNCHANGED <<now, rows, request, dispatch, reminded, history>>

-----------------------------------------------------------------------------
(* ReminderService.tick *)

(* The reminders a row has coming at time t: late is better than never. *)
Firing(row, t) == { o \in Offsets \ row.sent : row.slot.start - o <= t }

Upcoming(row, t) ==
  /\ row.status \in ActiveStates
  /\ t < row.slot.start /\ row.slot.start <= t + Ahead

DispatchStart ==
  LET due == { b \in Bookings : Upcoming(rows[b], now) /\ Firing(rows[b], now) # {} }
  IN  /\ dispatch.at = "idle"
      /\ due # {}
      /\ dispatch' = [NoDispatch EXCEPT !.at = "deliver", !.time = now,
                                        !.seen = [b \in due |-> rows[b]]]
      /\ UNCHANGED <<now, rows, request, sweep, told, history>>

(* One reminder of a row after the other, then the record of all of them. *)
DispatchDeliver(b, o) ==
  LET row == dispatch.seen[b]
      already == (IF dispatch.cur = b THEN dispatch.already ELSE row.sent) \cup {o}
  IN  /\ dispatch.at = "deliver" /\ dispatch.cur \in {b, None}
      /\ o \in Firing(row, dispatch.time) \ dispatch.already
      /\ reminded' = [reminded EXCEPT ![<<b, o>>] = @ + 1]
      /\ dispatch' = [ dispatch EXCEPT
                         !.cur = b, !.already = already,
                         !.at = IF Firing(row, dispatch.time) \subseteq already
                                THEN "record" ELSE "deliver" ]
      /\ UNCHANGED <<now, rows, request, sweep, warned, history>>

RecordedAnew(seen, already) == already \ seen.sent

(* What remindersSent becomes: the row as read, and what was delivered. *)
Recorded(seen, already) == seen.sent \cup already

DispatchRecord ==
  LET b == dispatch.cur
      rest == [c \in DOMAIN dispatch.seen \ {b} |-> dispatch.seen[c]]
  IN  /\ dispatch.at = "record"
      /\ rows' = [rows EXCEPT ![b].sent = Recorded(dispatch.seen[b], dispatch.already)]
      /\ dispatch' = IF DOMAIN rest = {} THEN NoDispatch
                     ELSE [NoDispatch EXCEPT !.at = "deliver", !.time = dispatch.time,
                                             !.seen = rest]
      /\ UNCHANGED <<now, request, sweep, told, history>>

-----------------------------------------------------------------------------
(* A call of a pass fails: the pass is over, the next one starts afresh. *)

LostNow == IF sweep.at = "warn" THEN {sweep.cur} ELSE {}

SweepFailsRunning ==
  /\ sweep.at # "idle" /\ cuts < MaxCuts
  /\ cuts' = cuts + 1
  /\ lost' = lost \cup LostNow
  /\ sweep' = [NoSweep EXCEPT !.at = "claim"]
  /\ UNCHANGED <<now, rows, request, dispatch, told, raced>>

SweepFails ==
  /\ sweep.at # "idle" /\ cuts < MaxCuts
  /\ cuts' = cuts + 1
  /\ lost' = lost \cup LostNow
  /\ sweep' = NoSweep
  /\ UNCHANGED <<now, rows, request, dispatch, told, raced>>

DispatchFailsRunning ==
  /\ dispatch.at # "idle" /\ cuts < MaxCuts
  /\ cuts' = cuts + 1
  /\ dispatch' = [NoDispatch EXCEPT !.at = "deliver"]
  /\ UNCHANGED <<now, rows, request, sweep, told, raced, lost>>

DispatchFails ==
  /\ dispatch.at # "idle" /\ cuts < MaxCuts
  /\ cuts' = cuts + 1
  /\ dispatch' = NoDispatch
  /\ UNCHANGED <<now, rows, request, sweep, told, raced, lost>>

Restart ==
  /\ cuts < MaxCuts
  /\ cuts' = cuts + 1
  /\ lost' = lost \cup LostNow
  /\ sweep' = NoSweep /\ dispatch' = NoDispatch
  /\ request' = [b \in Bookings |-> None]
  /\ UNCHANGED <<now, rows, told, raced>>

-----------------------------------------------------------------------------
(* The requests: checked against the row as read, then written. *)

CheckInRead(b) ==
  LET row == rows[b]
  IN  /\ request[b] = None
      /\ row.status = "APPROVED" /\ ~row.used
      /\ row.slot.start - Grace <= now /\ now <= row.slot.end
      /\ request' = [request EXCEPT ![b] = CheckIn]
      /\ UNCHANGED <<now, rows, jobs, told, history>>

(* A meeting under way keeps its start; one that is over stays as it is. *)
MoveRead(b, slot) ==
  LET row == rows[b]
  IN  /\ request[b] = None
      /\ row.status \in ActiveStates /\ row.slot.end > now
      /\ IF row.slot.start <= now THEN slot.start = row.slot.start /\ slot.end > now
                                  ELSE slot.start >= now
      /\ request' = [request EXCEPT ![b] = slot]
      /\ UNCHANGED <<now, rows, jobs, told, history>>

Written(row, what) ==
  IF what = CheckIn THEN [row EXCEPT !.used = TRUE] ELSE [row EXCEPT !.slot = what]

RequestWrite(b) ==
  /\ request[b] # None
  /\ rows' = [rows EXCEPT ![b] = Written(@, request[b])]
  /\ request' = [request EXCEPT ![b] = None]
  /\ UNCHANGED <<now, jobs, told, history>>

Decide(b, outcome) ==
  /\ rows[b].status = "PENDING"
  /\ rows' = [rows EXCEPT ![b].status = outcome]
  /\ UNCHANGED <<now, request, jobs, told, history>>

Cancel(b) ==
  /\ rows[b].status \in ActiveStates
  /\ rows' = [rows EXCEPT ![b].status = "CANCELLED"]
  /\ UNCHANGED <<now, request, jobs, told, history>>

Tick ==
  /\ now < MaxTime
  /\ now' = now + 1
  /\ UNCHANGED <<rows, request, jobs, told, history>>

SweepStep == SweepStart \/ SweepWarn \/ \E b \in Bookings : SweepClaim(b)

DispatchStep ==
  \/ DispatchStart
  \/ DispatchRecord
  \/ \E b \in DOMAIN dispatch.seen, o \in Offsets : DispatchDeliver(b, o)

Next ==
  \/ SweepStep
  \/ DispatchStep
  \/ SweepFails \/ DispatchFails \/ Restart
  \/ \E b \in Bookings :
       \/ CheckInRead(b)
       \/ \E slot \in Slots : MoveRead(b, slot)
       \/ RequestWrite(b)
       \/ \E outcome \in {"APPROVED", "CANCELLED"} : Decide(b, outcome)
       \/ Cancel(b)
  \/ Tick

(* Each job has its own timer, which the process restarts with itself; a    *)
(* pass always runs on.  Nothing else is fair: the clock may stop, requests *)
(* need not come.                                                           *)
Spec == Init /\ [][Next]_vars /\ WF_vars(SweepStep) /\ WF_vars(DispatchStep)

-----------------------------------------------------------------------------
(* Properties. *)

(* "Warns the booking's owner once": at most once, whatever fails, because  *)
(* the stamp comes before the warning.                                      *)
WarnedAtMostOnce == \A b \in Bookings : warned[b] <= 1

(* A booking is both stamped as unused and checked in only if a check-in or *)
(* a reschedule had passed its checks when the sweep listed the booking:    *)
(* the windows of check-in and sweep do not overlap, and the claim repeats  *)
(* the test.                                                                *)
UsedAndStampedNeedsRace ==
  \A b \in Bookings : rows[b].used /\ rows[b].stamped => b \in raced

(* A reminder is repeated only by a failure or a restart: what was          *)
(* delivered is recorded before the next pass may read the row.             *)
RemindedOnceUnlessCut ==
  \A n \in DOMAIN reminded : reminded[n] <= 1 + cuts

(* Seen from the owners, the sweep is OneWarning: claimed, then warned once. *)
Warning ==
  INSTANCE OneWarning WITH claimed <- { b \in Bookings : rows[b].stamped }, told <- warned

WarningSpec == Warning!Spec

(* "Late is better than never": a reminder that is due does not stay so.    *)
(* It is delivered and recorded, unless the meeting is cancelled, moved or  *)
(* begins first.                                                            *)
ReminderNotForgotten ==
  \A b \in Bookings, o \in Offsets :
    LET due == Upcoming(rows[b], now) /\ o \in Firing(rows[b], now)
    IN  due ~> ~due

(* Every unused booking is found and stamped, unless it ages out of the     *)
(* lookback or is taken for used first.                                     *)
UnusedIsFound == \A b \in Bookings : Unused(rows[b]) ~> ~Unused(rows[b])
=============================================================================
