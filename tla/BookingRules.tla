---------------------------- MODULE BookingRules ----------------------------
(***************************************************************************)
(* The pure booking rules of the API (apps/api/src/booking/booking.rules.ts*)
(* and the operators of booking.service.ts that read only their arguments).*)
(*                                                                         *)
(* Time is a natural number of ticks, two to the minute, so that the       *)
(* rounding of minutesBetween is visible.  The wall clock is the tenant's, *)
(* with days of DayTicks ticks and weeks of DaysPerWeek days: no daylight  *)
(* saving transition falls inside the modelled horizon.                    *)
(***************************************************************************)
EXTENDS Integers, Sequences, FiniteSets

CONSTANTS
  DayTicks,     \* ticks in a calendar day (2 * 1440 in production)
  DaysPerWeek,  \* days in a week (7 in production)
  LastDay       \* bound: the last calendar day a series may reach

ASSUME TimeAssumption ==
  /\ DayTicks \in Nat \ {0}
  /\ DaysPerWeek \in Nat \ {0}
  /\ LastDay \in Nat

(* The states in which a booking occupies its slot. *)
ActiveStates == {"PENDING", "APPROVED", "WAITLIST"}

BookingStates == ActiveStates \cup {"REJECTED", "CANCELLED", "COMPLETED"}

Decisions == {"PENDING", "APPROVED", "REJECTED"}

TicksPerMinute == 2

(* Math.round of the difference in minutes: half a minute rounds up. *)
MinutesBetween(a, b) == (b - a + 1) \div TicksPerMinute

DayOf(t) == t \div DayTicks

IsoWeekday(t) == (DayOf(t) % DaysPerWeek) + 1

MinuteOfDay(t) == (t % DayTicks) \div TicksPerMinute

(* The slot lies on one weekday, an allowed one, between open and close. *)
WithinBusinessHours(slot, rules) ==
  /\ IsoWeekday(slot.start) = IsoWeekday(slot.end)
  /\ IsoWeekday(slot.start) \in rules.days
  /\ MinuteOfDay(slot.start) >= rules.open
  /\ MinuteOfDay(slot.end) <= rules.close

(* The slot starts beyond the booking horizon of the policy. *)
ExceedsMaxAdvance(slot, rules, t) ==
  slot.start - t > rules.maxAdvanceDays * DayTicks

(* validateSlot: the checks that need no database, at time t. *)
ValidSlot(slot, rules, t, allowOverAdvance) ==
  /\ slot.end > slot.start
  /\ MinutesBetween(slot.start, slot.end) >= rules.minDuration
  /\ MinutesBetween(slot.start, slot.end) <= rules.maxDuration
  /\ MinutesBetween(t, slot.start) >= rules.minAdvance
  /\ allowOverAdvance \/ ~ExceedsMaxAdvance(slot, rules, t)
  /\ WithinBusinessHours(slot, rules)

-----------------------------------------------------------------------------
(* Recurrence.  A series is the base slot shifted by whole calendar days.  *)

Shift(base, d) ==
  [start |-> base.start + d * DayTicks, end |-> base.end + d * DayTicks]

(* The day offsets a daily series visits: the first `count` days, in order, *)
(* that the policy opens; a closed day is skipped, not refused.             *)
DailyOffsets(base, count, days) ==
  LET open(d) == IsoWeekday(base.start + d * DayTicks) \in days
  IN  { ds \in [1..count -> 0..LastDay] :
          /\ \A i \in 1..count : open(ds[i])
          /\ \A i, j \in 1..count : i < j => ds[i] < ds[j]
          /\ \A d \in 0..ds[count] : open(d) => \E i \in 1..count : ds[i] = d }

(* generateOccurrences, as the set of the (at most one) offset sequences of *)
(* a series; empty when the policy opens no day at all or the series would  *)
(* leave the modelled horizon.                                              *)
SeriesOffsets(base, freq, count, days) ==
  CASE freq = "ONCE"   -> { [i \in 1..1 |-> 0] }
    [] freq = "WEEKLY" -> { [i \in 1..count |-> (i - 1) * DaysPerWeek] }
    [] freq = "DAILY"  -> DailyOffsets(base, count, days)

-----------------------------------------------------------------------------
(* What the rules are for. *)

Disjoint(s, t) == s.end <= t.start \/ t.end <= s.start

(* Disjoint, with at least `gap` ticks in between. *)
Apart(s, t, gap) == s.end + gap <= t.start \/ t.end + gap <= s.start

(* The conflict query of the service: s, widened by the buffer, meets t. *)
OverlapsBuffered(s, t, buffer) ==
  /\ t.start < s.end + buffer * TicksPerMinute
  /\ t.end > s.start - buffer * TicksPerMinute
=============================================================================
