----------------------------- MODULE LocalDays -----------------------------
(***************************************************************************)
(* Calendar days on a tenant's wall clock (apps/api/src/common/tz.util.ts,  *)
(* shiftLocalDays of booking.rules.ts, wall() of freeWindows, zonedToUtcIso *)
(* of the user portal).                                                     *)
(*                                                                          *)
(* Instants and wall-clock readings are numbers of ticks; days are counted  *)
(* from the same origin on both, so that a reading is the instant plus the  *)
(* zone's offset.  A zone changes its offset at most once in the modelled   *)
(* horizon, as Intl reports it: forwards in spring, back in autumn.         *)
(***************************************************************************)
EXTENDS Integers

CONSTANT DayLength  \* ticks in a calendar day

ASSUME DayAssumption == DayLength \in Nat \ {0}

(* Offset `before` until the instant `at`, `after` from then on. *)
ZoneType == [before : Int, after : Int, at : Int]

(* tzOffsetMs: what to add to an instant to read the clock. *)
Offset(z, t) == IF t < z.at THEN z.before ELSE z.after

(* zonedParts *)
Wall(z, t) == t + Offset(z, t)

(* localDateKey *)
LocalDay(z, t) == Wall(z, t) \div DayLength

(* minuteOfDayInTz *)
TimeOfDay(z, t) == Wall(z, t) % DayLength

Midnight(day) == day * DayLength

-----------------------------------------------------------------------------
(* From the clock back to instants *)

InstantOnePass(z, w, near) == w - Offset(z, near)

(* The two passes all conversions share: guess with the offset at `near`,   *)
(* then read the offset again at the guess.                                 *)
InstantOf(z, w, near) ==
  LET guess == w - Offset(z, near) IN w - Offset(z, guess)

(* startOfDayInTz: the second pass counts only if it stays on the day. *)
StartOfDay(z, t) ==
  LET midnight  == Midnight(LocalDay(z, t))
      guess     == midnight - Offset(z, t)
      corrected == midnight - Offset(z, guess)
  IN  IF LocalDay(z, corrected) = LocalDay(z, t) THEN corrected ELSE guess

(* addLocalDays *)
AddLocalDays(z, dayStart, days) ==
  InstantOf(z, Midnight(LocalDay(z, dayStart) + days), dayStart)

(* shiftLocalDays: the same time of day, `days` days later. *)
ShiftLocalDays(z, t, days) ==
  IF days = 0 THEN t ELSE InstantOf(z, Wall(z, t) + days * DayLength, t)

(* wall(): a time of the day that starts at dayStart. *)
AtTime(z, dayStart, time) ==
  InstantOf(z, Midnight(LocalDay(z, dayStart)) + time, dayStart)

(* zonedToUtcIso: the first offset is read at the clock's reading itself. *)
ZonedToUtc(z, w) == InstantOf(z, w, w)

(* The start of the day a request names: that of noon UTC on that date. *)
StartOfNamedDay(z, day) == StartOfDay(z, Midnight(day) + DayLength \div 2)

-----------------------------------------------------------------------------
(* What the conversions are for *)

(* No instant shows the reading w: the clock jumps over it. *)
Skipped(z, w) == z.at + z.before <= w /\ w < z.at + z.after

(* Two instants show it: the clock is set back over it. *)
Repeated(z, w) == z.at + z.after <= w /\ w < z.at + z.before

(* The clock passes the midnight the day begins with once, as usual. *)
Ordinary(z, day) == ~Skipped(z, Midnight(day)) /\ ~Repeated(z, Midnight(day))

(* Noon UTC falls on the day of the same name: for offsets from -12 hours   *)
(* to just below +12 hours.                                                 *)
NoonIsOfDay(z) ==
  \A offset \in {z.before, z.after} :
    -(DayLength \div 2) <= offset /\ offset < DayLength - DayLength \div 2
=============================================================================
