-------------------------- MODULE Composer_proofs ---------------------------
(***************************************************************************)
(* Theorems about the meeting form and the conversions of LocalDays it      *)
(* uses, and about the pages of Screens.  About the form, the invariant     *)
(* says where a pick may come from: the slot being edited, or the options   *)
(* of the reply shown; about a page, what it still waits for.               *)
(***************************************************************************)
EXTENDS Composer, Screens, SequenceTheorems, WellFoundedInduction, TLAPS

-----------------------------------------------------------------------------
(* What the conversions of LocalDays do, for every zone, day and reading.   *)
(* A day is DayLength long, so the facts about \div and % come first; what  *)
(* follows is linear arithmetic over the two offsets of a zone.             *)

LEMMA DayFacts ==
  ASSUME NEW w \in Int
  PROVE  /\ DayLength \in Int /\ DayLength > 0
         /\ w \div DayLength \in Int
         /\ w % DayLength \in 0..(DayLength - 1)
         /\ w = Midnight(w \div DayLength) + (w % DayLength)
  BY DayAssumption DEF Midnight

LEMMA MidnightFacts ==
  ASSUME NEW d \in Int
  PROVE  /\ Midnight(d) \in Int
         /\ Midnight(d + 1) = Midnight(d) + DayLength
         /\ \A e \in Int : Midnight(d) + e * DayLength = Midnight(d + e)
  BY DayAssumption DEF Midnight

LEMMA DaysApart ==
  ASSUME NEW d \in Int, NEW e \in Int, Midnight(d) < Midnight(e + 1), Midnight(e) < Midnight(d + 1)
  PROVE  d = e
  BY DayAssumption DEF Midnight

LEMMA DaysOrdered ==
  ASSUME NEW d \in Int, NEW e \in Int, Midnight(d) < Midnight(e)
  PROVE  d < e
  BY DayAssumption DEF Midnight

LEMMA ZoneFacts ==
  ASSUME NEW z \in ZoneType, NEW t \in Int
  PROVE  /\ z.before \in Int /\ z.after \in Int /\ z.at \in Int
         /\ Offset(z, t) \in {z.before, z.after}
         /\ Offset(z, t) \in Int
         /\ Wall(z, t) \in Int
         /\ LocalDay(z, t) \in Int
         /\ TimeOfDay(z, t) \in 0..(DayLength - 1)
<1>1. z.before \in Int /\ z.after \in Int /\ z.at \in Int
  BY DEF ZoneType
<1>2. Offset(z, t) \in {z.before, z.after} /\ Offset(z, t) \in Int /\ Wall(z, t) \in Int
  BY <1>1 DEF Offset, Wall
<1> QED
  BY <1>1, <1>2, DayFacts DEF LocalDay, TimeOfDay

(* A day holds the readings from its midnight to before the next. *)
LEMMA DayIsReadings ==
  ASSUME NEW z \in ZoneType, NEW t \in Int, NEW d \in Int
  PROVE  /\ LocalDay(z, t) = d <=> Midnight(d) <= Wall(z, t) /\ Wall(z, t) < Midnight(d + 1)
         /\ Wall(z, t) = Midnight(LocalDay(z, t)) + TimeOfDay(z, t)
<1> DEFINE w == Wall(z, t)
           q == LocalDay(z, t)
<1>1. w \in Int /\ q \in Int /\ TimeOfDay(z, t) \in 0..(DayLength - 1)
      /\ w = Midnight(q) + TimeOfDay(z, t)
  BY ZoneFacts, DayFacts DEF LocalDay, TimeOfDay
<1>2. Midnight(q) <= w /\ w < Midnight(q + 1)
  BY <1>1, MidnightFacts, DayAssumption
<1> HIDE DEF w, q
<1>3. ASSUME Midnight(d) <= w, w < Midnight(d + 1)
      PROVE  q = d
  <2>1. Midnight(d) < Midnight(q + 1) /\ Midnight(q) < Midnight(d + 1)
    <3>1. /\ Midnight(d) \in Int /\ Midnight(d + 1) \in Int
          /\ Midnight(q) \in Int /\ Midnight(q + 1) \in Int
      BY <1>1, DayAssumption DEF Midnight
    <3> QED
      BY <1>1, <1>2, <1>3, <3>1
  <2> QED
    BY <2>1, <1>1, DaysApart
<1> QED
  BY <1>1, <1>2, <1>3 DEF w, q

-----------------------------------------------------------------------------

(* Two passes find an instant that shows the reading, from either offset,   *)
(* unless no instant shows it.                                              *)
THEOREM InstantShows ==
  ASSUME NEW z \in ZoneType, NEW w \in Int, NEW near \in Int, ~Skipped(z, w)
  PROVE  /\ InstantOf(z, w, near) \in Int
         /\ Wall(z, InstantOf(z, w, near)) = w
  BY ZoneFacts DEF InstantOf, Wall, Offset, Skipped

LEMMA InstantInt ==
  ASSUME NEW z \in ZoneType, NEW w \in Int, NEW near \in Int
  PROVE  InstantOf(z, w, near) \in Int
  BY ZoneFacts DEF InstantOf, Wall, Offset

(* A reading shown once divides the instants into earlier and later ones.   *)
LEMMA ShownOnce ==
  ASSUME NEW z \in ZoneType, NEW s \in Int, NEW u \in Int,
         ~Skipped(z, Wall(z, s)), ~Repeated(z, Wall(z, s))
  PROVE  u < s <=> Wall(z, u) < Wall(z, s)
  BY ZoneFacts DEF Wall, Offset, Skipped, Repeated

LEMMA ShownOnceAfter ==
  ASSUME NEW z \in ZoneType, NEW s \in Int, NEW u \in Int,
         ~Skipped(z, Wall(z, s)), ~Repeated(z, Wall(z, s))
  PROVE  s < u <=> Wall(z, s) < Wall(z, u)
  BY ZoneFacts DEF Wall, Offset, Skipped, Repeated

LEMMA StartShowsMidnight ==
  ASSUME NEW z \in ZoneType, NEW t \in Int, ~Skipped(z, Midnight(LocalDay(z, t)))
  PROVE  /\ StartOfDay(z, t) \in Int
         /\ Wall(z, StartOfDay(z, t)) = Midnight(LocalDay(z, t))
<1> DEFINE d == LocalDay(z, t)
           s == InstantOf(z, Midnight(d), t)
<1>1. d \in Int /\ Midnight(d) \in Int
  BY ZoneFacts, MidnightFacts
<1>2. s \in Int /\ Wall(z, s) = Midnight(d)
  BY <1>1, InstantShows
<1>3. LocalDay(z, s) = d
  BY <1>1, <1>2, DayIsReadings, MidnightFacts, DayAssumption
<1>4. StartOfDay(z, t) = s
  BY <1>3 DEF StartOfDay, InstantOf
<1> QED
  BY <1>2, <1>4

(* From startOfDayInTz to addLocalDays(.., 1): exactly the local day.       *)
THEOREM DayIsTiled ==
  ASSUME NEW z \in ZoneType, NEW t \in Int,
         Ordinary(z, LocalDay(z, t)), Ordinary(z, LocalDay(z, t) + 1)
  PROVE  LET here  == LocalDay(z, t)
             start == StartOfDay(z, t)
             next  == AddLocalDays(z, start, 1)
         IN  /\ start \in Int /\ next \in Int
             /\ LocalDay(z, start) = here /\ LocalDay(z, next) = here + 1
             /\ \A u \in Int : LocalDay(z, u) = here <=> start <= u /\ u < next
<1> DEFINE here  == LocalDay(z, t)
           start == StartOfDay(z, t)
           next  == AddLocalDays(z, start, 1)
<1>1. here \in Int /\ Midnight(here) \in Int /\ Midnight(here + 1) \in Int
      /\ Midnight(here + 1) = Midnight(here) + DayLength
  BY ZoneFacts, MidnightFacts
<1>2. start \in Int /\ Wall(z, start) = Midnight(here)
  BY StartShowsMidnight DEF Ordinary
<1>3. LocalDay(z, start) = here
  BY <1>1, <1>2, DayIsReadings, DayAssumption
<1>4. next \in Int /\ Wall(z, next) = Midnight(here + 1)
  BY <1>1, <1>2, <1>3, InstantShows DEF AddLocalDays, Ordinary
<1>5. LocalDay(z, next) = here + 1
  BY <1>1, <1>4, DayIsReadings, MidnightFacts, DayAssumption
<1>6. ASSUME NEW u \in Int
      PROVE  LocalDay(z, u) = here <=> start <= u /\ u < next
  <2>1. u < start <=> Wall(z, u) < Midnight(here)
    BY <1>2, ShownOnce DEF Ordinary
  <2>2. u < next <=> Wall(z, u) < Midnight(here + 1)
    BY <1>4, ShownOnce DEF Ordinary
  <2>3. LocalDay(z, u) = here <=> Midnight(here) <= Wall(z, u) /\ Wall(z, u) < Midnight(here + 1)
    BY <1>1, DayIsReadings
  <2> QED
    BY <1>1, <1>2, <1>4, <2>1, <2>2, <2>3, ZoneFacts
<1> QED
  BY <1>2, <1>3, <1>4, <1>5, <1>6

(* The instant before the start of a day is of an earlier day.              *)
LEMMA DayBefore ==
  ASSUME NEW z \in ZoneType, NEW t \in Int, Ordinary(z, LocalDay(z, t))
  PROVE  LocalDay(z, StartOfDay(z, t) - 1) < LocalDay(z, t)
<1> DEFINE here  == LocalDay(z, t)
           u     == StartOfDay(z, t) - 1
<1>1. StartOfDay(z, t) \in Int /\ Wall(z, StartOfDay(z, t)) = Midnight(here)
  BY StartShowsMidnight DEF Ordinary
<1>2. u \in Int /\ u < StartOfDay(z, t)
  BY <1>1
<1>3. Wall(z, u) < Midnight(here)
  <2> HIDE DEF u
  <2> QED
    BY <1>1, <1>2, ShownOnce DEF Ordinary
<1>4. here \in Int /\ LocalDay(z, u) \in Int /\ Wall(z, u) \in Int
      /\ Midnight(here) \in Int /\ Midnight(LocalDay(z, u)) \in Int
  BY <1>2, ZoneFacts, MidnightFacts
<1>5. Midnight(LocalDay(z, u)) <= Wall(z, u)
  BY <1>2, <1>4, DayIsReadings
<1>6. Midnight(LocalDay(z, u)) < Midnight(here)
  <2> HIDE DEF here, u
  <2> QED
    BY <1>3, <1>4, <1>5
<1> HIDE DEF here, u
<1> QED
  BY <1>4, <1>6, DaysOrdered DEF here, u

(* An occurrence of a series keeps its time of day.                         *)
THEOREM ShiftKeepsTime ==
  ASSUME NEW z \in ZoneType, NEW t \in Int, NEW days \in Int,
         ~Skipped(z, Midnight(LocalDay(z, t) + days) + TimeOfDay(z, t))
  PROVE  /\ Wall(z, ShiftLocalDays(z, t, days)) = Midnight(LocalDay(z, t) + days) + TimeOfDay(z, t)
         /\ LocalDay(z, ShiftLocalDays(z, t, days)) = LocalDay(z, t) + days
<1> DEFINE d == LocalDay(z, t)
           time == TimeOfDay(z, t)
           w == Midnight(d + days) + time
           s == ShiftLocalDays(z, t, days)
<1>1. d \in Int /\ time \in 0..(DayLength - 1) /\ Midnight(d) \in Int /\ Wall(z, t) \in Int
      /\ d + days \in Int
  <2>1. d \in Int /\ time \in 0..(DayLength - 1) /\ Wall(z, t) \in Int
    BY ZoneFacts
  <2>2. Midnight(d) \in Int
    BY <2>1, MidnightFacts
  <2> QED
    BY <2>1, <2>2
<1>2. Midnight(d + days) \in Int /\ Midnight((d + days) + 1) = Midnight(d + days) + DayLength
  BY <1>1, MidnightFacts
<1>3. Wall(z, t) + days * DayLength = w
  <2>1. Wall(z, t) = Midnight(d) + time
    BY <1>1, DayIsReadings
  <2>2. Midnight(d) + days * DayLength = Midnight(d + days)
    BY <1>1, MidnightFacts
  <2>3. days * DayLength \in Int
    BY DayAssumption
  <2> HIDE DEF d, time
  <2> QED
    BY <2>1, <2>2, <2>3, <1>1, <1>2
<1>4. s \in Int /\ Wall(z, s) = w
  <2>1. CASE days = 0
    <3>1. s = t
      BY <2>1 DEF ShiftLocalDays
    <3>2. d + days = d
      BY <2>1, <1>1
    <3> QED
      BY <3>1, <3>2, <1>1, DayIsReadings
  <2>2. CASE days # 0
    <3>1. s = InstantOf(z, w, t)
      BY <2>2, <1>3 DEF ShiftLocalDays
    <3>2. w \in Int
      BY <1>1, <1>2
    <3> QED
      BY <3>1, <3>2, InstantShows
  <2> QED
    BY <2>1, <2>2
<1>5. LocalDay(z, s) = d + days
  <2>1. Midnight(d + days) <= w /\ w < Midnight((d + days) + 1)
    BY <1>1, <1>2, DayAssumption
  <2> QED
    BY <1>1, <1>4, <2>1, DayIsReadings
<1> QED
  BY <1>4, <1>5

-----------------------------------------------------------------------------
(* A non-empty set of integers that is bounded below has a least element.   *)

LessThan == { p \in Nat \X Nat : p[1] < p[2] }

LEMMA LessThanWellFounded == IsWellFoundedOn(LessThan, Nat)
  BY NatLessThanWellFounded DEF OpToRel, LessThan

LEMMA LeastNatural ==
  ASSUME NEW S \in SUBSET Nat, S # {}
  PROVE  \E x \in S : \A y \in S : x <= y
<1>1. S \subseteq Nat /\ S # {}
  OBVIOUS
<1>2. \E x \in S : \A y \in S : ~(<<y, x>> \in LessThan)
  BY <1>1, LessThanWellFounded, WFMin, Zenon
<1>3. PICK x \in S : \A y \in S : ~(<<y, x>> \in LessThan)
  BY <1>2
<1>4. ASSUME NEW y \in S
      PROVE  x <= y
  <2>1. x \in Nat /\ y \in Nat /\ ~(<<y, x>> \in LessThan)
    BY <1>3
  <2>2. y < x => <<y, x>> \in LessThan
    BY <2>1 DEF LessThan
  <2> QED
    BY <2>1, <2>2
<1> QED
  BY <1>4

LEMMA LeastInteger ==
  ASSUME NEW b \in Int, NEW S, \A x \in S : x \in Int /\ x >= b, S # {}
  PROVE  \E x \in S : \A y \in S : x <= y
<1> DEFINE T == { x - b : x \in S }
<1>1. T \in SUBSET Nat /\ T # {}
  OBVIOUS
<1>2. PICK x \in T : \A y \in T : x <= y
  BY <1>1, LeastNatural
<1> QED
  BY <1>2

LEMMA GreatestInteger ==
  ASSUME NEW b \in Int, NEW S, \A x \in S : x \in Int /\ x <= b, S # {}
  PROVE  \E x \in S : \A y \in S : y <= x
<1> DEFINE T == { -x : x \in S }
<1>1. T # {} /\ -b \in Int /\ \A x \in T : x \in Int /\ x >= -b
  OBVIOUS
<1>2. PICK x \in T : \A y \in T : x <= y
  <2> HIDE DEF T
  <2> QED
    BY <1>1, LeastInteger
<1>3. PICK z \in S : x = -z
  OBVIOUS
<1>4. ASSUME NEW y \in S
      PROVE  y <= z
  BY <1>2, <1>3, <1>4
<1> QED
  BY <1>4

-----------------------------------------------------------------------------
(* The day a reply is about *)

ZoneOK(s) ==
  /\ s.zone \in ZoneType
  /\ 2 * (s.zone.after - s.zone.before) < DayLength
  /\ 2 * (s.zone.before - s.zone.after) < DayLength

RulesOK(s) ==
  /\ s.rules \in RulesType
  /\ 0 < s.rules.min /\ s.rules.min <= s.rules.max
  /\ s.rules.buffer >= 0 /\ s.rules.minAdvance >= 0
  /\ 0 <= s.rules.open /\ s.rules.close < DayLength

LEMMA ConstantsOK ==
  ASSUME TypeOK
  PROVE  ZoneOK(site) /\ RulesOK(site)
  BY ZoneAssumption, ComposerAssumption DEF TypeOK, SiteType, ZoneOK, RulesOK

LEMMA HalfDay ==
  /\ DayLength \div 2 \in Int
  /\ 2 * (DayLength \div 2) <= DayLength
  /\ DayLength <= 2 * (DayLength \div 2) + 1
  BY DayAssumption

(* The start of a day is an instant of the day: its midnight, or, where that *)
(* is skipped, an instant after the change.                                 *)
LEMMA StartIsOfDay ==
  ASSUME NEW s, ZoneOK(s), NEW t \in Int
  PROVE  LET d == LocalDay(s.zone, t)
             begin == StartOfDay(s.zone, t)
         IN  /\ begin \in Int /\ LocalDay(s.zone, begin) = d
             /\ \/ Wall(s.zone, begin) = Midnight(d)
                \/ /\ Wall(s.zone, begin) = Midnight(d) + (s.zone.after - s.zone.before)
                   /\ s.zone.after > s.zone.before /\ begin >= s.zone.at
<1> DEFINE d == LocalDay(s.zone, t)
           m == Midnight(d)
           guess == m - Offset(s.zone, t)
           corrected == m - Offset(s.zone, guess)
<1>1. s.zone \in ZoneType
  BY DEF ZoneOK
<1>2. d \in Int /\ m \in Int /\ Midnight(d + 1) = m + DayLength /\ DayLength \in Int /\ DayLength > 0
  BY <1>1, ZoneFacts, MidnightFacts, DayAssumption
<1>3. guess \in Int /\ corrected \in Int
  BY <1>1, <1>2, ZoneFacts
<1>4. m <= Wall(s.zone, t)
  BY <1>1, <1>2, DayIsReadings
<1>5. \/ Wall(s.zone, corrected) = m
      \/ /\ Wall(s.zone, corrected) = m + (s.zone.after - s.zone.before)
         /\ s.zone.after > s.zone.before /\ corrected >= s.zone.at
  <2> HIDE DEF m
  <2> QED
    BY <1>1, <1>2, <1>4, ZoneFacts DEF Wall, Offset
<1>6. LocalDay(s.zone, corrected) = d
  <2>1. m <= Wall(s.zone, corrected) /\ Wall(s.zone, corrected) < m + DayLength
    <3>1. /\ s.zone.after \in Int /\ s.zone.before \in Int
          /\ 2 * (s.zone.after - s.zone.before) < DayLength
      BY <1>1, ZoneFacts DEF ZoneOK
    <3> HIDE DEF m, corrected
    <3> QED
      BY <1>2, <1>5, <3>1
  <2> QED
    BY <1>1, <1>2, <1>3, <2>1, DayIsReadings
<1>7. StartOfDay(s.zone, t) = corrected
  BY <1>6 DEF StartOfDay
<1> QED
  BY <1>3, <1>5, <1>6, <1>7

LEMMA NamedDay ==
  ASSUME NEW s, ZoneOK(s), NEW day \in Int
  PROVE  LET begin == StartOfNamedDay(s.zone, day)
         IN  /\ begin \in Int
             /\ NoonIsOfDay(s.zone) =>
                  /\ LocalDay(s.zone, begin) = day
                  /\ LocalDay(s.zone, begin + DayLength \div 2) = day
                  /\ ~Skipped(s.zone, Midnight(day)) => Wall(s.zone, begin) = Midnight(day)
                  /\ \/ Wall(s.zone, begin) = Midnight(day)
                     \/ /\ Wall(s.zone, begin) = Midnight(day) + (s.zone.after - s.zone.before)
                        /\ s.zone.after > s.zone.before /\ begin >= s.zone.at
<1> DEFINE noon == Midnight(day) + DayLength \div 2
           begin == StartOfDay(s.zone, noon)
<1>1. s.zone \in ZoneType
  BY DEF ZoneOK
<1>2. Midnight(day) \in Int /\ noon \in Int /\ Midnight(day + 1) = Midnight(day) + DayLength
  <2>1. Midnight(day) \in Int /\ Midnight(day + 1) = Midnight(day) + DayLength
    BY MidnightFacts
  <2> QED
    BY <2>1, HalfDay
<1>3. begin \in Int
  BY <1>2, StartIsOfDay
<1>4. ASSUME NoonIsOfDay(s.zone)
      PROVE  LocalDay(s.zone, noon) = day
  <2>1. Midnight(day) <= Wall(s.zone, noon) /\ Wall(s.zone, noon) < Midnight(day) + DayLength
    BY <1>1, <1>2, <1>4, HalfDay, ZoneFacts, DayAssumption DEF NoonIsOfDay, Wall
  <2> QED
    BY <1>1, <1>2, <2>1, DayIsReadings
<1>5. ASSUME NoonIsOfDay(s.zone)
      PROVE  /\ LocalDay(s.zone, begin) = day
             /\ \/ Wall(s.zone, begin) = Midnight(day)
                \/ /\ Wall(s.zone, begin) = Midnight(day) + (s.zone.after - s.zone.before)
                   /\ s.zone.after > s.zone.before /\ begin >= s.zone.at
  BY <1>2, <1>4, <1>5, StartIsOfDay
<1>6. ASSUME NoonIsOfDay(s.zone)
      PROVE  LocalDay(s.zone, begin + DayLength \div 2) = day
  <2> DEFINE u == begin + DayLength \div 2
  <2>1. u \in Int
    BY <1>3, HalfDay
  <2>2. Midnight(day) <= Wall(s.zone, u) /\ Wall(s.zone, u) < Midnight(day) + DayLength
    <3> HIDE DEF begin
    <3> QED
      BY <1>1, <1>2, <1>3, <1>5, <1>6, HalfDay, ZoneFacts, DayAssumption DEF ZoneOK, Wall, Offset
  <2> QED
    BY <1>1, <1>2, <2>1, <2>2, DayIsReadings
<1>7. ASSUME NoonIsOfDay(s.zone), ~Skipped(s.zone, Midnight(day))
      PROVE  Wall(s.zone, begin) = Midnight(day)
  BY <1>1, <1>2, <1>4, <1>7, StartShowsMidnight
<1> QED
  BY <1>3, <1>5, <1>6, <1>7 DEF StartOfNamedDay

-----------------------------------------------------------------------------
(* The windows of a reply *)

LEMMA EarlierLater ==
  ASSUME NEW a \in Int, NEW b \in Int
  PROVE  /\ Earlier(a, b) \in Int /\ Earlier(a, b) <= a /\ Earlier(a, b) <= b
         /\ Later(a, b) \in Int /\ a <= Later(a, b) /\ b <= Later(a, b)
  BY DEF Earlier, Later

LEMMA BookableFacts ==
  ASSUME NEW s, ZoneOK(s), RulesOK(s), NEW fw \in ReplyType
  PROVE  LET all  == Bookable(s, fw)
             from == DayStart(s, fw)
         IN  /\ from \in Int
             /\ all.start \in Int /\ all.end \in Int
             /\ AtTime(s.zone, from, s.rules.open) \in Int
             /\ AtTime(s.zone, from, s.rules.close) \in Int
             /\ AtTime(s.zone, from, s.rules.open) <= all.start
             /\ fw.now + s.rules.minAdvance <= all.start
             /\ all.end <= AtTime(s.zone, from, s.rules.close)
             /\ s.rules.overAdvanceApproval \/ all.end <= HorizonEnd(fw.now, s.rules)
<1> DEFINE from == DayStart(s, fw)
<1>1. /\ fw.day \in Int /\ fw.now \in Int /\ s.zone \in ZoneType
      /\ s.rules.open \in Int /\ s.rules.close \in Int /\ s.rules.minAdvance \in Int
      /\ s.rules.maxAdvanceDays \in Int
  BY ComposerAssumption DEF ReplyType, ZoneOK, RulesOK, RulesType
<1>2. from \in Int
  BY <1>1, NamedDay DEF DayStart
<1>3. Midnight(LocalDay(s.zone, from)) \in Int
  BY <1>1, <1>2, ZoneFacts, MidnightFacts
<1>4. /\ AtTime(s.zone, from, s.rules.open) \in Int
      /\ AtTime(s.zone, from, s.rules.close) \in Int
  <2> HIDE DEF from
  <2>1. ASSUME NEW time \in Int
        PROVE  AtTime(s.zone, from, time) \in Int
    <3>1. Midnight(LocalDay(s.zone, from)) + time \in Int
      BY <1>3
    <3> QED BY <1>1, <1>2, <3>1, InstantInt DEF AtTime
  <2> QED BY <1>1, <2>1
<1>5. HorizonEnd(fw.now, s.rules) \in Int
  BY <1>1, DayAssumption DEF HorizonEnd
<1>6. fw.now + s.rules.minAdvance \in Int
  BY <1>1
<1> HIDE DEF from
<1>7. /\ Bookable(s, fw).start = Later(AtTime(s.zone, from, s.rules.open), fw.now + s.rules.minAdvance)
      /\ Bookable(s, fw).end = IF s.rules.overAdvanceApproval THEN AtTime(s.zone, from, s.rules.close)
                            ELSE Earlier(AtTime(s.zone, from, s.rules.close), HorizonEnd(fw.now, s.rules))
  BY DEF Bookable, from
<1> DEFINE opens == AtTime(s.zone, from, s.rules.open)
           closes == AtTime(s.zone, from, s.rules.close)
           horizon == HorizonEnd(fw.now, s.rules)
           notice == fw.now + s.rules.minAdvance
<1>8. /\ Later(opens, notice) \in Int
      /\ opens <= Later(opens, notice) /\ notice <= Later(opens, notice)
      /\ Earlier(closes, horizon) \in Int
      /\ Earlier(closes, horizon) <= closes /\ Earlier(closes, horizon) <= horizon
  <2> HIDE DEF opens, closes, horizon, notice
  <2> QED
    BY <1>4, <1>5, <1>6, EarlierLater DEF opens, closes, horizon, notice
<1>9. /\ Bookable(s, fw).start \in Int /\ Bookable(s, fw).end \in Int
      /\ opens <= Bookable(s, fw).start /\ notice <= Bookable(s, fw).start
      /\ Bookable(s, fw).end <= closes
      /\ s.rules.overAdvanceApproval \/ Bookable(s, fw).end <= horizon
  BY <1>4, <1>7, <1>8
<1> QED
  BY <1>2, <1>4, <1>9 DEF from

LEMMA FormFields ==
  ASSUME NEW f \in FormType
  PROVE  /\ f.own \in SlotType \cup {None} /\ f.pick \in SlotType \cup {None}
         /\ f.fw \in ReplyType \cup {None}
         /\ f.date \in Int /\ f.duration \in Int
         /\ f.online \in BOOLEAN /\ f.loading \in BOOLEAN
  BY DEF FormType

LEMMA WindowFacts ==
  ASSUME NEW s, ZoneOK(s), RulesOK(s), NEW f \in FormType, NEW w \in Windows(s, f)
  PROVE  /\ f.fw \in ReplyType
         /\ w.start \in Int /\ w.end \in Int
         /\ IsOpen(s, f.fw)
         /\ Bookable(s, f.fw).start <= w.start /\ w.end <= Bookable(s, f.fw).end
         /\ ~f.online => \A b \in Busy(s, f.fw, f.own) : b.end <= w.start \/ w.end <= b.start
<1>1. f.fw \in ReplyType
  BY FormFields DEF Windows
<1>2. Bookable(s, f.fw).start \in Int /\ Bookable(s, f.fw).end \in Int
  BY <1>1, BookableFacts
<1>3. CASE f.online
  <2>1. w = Bookable(s, f.fw) /\ IsOpen(s, f.fw)
    BY <1>1, <1>3 DEF Windows, DayWindow
  <2> QED
    BY <1>1, <1>2, <1>3, <2>1
<1>4. CASE ~f.online
  <2>1. w \in FreeWindows(s, f.fw, f.own)
    BY <1>1, <1>4 DEF Windows
  <2>2. \A b \in Busy(s, f.fw, f.own) : b.start \in Int /\ b.end \in Int
    BY <1>1, NoneAssumption DEF Busy, ReplyType, SlotType, RulesOK, RulesType
  <2>3. w.start \in Int /\ w.end \in Int
    BY <1>2, <2>1, <2>2 DEF FreeWindows
  <2> QED
    BY <1>1, <1>4, <2>1, <2>3 DEF FreeWindows
<1> QED
  BY <1>3, <1>4, FormFields

(* A start that is offered lies in a window, with the duration. *)
LEMMA OptionFacts ==
  ASSUME NEW s, ZoneOK(s), RulesOK(s), NEW f \in FormType, NEW t \in StartOptions(s, f)
  PROVE  /\ t \in Int
         /\ \E w \in Windows(s, f) : w.start <= t /\ t + f.duration <= w.end
<1>1. PICK w \in Windows(s, f) :
        \/ t \in w.start..(w.end - f.duration)
        \/ \E o \in {f.own} : o # None /\ Fits(f, o.start, w) /\ t = o.start
  BY DEF StartOptions
<1>2. w.start \in Int /\ w.end \in Int /\ f.duration \in Int
  BY WindowFacts, FormFields
<1>3. CASE t \in w.start..(w.end - f.duration)
  BY <1>2, <1>3
<1>4. CASE \E o \in {f.own} : o # None /\ Fits(f, o.start, w) /\ t = o.start
  BY <1>2, <1>4, FormFields DEF Fits, SlotType
<1> QED
  BY <1>1, <1>3, <1>4

LEMMA EndOptionFacts ==
  ASSUME NEW s, ZoneOK(s), RulesOK(s), NEW f \in FormType, f.pick # None, NEW e \in EndOptions(s, f)
  PROVE  /\ e \in Int /\ f.fw # None
         /\ s.rules.min <= e - f.pick.start /\ e - f.pick.start <= s.rules.max
<1>1. PICK w \in Windows(s, f) : e \in (f.pick.start + 1)..w.end
  BY DEF EndOptions
<1>2. f.pick.start \in Int /\ w.end \in Int
  BY WindowFacts, FormFields DEF SlotType
<1>3. s.rules.min <= e - f.pick.start /\ e - f.pick.start <= s.rules.max
  BY DEF EndOptions
<1>4. f.fw # None
  BY DEF Windows
<1> QED
  BY <1>1, <1>2, <1>3, <1>4

-----------------------------------------------------------------------------
(* Opening and closing time bound what is offered *)

LEMMA HoursOfDay ==
  ASSUME NEW s, ZoneOK(s), RulesOK(s), NEW fw \in ReplyType, NoonIsOfDay(s.zone), HoursSteady(s, fw.day)
  PROVE  LET opens  == AtTime(s.zone, DayStart(s, fw), s.rules.open)
             closes == AtTime(s.zone, DayStart(s, fw), s.rules.close)
         IN  /\ Wall(s.zone, opens) = Midnight(fw.day) + s.rules.open
             /\ Wall(s.zone, closes) = Midnight(fw.day) + s.rules.close
             /\ \A u \in Int : opens <= u <=> Midnight(fw.day) + s.rules.open <= Wall(s.zone, u)
             /\ \A u \in Int : u < closes <=> Wall(s.zone, u) < Midnight(fw.day) + s.rules.close
<1> DEFINE from == DayStart(s, fw)
<1>1. /\ fw.day \in Int /\ s.zone \in ZoneType /\ from \in Int
      /\ s.rules.open \in Int /\ s.rules.close \in Int
  BY ComposerAssumption, BookableFacts DEF ReplyType, ZoneOK, RulesOK, RulesType
<1>2. LocalDay(s.zone, from) = fw.day
  BY <1>1, NamedDay DEF DayStart
<1>3. ASSUME NEW time \in {s.rules.open, s.rules.close}
      PROVE  LET begin == AtTime(s.zone, from, time)
             IN  /\ begin \in Int
                 /\ Wall(s.zone, begin) = Midnight(fw.day) + time
                 /\ \A u \in Int : u < begin <=> Wall(s.zone, u) < Midnight(fw.day) + time
  <2> DEFINE w == Midnight(fw.day) + time
             begin == InstantOf(s.zone, w, from)
  <2>1. w \in Int /\ ~Skipped(s.zone, w) /\ ~Repeated(s.zone, w)
    <3>1. Midnight(fw.day) \in Int
      BY <1>1, MidnightFacts
    <3>2. time \in Int
      BY <1>1
    <3>3. ~Skipped(s.zone, w) /\ ~Repeated(s.zone, w)
      BY DEF HoursSteady
    <3> QED
      BY <3>1, <3>2, <3>3
  <2>2. begin \in Int /\ Wall(s.zone, begin) = w
    BY <1>1, <2>1, InstantShows
  <2>3. \A u \in Int : u < begin <=> Wall(s.zone, u) < w
    BY <1>1, <2>1, <2>2, ShownOnce
  <2>4. AtTime(s.zone, from, time) = begin
    BY <1>2 DEF AtTime
  <2> QED
    BY <2>2, <2>3, <2>4
<1> DEFINE opens  == AtTime(s.zone, from, s.rules.open)
           closes == AtTime(s.zone, from, s.rules.close)
<1>4. /\ opens \in Int /\ closes \in Int
      /\ Wall(s.zone, opens) = Midnight(fw.day) + s.rules.open
      /\ Wall(s.zone, closes) = Midnight(fw.day) + s.rules.close
      /\ \A u \in Int : u < opens <=> Wall(s.zone, u) < Midnight(fw.day) + s.rules.open
      /\ \A u \in Int : u < closes <=> Wall(s.zone, u) < Midnight(fw.day) + s.rules.close
  BY <1>3
<1>5. ASSUME NEW u \in Int
      PROVE  opens <= u <=> Midnight(fw.day) + s.rules.open <= Wall(s.zone, u)
  <2>1. Wall(s.zone, u) \in Int /\ Midnight(fw.day) + s.rules.open \in Int
    <3>1. Midnight(fw.day) \in Int
      BY <1>1, MidnightFacts
    <3> QED
      BY <1>1, <3>1, ZoneFacts
  <2> QED
    BY <1>4, <2>1
<1> QED
  BY <1>4, <1>5

LEMMA OptionInHours ==
  ASSUME NEW s, ZoneOK(s), RulesOK(s), NEW f \in FormType, NEW t \in StartOptions(s, f),
         s.rules.min <= f.duration, NoonIsOfDay(s.zone), HoursSteady(s, f.fw.day)
  PROVE  /\ LocalDay(s.zone, t) = f.fw.day
         /\ WithinHours(s, PickAt(f, t), s.rules)
<1> DEFINE fw == f.fw
           m == Midnight(fw.day)
           opens  == AtTime(s.zone, DayStart(s, fw), s.rules.open)
           closes == AtTime(s.zone, DayStart(s, fw), s.rules.close)
           u == t + f.duration
<1>1. PICK w \in Windows(s, f) : w.start <= t /\ u <= w.end
  BY OptionFacts
<1>2. /\ t \in Int /\ f.duration \in Int /\ u \in Int /\ t < u
      /\ w.start \in Int /\ w.end \in Int
      /\ fw \in ReplyType /\ IsOpen(s, fw)
      /\ Bookable(s, fw).start <= w.start /\ w.end <= Bookable(s, fw).end
  <2>1. /\ t \in Int /\ f.duration \in Int /\ s.rules.min \in Int /\ 0 < s.rules.min
        /\ w.start \in Int /\ w.end \in Int
        /\ fw \in ReplyType /\ IsOpen(s, fw)
        /\ Bookable(s, fw).start <= w.start /\ w.end <= Bookable(s, fw).end
    BY OptionFacts, FormFields, WindowFacts DEF RulesOK, RulesType
  <2> QED
    BY <2>1
<1>3. opens <= t /\ u <= closes /\ opens \in Int /\ closes \in Int
  BY <1>1, <1>2, BookableFacts
<1>4. /\ s.zone \in ZoneType /\ fw.day \in Int
      /\ s.rules.open \in Int /\ s.rules.close \in Int
      /\ 0 <= s.rules.open /\ s.rules.close < DayLength
      /\ m \in Int /\ Midnight(fw.day + 1) = m + DayLength /\ DayLength \in Int
  <2>1. fw.day \in Int
    BY <1>2, ComposerAssumption DEF ReplyType
  <2>2. m \in Int /\ Midnight(fw.day + 1) = m + DayLength /\ DayLength \in Int
    <3>1. ASSUME NEW d \in Int
          PROVE  Midnight(d) \in Int /\ Midnight(d + 1) = Midnight(d) + DayLength
      BY MidnightFacts
    <3>2. DayLength \in Int
      BY DayAssumption
    <3> QED BY <2>1, <3>1, <3>2
  <2> QED
    BY <2>1, <2>2 DEF ZoneOK, RulesOK, RulesType
<1>5. /\ m + s.rules.open <= Wall(s.zone, t) /\ m + s.rules.open <= Wall(s.zone, u)
      /\ Wall(s.zone, u) <= m + s.rules.close /\ Wall(s.zone, t) < m + s.rules.close
      /\ Wall(s.zone, t) \in Int /\ Wall(s.zone, u) \in Int
  <2>1. opens <= u /\ t < closes
    BY <1>2, <1>3
  <2>2. /\ Wall(s.zone, closes) = m + s.rules.close
        /\ opens <= t => m + s.rules.open <= Wall(s.zone, t)
        /\ opens <= u => m + s.rules.open <= Wall(s.zone, u)
        /\ t < closes => Wall(s.zone, t) < m + s.rules.close
        /\ u < closes => Wall(s.zone, u) < m + s.rules.close
    BY <1>2, HoursOfDay
  <2>3. Wall(s.zone, t) \in Int /\ Wall(s.zone, u) \in Int
    BY <1>2, <1>4, ZoneFacts
  <2>4. u < closes \/ u = closes
    BY <1>2, <1>3
  <2>5. m + s.rules.close <= m + s.rules.close
    BY <1>4
  <2> HIDE DEF m, opens, closes, u
  <2>6. CASE u < closes
    BY <1>3, <1>4, <2>1, <2>2, <2>3, <2>6
  <2>7. CASE u = closes
    BY <1>3, <1>4, <2>1, <2>2, <2>3, <2>7
  <2> QED
    BY <2>4, <2>6, <2>7
<1>6. /\ m <= Wall(s.zone, t) /\ Wall(s.zone, t) < m + DayLength
      /\ m <= Wall(s.zone, u) /\ Wall(s.zone, u) < m + DayLength
  <2> HIDE DEF m, u
  <2> QED
    BY <1>4, <1>5
<1>7. LocalDay(s.zone, t) = fw.day /\ LocalDay(s.zone, u) = fw.day
  BY <1>2, <1>4, <1>6, DayIsReadings
<1>8. /\ Wall(s.zone, t) = m + TimeOfDay(s.zone, t)
      /\ Wall(s.zone, u) = m + TimeOfDay(s.zone, u)
      /\ TimeOfDay(s.zone, t) \in Int /\ TimeOfDay(s.zone, u) \in Int
  <2>1. /\ Wall(s.zone, t) = Midnight(LocalDay(s.zone, t)) + TimeOfDay(s.zone, t)
        /\ Wall(s.zone, u) = Midnight(LocalDay(s.zone, u)) + TimeOfDay(s.zone, u)
    BY <1>2, <1>4, DayIsReadings
  <2>2. TimeOfDay(s.zone, t) \in 0..(DayLength - 1) /\ TimeOfDay(s.zone, u) \in 0..(DayLength - 1)
    BY <1>2, <1>4, ZoneFacts
  <2>3. TimeOfDay(s.zone, t) \in Int /\ TimeOfDay(s.zone, u) \in Int
    BY <2>2
  <2> QED
    BY <1>7, <2>1, <2>3
<1>9. TimeOfDay(s.zone, t) >= s.rules.open /\ TimeOfDay(s.zone, u) <= s.rules.close
  <2> HIDE DEF m, u
  <2> QED
    BY <1>4, <1>5, <1>8
<1>10. fw.day \in s.rules.days
  <2>1. LocalDay(s.zone, DayStart(s, fw) + DayLength \div 2) = fw.day
    BY <1>4, NamedDay DEF DayStart
  <2> QED
    BY <1>2, <2>1 DEF IsOpen
<1> QED
  BY <1>7, <1>9, <1>10 DEF WithinHours, PickAt

(* The day a reply asks the bookings of spans its hours. *)
LEMMA HoursInDay ==
  ASSUME NEW s, ZoneOK(s), RulesOK(s), NEW fw \in ReplyType, NoonIsOfDay(s.zone),
         HoursSteady(s, fw.day), MidnightsShown(s, fw.day)
  PROVE  /\ DayEnd(s, fw) \in Int
         /\ DayStart(s, fw) <= AtTime(s.zone, DayStart(s, fw), s.rules.open)
         /\ AtTime(s.zone, DayStart(s, fw), s.rules.close) <= DayEnd(s, fw)
<1> DEFINE from == DayStart(s, fw)
           next == DayEnd(s, fw)
           m == Midnight(fw.day)
           opens  == AtTime(s.zone, from, s.rules.open)
           closes == AtTime(s.zone, from, s.rules.close)
<1>1. /\ s.zone \in ZoneType /\ from \in Int /\ opens \in Int /\ closes \in Int
      /\ s.rules.open \in Int /\ s.rules.close \in Int
      /\ 0 <= s.rules.open /\ s.rules.close < DayLength
  BY BookableFacts DEF ZoneOK, RulesOK, RulesType
<1>2. fw.day \in Int
  BY ComposerAssumption DEF ReplyType
<1>3. m \in Int /\ Midnight(fw.day + 1) \in Int /\ Midnight(fw.day + 1) = m + DayLength /\ DayLength \in Int
  BY <1>2, MidnightFacts, DayAssumption
<1>4. Wall(s.zone, from) = m /\ LocalDay(s.zone, from) = fw.day
  BY <1>2, NamedDay DEF DayStart, MidnightsShown
<1>5. next \in Int /\ Wall(s.zone, next) = m + DayLength
  BY <1>1, <1>3, <1>4, InstantShows DEF DayEnd, AddLocalDays, MidnightsShown
<1>6. /\ Wall(s.zone, opens) = m + s.rules.open
      /\ opens <= from <=> m + s.rules.open <= Wall(s.zone, from)
      /\ next < closes <=> Wall(s.zone, next) < m + s.rules.close
  BY <1>1, <1>5, HoursOfDay
<1>7. closes <= next
  <2> HIDE DEF m, next, closes
  <2> QED
    BY <1>1, <1>3, <1>5, <1>6
<1>8. from <= opens
  <2>1. CASE s.rules.open = 0
    <3>1. Wall(s.zone, opens) = Wall(s.zone, from)
      <4> HIDE DEF m, opens, from
      <4> QED
        BY <1>1, <1>3, <1>4, <1>6, <2>1
    <3>2. ~Skipped(s.zone, Wall(s.zone, from)) /\ ~Repeated(s.zone, Wall(s.zone, from))
      <4>1. m + s.rules.open = m
        <5> HIDE DEF m
        <5> QED
          BY <1>3, <2>1
      <4>2. ~Skipped(s.zone, m + s.rules.open) /\ ~Repeated(s.zone, m + s.rules.open)
        BY DEF HoursSteady
      <4> QED
        BY <1>4, <4>1, <4>2
    <3>3. Wall(s.zone, from) \in Int
      BY <1>1, ZoneFacts
    <3>4. opens < from <=> Wall(s.zone, opens) < Wall(s.zone, from)
      BY <1>1, <3>2, ShownOnce
    <3> HIDE DEF m, opens, from
    <3> QED
      BY <1>1, <3>1, <3>3, <3>4
  <2>2. CASE s.rules.open # 0
    <3> HIDE DEF m, opens, from
    <3> QED
      BY <1>1, <1>3, <1>4, <1>6, <2>2
  <2> QED
    BY <2>1, <2>2
<1> QED
  BY <1>5, <1>7, <1>8

(* What is offered for the room the API would have accepted. *)
LEMMA OptionAccepted ==
  ASSUME NEW s, ZoneOK(s), RulesOK(s), NEW f \in FormType, NEW t \in StartOptions(s, f), ~f.online,
         s.rules.min <= f.duration, f.duration <= s.rules.max,
         NoonIsOfDay(s.zone), HoursSteady(s, f.fw.day), MidnightsShown(s, f.fw.day)
  PROVE  CreateAccepted(s, PickAt(f, t), FALSE, f.fw.now, f.fw.table \ {f.own})
<1> DEFINE fw == f.fw
           u == t + f.duration
           pick == PickAt(f, t)
           opens  == AtTime(s.zone, DayStart(s, fw), s.rules.open)
           closes == AtTime(s.zone, DayStart(s, fw), s.rules.close)
<1>1. PICK w \in Windows(s, f) : w.start <= t /\ u <= w.end
  BY OptionFacts
<1>2. /\ fw \in ReplyType /\ fw.now \in Int
      /\ t \in Int /\ f.duration \in Int
      /\ w.start \in Int /\ w.end \in Int
      /\ Bookable(s, fw).start <= w.start /\ w.end <= Bookable(s, fw).end
      /\ \A b \in Busy(s, fw, f.own) : b.end <= w.start \/ w.end <= b.start
  BY OptionFacts, FormFields, WindowFacts DEF ReplyType
<1>3. /\ s.rules.min \in Int /\ s.rules.max \in Int /\ s.rules.buffer \in Int /\ s.rules.minAdvance \in Int
      /\ 0 < s.rules.min /\ s.rules.buffer >= 0
  BY DEF RulesOK, RulesType
<1>4. /\ Bookable(s, fw).start \in Int /\ Bookable(s, fw).end \in Int
      /\ DayStart(s, fw) \in Int /\ opens \in Int /\ closes \in Int
      /\ opens <= Bookable(s, fw).start /\ Bookable(s, fw).end <= closes
      /\ fw.now + s.rules.minAdvance <= Bookable(s, fw).start
      /\ s.rules.overAdvanceApproval \/ Bookable(s, fw).end <= HorizonEnd(fw.now, s.rules)
  BY <1>2, BookableFacts
<1>5. pick.start = t /\ pick.end = u /\ Length(pick) = f.duration /\ t < u /\ u \in Int
  <2>1. pick.start = t /\ pick.end = u
    BY DEF PickAt
  <2>2. u - t = f.duration /\ t < u /\ u \in Int
    BY <1>2, <1>3
  <2> QED
    BY <2>1, <2>2 DEF Length
<1>6. WithinHours(s, pick, s.rules)
  BY OptionInHours
<1>7. ValidSlot(s, pick, s.rules, fw.now)
  <2>1. t - fw.now >= s.rules.minAdvance
    BY <1>1, <1>2, <1>3, <1>4
  <2>2. s.rules.overAdvanceApproval \/ t <= HorizonEnd(fw.now, s.rules)
    <3>1. HorizonEnd(fw.now, s.rules) \in Int
      BY <1>2, DayAssumption DEF HorizonEnd, RulesOK, RulesType
    <3> QED
      BY <1>1, <1>2, <1>4, <1>5, <3>1
  <2> HIDE DEF pick
  <2> QED
    BY <1>5, <1>6, <2>1, <2>2 DEF ValidSlot
<1>8. ~HasConflict(s, pick, fw.table \ {f.own})
  <2> SUFFICES ASSUME NEW row \in fw.table \ {f.own},
                      row.start < pick.end + s.rules.buffer,
                      row.end > pick.start - s.rules.buffer
               PROVE  FALSE
    BY DEF HasConflict
  <2>1. row.start \in Int /\ row.end \in Int
    BY <1>2 DEF ReplyType, SlotType
  <2>2. DayEnd(s, fw) \in Int /\ DayStart(s, fw) <= opens /\ closes <= DayEnd(s, fw)
    BY <1>2, HoursInDay
  <2>3. row.start < DayEnd(s, fw) + s.rules.buffer /\ row.end > DayStart(s, fw) - s.rules.buffer
    <3> HIDE DEF pick, u, opens, closes
    <3> QED
      BY <1>1, <1>2, <1>3, <1>4, <1>5, <2>1, <2>2
  <2>4. [start |-> row.start - s.rules.buffer, end |-> row.end + s.rules.buffer] \in Busy(s, fw, f.own)
    BY <2>3 DEF Busy
  <2>5. row.end + s.rules.buffer <= w.start \/ w.end <= row.start - s.rules.buffer
    BY <1>2, <2>4
  <2> HIDE DEF pick, u
  <2> QED
    BY <1>1, <1>2, <1>3, <1>5, <2>1, <2>5
<1> QED
  BY <1>7, <1>8 DEF CreateAccepted

(* The slot being edited is offered, if the API would accept it anew: the   *)
(* window around it reaches from the last busy stretch before it to the     *)
(* first one after.                                                         *)
LEMMA OwnOffered ==
  ASSUME NEW s, ZoneOK(s), RulesOK(s), NEW f \in FormType, f.own # None, f.fw # None, ~f.online,
         f.duration = Length(f.own), LocalDay(s.zone, f.own.start) = f.fw.day,
         CreateAccepted(s, f.own, FALSE, f.fw.now, f.fw.table \ {f.own}),
         s.rules.overAdvanceApproval \/ f.own.end <= HorizonEnd(f.fw.now, s.rules),
         NoonIsOfDay(s.zone), HoursSteady(s, f.fw.day)
  PROVE  f.own.start \in StartOptions(s, f)
<1> DEFINE fw == f.fw
           own == f.own
           all == Bookable(s, fw)
           busy == Busy(s, fw, own)
           m == Midnight(fw.day)
           opens  == AtTime(s.zone, DayStart(s, fw), s.rules.open)
           closes == AtTime(s.zone, DayStart(s, fw), s.rules.close)
<1>1. /\ fw \in ReplyType /\ own \in SlotType
      /\ own.start \in Int /\ own.end \in Int /\ fw.now \in Int /\ fw.day \in Int
  BY FormFields, ComposerAssumption DEF SlotType, ReplyType
<1>2. /\ s.rules.min \in Int /\ s.rules.buffer \in Int /\ s.rules.minAdvance \in Int
      /\ s.rules.open \in Int /\ s.rules.close \in Int /\ s.zone \in ZoneType
  BY DEF ZoneOK, RulesOK, RulesType
<1>3. ValidSlot(s, own, s.rules, fw.now) /\ ~HasConflict(s, own, fw.table \ {own})
  BY DEF CreateAccepted
<1>4. /\ own.start < own.end /\ own.end - own.start >= s.rules.min
      /\ fw.now + s.rules.minAdvance <= own.start
  <2>1. /\ own.end > own.start /\ own.end - own.start >= s.rules.min
        /\ own.start - fw.now >= s.rules.minAdvance
    BY <1>3 DEF ValidSlot, Length
  <2> HIDE DEF own, fw
  <2> QED
    BY <1>1, <1>2, <2>1
<1>5. opens \in Int /\ closes \in Int /\ all.start \in Int /\ all.end \in Int
  BY <1>1, BookableFacts
<1>6. opens <= own.start /\ own.end <= closes
  <2>1. /\ LocalDay(s.zone, own.end) = fw.day
        /\ TimeOfDay(s.zone, own.start) >= s.rules.open
        /\ TimeOfDay(s.zone, own.end) <= s.rules.close
    BY <1>3 DEF ValidSlot, WithinHours
  <2>2. /\ Wall(s.zone, own.start) = m + TimeOfDay(s.zone, own.start)
        /\ Wall(s.zone, own.end) = m + TimeOfDay(s.zone, own.end)
    BY <1>1, <1>2, <2>1, DayIsReadings
  <2>3. m \in Int /\ TimeOfDay(s.zone, own.start) \in Int /\ TimeOfDay(s.zone, own.end) \in Int
    <3>1. /\ TimeOfDay(s.zone, own.start) \in 0..(DayLength - 1)
          /\ TimeOfDay(s.zone, own.end) \in 0..(DayLength - 1)
      BY <1>1, <1>2, ZoneFacts
    <3>2. TimeOfDay(s.zone, own.start) \in Int /\ TimeOfDay(s.zone, own.end) \in Int
      BY <3>1
    <3>3. m \in Int
      BY <1>1, MidnightFacts
    <3> QED
      BY <3>2, <3>3
  <2>4. /\ m + s.rules.open <= Wall(s.zone, own.start)
        /\ Wall(s.zone, own.end) <= m + s.rules.close
        /\ Wall(s.zone, own.end) \in Int /\ m + s.rules.close \in Int
    <3> HIDE DEF m, own
    <3> QED
      BY <1>2, <2>1, <2>2, <2>3
  <2>5. /\ opens <= own.start <=> m + s.rules.open <= Wall(s.zone, own.start)
        /\ Wall(s.zone, closes) = m + s.rules.close
    BY <1>1, HoursOfDay
  <2>6. ~Skipped(s.zone, Wall(s.zone, closes)) /\ ~Repeated(s.zone, Wall(s.zone, closes))
    BY <2>5 DEF HoursSteady
  <2>7. closes < own.end <=> Wall(s.zone, closes) < Wall(s.zone, own.end)
    <3> HIDE DEF closes, own
    <3> QED
      BY <1>1, <1>2, <1>5, <2>6, ShownOnceAfter DEF own
  <2> HIDE DEF m, own, opens, closes
  <2> QED
    BY <1>1, <1>5, <2>4, <2>5, <2>7
<1>7. all.start <= own.start /\ own.end <= all.end
  <2>1. /\ all.start = Later(opens, fw.now + s.rules.minAdvance)
        /\ all.end = IF s.rules.overAdvanceApproval THEN closes
                     ELSE Earlier(closes, HorizonEnd(fw.now, s.rules))
    BY DEF Bookable
  <2>2. s.rules.overAdvanceApproval \/ own.end <= HorizonEnd(fw.now, s.rules)
    OBVIOUS
  <2> HIDE DEF all, own, fw, opens, closes
  <2> QED
    BY <1>4, <1>6, <2>1, <2>2 DEF Later, Earlier
<1>8. ASSUME NEW b \in busy
      PROVE  /\ b.start \in Int /\ b.end \in Int
             /\ b.end <= own.start \/ own.end <= b.start
  <2>1. PICK row \in fw.table \ {own} :
          b = [start |-> row.start - s.rules.buffer, end |-> row.end + s.rules.buffer]
    BY <1>8 DEF Busy
  <2>2. row.start \in Int /\ row.end \in Int
    BY <1>1 DEF ReplyType, SlotType
  <2>3. ~(row.start < own.end + s.rules.buffer /\ row.end > own.start - s.rules.buffer)
    BY <1>3, <2>1 DEF HasConflict
  <2> HIDE DEF own, fw
  <2> QED
    BY <1>1, <1>2, <2>1, <2>2, <2>3
<1> DEFINE befores == { x \in {all.start} \cup { b.end : b \in busy } : x <= own.start }
           afters  == { x \in {all.end} \cup { b.start : b \in busy } : own.end <= x }
<1>9. PICK from \in befores : \A x \in befores : x <= from
  <2>1. befores # {} /\ \A x \in befores : x \in Int /\ x <= own.start
    BY <1>5, <1>7, <1>8
  <2> HIDE DEF befores
  <2> QED
    BY <1>1, <2>1, GreatestInteger
<1>10. PICK to \in afters : \A x \in afters : to <= x
  <2>1. afters # {} /\ \A x \in afters : x \in Int /\ x >= own.end
    BY <1>1, <1>5, <1>7, <1>8
  <2> HIDE DEF afters
  <2> QED
    BY <1>1, <2>1, LeastInteger
<1>11. /\ from \in Int /\ to \in Int
       /\ from <= own.start /\ own.end <= to
       /\ all.start <= from /\ to <= all.end
       /\ from \in {all.start} \cup { b.end : b \in busy }
       /\ to \in {all.end} \cup { b.start : b \in busy }
  <2> HIDE DEF all, busy, own
  <2> QED
    BY <1>5, <1>7, <1>8, <1>9, <1>10
<1>12. \A b \in busy : b.end <= from \/ to <= b.start
  <2> HIDE DEF all, busy, own
  <2> QED
    BY <1>8, <1>9, <1>10
<1>13. IsOpen(s, fw)
  <2>1. LocalDay(s.zone, DayStart(s, fw) + DayLength \div 2) = fw.day
    BY <1>1, NamedDay DEF DayStart
  <2>2. fw.day \in s.rules.days
    BY <1>3 DEF ValidSlot, WithinHours
  <2> QED
    BY <2>1, <2>2 DEF IsOpen
<1> DEFINE w == [start |-> from, end |-> to]
<1>14. Length(w) >= s.rules.min
  <2>1. to - from >= s.rules.min
    <3> HIDE DEF own
    <3> QED
      BY <1>1, <1>2, <1>4, <1>11
  <2> QED
    BY <2>1 DEF Length
<1>15. w \in Windows(s, f)
  <2>1. w \in FreeWindows(s, fw, own)
    <3> HIDE DEF fw, own
    <3> QED
      BY <1>11, <1>12, <1>13, <1>14 DEF FreeWindows
  <2> QED
    BY <2>1 DEF Windows
<1>16. Fits(f, own.start, w)
  <2>1. /\ from <= own.start /\ own.start < to
        /\ own.start + (own.end - own.start) <= to
    <3> HIDE DEF own
    <3> QED
      BY <1>1, <1>4, <1>11
  <2> QED
    BY <2>1 DEF Fits, Length
<1> HIDE DEF w
<1> QED
  BY <1>15, <1>16 DEF StartOptions

-----------------------------------------------------------------------------
(* Where a pick comes from *)

(* The slot being edited, before the first reply. *)
OwnKept(s, f) ==
  /\ f.loading /\ f.fw = None
  /\ f.own # None /\ f.pick = f.own
  /\ LocalDay(s.zone, f.own.start) = f.date

(* What the reply shown offers, with the duration. *)
Offered(s, f) ==
  /\ ~f.loading
  /\ f.pick.start \in StartOptions(s, f)
  /\ f.pick = PickAt(f, f.pick.start)

PickOK(s, f) ==
  /\ f.fw # None => s.rules.min <= f.duration /\ f.duration <= s.rules.max
  /\ f.fw # None /\ f.own = None => f.preset = None
  /\ f.pick # None => OwnKept(s, f) \/ Offered(s, f)

LEMMA OptionsSame ==
  ASSUME NEW s, NEW f, NEW g, g.own = f.own, g.fw = f.fw, g.online = f.online,
         g.duration = f.duration
  PROVE  StartOptions(s, g) = StartOptions(s, f)
<1>1. Windows(s, g) = Windows(s, f)
  BY DEF Windows
<1>2. \A t : OnGrid(s, g, t) <=> OnGrid(s, f, t)
  BY DEF OnGrid
<1>3. \A t, w : Fits(g, t, w) <=> Fits(f, t, w)
  BY DEF Fits
<1> QED
  BY <1>1, <1>2, <1>3 DEF StartOptions

LEMMA PickAtType ==
  ASSUME NEW f \in FormType, NEW t \in Int
  PROVE  /\ PickAt(f, t) \in SlotType /\ PickAt(f, t) # None
         /\ PickAt(f, t).start = t
  BY FormFields, NoneAssumption DEF PickAt, SlotType

LEMMA KeepPickOK ==
  ASSUME NEW s, ZoneOK(s), RulesOK(s), NEW f \in FormType
  PROVE  LET g == KeepPick(s, f)
         IN  /\ g \in FormType
             /\ g = [f EXCEPT !.pick = g.pick]
             /\ f.loading => g = f
             /\ ~f.loading /\ g.pick # None => Offered(s, g)
<1> DEFINE g == KeepPick(s, f)
<1>1. CASE f.loading \/ f.pick = None
  <2>1. g = f
    BY <1>1 DEF KeepPick
  <2> QED
    BY <1>1, <2>1 DEF FormType
<1>2. CASE ~f.loading /\ f.pick # None /\ f.pick.start \in StartOptions(s, f)
  <2> DEFINE p == PickAt(f, f.pick.start)
  <2>1. g = [f EXCEPT !.pick = p]
    BY <1>2 DEF KeepPick
  <2>2. p \in SlotType /\ p.start = f.pick.start
    BY <1>2, OptionFacts, PickAtType
  <2> HIDE DEF p
  <2>3. /\ g \in FormType /\ g.pick = p /\ g.loading = f.loading
        /\ g.own = f.own /\ g.fw = f.fw /\ g.online = f.online /\ g.duration = f.duration
    BY <2>1, <2>2 DEF FormType
  <2>4. StartOptions(s, g) = StartOptions(s, f)
    BY <2>3, OptionsSame
  <2>5. p = PickAt(g, p.start)
    BY <2>2, <2>3 DEF p, PickAt
  <2> HIDE DEF g
  <2> QED
    BY <1>2, <2>1, <2>2, <2>3, <2>4, <2>5 DEF g, Offered
<1>3. CASE ~f.loading /\ f.pick # None /\ f.pick.start \notin StartOptions(s, f)
  <2>1. g = [f EXCEPT !.pick = None]
    BY <1>3 DEF KeepPick
  <2> QED
    BY <1>3, <2>1 DEF FormType
<1> QED
  BY <1>1, <1>2, <1>3

(* The earliest start at the time the form was opened with. *)
LEMMA EarliestHit ==
  ASSUME NEW s, ZoneOK(s), RulesOK(s), NEW f \in FormType,
         NEW hits, hits \subseteq StartOptions(s, f), hits # {}
  PROVE  (CHOOSE t \in hits : \A u \in hits : t <= u) \in hits
<1>1. \A t \in hits : t \in Int /\ t >= Bookable(s, f.fw).start
  <2> SUFFICES ASSUME NEW t \in hits
               PROVE  t \in Int /\ t >= Bookable(s, f.fw).start
    OBVIOUS
  <2>1. PICK w \in Windows(s, f) : t \in Int /\ w.start <= t
    BY OptionFacts
  <2>2. f.fw \in ReplyType /\ w.start \in Int /\ Bookable(s, f.fw).start <= w.start
    BY WindowFacts
  <2>3. Bookable(s, f.fw).start \in Int
    BY <2>2, BookableFacts
  <2> QED
    BY <2>1, <2>2, <2>3
<1>2. Bookable(s, f.fw).start \in Int
  <2>1. PICK t \in hits : TRUE
    OBVIOUS
  <2>2. PICK w \in Windows(s, f) : TRUE
    BY <2>1, OptionFacts
  <2>3. f.fw \in ReplyType
    BY <2>2, WindowFacts
  <2> QED
    BY <2>3, BookableFacts
<1>3. \E t \in hits : \A u \in hits : t <= u
  <2> DEFINE b == Bookable(s, f.fw).start
  <2>1. b \in Int /\ \A t \in hits : t \in Int /\ t >= b
    BY <1>1, <1>2
  <2> HIDE DEF b
  <2> QED
    BY <2>1, LeastInteger
<1> QED
  BY <1>3, Zenon

(* However a form is changed, the effects leave a pick that is offered. *)
LEMMA SettledOK ==
  ASSUME NEW s, ZoneOK(s), RulesOK(s), NEW f \in FormType,
         f.fw # None => s.rules.min <= f.duration /\ f.duration <= s.rules.max,
         f.loading => /\ f.fw # None /\ f.own = None => f.preset = None
                      /\ f.pick # None => OwnKept(s, f)
  PROVE  LET g == Settled(s, f)
         IN  /\ g \in FormType
             /\ PickOK(s, g)
             /\ g = [f EXCEPT !.pick = g.pick, !.preset = g.preset]
<1> DEFINE k == KeepPick(s, f)
           g == Settled(s, f)
           hits == { t \in StartOptions(s, k) : TimeOfDay(s.zone, t) = k.preset }
<1>1. /\ k \in FormType
      /\ k = [f EXCEPT !.pick = k.pick]
      /\ f.loading => k = f
      /\ ~f.loading /\ k.pick # None => Offered(s, k)
  BY KeepPickOK
<1> HIDE DEF k
<1>2. /\ k.own = f.own /\ k.fw = f.fw /\ k.online = f.online /\ k.duration = f.duration
      /\ k.loading = f.loading /\ k.preset = f.preset /\ k.date = f.date
  BY <1>1 DEF FormType
<1>3. k.pick # None => OwnKept(s, k) \/ Offered(s, k)
  BY <1>1, <1>2
<1>4. CASE k.own # None \/ k.preset = None \/ k.fw = None
  <2>1. g = k
    BY <1>4 DEF Settled, ApplyPreset, k
  <2>2. g = [f EXCEPT !.pick = g.pick, !.preset = g.preset]
    BY <1>1, <1>2, <2>1 DEF FormType
  <2> HIDE DEF g
  <2> QED
    BY <1>1, <1>2, <1>3, <1>4, <2>1, <2>2 DEF g, PickOK
<1>5. CASE k.own = None /\ k.preset # None /\ k.fw # None
  <2> DEFINE p == IF hits = {} THEN k.pick
                  ELSE PickAt(k, CHOOSE t \in hits : \A u \in hits : t <= u)
  <2>1. g = [k EXCEPT !.preset = None, !.pick = p]
    BY <1>5 DEF Settled, ApplyPreset, k
  <2>2. ~k.loading
    BY <1>2, <1>5
  <2>3. p # None => /\ p \in SlotType
                    /\ p.start \in StartOptions(s, k) /\ p = PickAt(k, p.start)
    <3>1. CASE hits = {}
      <4>1. p = k.pick
        BY <3>1
      <4> HIDE DEF p
      <4> QED
        BY <1>1, <1>2, <2>2, <4>1, FormFields DEF Offered
    <3>2. CASE hits # {}
      <4> DEFINE t == CHOOSE t \in hits : \A u \in hits : t <= u
      <4>1. t \in StartOptions(s, k)
        <5>1. hits \subseteq StartOptions(s, k)
          OBVIOUS
        <5>2. t \in hits
          <6> HIDE DEF hits
          <6> QED
            BY <1>1, <3>2, <5>1, EarliestHit
        <5> QED
          BY <5>1, <5>2
      <4>2. t \in Int
        BY <1>1, <4>1, OptionFacts
      <4>3. p = PickAt(k, t)
        BY <3>2
      <4> HIDE DEF t, p
      <4> QED
        BY <1>1, <4>1, <4>2, <4>3, PickAtType
    <3> QED
      BY <3>1, <3>2
  <2>4. p \in SlotType \cup {None}
    BY <2>3
  <2> HIDE DEF p, hits, g
  <2>5. /\ g \in FormType /\ g.pick = p /\ g.preset = None /\ g.loading = k.loading
        /\ g.own = k.own /\ g.fw = k.fw /\ g.online = k.online /\ g.duration = k.duration
        /\ g = [f EXCEPT !.pick = g.pick, !.preset = g.preset]
    BY <1>1, <2>1, <2>4 DEF FormType
  <2>6. StartOptions(s, g) = StartOptions(s, k)
    BY <2>5, OptionsSame
  <2>7. \A t : PickAt(g, t) = PickAt(k, t)
    BY <2>5 DEF PickAt
  <2>8. p # None => Offered(s, g)
    BY <2>2, <2>3, <2>5, <2>6, <2>7 DEF Offered
  <2> QED
    BY <1>2, <1>5, <2>5, <2>8 DEF g, PickOK
<1> QED
  BY <1>4, <1>5
(* The effects leave the booking and the user's mark alone. *)
LEMMA SettledTouched ==
  ASSUME NEW s, ZoneOK(s), RulesOK(s), NEW f \in FormType
  PROVE  /\ Settled(s, f).own = f.own
         /\ Settled(s, f).touched = f.touched
<1> DEFINE k == KeepPick(s, f)
<1>1. k \in FormType /\ k = [f EXCEPT !.pick = k.pick]
  BY KeepPickOK
<1> HIDE DEF k
<1>2. k.own = f.own /\ k.touched = f.touched
  BY <1>1 DEF FormType
<1> QED
  BY <1>1, <1>2 DEF Settled, ApplyPreset, k, FormType

-----------------------------------------------------------------------------
(* The invariant *)

AskType == [day : Days, reply : ReplyType \cup {None}]

(* What a request under way may bring to the form. *)
Pending(f) ==
  { q \in AskType :
      /\ q.reply # None => /\ q.reply.day = q.day
                           /\ f.own # None => f.own \in q.reply.table
      /\ ~f.overtaken => q.day = f.date }

FormOK(s, f, rows, reqs) ==
  /\ f \in FormType
  /\ PickOK(s, f)
  /\ f.own # None => /\ f.own \in rows
                     /\ f.fw # None => f.own \in f.fw.table
  /\ ~f.overtaken /\ f.fw # None /\ ~f.loading => f.fw.day = f.date
  /\ reqs \in Seq(Pending(f))

RowsOK(rows) == rows \subseteq SlotType /\ \A row \in rows : row.start < row.end

Inv ==
  /\ site \in SiteType
  /\ now \in Int
  /\ RowsOK(table)
  /\ form \in {None, Gone} => asked = <<>>
  /\ form \notin {None, Gone} => FormOK(site, form, table, asked)

LEMMA SeqOfMore ==
  ASSUME NEW S, NEW T, S \subseteq T, NEW seq \in Seq(S)
  PROVE  seq \in Seq(T)
  OBVIOUS

LEMMA WithoutType ==
  ASSUME NEW S, NEW seq \in Seq(S), NEW i \in DOMAIN seq
  PROVE  Without(seq, i) \in Seq(S)
<1>1. i \in Int /\ 1 <= i /\ i <= Len(seq) /\ Len(seq) \in Nat
  OBVIOUS
<1>2. \A k \in 1..Len(seq) : seq[k] \in S
  BY ElementOfSeq
<1>3. SubSeq(seq, 1, i - 1) \in Seq(S)
  <2>1. i - 1 \in Int /\ \A k \in 1..(i - 1) : seq[k] \in S
    BY <1>1, <1>2
  <2> QED
    BY <2>1, SubSeqProperties
<1>4. SubSeq(seq, i + 1, Len(seq)) \in Seq(S)
  <2>1. i + 1 \in Int /\ Len(seq) \in Int /\ \A k \in (i + 1)..Len(seq) : seq[k] \in S
    BY <1>1, <1>2
  <2> QED
    BY <2>1, SubSeqProperties
<1> QED
  BY <1>3, <1>4, ConcatProperties DEF Without

LEMMA InvType ==
  ASSUME Inv
  PROVE  TypeOK
<1>1. CASE form \in {None, Gone}
  <2>1. asked \in Seq(AskType)
    BY <1>1, EmptySeq DEF Inv
  <2> QED
    BY <1>1, <2>1 DEF Inv, RowsOK, TypeOK, AskType
<1>2. CASE form \notin {None, Gone}
  <2>1. form \in FormType /\ asked \in Seq(Pending(form))
    BY <1>2 DEF Inv, FormOK
  <2>2. Pending(form) \subseteq AskType
    BY DEF Pending
  <2>3. asked \in Seq(AskType)
    BY <2>1, <2>2, SeqOfMore
  <2> QED
    BY <2>1, <2>3 DEF Inv, RowsOK, TypeOK, AskType
<1> QED
  BY <1>1, <1>2

LEMMA SettledFormOK ==
  ASSUME NEW s, ZoneOK(s), RulesOK(s), NEW f \in FormType, NEW rows, NEW reqs,
         f.fw # None => s.rules.min <= f.duration /\ f.duration <= s.rules.max,
         f.loading => /\ f.fw # None /\ f.own = None => f.preset = None
                      /\ f.pick # None => OwnKept(s, f),
         f.own # None => /\ f.own \in rows
                         /\ f.fw # None => f.own \in f.fw.table,
         ~f.overtaken /\ f.fw # None /\ ~f.loading => f.fw.day = f.date,
         reqs \in Seq(Pending(f))
  PROVE  FormOK(s, Settled(s, f), rows, reqs)
<1> DEFINE g == Settled(s, f)
<1>1. /\ g \in FormType /\ PickOK(s, g)
      /\ g = [f EXCEPT !.pick = g.pick, !.preset = g.preset]
  BY SettledOK
<1> HIDE DEF g
<1>2. /\ g.own = f.own /\ g.fw = f.fw /\ g.overtaken = f.overtaken
      /\ g.loading = f.loading /\ g.date = f.date
  BY <1>1 DEF FormType
<1>3. Pending(g) = Pending(f)
  BY <1>2 DEF Pending
<1>4. FormOK(s, g, rows, reqs)
  BY <1>1, <1>2, <1>3 DEF FormOK
<1> QED
  BY <1>4 DEF g

LEMMA AcceptedIsSlot ==
  ASSUME NEW s, NEW slot, NEW t, NEW rows, CreateAccepted(s, slot, FALSE, t, rows)
  PROVE  slot.end > slot.start
  BY DEF CreateAccepted, ValidSlot

LEMMA ClampedIn ==
  ASSUME NEW s, RulesOK(s), NEW d \in Int
  PROVE  /\ Clamped(s.rules, d) \in Int
         /\ s.rules.min <= Clamped(s.rules, d) /\ Clamped(s.rules, d) <= s.rules.max
  BY DEF Clamped, Later, Earlier, RulesOK, RulesType

LEMMA LimitsKept ==
  ASSUME NEW s, RulesOK(s), NEW f, NEW d \in Int
  PROVE  LET n == Clamped(Limits(s, f), d)
         IN  n \in Int /\ (f.fw # None => s.rules.min <= n /\ n <= s.rules.max)
<1>1. CASE f.fw = None
  <2>1. Limits(s, f).min \in Int /\ Limits(s, f).max \in Int
    BY <1>1, ComposerAssumption DEF Limits
  <2> QED
    BY <1>1, <2>1 DEF Clamped, Later, Earlier
<1>2. CASE f.fw # None
  <2>1. Limits(s, f).min = s.rules.min /\ Limits(s, f).max = s.rules.max
    BY <1>2 DEF Limits
  <2> QED
    BY <1>2, <2>1 DEF Clamped, Later, Earlier, RulesOK, RulesType
<1> QED
  BY <1>1, <1>2

LEMMA InvInit == Init => Inv
<1> SUFFICES ASSUME Init PROVE Inv
  OBVIOUS
<1> QED
  BY ComposerAssumption DEF Init, Inv, RowsOK

LEMMA OpenedForm ==
  ASSUME Inv, ~(form \in {None, Gone})
  PROVE  /\ ZoneOK(site) /\ RulesOK(site)
         /\ form \in FormType /\ PickOK(site, form)
         /\ FormOK(site, form, table, asked)
  BY InvType, ConstantsOK DEF Inv, FormOK
-----------------------------------------------------------------------------
(* Every step keeps the invariant *)

LEMMA NewFormOK ==
  ASSUME NEW s, NEW own \in SlotType \cup {None}, NEW day \in Days, NEW d \in Int,
         NEW preset \in Starts \cup {None}, NEW rows,
         own # None => own \in rows /\ LocalDay(s.zone, own.start) = day
  PROVE  FormOK(s, NewForm(own, day, d, preset), rows, <<Ask(day)>>)
<1> DEFINE f == NewForm(own, day, d, preset)
<1>1. /\ f \in FormType /\ f.own = own /\ f.pick = own /\ f.fw = None /\ f.loading
      /\ f.date = day
  BY ComposerAssumption DEF FormType, NewForm
<1> HIDE DEF f
<1>2. PickOK(s, f)
  BY <1>1 DEF PickOK, OwnKept
<1>3. Ask(day) \in Pending(f)
  BY <1>1 DEF Ask, Pending, AskType
<1>4. <<Ask(day)>> \in Seq(Pending(f))
  BY <1>3
<1>5. FormOK(s, f, rows, <<Ask(day)>>)
  BY <1>1, <1>2, <1>4 DEF FormOK
<1> QED
  BY <1>5 DEF f

LEMMA NotAForm ==
  ASSUME NEW f \in FormType
  PROVE  f \notin {None, Gone}
  BY NoneAssumption

LEMMA OpenCreateStep ==
  ASSUME Inv, NEW day \in Days, NEW preset \in Starts \cup {None}, OpenCreate(day, preset)
  PROVE  Inv'
<1>1. FormOK(site, form', table, asked')
  BY NewFormOK, ComposerAssumption DEF OpenCreate
<1>2. form' \notin {None, Gone}
  BY <1>1, NotAForm DEF FormOK
<1> QED
  BY <1>1, <1>2 DEF Inv, OpenCreate

LEMMA OpenEditStep ==
  ASSUME Inv, NEW own \in table, OpenEdit(own)
  PROVE  Inv'
<1>1. own \in SlotType /\ Length(own) \in Int
  BY DEF Inv, RowsOK, SlotType, Length
<1>2. FormOK(site, form', table, asked')
  BY <1>1, NewFormOK DEF OpenEdit
<1>3. form' \notin {None, Gone}
  BY <1>2, NotAForm DEF FormOK
<1> QED
  BY <1>2, <1>3 DEF Inv, OpenEdit

LEMMA CloseStep == Inv /\ Close => Inv'
  BY DEF Inv, Close

LEMMA ChangeDateStep ==
  ASSUME Inv, NEW day \in Days, ChangeDate(day)
  PROVE  Inv'
<1>1. /\ RulesOK(site) /\ form \in FormType /\ PickOK(site, form)
      /\ FormOK(site, form, table, asked)
  BY OpenedForm DEF ChangeDate, IsOpened
<1> DEFINE f == [form EXCEPT !.date = day, !.loading = TRUE, !.touched = TRUE,
                             !.pick = None, !.overtaken = @ \/ asked # <<>>]
<1>2. form' = f /\ asked' = Append(asked, Ask(day))
  BY DEF ChangeDate
<1>3. /\ f \in FormType /\ f.date = day /\ f.loading /\ f.pick = None
      /\ f.own = form.own /\ f.fw = form.fw /\ f.duration = form.duration
      /\ f.preset = form.preset
      /\ f.overtaken <=> form.overtaken \/ asked # <<>>
  BY <1>1, ComposerAssumption DEF FormType
<1> HIDE DEF f
<1>4. PickOK(site, f)
  BY <1>1, <1>3 DEF PickOK
<1>5. Ask(day) \in Pending(f)
  BY <1>3 DEF Pending, Ask, AskType
<1>6. asked \in Seq(Pending(f))
  <2>1. CASE asked = <<>>
    BY <2>1, EmptySeq
  <2>2. CASE asked # <<>>
    <3>1. Pending(form) \subseteq Pending(f)
      BY <1>3, <2>2 DEF Pending
    <3> QED
      BY <1>1, <3>1, SeqOfMore DEF FormOK
  <2> QED
    BY <2>1, <2>2
<1>7. Append(asked, Ask(day)) \in Seq(Pending(f))
  BY <1>5, <1>6
<1>8. FormOK(site, f, table, Append(asked, Ask(day)))
  BY <1>1, <1>3, <1>4, <1>7 DEF FormOK
<1> QED
  BY <1>2, <1>3, <1>8, NotAForm DEF Inv, ChangeDate

(* No reply is under way to a form that is not there. *)
LEMMA AskedIsOpened ==
  ASSUME Inv, NEW i \in DOMAIN asked
  PROVE  /\ ~(form \in {None, Gone})
         /\ asked \in Seq(Pending(form)) /\ asked[i] \in Pending(form)
<1>1. ~(form \in {None, Gone})
  BY DEF Inv
<1>2. asked \in Seq(Pending(form))
  BY <1>1, OpenedForm DEF FormOK
<1> QED
  BY <1>1, <1>2

LEMMA AnswerStep ==
  ASSUME Inv, NEW i \in DOMAIN asked, Answer(i)
  PROVE  Inv'
<1>1. ~(form \in {None, Gone}) /\ asked \in Seq(Pending(form)) /\ asked[i] \in Pending(form)
  BY AskedIsOpened
<1>2. FormOK(site, form, table, asked)
  BY <1>1, OpenedForm
<1> DEFINE reply == [day |-> asked[i].day, now |-> now, table |-> table]
           q == [asked[i] EXCEPT !.reply = reply]
<1>3. asked[i] \in AskType
  BY <1>1 DEF Pending
<1>4. reply \in ReplyType /\ reply.day = asked[i].day /\ reply.table = table
  BY <1>3 DEF AskType, ReplyType, Inv, RowsOK
<1> HIDE DEF reply
<1>5. q \in AskType /\ q.day = asked[i].day /\ q.reply = reply
  BY <1>3, <1>4 DEF AskType
<1> HIDE DEF q
<1>6. q \in Pending(form)
  BY <1>1, <1>2, <1>4, <1>5 DEF Pending, FormOK
<1>7. asked' = [asked EXCEPT ![i] = q]
  BY DEF Answer, q, reply
<1>8. asked' \in Seq(Pending(form))
  BY <1>1, <1>6, <1>7
<1> QED
  BY <1>1, <1>2, <1>8 DEF Inv, FormOK, Answer

LEMMA DeliverStep ==
  ASSUME Inv, NEW i \in DOMAIN asked, Deliver(i)
  PROVE  Inv'
<1>1. ~(form \in {None, Gone}) /\ asked \in Seq(Pending(form)) /\ asked[i] \in Pending(form)
  BY AskedIsOpened
<1>2. ZoneOK(site) /\ RulesOK(site) /\ form \in FormType /\ FormOK(site, form, table, asked)
  BY <1>1, OpenedForm
<1> DEFINE reply == asked[i].reply
           d == Clamped(site.rules, form.duration)
           f == [form EXCEPT !.fw = reply, !.duration = d, !.loading = FALSE]
<1>3. reply \in ReplyType
  BY <1>1 DEF Pending, AskType, Deliver
<1>4. d \in Int /\ site.rules.min <= d /\ d <= site.rules.max
  BY <1>2, ClampedIn, FormFields
<1> HIDE DEF d
<1>5. /\ form' = Settled(site, f)
      /\ asked' = Without(asked, i)
  BY DEF Deliver, d
<1>6. /\ f \in FormType /\ f.fw = reply /\ f.duration = d /\ ~f.loading
      /\ f.own = form.own /\ f.date = form.date
      /\ f.overtaken = form.overtaken
  BY <1>2, <1>3, <1>4 DEF FormType
<1>7. /\ f.own # None => f.own \in table /\ f.own \in reply.table
      /\ ~f.overtaken => reply.day = f.date
  BY <1>1, <1>2, <1>6, NoneAssumption DEF Pending, FormOK, Deliver
<1> HIDE DEF f
<1>8. Pending(f) = Pending(form)
  BY <1>6 DEF Pending
<1>9. Without(asked, i) \in Seq(Pending(f))
  BY <1>1, <1>8, WithoutType
<1>10. FormOK(site, form', table, asked')
  <2> HIDE DEF reply
  <2> QED
    BY <1>2, <1>4, <1>5, <1>6, <1>7, <1>9, SettledFormOK
<1>11. form' \notin {None, Gone}
  BY <1>10, NotAForm DEF FormOK
<1> QED
  BY <1>10, <1>11 DEF Inv, Deliver

LEMMA AskFailsStep ==
  ASSUME Inv, NEW i \in DOMAIN asked, AskFails(i)
  PROVE  Inv'
<1>1. ~(form \in {None, Gone}) /\ asked \in Seq(Pending(form))
  BY AskedIsOpened
<1>2. ZoneOK(site) /\ RulesOK(site) /\ form \in FormType /\ FormOK(site, form, table, asked)
  BY <1>1, OpenedForm
<1> DEFINE f == [form EXCEPT !.fw = None, !.loading = FALSE]
<1>3. form' = Settled(site, f) /\ asked' = Without(asked, i)
  BY DEF AskFails
<1>4. /\ f \in FormType /\ f.fw = None /\ ~f.loading
      /\ f.own = form.own /\ f.date = form.date /\ f.overtaken = form.overtaken
  BY <1>2 DEF FormType
<1> HIDE DEF f
<1>5. f.own # None => f.own \in table
  BY <1>2, <1>4 DEF FormOK
<1>6. Pending(f) = Pending(form)
  BY <1>4 DEF Pending
<1>7. Without(asked, i) \in Seq(Pending(f))
  BY <1>1, <1>6, WithoutType
<1>8. FormOK(site, form', table, asked')
  BY <1>2, <1>3, <1>4, <1>5, <1>7, SettledFormOK
<1>9. form' \notin {None, Gone}
  BY <1>8, NotAForm DEF FormOK
<1> QED
  BY <1>8, <1>9 DEF Inv, AskFails
LEMMA SetDurationStep ==
  ASSUME Inv, NEW n \in Durations, SetDuration(n)
  PROVE  Inv'
<1>1. ~(form \in {None, Gone})
  BY DEF SetDuration, IsOpened
<1>2. /\ ZoneOK(site) /\ RulesOK(site) /\ form \in FormType /\ PickOK(site, form)
      /\ FormOK(site, form, table, asked)
  BY <1>1, OpenedForm
<1> DEFINE d == Clamped(Limits(site, form), n)
           f == [form EXCEPT !.duration = d, !.touched = TRUE]
<1>3. d \in Int /\ (form.fw # None => site.rules.min <= d /\ d <= site.rules.max)
  <2>1. n \in Int
    BY ComposerAssumption
  <2> QED
    BY <1>2, <2>1, LimitsKept
<1> HIDE DEF d
<1>4. form' = Settled(site, f) /\ asked' = asked
  BY DEF SetDuration, d
<1>5. /\ f \in FormType /\ f.fw = form.fw /\ f.duration = d /\ f.loading = form.loading
      /\ f.own = form.own /\ f.date = form.date /\ f.pick = form.pick
      /\ f.preset = form.preset /\ f.overtaken = form.overtaken
  BY <1>2, <1>3 DEF FormType
<1> HIDE DEF f
<1>6. f.loading => /\ f.fw # None /\ f.own = None => f.preset = None
                   /\ f.pick # None => OwnKept(site, f)
  BY <1>2, <1>5 DEF PickOK, OwnKept, Offered
<1>7. Pending(f) = Pending(form)
  BY <1>5 DEF Pending
<1>8. /\ f.own # None => /\ f.own \in table
                         /\ f.fw # None => f.own \in f.fw.table
      /\ ~f.overtaken /\ f.fw # None /\ ~f.loading => f.fw.day = f.date
      /\ asked \in Seq(Pending(f))
  BY <1>2, <1>5, <1>7 DEF FormOK
<1>9. f.fw # None => site.rules.min <= f.duration /\ f.duration <= site.rules.max
  BY <1>3, <1>5
<1>10. FormOK(site, form', table, asked')
  BY <1>2, <1>4, <1>5, <1>6, <1>8, <1>9, SettledFormOK
<1>11. form' \notin {None, Gone}
  BY <1>10, NotAForm DEF FormOK
<1> QED
  BY <1>10, <1>11 DEF Inv, SetDuration

LEMMA SetOnlineStep ==
  ASSUME Inv, NEW online \in BOOLEAN, SetOnline(online)
  PROVE  Inv'
<1>1. ~(form \in {None, Gone})
  BY DEF SetOnline, IsOpened
<1>2. /\ ZoneOK(site) /\ RulesOK(site) /\ form \in FormType /\ PickOK(site, form)
      /\ FormOK(site, form, table, asked)
  BY <1>1, OpenedForm
<1> DEFINE f == [form EXCEPT !.online = online]
<1>3. form' = Settled(site, f) /\ asked' = asked /\ form.own = None
  BY DEF SetOnline
<1>4. /\ f \in FormType /\ f.fw = form.fw /\ f.duration = form.duration
      /\ f.loading = form.loading /\ f.own = form.own /\ f.date = form.date
      /\ f.pick = form.pick /\ f.preset = form.preset /\ f.overtaken = form.overtaken
  BY <1>2 DEF FormType
<1> HIDE DEF f
<1>5. f.loading => /\ f.fw # None /\ f.own = None => f.preset = None
                   /\ f.pick # None => OwnKept(site, f)
  BY <1>2, <1>3, <1>4 DEF PickOK, OwnKept, Offered
<1>6. Pending(f) = Pending(form)
  BY <1>4 DEF Pending
<1>7. /\ ~f.overtaken /\ f.fw # None /\ ~f.loading => f.fw.day = f.date
      /\ asked \in Seq(Pending(f))
      /\ f.own = None
      /\ f.fw # None => site.rules.min <= f.duration /\ f.duration <= site.rules.max
  BY <1>2, <1>3, <1>4, <1>6 DEF FormOK, PickOK
<1>8. FormOK(site, form', table, asked')
  BY <1>2, <1>3, <1>4, <1>5, <1>7, SettledFormOK
<1>9. form' \notin {None, Gone}
  BY <1>8, NotAForm DEF FormOK
<1> QED
  BY <1>8, <1>9 DEF Inv, SetOnline

LEMMA ChooseStartStep ==
  ASSUME Inv, IsOpened, NEW t \in StartOptions(site, form), ChooseStart(t)
  PROVE  Inv'
<1>1. /\ ZoneOK(site) /\ RulesOK(site) /\ form \in FormType /\ PickOK(site, form)
      /\ FormOK(site, form, table, asked)
  BY OpenedForm DEF IsOpened
<1> DEFINE p == PickAt(form, t)
           f == [form EXCEPT !.pick = p, !.touched = TRUE]
<1>2. form' = f /\ asked' = asked /\ ~form.loading
  BY <1>1 DEF ChooseStart
<1>3. p \in SlotType /\ p # None /\ p.start = t
  BY <1>1, OptionFacts, PickAtType
<1> HIDE DEF p
<1>4. /\ f \in FormType /\ f.fw = form.fw /\ f.duration = form.duration /\ f.online = form.online
      /\ f.loading = form.loading /\ f.own = form.own /\ f.date = form.date
      /\ f.pick = p /\ f.preset = form.preset /\ f.overtaken = form.overtaken
  BY <1>1, <1>3 DEF FormType
<1> HIDE DEF f
<1>5. StartOptions(site, f) = StartOptions(site, form) /\ Pending(f) = Pending(form)
  BY <1>4, OptionsSame DEF Pending
<1>6. Offered(site, f)
  BY <1>2, <1>3, <1>4, <1>5 DEF Offered, PickAt, p
<1>7. PickOK(site, f)
  BY <1>1, <1>4, <1>6 DEF PickOK
<1>8. FormOK(site, form', table, asked')
  BY <1>1, <1>2, <1>4, <1>5, <1>7 DEF FormOK
<1>9. form' \notin {None, Gone}
  BY <1>8, NotAForm DEF FormOK
<1> QED
  BY <1>8, <1>9 DEF Inv, ChooseStart

LEMMA ChooseEndStep ==
  ASSUME Inv, IsOpened, form.pick # None, NEW e \in EndOptions(site, form), ChooseEnd(e)
  PROVE  Inv'
<1>1. /\ ZoneOK(site) /\ RulesOK(site) /\ form \in FormType /\ PickOK(site, form)
      /\ FormOK(site, form, table, asked)
  BY OpenedForm DEF IsOpened
<1> DEFINE d == e - form.pick.start
           f == [form EXCEPT !.pick.end = e, !.duration = d, !.touched = TRUE]
<1>2. form' = Settled(site, f) /\ asked' = asked
  BY DEF ChooseEnd
<1>3. /\ e \in Int /\ form.fw # None /\ form.pick \in SlotType
      /\ site.rules.min <= d /\ d <= site.rules.max
  BY <1>1, EndOptionFacts, FormFields
<1>4. d \in Int
  BY <1>3 DEF SlotType
<1>5. ~form.loading
  BY <1>1, <1>3 DEF PickOK, OwnKept, Offered
<1> HIDE DEF d
<1>6. /\ f \in FormType /\ f.fw = form.fw /\ f.duration = d
      /\ f.loading = form.loading /\ f.own = form.own /\ f.date = form.date
      /\ f.overtaken = form.overtaken
  <2>1. [form.pick EXCEPT !.end = e] \in SlotType
    BY <1>3 DEF SlotType
  <2>2. f = [form EXCEPT !.pick = [form.pick EXCEPT !.end = e], !.duration = d, !.touched = TRUE]
    BY <1>1 DEF FormType
  <2> HIDE DEF f
  <2> QED
    BY <1>1, <1>4, <2>1, <2>2 DEF FormType
<1> HIDE DEF f
<1>7. Pending(f) = Pending(form)
  BY <1>6 DEF Pending
<1>8. /\ f.own # None => /\ f.own \in table
                         /\ f.fw # None => f.own \in f.fw.table
      /\ ~f.overtaken /\ f.fw # None /\ ~f.loading => f.fw.day = f.date
      /\ asked \in Seq(Pending(f))
  BY <1>1, <1>6, <1>7 DEF FormOK
<1>9. FormOK(site, form', table, asked')
  BY <1>1, <1>2, <1>3, <1>5, <1>6, <1>8, SettledFormOK
<1>10. form' \notin {None, Gone}
  BY <1>9, NotAForm DEF FormOK
<1> QED
  BY <1>9, <1>10 DEF Inv, ChooseEnd

LEMMA SubmitCreateStep == Inv /\ SubmitCreate => Inv'
<1> SUFFICES ASSUME Inv, SubmitCreate
             PROVE  Inv'
  OBVIOUS
<1>1. form \in FormType /\ form.pick \in SlotType /\ form.online \in BOOLEAN
  BY OpenedForm, FormFields DEF SubmitCreate, IsOpened
<1>2. ~form.online => form.pick.start < form.pick.end
  <2> SUFFICES ASSUME ~form.online
               PROVE  form.pick.start < form.pick.end
    OBVIOUS
  <2>1. form.pick.end > form.pick.start
    BY DEF SubmitCreate, CreateAccepted, ValidSlot
  <2> QED
    BY <1>1, <2>1 DEF SlotType
<1>3. RowsOK(table')
  BY <1>1, <1>2 DEF Inv, RowsOK, SubmitCreate
<1> QED
  BY <1>3 DEF Inv, SubmitCreate

LEMMA SubmitEditStep == Inv /\ SubmitEdit => Inv'
<1> SUFFICES ASSUME Inv, SubmitEdit
             PROVE  Inv'
  OBVIOUS
<1>1. form \in FormType /\ form.pick \in SlotType /\ form.own \in SlotType /\ now \in Int
  BY OpenedForm, FormFields DEF SubmitEdit, IsOpened, Inv
<1>2. UpdateAccepted(site, form.own, form.pick, now, table)
  BY DEF SubmitEdit
<1>3. form.pick.start < form.pick.end
  <2>1. CASE form.pick = form.own
    BY <1>2, <2>1 DEF UpdateAccepted, Inv, RowsOK
  <2>2. CASE form.pick # form.own /\ form.own.start <= now
    <3>1. form.pick.start = form.own.start /\ form.pick.end > now
      BY <1>2, <2>2 DEF UpdateAccepted, ExtensionAccepted
    <3> QED
      BY <1>1, <2>2, <3>1 DEF SlotType
  <2>3. CASE form.pick # form.own /\ ~(form.own.start <= now)
    <3>1. form.pick.end > form.pick.start
      BY <1>2, <2>3, AcceptedIsSlot DEF UpdateAccepted
    <3> QED
      BY <1>1, <3>1 DEF SlotType
  <2> QED
    BY <2>1, <2>2, <2>3
<1>4. RowsOK(table')
  BY <1>1, <1>3 DEF Inv, RowsOK, SubmitEdit
<1> QED
  BY <1>4 DEF Inv, SubmitEdit

LEMMA OtherBooksStep ==
  ASSUME Inv, NEW w \in Slots, OtherBooks(OnClock(w))
  PROVE  Inv'
<1> DEFINE slot == OnClock(w)
<1>1. slot \in SlotType
  <2>1. site.zone \in ZoneType
    BY ZoneAssumption DEF Inv, SiteType
  <2>2. w.start \in Int /\ w.end \in Int
    BY ComposerAssumption
  <2> QED
    BY <2>1, <2>2, InstantInt DEF OnClock, ZonedToUtc, SlotType
<1>2. slot.end > slot.start
  BY AcceptedIsSlot DEF OtherBooks
<1> HIDE DEF slot
<1>3. table' = table \cup {slot}
  BY DEF OtherBooks, slot
<1>4. RowsOK(table')
  BY <1>1, <1>2, <1>3 DEF Inv, RowsOK, SlotType
<1>5. form \notin {None, Gone} => FormOK(site, form, table', asked)
  BY <1>3 DEF Inv, FormOK
<1> QED
  BY <1>4, <1>5 DEF Inv, OtherBooks

LEMMA TickStep == Inv /\ Tick => Inv'
  BY DEF Inv, Tick

LEMMA InvNext == Inv /\ [Next]_vars => Inv'
<1> SUFFICES ASSUME Inv, [Next]_vars
             PROVE  Inv'
  OBVIOUS
<1>1. ASSUME NEW day \in Days, ChangeDate(day)
      PROVE  Inv'
  BY <1>1, ChangeDateStep
<1>2. ASSUME NEW day \in Days, NEW preset \in Starts \cup {None}, OpenCreate(day, preset)
      PROVE  Inv'
  BY <1>2, OpenCreateStep
<1>3. ASSUME NEW own \in table, OpenEdit(own)
      PROVE  Inv'
  BY <1>3, OpenEditStep
<1>4. ASSUME Replies
      PROVE  Inv'
  BY <1>4, AnswerStep, DeliverStep, AskFailsStep DEF Replies
<1>5. ASSUME NEW d \in Durations, SetDuration(d)
      PROVE  Inv'
  BY <1>5, SetDurationStep
<1>6. ASSUME NEW online \in BOOLEAN, SetOnline(online)
      PROVE  Inv'
  BY <1>6, SetOnlineStep
<1>7. ASSUME Picks
      PROVE  Inv'
  BY <1>7, ChooseStartStep, ChooseEndStep DEF Picks
<1>8. ASSUME NEW w \in Slots, OtherBooks(OnClock(w))
      PROVE  Inv'
  BY <1>8, OtherBooksStep
<1>9. CASE UNCHANGED vars
  BY <1>9 DEF Inv, vars
<1> QED
  BY <1>1, <1>2, <1>3, <1>4, <1>5, <1>6, <1>7, <1>8, <1>9, CloseStep, SubmitCreateStep,
     SubmitEditStep, TickStep DEF Next
-----------------------------------------------------------------------------
(* The form nobody touched *)

(* It waits for its only request with the booking's slot, and then keeps it *)
(* if it is offered.                                                        *)
Untouched(s, f, reqs) ==
  f.own # None /\ ~f.touched =>
    /\ f.date = LocalDay(s.zone, f.own.start)
    /\ ~f.online /\ ~f.overtaken
    /\ Len(reqs) <= 1
    /\ f.loading => f.pick = f.own /\ f.duration = Length(f.own)
    /\ ~f.loading => reqs = <<>>
    /\ ~f.loading /\ f.fw # None =>
         /\ f.duration = Clamped(s.rules, Length(f.own))
         /\ f.own.start \in StartOptions(s, f) => f.pick = PickAt(f, f.own.start)

UntouchedInv == form \notin {None, Gone} => Untouched(site, form, asked)

LEMMA WithoutOnly ==
  ASSUME NEW S, NEW seq \in Seq(S), Len(seq) <= 1, NEW i \in DOMAIN seq
  PROVE  Without(seq, i) = <<>>
<1>1. Len(seq) = 1 /\ i = 1
  <2> DEFINE n == Len(seq)
  <2>1. n \in Nat /\ i \in Int /\ 1 <= i /\ i <= n /\ n <= 1
    OBVIOUS
  <2> HIDE DEF n
  <2>2. n = 1 /\ i = 1
    BY <2>1
  <2> QED
    BY <2>2 DEF n
<1>2. SubSeq(seq, 1, i - 1) = <<>> /\ SubSeq(seq, i + 1, Len(seq)) = <<>>
  BY <1>1, SubSeqEmpty
<1> QED
  BY <1>2 DEF Without

LEMMA UntouchedDelivered ==
  ASSUME Inv, UntouchedInv, NEW i \in DOMAIN asked, Deliver(i)
  PROVE  UntouchedInv'
<1>1. /\ ~(form \in {None, Gone}) /\ asked \in Seq(Pending(form)) /\ asked[i] \in Pending(form)
      /\ form \in FormType
  BY AskedIsOpened, OpenedForm
<1> DEFINE f == [form EXCEPT !.fw = asked[i].reply, !.duration = Clamped(site.rules, @),
                             !.loading = FALSE]
           k == KeepPick(site, f)
           g == Settled(site, f)
<1>2. form' = g /\ asked' = Without(asked, i) /\ site' = site
  BY DEF Deliver
<1>3. ZoneOK(site) /\ RulesOK(site)
  BY <1>1, OpenedForm
<1>4. /\ f \in FormType
      /\ f.own = form.own /\ f.touched = form.touched /\ f.date = form.date
      /\ f.online = form.online /\ f.overtaken = form.overtaken /\ ~f.loading
      /\ f.duration = Clamped(site.rules, form.duration) /\ f.pick = form.pick
  <2>1. asked[i].reply \in ReplyType
    BY <1>1 DEF Pending, AskType, Deliver
  <2>2. Clamped(site.rules, form.duration) \in Int
    BY <1>1, <1>3, ClampedIn, FormFields
  <2> QED
    BY <1>1, <2>1, <2>2 DEF FormType
<1>5. k \in FormType /\ k = [f EXCEPT !.pick = k.pick]
  BY <1>3, <1>4, KeepPickOK
<1> HIDE DEF f
<1>6. SUFFICES ASSUME form.own # None, ~form.touched
               PROVE  Untouched(site, g, <<>>)
  <2>1. g.own = form.own /\ g.touched = form.touched
    BY <1>4, <1>5 DEF Settled, ApplyPreset, FormType
  <2>2. CASE form.own # None /\ ~form.touched
    <3>1. Len(asked) <= 1
      BY <1>1, <2>2 DEF UntouchedInv, Untouched
    <3>2. asked' = <<>>
      BY <1>1, <1>2, <3>1, WithoutOnly
    <3>3. Untouched(site, g, <<>>)
      BY <1>6, <2>2
    <3> HIDE DEF g
    <3> QED
      BY <1>2, <3>2, <3>3 DEF UntouchedInv
  <2>3. CASE ~(form.own # None /\ ~form.touched)
    <3> HIDE DEF g
    <3> QED
      BY <1>2, <2>1, <2>3 DEF UntouchedInv, Untouched
  <2> QED
    BY <2>2, <2>3
<1>7. g = k
  BY <1>4, <1>5, <1>6 DEF Settled, ApplyPreset, FormType
<1>8. asked # <<>>
  BY <1>1
<1>9. /\ form.loading /\ form.pick = form.own /\ form.duration = Length(form.own)
      /\ form.date = LocalDay(site.zone, form.own.start)
      /\ ~form.online /\ ~form.overtaken
  BY <1>1, <1>6, <1>8 DEF UntouchedInv, Untouched
<1>10. /\ k.own = f.own /\ k.fw = f.fw /\ k.online = f.online /\ k.duration = f.duration
       /\ k.touched = f.touched /\ k.date = f.date /\ k.overtaken = f.overtaken
       /\ k.loading = f.loading
  <2> HIDE DEF k
  <2> QED
    BY <1>4, <1>5 DEF FormType
<1>11. StartOptions(site, k) = StartOptions(site, f) /\ \A t : PickAt(k, t) = PickAt(f, t)
  <2> HIDE DEF k
  <2> QED
    BY <1>10, OptionsSame DEF PickAt
<1>12. f.own.start \in StartOptions(site, f) => k.pick = PickAt(f, f.own.start)
  BY <1>4, <1>6, <1>9 DEF KeepPick, FormType
<1>13. Len(<<>>) <= 1
  BY EmptySeq
<1>14. Untouched(site, k, <<>>)
  <2> HIDE DEF k
  <2> QED
    BY <1>4, <1>9, <1>10, <1>11, <1>12, <1>13 DEF Untouched
<1> QED
  BY <1>7, <1>14

LEMMA UntouchedFailed ==
  ASSUME Inv, UntouchedInv, NEW i \in DOMAIN asked, AskFails(i)
  PROVE  UntouchedInv'
<1>1. ~(form \in {None, Gone}) /\ asked \in Seq(Pending(form)) /\ form \in FormType
  BY AskedIsOpened, OpenedForm
<1> DEFINE f == [form EXCEPT !.fw = None, !.loading = FALSE]
           g == Settled(site, f)
<1>2. form' = g /\ asked' = Without(asked, i) /\ site' = site
  BY DEF AskFails
<1>3. /\ f \in FormType /\ f.fw = None /\ ~f.loading
      /\ f.own = form.own /\ f.touched = form.touched /\ f.date = form.date
      /\ f.online = form.online /\ f.overtaken = form.overtaken
  BY <1>1 DEF FormType
<1> HIDE DEF f
<1>4. /\ g.fw = None /\ ~g.loading
      /\ g.own = form.own /\ g.touched = form.touched /\ g.date = form.date
      /\ g.online = form.online /\ g.overtaken = form.overtaken
  <2>1. KeepPick(site, f) \in FormType /\ KeepPick(site, f).fw = None
        /\ KeepPick(site, f) = [f EXCEPT !.pick = KeepPick(site, f).pick]
    <3>1. ZoneOK(site) /\ RulesOK(site)
      BY <1>1, OpenedForm
    <3> QED
      BY <1>3, <3>1, KeepPickOK DEF FormType
  <2>2. g = KeepPick(site, f)
    BY <2>1 DEF Settled, ApplyPreset
  <2> HIDE DEF g
  <2> QED
    BY <1>3, <2>1, <2>2 DEF FormType
<1> HIDE DEF g
<1>5. CASE form.own # None /\ ~form.touched
  <2>1. Len(asked) <= 1
    BY <1>1, <1>5 DEF UntouchedInv, Untouched
  <2>2. asked' = <<>> /\ Len(asked') <= 1
    BY <1>1, <1>2, <2>1, WithoutOnly, EmptySeq
  <2> QED
    BY <1>1, <1>2, <1>4, <1>5, <2>2 DEF UntouchedInv, Untouched
<1>6. CASE ~(form.own # None /\ ~form.touched)
  BY <1>2, <1>4, <1>6 DEF UntouchedInv, Untouched
<1> QED
  BY <1>5, <1>6

LEMMA UntouchedNext == Inv /\ UntouchedInv /\ [Next]_vars => UntouchedInv'
<1> SUFFICES ASSUME Inv, UntouchedInv, [Next]_vars
             PROVE  UntouchedInv'
  OBVIOUS
<1>1. ASSUME NEW day \in Days, ChangeDate(day)
      PROVE  UntouchedInv'
  <2>1. form \in FormType
    BY <1>1, OpenedForm DEF ChangeDate, IsOpened
  <2>2. form'.touched
    BY <1>1, <2>1 DEF ChangeDate, FormType
  <2> QED
    BY <2>2 DEF UntouchedInv, Untouched
<1>2. ASSUME NEW day \in Days, NEW preset \in Starts \cup {None}, OpenCreate(day, preset)
      PROVE  UntouchedInv'
  <2>1. form'.own = None
    BY <1>2 DEF OpenCreate, NewForm
  <2> QED
    BY <2>1 DEF UntouchedInv, Untouched
<1>3. ASSUME NEW own \in table, OpenEdit(own)
      PROVE  UntouchedInv'
  <2>1. /\ form'.own = own /\ form'.date = LocalDay(site.zone, own.start)
        /\ form'.loading /\ form'.pick = own /\ form'.duration = Length(own)
        /\ ~form'.online /\ ~form'.overtaken
        /\ site' = site
    BY <1>3 DEF OpenEdit, NewForm
  <2>2. Len(asked') <= 1
    BY <1>3 DEF OpenEdit
  <2> QED
    BY <2>1, <2>2 DEF UntouchedInv, Untouched
<1>4. ASSUME NEW i \in DOMAIN asked, Answer(i)
      PROVE  UntouchedInv'
  <2>1. asked \in Seq(Pending(form)) /\ form' = form /\ site' = site
    BY <1>4, AskedIsOpened DEF Answer
  <2>2. Len(asked') = Len(asked) /\ asked # <<>>
    BY <1>4, <2>1 DEF Answer
  <2> QED
    BY <2>1, <2>2 DEF UntouchedInv, Untouched
<1>5. ASSUME NEW d \in Durations, SetDuration(d)
      PROVE  UntouchedInv'
  <2> DEFINE n == Clamped(Limits(site, form), d)
             f == [form EXCEPT !.duration = n, !.touched = TRUE]
  <2>1. form \in FormType /\ ZoneOK(site) /\ RulesOK(site)
    BY <1>5, OpenedForm DEF SetDuration, IsOpened
  <2>2. n \in Int
    BY <2>1, LimitsKept, ComposerAssumption
  <2> HIDE DEF n
  <2>3. f \in FormType /\ f.touched
    BY <2>1, <2>2 DEF FormType
  <2>4. form' = Settled(site, f)
    BY <1>5 DEF SetDuration, n
  <2> HIDE DEF f
  <2>5. form'.touched
    BY <2>1, <2>3, <2>4, SettledTouched
  <2> QED
    BY <2>5 DEF UntouchedInv, Untouched
<1>6. ASSUME NEW online \in BOOLEAN, SetOnline(online)
      PROVE  UntouchedInv'
  <2> DEFINE f == [form EXCEPT !.online = online]
  <2>1. form \in FormType /\ ZoneOK(site) /\ RulesOK(site)
    BY <1>6, OpenedForm DEF SetOnline, IsOpened
  <2>2. f \in FormType /\ f.own = None
    BY <1>6, <2>1 DEF FormType, SetOnline
  <2>3. form' = Settled(site, f)
    BY <1>6 DEF SetOnline
  <2> HIDE DEF f
  <2>4. form'.own = None
    BY <2>1, <2>2, <2>3, SettledTouched
  <2> QED
    BY <2>4 DEF UntouchedInv, Untouched
<1>7. ASSUME IsOpened, NEW t \in StartOptions(site, form), ChooseStart(t)
      PROVE  UntouchedInv'
  <2>1. form \in FormType
    BY <1>7, OpenedForm DEF IsOpened
  <2>2. form'.touched
    BY <1>7, <2>1 DEF ChooseStart, FormType
  <2> QED
    BY <2>2 DEF UntouchedInv, Untouched
<1>8. ASSUME IsOpened, form.pick # None, NEW e \in EndOptions(site, form), ChooseEnd(e)
      PROVE  UntouchedInv'
  <2> DEFINE f == [form EXCEPT !.pick.end = e, !.duration = e - form.pick.start, !.touched = TRUE]
  <2>1. form \in FormType /\ ZoneOK(site) /\ RulesOK(site)
    BY <1>8, OpenedForm DEF IsOpened
  <2>2. e \in Int /\ form.pick \in SlotType /\ e - form.pick.start \in Int
    <3>1. e \in Int /\ form.pick \in SlotType
      BY <1>8, <2>1, EndOptionFacts, FormFields
    <3> QED
      BY <3>1 DEF SlotType
  <2>3. f \in FormType /\ f.touched
    <3>1. [form.pick EXCEPT !.end = e] \in SlotType
      BY <2>2 DEF SlotType
    <3>2. f = [form EXCEPT !.pick = [form.pick EXCEPT !.end = e],
                           !.duration = e - form.pick.start, !.touched = TRUE]
      BY <2>1 DEF FormType
    <3> HIDE DEF f
    <3> QED
      BY <2>1, <2>2, <3>1, <3>2 DEF FormType
  <2>4. form' = Settled(site, f)
    BY <1>8 DEF ChooseEnd
  <2> HIDE DEF f
  <2>5. form'.touched
    BY <2>1, <2>3, <2>4, SettledTouched
  <2> QED
    BY <2>5 DEF UntouchedInv, Untouched
<1>9. ASSUME Close \/ SubmitCreate \/ SubmitEdit
      PROVE  UntouchedInv'
  BY <1>9 DEF Close, SubmitCreate, SubmitEdit, UntouchedInv
<1>10. ASSUME (\E w \in Slots : OtherBooks(OnClock(w))) \/ Tick \/ UNCHANGED vars
       PROVE  UntouchedInv'
  BY <1>10 DEF OtherBooks, Tick, vars, UntouchedInv
<1>11. ASSUME Replies
       PROVE  UntouchedInv'
  BY <1>4, <1>11, UntouchedDelivered, UntouchedFailed DEF Replies
<1>12. ASSUME Picks
       PROVE  UntouchedInv'
  BY <1>7, <1>8, <1>12 DEF Picks
<1> QED
  BY <1>1, <1>2, <1>3, <1>5, <1>6, <1>9, <1>10, <1>11, <1>12 DEF Next

LEMMA InvHolds == Spec => []Inv
  BY InvInit, InvNext, PTL DEF Spec

LEMMA UntouchedHolds == Spec => []UntouchedInv
<1>1. Init => UntouchedInv
  BY DEF Init, UntouchedInv
<1> QED
  BY <1>1, UntouchedNext, InvHolds, PTL DEF Spec

-----------------------------------------------------------------------------
(* What follows from the invariant *)

LEMMA InvReadingsKept == Inv => ReadingsKept
<1> SUFFICES ASSUME Inv
             PROVE  ReadingsKept
  OBVIOUS
<1> DEFINE z == site.zone
<1>1. z \in ZoneType /\ now \in Int /\ DayLength \in Int
  BY ZoneAssumption, DayAssumption DEF Inv, SiteType
<1>2. ASSUME NEW day \in Days, NEW time \in 0..(DayLength - 1),
             ~Skipped(z, Midnight(day) + time)
      PROVE  /\ Wall(z, ZonedToUtc(z, Midnight(day) + time)) = Midnight(day) + time
             /\ LocalDay(z, StartOfNamedDay(z, day)) = day =>
                  Wall(z, AtTime(z, StartOfNamedDay(z, day), time)) = Midnight(day) + time
  <2> DEFINE w == Midnight(day) + time
             start == StartOfNamedDay(z, day)
  <2>1. day \in Int /\ time \in Int /\ Midnight(day) \in Int
    BY <1>1, ComposerAssumption, MidnightFacts
  <2>2. w \in Int
    BY <2>1
  <2>3. start \in Int
    <3>1. ZoneOK(site)
      BY InvType, ConstantsOK
    <3> QED
      BY <2>1, <3>1, NamedDay
  <2>4. Wall(z, InstantOf(z, w, w)) = w /\ Wall(z, InstantOf(z, w, start)) = w
    BY <1>1, <1>2, <2>2, <2>3, InstantShows
  <2> HIDE DEF z, start
  <2> QED
    BY <2>4 DEF ZonedToUtc, AtTime, start
<1>3. ASSUME NEW day \in Days, ~Skipped(z, Midnight(day) + TimeOfDay(z, now))
      PROVE  Wall(z, ShiftLocalDays(z, now, day - Today)) = Midnight(day) + TimeOfDay(z, now)
  <2>1. day \in Int /\ Today \in Int /\ Today = LocalDay(z, now)
    BY <1>1, ComposerAssumption, ZoneFacts DEF Today
  <2>2. day - Today \in Int /\ LocalDay(z, now) + (day - Today) = day
    BY <2>1
  <2> HIDE DEF z
  <2> QED
    BY <1>1, <1>3, <2>2, ShiftKeepsTime
<1> QED
  BY <1>2, <1>3 DEF ReadingsKept

LEMMA InvDaysTile == Inv => DaysTile
<1> SUFFICES ASSUME Inv, NEW day \in Days, NEW time \in 0..(DayLength - 1)
             PROVE  LET t     == Midnight(day) + time
                        start == StartOfDay(site.zone, t)
                        here  == LocalDay(site.zone, t)
                    IN  Ordinary(site.zone, here) /\ Ordinary(site.zone, here + 1) =>
                          /\ start <= t /\ t < AddLocalDays(site.zone, start, 1)
                          /\ LocalDay(site.zone, start) = here
                          /\ LocalDay(site.zone, start - 1) < here
                          /\ LocalDay(site.zone, AddLocalDays(site.zone, start, 1)) = here + 1
  BY DEF DaysTile
<1> DEFINE z == site.zone
           t == Midnight(day) + time
           start == StartOfDay(z, t)
           here == LocalDay(z, t)
           next == AddLocalDays(z, start, 1)
<1>1. z \in ZoneType /\ DayLength \in Int
  BY ZoneAssumption, DayAssumption DEF Inv, SiteType
<1>2. t \in Int
  <2>1. Midnight(day) \in Int /\ time \in Int
    BY <1>1, ComposerAssumption, MidnightFacts
  <2> QED
    BY <2>1
<1> HIDE DEF z, t
<1>3. SUFFICES ASSUME Ordinary(z, here), Ordinary(z, here + 1)
               PROVE  /\ start <= t /\ t < next
                      /\ LocalDay(z, start) = here
                      /\ LocalDay(z, start - 1) < here
                      /\ LocalDay(z, next) = here + 1
  BY DEF z, t
<1>4. /\ start \in Int /\ next \in Int
      /\ LocalDay(z, start) = here /\ LocalDay(z, next) = here + 1
      /\ \A u \in Int : LocalDay(z, u) = here <=> start <= u /\ u < next
  BY <1>1, <1>2, <1>3, DayIsTiled
<1>5. start <= t /\ t < next
  BY <1>2, <1>4
<1>6. LocalDay(z, start - 1) < here
  BY <1>1, <1>2, <1>3, DayBefore
<1> QED
  BY <1>4, <1>5, <1>6

LEMMA InvPickIsBookable == Inv => PickIsBookable
<1> SUFFICES ASSUME Inv, IsOpened, form.pick # None, ~form.online, ~form.loading,
                    form.fw # None, NoonIsOfDay(site.zone),
                    HoursSteady(site, form.fw.day), MidnightsShown(site, form.fw.day)
             PROVE  IF form.own = None
                    THEN CreateAccepted(site, form.pick, FALSE, form.fw.now, form.fw.table)
                    ELSE form.own.start > form.fw.now =>
                           UpdateAccepted(site, form.own, form.pick, form.fw.now, form.fw.table)
  BY DEF PickIsBookable
<1>1. /\ ZoneOK(site) /\ RulesOK(site) /\ form \in FormType /\ PickOK(site, form)
      /\ FormOK(site, form, table, asked)
  BY OpenedForm DEF IsOpened
<1>2. Offered(site, form)
  BY <1>1 DEF PickOK, OwnKept
<1>3. CreateAccepted(site, form.pick, FALSE, form.fw.now, form.fw.table \ {form.own})
  <2>1. CreateAccepted(site, PickAt(form, form.pick.start), FALSE, form.fw.now,
                       form.fw.table \ {form.own})
    BY <1>1, <1>2, OptionAccepted DEF PickOK, Offered
  <2> QED
    BY <1>2, <2>1 DEF Offered
<1>4. form.fw \in ReplyType
  BY <1>1, FormFields
<1>5. CASE form.own = None
  <2>1. form.fw.table \ {form.own} = form.fw.table
    BY <1>4, <1>5, NoneAssumption DEF ReplyType
  <2> QED
    BY <1>3, <1>5, <2>1
<1>6. CASE form.own # None
  <2> SUFFICES ASSUME form.own.start > form.fw.now
               PROVE  UpdateAccepted(site, form.own, form.pick, form.fw.now, form.fw.table)
    BY <1>6
  <2>1. form.own \in form.fw.table /\ form.own \in table
    BY <1>1, <1>6 DEF FormOK
  <2>2. form.own.start \in Int /\ form.own.end \in Int /\ form.own.start < form.own.end
        /\ form.fw.now \in Int
    BY <1>4, <2>1 DEF Inv, RowsOK, SlotType, ReplyType
  <2>3. form.own.end > form.fw.now /\ ~(form.own.start <= form.fw.now)
    BY <2>2
  <2> QED
    BY <1>3, <2>1, <2>3 DEF UpdateAccepted
<1> QED
  BY <1>5, <1>6

LEMMA InvPickIsOfDayShown == Inv => PickIsOfDayShown
<1> SUFFICES ASSUME Inv, IsOpened, form.pick # None, ~form.overtaken,
                    NoonIsOfDay(site.zone), HoursSteady(site, form.date)
             PROVE  LocalDay(site.zone, form.pick.start) = form.date
  BY DEF PickIsOfDayShown
<1>1. /\ ZoneOK(site) /\ RulesOK(site) /\ form \in FormType /\ PickOK(site, form)
      /\ FormOK(site, form, table, asked)
  BY OpenedForm DEF IsOpened
<1>2. CASE OwnKept(site, form)
  BY <1>2 DEF OwnKept
<1>3. CASE Offered(site, form)
  <2>1. form.fw # None
    BY <1>3 DEF Offered, StartOptions, Windows
  <2>2. form.fw.day = form.date
    BY <1>1, <1>3, <2>1 DEF FormOK, Offered
  <2>3. site.rules.min <= form.duration
    BY <1>1, <2>1 DEF PickOK
  <2> QED
    BY <1>1, <1>3, <2>2, <2>3, OptionInHours DEF Offered
<1> QED
  BY <1>1, <1>2, <1>3 DEF PickOK

LEMMA InvEditKeepsItsSlot == Inv /\ UntouchedInv => EditKeepsItsSlot
<1> SUFFICES ASSUME Inv, UntouchedInv, IsOpened, form.own # None, ~form.touched,
                    ~form.loading, form.fw # None,
                    NoonIsOfDay(site.zone), HoursSteady(site, form.date),
                    CreateAccepted(site, form.own, FALSE, form.fw.now, form.fw.table \ {form.own}),
                    site.rules.overAdvanceApproval
                      \/ ~(form.own.end > HorizonEnd(form.fw.now, site.rules))
             PROVE  form.pick = form.own
  BY DEF EditKeepsItsSlot
<1>1. /\ ZoneOK(site) /\ RulesOK(site) /\ form \in FormType
      /\ FormOK(site, form, table, asked) /\ Untouched(site, form, asked)
  BY OpenedForm DEF IsOpened, UntouchedInv
<1>2. /\ form.date = LocalDay(site.zone, form.own.start) /\ ~form.online
      /\ form.duration = Clamped(site.rules, Length(form.own))
      /\ form.own.start \in StartOptions(site, form) => form.pick = PickAt(form, form.own.start)
      /\ ~form.overtaken
  BY <1>1 DEF Untouched
<1>3. form.fw.day = form.date
  BY <1>1, <1>2 DEF FormOK
<1>4. form.own \in SlotType /\ form.own.start \in Int /\ form.own.end \in Int /\ form.fw \in ReplyType
  BY <1>1, FormFields DEF SlotType
<1>5. Length(form.own) \in Int /\ form.duration = Length(form.own)
  <2>1. /\ Length(form.own) >= site.rules.min /\ Length(form.own) <= site.rules.max
    BY DEF CreateAccepted, ValidSlot
  <2>2. Length(form.own) \in Int
    BY <1>4 DEF Length
  <2>3. site.rules.min \in Int /\ site.rules.max \in Int
    BY <1>1 DEF RulesOK, RulesType
  <2> QED
    BY <1>2, <2>1, <2>2, <2>3 DEF Clamped, Later, Earlier
<1>6. site.rules.overAdvanceApproval \/ form.own.end <= HorizonEnd(form.fw.now, site.rules)
  <2>1. HorizonEnd(form.fw.now, site.rules) \in Int
    BY <1>1, <1>4, DayAssumption DEF HorizonEnd, RulesOK, RulesType, ReplyType
  <2> QED
    BY <1>4, <2>1
<1>7. form.own.start \in StartOptions(site, form)
  BY <1>1, <1>2, <1>3, <1>5, <1>6, OwnOffered
<1>8. PickAt(form, form.own.start) = form.own
  <2>1. form.own.start + form.duration = form.own.end
    BY <1>4, <1>5 DEF Length
  <2> QED
    BY <1>4, <2>1 DEF PickAt, SlotType
<1> QED
  BY <1>2, <1>7, <1>8

-----------------------------------------------------------------------------
(* Theorems *)

(* The form, the replies and the bookings keep their types: no pick is left *)
(* half cleared, whatever order requests are answered in.                   *)
THEOREM FormTyped == Spec => []TypeOK
  BY InvHolds, InvType, PTL

(* In any zone that changes its clock by less than half a day, and on any   *)
(* date, the conversions of tz.util.ts, wall() and zonedToUtcIso show the   *)
(* reading they were asked for, unless the clock skips it; startOfDayInTz   *)
(* and addLocalDays cut time into local days without gap or overlap,        *)
(* between midnights the clock passes once.                                 *)
THEOREM ClockIsKept == Spec => []ClockKept
<1>1. Inv => ClockKept
  BY InvReadingsKept, InvDaysTile DEF ClockKept
<1> QED
  BY <1>1, InvHolds, PTL

(* Whatever policies, zones, dates and other people's bookings: what the    *)
(* form has picked for the room passes every check of the API, at the       *)
(* moment of the reply it was picked from.                                  *)
THEOREM PicksAreBookable == Spec => []PickIsBookable
  BY InvHolds, InvPickIsBookable, PTL

(* Unless it was asked again before the reply, the form holds no pick of    *)
(* another date than the one it shows.                                      *)
THEOREM PicksAreOfDayShown == Spec => []PickIsOfDayShown
  BY InvHolds, InvPickIsOfDayShown, PTL

(* Opening the form of a booking still to come loses its slot only where    *)
(* the API would refuse it anew (too close to its start, or too long), in a *)
(* zone that noon UTC misses, at hours the clock changes, or across the     *)
(* horizon.  Of a meeting under way nothing is said: it is lost.            *)
THEOREM UntouchedEditKeepsSlot == Spec => []EditKeepsItsSlot
  BY InvHolds, UntouchedHolds, InvEditKeepsItsSlot, PTL

-----------------------------------------------------------------------------
(* Pages that show lists: until replies cross, either the load begun last   *)
(* is still awaited, or what came with it is on show and whoever is still   *)
(* awaited was overtaken.                                                   *)

InOrder ==
  \A i \in DOMAIN shown :
    shown[i].key = key /\ shown[i].from = i - 1 /\ shown[i].ver >= Served(mine[key])

TitlesOK == session => titles \in {key, Nothing}

LateBut(n) == \A i \in DOMAIN loads : i # n => loads[i].late

AwaitedLast(n) ==
  /\ n = Len(loads)
  /\ ~loads[n].late /\ loads[n].key = key
  /\ loads[n].answered /\ loads[n].what # "titles" => loads[n].ver >= Served(mine[key])
  /\ loads[n].what \in {"list", "browse"} => loads[n].from = 0
  /\ loads[n].what = "more" => n = 1 /\ loads[n].from = Len(shown) /\ InOrder
  /\ loads[n].what = "titles" => InOrder /\ LateBut(n)

Rested == InOrder /\ TitlesOK /\ LateBut(0)

ShowOK == ~disturbed /\ ~err => (\E n \in DOMAIN loads : AwaitedLast(n)) \/ Rested

(* A page asks only for what its ways have it ask for, and one that cleans  *)
(* up and asks nowhere else has one load at a time.                         *)
LoadOK(load) ==
  /\ session => load.token
  /\ load.what = "titles" => Does("titled")
  /\ load.what = "browse" => Does("browses")
  /\ load.what = "more" => Does("continues")

WaysOK ==
  /\ \A i \in DOMAIN loads : LoadOK(loads[i])
  /\ ~Does("titled") => titles = Nothing
  /\ Does("guards") => ~err
  /\ Does("guards") /\ ~Does("browses") =>
       ~disturbed /\ Len(loads) <= 1 /\ \A i \in DOMAIN loads : ~loads[i].late

AgesOK == \A k \in Keys : mine[k] <= world[k] /\ world[k] <= changes

PageShowsInv == ScreensTypeOK /\ AgesOK /\ WaysOK /\ ShowOK

LEMMA WaysOfPages ==
  ASSUME page \in Pages
  PROVE  /\ Does("guards") => /\ Does("empties") /\ ~Does("writes")
                              /\ ~Does("polls") /\ ~Does("continues")
         /\ Does("titled") => ~Does("continues") /\ ~Does("browses") /\ ~Does("empties")
         /\ Does("browses") => Does("guards")
         /\ Does("empties") => Does("guards")
BY DEF Does, Pages, SchedulePage, CalendarPage, DenahPage, HistoryPage, BookingsPage,
       ApprovalsPage, HubPage, DashboardPage, BookPage, PublicRoomPage, DirectorySearch,
       PeoplePicker, BookingDetail, ChatThread, ChatList, ChatBadge, BellCount, UsersPage,
       RecipientsList, RoomsPage, PoliciesPage, LocationsPage, AuditPage, AdminBookingsPage,
       ErrorReportsPage, AdminDashboard, AnalyticsPage, BillingPage

LEMMA PageShows == PageShowsInv => ScreensInv
<1> SUFFICES ASSUME PageShowsInv
             PROVE  ShowsSelected
  BY DEF PageShowsInv, ScreensInv
<1> SUFFICES ASSUME Calm
             PROVE  InOrder /\ TitlesOK
  <2> SUFFICES ASSUME InOrder, NEW i \in DOMAIN shown
               PROVE  IF i = 1 THEN Row(shown[i]) = shown[i].ver
                      ELSE LET ended == shown[i].ver - shown[i - 1].ver
                           IN  Row(shown[i]) = Row(shown[i - 1]) - 1 + ended
    BY DEF ShowsSelected, InOrder, TitlesOK
  <2>1. i \in 1..Len(shown) /\ (i # 1 => i - 1 \in DOMAIN shown)
    BY DEF PageShowsInv, ScreensTypeOK
  <2>2. ASSUME NEW j \in DOMAIN shown
        PROVE  shown[j].ver \in Int /\ Row(shown[j]) = shown[j].ver - (j - 1)
    <3>1. shown[j] \in PartType /\ MaxChanges \in Nat
      BY ScreensAssumption DEF PageShowsInv, ScreensTypeOK
    <3>2. shown[j].ver \in Int
      BY <3>1 DEF PartType
    <3>3. shown[j].from = j - 1
      BY DEF InOrder
    <3> QED BY <3>2, <3>3 DEF Row
  <2>3. i \in Int /\ shown[i].ver \in Int /\ Row(shown[i]) = shown[i].ver - (i - 1)
    BY <2>1, <2>2
  <2>4. CASE i = 1
    BY <2>3, <2>4
  <2>5. CASE i # 1
    <3>1. /\ shown[i - 1].ver \in Int
          /\ Row(shown[i - 1]) = shown[i - 1].ver - (i - 1 - 1)
      BY <2>1, <2>2, <2>5
    <3> QED BY <2>3, <2>5, <3>1
  <2> QED BY <2>4, <2>5
<1>1. loads = <<>> /\ ~err /\ ~disturbed
  BY DEF Calm, PageShowsInv, WaysOK
<1>2. Rested
  BY <1>1 DEF PageShowsInv, ShowOK
<1> QED BY <1>2 DEF Rested

LEMMA WithoutOne ==
  ASSUME NEW S, NEW s \in Seq(S), NEW i \in DOMAIN s
  PROVE  /\ RemoveAt(s, i) \in Seq(S) /\ Len(RemoveAt(s, i)) = Len(s) - 1
         /\ \A j \in 1..(Len(s) - 1) : RemoveAt(s, i)[j] = IF j < i THEN s[j] ELSE s[j + 1]
<1> DEFINE before == SubSeq(s, 1, i - 1)
           after  == SubSeq(s, i + 1, Len(s))
<1>1. Len(s) \in Nat /\ i \in 1..Len(s)
  OBVIOUS
<1>2. /\ before \in Seq(S) /\ Len(before) = i - 1
      /\ \A j \in 1..(i - 1) : before[j] = s[j]
  BY <1>1, SubSeqProperties
<1>3. /\ after \in Seq(S) /\ Len(after) = Len(s) - i
      /\ \A j \in 1..(Len(s) - i) : after[j] = s[i + j]
  BY <1>1, SubSeqProperties
<1> HIDE DEF before, after
<1>4. /\ before \o after \in Seq(S) /\ Len(before \o after) = Len(s) - 1
      /\ \A j \in 1..(Len(s) - 1) :
           (before \o after)[j] = IF j < i THEN before[j] ELSE after[j - (i - 1)]
  BY <1>1, <1>2, <1>3, ConcatProperties
<1>5. \A j \in 1..(Len(s) - 1) : (before \o after)[j] = IF j < i THEN s[j] ELSE s[j + 1]
  <2> TAKE j \in 1..(Len(s) - 1)
  <2>1. CASE j < i
    BY <1>1, <1>2, <1>4, <2>1
  <2>2. CASE ~(j < i)
    <3>1. j - (i - 1) \in 1..(Len(s) - i) /\ i + (j - (i - 1)) = j + 1
      BY <1>1, <2>2
    <3> QED BY <1>1, <1>3, <1>4, <2>2, <3>1
  <2> QED BY <2>1, <2>2
<1> QED BY <1>4, <1>5 DEF RemoveAt, before, after

LEMMA OvertakenAre ==
  ASSUME ScreensTypeOK, NEW i \in DOMAIN loads
  PROVE  /\ Overtaken(i) \in Seq(LoadType) /\ Len(Overtaken(i)) = Len(loads)
         /\ \A j \in DOMAIN loads :
              /\ Overtaken(i)[j].what = loads[j].what /\ Overtaken(i)[j].key = loads[j].key
              /\ Overtaken(i)[j].from = loads[j].from /\ Overtaken(i)[j].token = loads[j].token
              /\ Overtaken(i)[j].answered = loads[j].answered
              /\ Overtaken(i)[j].ver = loads[j].ver
              /\ Overtaken(i)[j].late <=> loads[j].late \/ j < i
<1>1. loads \in Seq(LoadType)
  BY DEF ScreensTypeOK
<1>2. ASSUME NEW j \in DOMAIN loads
      PROVE  /\ [loads[j] EXCEPT !.late = @ \/ j < i] \in LoadType
             /\ [loads[j] EXCEPT !.late = @ \/ j < i].late <=> loads[j].late \/ j < i
  <2>1. loads[j] \in LoadType
    BY <1>1
  <2>2. (loads[j].late \/ j < i) \in BOOLEAN
    OBVIOUS
  <2> QED BY <2>1, <2>2 DEF LoadType
<1>3. Overtaken(i) \in [1..Len(loads) -> LoadType]
  BY <1>1, <1>2 DEF Overtaken
<1>4. Overtaken(i) \in Seq(LoadType) /\ Len(Overtaken(i)) = Len(loads)
  BY <1>1, <1>3
<1>5. ASSUME NEW j \in DOMAIN loads
      PROVE  Overtaken(i)[j] = [loads[j] EXCEPT !.late = @ \/ j < i]
  BY DEF Overtaken
<1>6. \A j \in DOMAIN loads : loads[j] \in LoadType
  BY <1>1
<1>7. ASSUME NEW j \in DOMAIN loads
      PROVE  /\ Overtaken(i)[j].what = loads[j].what /\ Overtaken(i)[j].key = loads[j].key
             /\ Overtaken(i)[j].from = loads[j].from /\ Overtaken(i)[j].token = loads[j].token
             /\ Overtaken(i)[j].answered = loads[j].answered
             /\ Overtaken(i)[j].ver = loads[j].ver
  BY <1>5, <1>6 DEF LoadType
<1>8. ASSUME NEW j \in DOMAIN loads
      PROVE  Overtaken(i)[j].late <=> loads[j].late \/ j < i
  BY <1>2, <1>5
<1> QED BY <1>4, <1>7, <1>8

LEMMA Serves ==
  ASSUME NEW a \in 0..MaxChanges
  PROVE  /\ Served(a) \in 0..MaxChanges
         /\ \A b \in 0..MaxChanges : a <= b => Served(a) <= Served(b)
BY ScreensAssumption DEF Served

LEMMA Loads ==
  ASSUME session \in BOOLEAN, NEW what \in {"browse", "list", "more", "titles"},
         NEW k \in Keys, NEW from \in 0..MaxParts
  PROVE  Load(what, k, from) \in LoadType
BY ScreensAssumption DEF Load, LoadType

LEMMA ScreensInitOK == ScreensInit => PageShowsInv
<1> SUFFICES ASSUME ScreensInit
             PROVE  PageShowsInv
  OBVIOUS
<1> DEFINE first == Load(IF Does("browses") THEN "browse" ELSE "list", key, 0)
<1>1. session \in BOOLEAN /\ key \in Keys /\ page \in Pages
  BY DEF ScreensInit
<1>2. first \in LoadType
  BY <1>1, Loads, ScreensAssumption
<1>3. /\ first.token = session /\ ~first.late /\ first.key = key /\ first.from = 0
      /\ first.what = IF Does("browses") THEN "browse" ELSE "list"
      /\ ~first.answered
  BY DEF Load
<1>4. loads = <<first>>
  BY DEF ScreensInit
<1> HIDE DEF first
<1>5. loads \in Seq(LoadType) /\ Len(loads) = 1 /\ loads[1] = first /\ DOMAIN loads = {1}
  BY <1>2, <1>4
<1>6. ScreensTypeOK
  <2>1. /\ world \in [Keys -> 0..MaxChanges] /\ mine \in [Keys -> 0..MaxChanges]
        /\ changes \in 0..MaxChanges /\ fails \in 0..MaxFailures
    BY ScreensAssumption DEF ScreensInit
  <2>2. Len(loads) <= MaxLoads
    BY <1>5, ScreensAssumption
  <2>3. shown \in Seq(PartType) /\ titles \in Keys \cup {Nothing}
    BY DEF ScreensInit
  <2> QED BY <1>1, <1>5, <2>1, <2>2, <2>3 DEF ScreensInit, ScreensTypeOK
<1>7. AgesOK
  BY DEF ScreensInit, AgesOK
<1>8. WaysOK
  BY <1>3, <1>5 DEF ScreensInit, WaysOK, LoadOK
<1>9. AwaitedLast(1)
  BY <1>3, <1>5 DEF AwaitedLast
<1> QED BY <1>5, <1>6, <1>7, <1>8, <1>9 DEF PageShowsInv, ShowOK

(* Any new load is asked for what is selected, but one begun elsewhere.     *)
LEMMA Appended ==
  ASSUME ScreensTypeOK, WaysOK, NEW load \in LoadType, ~load.late, load.token = session,
         load.what \in {"list", "more"}, load.what = "more" => Does("continues")
  PROVE  /\ Append(loads, load) \in Seq(LoadType)
         /\ Len(Append(loads, load)) = Len(loads) + 1
         /\ Append(loads, load)[Len(loads) + 1] = load
         /\ \A i \in DOMAIN Append(loads, load) : LoadOK(Append(loads, load)[i])
<1>1. loads \in Seq(LoadType)
  BY DEF ScreensTypeOK
<1>2. LoadOK(load)
  BY DEF LoadOK
<1>3. \A i \in DOMAIN loads : LoadOK(loads[i])
  BY DEF WaysOK
<1>4. /\ Append(loads, load) \in Seq(LoadType)
      /\ Len(Append(loads, load)) = Len(loads) + 1
      /\ Append(loads, load)[Len(loads) + 1] = load
      /\ \A i \in DOMAIN loads : Append(loads, load)[i] = loads[i]
      /\ DOMAIN Append(loads, load) = 1..(Len(loads) + 1)
  BY <1>1
<1>5. \A i \in 1..(Len(loads) + 1) : i = Len(loads) + 1 \/ i \in DOMAIN loads
  BY <1>1
<1> QED BY <1>2, <1>3, <1>4, <1>5

LEMMA JustAsked ==
  ASSUME loads' \in Seq(LoadType), Len(loads') > 0,
         loads'[Len(loads')].what \in {"list", "browse"},
         loads'[Len(loads')].key = key', loads'[Len(loads')].from = 0,
         ~loads'[Len(loads')].answered, ~loads'[Len(loads')].late
  PROVE  ShowOK'
<1> SUFFICES ASSUME NEW n, n = Len(loads')
             PROVE  ShowOK'
  OBVIOUS
<1>1. n \in DOMAIN loads'
  OBVIOUS
<1>2. AwaitedLast(n)'
  BY DEF AwaitedLast
<1> QED BY <1>1, <1>2 DEF ShowOK

LEMMA OthersChangeKeeps ==
  ASSUME PageShowsInv, NEW k \in Keys, OthersChange(k)
  PROVE  PageShowsInv'
<1>1. AgesOK' /\ ScreensTypeOK'
  BY ScreensAssumption DEF PageShowsInv, ScreensTypeOK, AgesOK, OthersChange, Change
<1>2. WaysOK'
  BY DEF PageShowsInv, WaysOK, LoadOK, Does, OthersChange
<1>3. ShowOK'
  BY DEF PageShowsInv, ShowOK, AwaitedLast, Rested, InOrder, TitlesOK, LateBut, Served, Does,
         OthersChange
<1> QED BY <1>1, <1>2, <1>3 DEF PageShowsInv

LEMMA SignedOutKeeps ==
  ASSUME PageShowsInv, SignedOutElsewhere
  PROVE  PageShowsInv'
<1>1. AgesOK' /\ ScreensTypeOK'
  BY DEF PageShowsInv, ScreensTypeOK, AgesOK, SignedOutElsewhere
<1>2. WaysOK'
  BY DEF PageShowsInv, WaysOK, LoadOK, Does, SignedOutElsewhere
<1>3. ShowOK'
  BY DEF PageShowsInv, ShowOK, AwaitedLast, Rested, InOrder, TitlesOK, LateBut, Served, Does,
         SignedOutElsewhere
<1> QED BY <1>1, <1>2, <1>3 DEF PageShowsInv

LEMMA AgainKeeps ==
  ASSUME PageShowsInv, NEW way \in {"retry", "poll"}, Again(way)
  PROVE  PageShowsInv'
<1> DEFINE load == Load("list", key, 0)
<1>1. ScreensTypeOK /\ WaysOK /\ AgesOK
  BY DEF PageShowsInv
<1>2. load \in LoadType
  BY <1>1, Loads, ScreensAssumption DEF ScreensTypeOK
<1>3. /\ load.what = "list" /\ load.key = key /\ load.from = 0 /\ load.token = session
      /\ ~load.answered /\ ~load.late
  BY DEF Load
<1>4. loads' = Append(loads, load)
  BY DEF Again, Begin, Reload
<1> HIDE DEF load
<1>5. /\ loads' \in Seq(LoadType) /\ Len(loads') = Len(loads) + 1
      /\ loads'[Len(loads')] = load /\ \A i \in DOMAIN loads' : LoadOK(loads'[i])
  BY <1>1, <1>2, <1>3, <1>4, Appended
<1>6. Len(loads) \in Nat /\ Len(loads) < MaxLoads
  BY <1>1 DEF ScreensTypeOK, Again, Room
<1>7. ~Does("guards")
  BY <1>1, WaysOfPages DEF Again, WaysOK, PollsNow, ScreensTypeOK
<1>8. ScreensTypeOK' /\ AgesOK'
  <2>1. err' \in BOOLEAN /\ loading' \in BOOLEAN /\ disturbed' \in BOOLEAN
    BY DEF Again, Begin
  <2> QED BY <1>1, <1>5, <1>6, <2>1, ScreensAssumption DEF ScreensTypeOK, AgesOK, Again
<1>9. WaysOK'
  BY <1>1, <1>5, <1>7 DEF WaysOK, LoadOK, Does, Again
<1>10. ShowOK'
  BY <1>3, <1>5, <1>6, JustAsked DEF Again
<1> QED BY <1>8, <1>9, <1>10 DEF PageShowsInv

LEMMA OwnChangeKeeps ==
  ASSUME PageShowsInv, NEW k \in Keys, OwnChange(k)
  PROVE  PageShowsInv'
<1> DEFINE of   == IF Does("carries") THEN k ELSE key
           load == Load("list", of, 0)
<1>1. ScreensTypeOK /\ WaysOK /\ AgesOK
  BY DEF PageShowsInv
<1>2. load \in LoadType
  <2>1. of \in Keys
    BY <1>1 DEF ScreensTypeOK
  <2>2. session \in BOOLEAN /\ 0 \in 0..MaxParts /\ "list" \in {"browse", "list", "more", "titles"}
    BY <1>1, ScreensAssumption DEF ScreensTypeOK
  <2> HIDE DEF of
  <2> QED BY <2>1, <2>2, Loads
<1>3. /\ load.what = "list" /\ load.key = of /\ load.from = 0 /\ load.token = session
      /\ ~load.answered /\ ~load.late
  BY DEF Load
<1>4. loads' = Append(loads, load) /\ (~disturbed' => of = key)
  BY DEF OwnChange, Begin, Reload, AfterSaving
<1> HIDE DEF load, of
<1>5. /\ loads' \in Seq(LoadType) /\ Len(loads') = Len(loads) + 1
      /\ loads'[Len(loads')] = load /\ \A i \in DOMAIN loads' : LoadOK(loads'[i])
  BY <1>1, <1>2, <1>3, <1>4, Appended
<1>6. Len(loads) \in Nat /\ Len(loads) < MaxLoads
  BY <1>1 DEF ScreensTypeOK, OwnChange, Room
<1>7. ~Does("guards")
  BY <1>1, WaysOfPages DEF OwnChange, ScreensTypeOK
<1>8. /\ changes' \in 0..MaxChanges /\ world' \in [Keys -> 0..MaxChanges]
      /\ mine' \in [Keys -> 0..MaxChanges] /\ AgesOK'
  BY <1>1, ScreensAssumption DEF ScreensTypeOK, AgesOK, OwnChange, Change
<1>9. ScreensTypeOK'
  <2>1. err' \in BOOLEAN /\ loading' \in BOOLEAN /\ disturbed' \in BOOLEAN
    BY DEF OwnChange, Begin
  <2> QED BY <1>1, <1>5, <1>6, <1>8, <2>1, ScreensAssumption DEF ScreensTypeOK, OwnChange
<1>10. WaysOK'
  BY <1>1, <1>5, <1>7 DEF WaysOK, LoadOK, Does, OwnChange
<1>11. ShowOK'
  <2>1. CASE disturbed'
    BY <2>1 DEF ShowOK
  <2>2. CASE ~disturbed'
    <3>1. load.key = key'
      BY <1>3, <1>4, <2>2 DEF OwnChange
    <3> QED BY <1>3, <1>5, <1>6, <3>1, JustAsked
  <2> QED BY <2>1, <2>2
<1> QED BY <1>8, <1>9, <1>10, <1>11 DEF PageShowsInv

LEMMA MoreKeeps ==
  ASSUME PageShowsInv, More
  PROVE  PageShowsInv'
<1> DEFINE load == Load("more", key, Len(shown))
<1>1. ScreensTypeOK /\ WaysOK /\ AgesOK /\ ShowOK
  BY DEF PageShowsInv
<1>2. load \in LoadType /\ Len(shown) \in Nat
  <2>1. Len(shown) \in 0..MaxParts
    BY <1>1, ScreensAssumption DEF ScreensTypeOK, More
  <2> QED BY <1>1, <2>1, Loads DEF ScreensTypeOK
<1>3. /\ load.what = "more" /\ load.key = key /\ load.from = Len(shown)
      /\ load.token = session /\ ~load.answered /\ ~load.late
  BY DEF Load
<1>4. loads' = Append(loads, load)
  BY DEF More
<1> HIDE DEF load
<1>5. /\ loads' \in Seq(LoadType) /\ Len(loads') = Len(loads) + 1
      /\ loads'[Len(loads')] = load /\ \A i \in DOMAIN loads' : LoadOK(loads'[i])
  BY <1>1, <1>2, <1>3, <1>4, Appended DEF More
<1>6. Len(loads) \in Nat /\ Len(loads) < MaxLoads
  BY <1>1 DEF ScreensTypeOK, More, Room
<1>7. ~Does("guards")
  BY <1>1, WaysOfPages DEF More, ScreensTypeOK
<1>8. ScreensTypeOK' /\ AgesOK'
  BY <1>1, <1>5, <1>6, ScreensAssumption DEF ScreensTypeOK, AgesOK, More
<1>9. WaysOK'
  BY <1>1, <1>5, <1>7 DEF WaysOK, LoadOK, Does, More
<1>10. ShowOK'
  <2>1. SUFFICES ASSUME ~disturbed', ~err'
                 PROVE  AwaitedLast(1)' /\ 1 \in DOMAIN loads'
    BY DEF ShowOK
  <2>2. ~disturbed /\ ~err /\ loads = <<>>
    BY <2>1 DEF More
  <2>3. InOrder
    BY <1>1, <2>2 DEF ShowOK, Rested
  <2>4. InOrder' /\ shown' = shown /\ key' = key
    BY <2>3 DEF InOrder, More, Served, Does
  <2>5. Len(loads') = 1 /\ loads'[1] = load
    BY <1>5, <2>2
  <2>6. AwaitedLast(1)'
    BY <1>3, <2>4, <2>5 DEF AwaitedLast
  <2> QED BY <1>5, <2>5, <2>6
<1> QED BY <1>8, <1>9, <1>10 DEF PageShowsInv

LEMMA SelectKeeps ==
  ASSUME PageShowsInv, NEW k \in Keys, Select(k)
  PROVE  PageShowsInv'
<1> DEFINE load == Load("list", k, 0)
<1>1. ScreensTypeOK /\ WaysOK /\ AgesOK
  BY DEF PageShowsInv
<1>2. load \in LoadType
  BY <1>1, Loads, ScreensAssumption DEF ScreensTypeOK
<1>3. /\ load.what = "list" /\ load.key = key' /\ load.from = 0 /\ load.token = session
      /\ ~load.answered /\ ~load.late
  BY DEF Load, Select
<1>4. loads' = IF ~Does("guards") THEN Append(loads, load)
               ELSE IF Browsing THEN <<loads[1], load>> ELSE <<load>>
  BY DEF Select, Begin, Reselected, Reload
<1> HIDE DEF load
<1>5. LoadOK(load)
  BY <1>3 DEF LoadOK
<1>6. loads \in Seq(LoadType) /\ Len(loads) \in Nat /\ Len(loads) < MaxLoads
  BY <1>1 DEF ScreensTypeOK, Select, Room
<1>7. /\ loads' \in Seq(LoadType) /\ Len(loads') \in 1..MaxLoads
      /\ loads'[Len(loads')] = load /\ \A i \in DOMAIN loads' : LoadOK(loads'[i])
  <2>1. CASE ~Does("guards")
    BY <1>1, <1>2, <1>3, <1>4, <1>6, <2>1, Appended, ScreensAssumption
  <2>2. CASE Does("guards") /\ Browsing
    <3>1. Len(loads) > 0 /\ loads[1] \in LoadType /\ LoadOK(loads[1])
      BY <1>1, <1>6, <2>2 DEF Browsing, WaysOK
    <3>2. loads' = <<loads[1], load>>
      BY <1>4, <2>2
    <3> QED BY <1>2, <1>5, <1>6, <3>1, <3>2, ScreensAssumption
  <2>3. CASE Does("guards") /\ ~Browsing
    <3>1. loads' = <<load>>
      BY <1>4, <2>3
    <3> QED BY <1>2, <1>5, <3>1, ScreensAssumption
  <2> QED BY <2>1, <2>2, <2>3
<1>8. ScreensTypeOK' /\ AgesOK'
  <2>1. err' \in BOOLEAN /\ loading' \in BOOLEAN /\ disturbed' \in BOOLEAN
    BY DEF Select, Begin
  <2> QED BY <1>1, <1>7, <2>1, ScreensAssumption DEF ScreensTypeOK, AgesOK, Select
<1>9. WaysOK'
  <2>1. Does("guards") /\ ~Does("browses") => Len(loads') <= 1 /\ loads' = <<load>>
    <3>1. Browsing => Does("browses")
      BY <1>1, <1>6 DEF Browsing, WaysOK, LoadOK
    <3> QED BY <1>4, <3>1
  <2>2. Does("guards") /\ ~Does("browses") =>
          ~disturbed' /\ Len(loads') <= 1 /\ \A i \in DOMAIN loads' : ~loads'[i].late
    <3> SUFFICES ASSUME Does("guards"), ~Does("browses")
                 PROVE  ~disturbed' /\ Len(loads') <= 1 /\ \A i \in DOMAIN loads' : ~loads'[i].late
      OBVIOUS
    <3>1. ~disturbed'
      BY <1>1 DEF WaysOK, Select, Begin
    <3>2. \A i \in DOMAIN loads' : i = 1 /\ loads'[i] = load
      BY <2>1
    <3> QED BY <1>3, <2>1, <3>1, <3>2
  <2> QED BY <1>1, <1>7, <2>2 DEF WaysOK, LoadOK, Does, Select, Begin
<1>10. ShowOK'
  BY <1>3, <1>7, JustAsked
<1> QED BY <1>8, <1>9, <1>10 DEF PageShowsInv

(* What is left of the requests under way when load i is over: where the    *)
(* one now at j was before.                                                 *)
Old(i, j) == IF j < i THEN j ELSE j + 1

LEMMA Dropped ==
  ASSUME ScreensTypeOK, NEW i \in DOMAIN loads, NEW s, s \in {loads, Overtaken(i)}
  PROVE  /\ RemoveAt(s, i) \in Seq(LoadType)
         /\ Len(RemoveAt(s, i)) = Len(loads) - 1
         /\ \A j \in 1..(Len(loads) - 1) :
              /\ Old(i, j) \in DOMAIN loads /\ Old(i, j) # i
              /\ RemoveAt(s, i)[j].what = loads[Old(i, j)].what
              /\ RemoveAt(s, i)[j].key = loads[Old(i, j)].key
              /\ RemoveAt(s, i)[j].from = loads[Old(i, j)].from
              /\ RemoveAt(s, i)[j].token = loads[Old(i, j)].token
              /\ RemoveAt(s, i)[j].answered = loads[Old(i, j)].answered
              /\ RemoveAt(s, i)[j].ver = loads[Old(i, j)].ver
              /\ loads[Old(i, j)].late => RemoveAt(s, i)[j].late
              /\ Old(i, j) > i => (RemoveAt(s, i)[j].late <=> loads[Old(i, j)].late)
              /\ s = loads => (RemoveAt(s, i)[j].late <=> loads[Old(i, j)].late)
              /\ s = Overtaken(i) => (j < i => RemoveAt(s, i)[j].late)
<1>1. loads \in Seq(LoadType) /\ Len(loads) \in Nat /\ i \in 1..Len(loads)
  BY DEF ScreensTypeOK
<1>2. s \in Seq(LoadType) /\ Len(s) = Len(loads) /\ i \in DOMAIN s
  BY <1>1, OvertakenAre
<1>3. /\ RemoveAt(s, i) \in Seq(LoadType) /\ Len(RemoveAt(s, i)) = Len(loads) - 1
      /\ \A j \in 1..(Len(loads) - 1) : RemoveAt(s, i)[j] = IF j < i THEN s[j] ELSE s[j + 1]
  BY <1>2, WithoutOne
<1>4. ASSUME NEW j \in DOMAIN loads
      PROVE  /\ s[j].what = loads[j].what /\ s[j].key = loads[j].key
             /\ s[j].from = loads[j].from /\ s[j].token = loads[j].token
             /\ s[j].answered = loads[j].answered /\ s[j].ver = loads[j].ver
             /\ s = loads => (s[j].late <=> loads[j].late)
             /\ s = Overtaken(i) => (s[j].late <=> loads[j].late \/ j < i)
  BY OvertakenAre
<1>5. ASSUME NEW j \in 1..(Len(loads) - 1)
      PROVE  /\ Old(i, j) \in DOMAIN loads /\ Old(i, j) # i
             /\ RemoveAt(s, i)[j] = s[Old(i, j)]
             /\ (Old(i, j) < i <=> j < i)
  BY <1>1, <1>3 DEF Old
<1> QED
  <2> SUFFICES ASSUME NEW j \in 1..(Len(loads) - 1), NEW old,
                      old = Old(i, j)
               PROVE  /\ old \in DOMAIN loads /\ old # i
                      /\ RemoveAt(s, i)[j].what = loads[old].what
                      /\ RemoveAt(s, i)[j].key = loads[old].key
                      /\ RemoveAt(s, i)[j].from = loads[old].from
                      /\ RemoveAt(s, i)[j].token = loads[old].token
                      /\ RemoveAt(s, i)[j].answered = loads[old].answered
                      /\ RemoveAt(s, i)[j].ver = loads[old].ver
                      /\ loads[old].late => RemoveAt(s, i)[j].late
                      /\ old > i => (RemoveAt(s, i)[j].late <=> loads[old].late)
                      /\ s = loads => (RemoveAt(s, i)[j].late <=> loads[old].late)
                      /\ s = Overtaken(i) => (j < i => RemoveAt(s, i)[j].late)
    BY <1>3
  <2>1. /\ old \in DOMAIN loads /\ old # i /\ RemoveAt(s, i)[j] = s[old]
        /\ (old < i <=> j < i)
    BY <1>5
  <2>2. old > i => ~(old < i)
    BY <1>1, <2>1
  <2> QED BY <1>4, <2>1, <2>2

LEMMA StillAwaited ==
  ASSUME PageShowsInv, NEW i \in DOMAIN loads, NEW s \in {loads, Overtaken(i)},
         loads' = RemoveAt(s, i), NEW n \in DOMAIN loads, AwaitedLast(n), n # i,
         UNCHANGED <<page, key, mine>>,
         loads[n].what = "titles" => shown' = shown
  PROVE  ShowOK'
<1> DEFINE m == n - 1
<1>1. ScreensTypeOK /\ n \in 1..Len(loads) /\ Len(loads) \in Nat /\ n = Len(loads)
  BY DEF PageShowsInv, ScreensTypeOK, AwaitedLast
<1>2. i \in 1..Len(loads) /\ i < n
  BY <1>1
<1>3. Len(loads') = m /\ m \in 1..m /\ m = Len(loads) - 1 /\ ~(m < i) /\ m + 1 = n
  BY <1>1, <1>2, Dropped
<1>4. loads' \in Seq(LoadType)
  BY <1>1, Dropped
<1>5. /\ loads'[m].what = loads[n].what /\ loads'[m].key = loads[n].key
      /\ loads'[m].from = loads[n].from /\ loads'[m].answered = loads[n].answered
      /\ loads'[m].ver = loads[n].ver /\ (loads'[m].late <=> loads[n].late)
  <2>1. Old(i, m) = n
    BY <1>3 DEF Old
  <2> QED BY <1>1, <1>2, <1>3, <2>1, Dropped
<1>6. loads[n].what = "titles" => \A j \in 1..m : j # m => loads'[j].late
  <2> SUFFICES ASSUME loads[n].what = "titles", NEW j \in 1..m, j # m
               PROVE  loads'[j].late
    OBVIOUS
  <2> DEFINE old == Old(i, j)
  <2>1. old \in DOMAIN loads /\ old # n
    BY <1>1, <1>2, <1>3 DEF Old
  <2>2. loads[old].late
    BY <2>1 DEF AwaitedLast, LateBut
  <2> QED BY <1>1, <1>3, <2>2, Dropped
<1>7. loads[n].what # "more"
  BY <1>1, <1>2 DEF AwaitedLast
<1> HIDE DEF m
<1>8. loads[n].what = "titles" => InOrder'
  BY DEF AwaitedLast, InOrder, Served, Does
<1>9. loads[n].what = "titles" => LateBut(m)'
  BY <1>3, <1>4, <1>6 DEF LateBut
<1>10. loads'[m].answered /\ loads'[m].what # "titles" => loads'[m].ver >= Served(mine[key])'
  BY <1>5 DEF AwaitedLast, Served, Does
<1>11. AwaitedLast(m)'
  BY <1>3, <1>5, <1>7, <1>8, <1>9, <1>10 DEF AwaitedLast
<1> QED BY <1>3, <1>4, <1>11 DEF ShowOK

LEMMA NoneAwaited ==
  ASSUME ScreensTypeOK, NEW i \in DOMAIN loads, NEW s \in {loads, Overtaken(i)},
         loads' = RemoveAt(s, i), LateBut(i) \/ (s = Overtaken(i) /\ i = Len(loads))
  PROVE  LateBut(0)'
<1> SUFFICES ASSUME NEW j \in DOMAIN loads'
             PROVE  loads'[j].late
  BY DEF LateBut
<1>1. loads' \in Seq(LoadType) /\ Len(loads') = Len(loads) - 1 /\ j \in 1..(Len(loads) - 1)
  BY Dropped
<1> DEFINE old == Old(i, j)
<1>2. CASE LateBut(i)
  <2>1. old \in DOMAIN loads /\ old # i /\ (loads[old].late => loads'[j].late)
    BY <1>1, Dropped
  <2> QED BY <1>2, <2>1 DEF LateBut
<1>3. CASE s = Overtaken(i) /\ i = Len(loads)
  <2>1. j < i
    BY <1>1, <1>3
  <2> QED BY <1>1, <1>3, <2>1, Dropped
<1> QED BY <1>2, <1>3

LEMMA DroppedWays ==
  ASSUME ScreensTypeOK, WaysOK, NEW i \in DOMAIN loads, NEW s \in {loads, Overtaken(i)},
         loads' = RemoveAt(s, i), UNCHANGED <<page, session>>
  PROVE  /\ loads' \in Seq(LoadType) /\ Len(loads') <= MaxLoads
         /\ (\A j \in DOMAIN loads : LoadOK(loads[j]))'
         /\ Len(loads) <= 1 => DOMAIN loads' = {} /\ Len(loads') <= 1
<1>1. loads' \in Seq(LoadType) /\ Len(loads') = Len(loads) - 1
  BY Dropped
<1>2. loads \in Seq(LoadType) /\ Len(loads) \in Nat /\ Len(loads) <= MaxLoads
  BY DEF ScreensTypeOK
<1>3. ASSUME NEW j \in DOMAIN loads'
      PROVE  LoadOK(loads[j])'
  <2> DEFINE old == Old(i, j)
  <2>1. j \in 1..(Len(loads) - 1)
    BY <1>1
  <2>2. old \in DOMAIN loads
    BY <2>1, Dropped
  <2>3. loads'[j].what = loads[old].what
    BY <2>1, Dropped
  <2>4. loads'[j].token = loads[old].token
    BY <2>1, Dropped
  <2>5. LoadOK(loads[old])
    BY <2>2 DEF WaysOK
  <2> HIDE DEF old
  <2> QED BY <2>3, <2>4, <2>5 DEF LoadOK, Does
<1> QED BY <1>1, <1>2, <1>3, ScreensAssumption

LEMMA ServeKeeps ==
  ASSUME PageShowsInv, NEW i \in DOMAIN loads, Serve(i)
  PROVE  PageShowsInv'
<1> DEFINE age == Served(world[loads[i].key])
<1>1. ScreensTypeOK /\ AgesOK /\ WaysOK /\ ShowOK /\ loads \in Seq(LoadType)
  BY DEF PageShowsInv, ScreensTypeOK
<1>2. loads[i] \in LoadType /\ loads[i].key \in Keys
  <2>1. loads[i] \in LoadType
    BY <1>1
  <2> QED BY <2>1 DEF LoadType
<1>3. age \in 0..MaxChanges
  BY <1>1, <1>2, Serves DEF ScreensTypeOK
<1>4. loads' = [loads EXCEPT ![i].answered = TRUE, ![i].ver = age]
  BY DEF Serve
<1>5. loads[i].key = key => age >= Served(mine[key])
  <2>1. mine[key] \in 0..MaxChanges /\ world[key] \in 0..MaxChanges /\ mine[key] <= world[key]
    BY <1>1 DEF ScreensTypeOK, AgesOK
  <2>2. /\ Served(mine[key]) \in 0..MaxChanges /\ Served(world[key]) \in 0..MaxChanges
        /\ Served(mine[key]) <= Served(world[key])
    BY <2>1, Serves
  <2> QED BY <2>2, ScreensAssumption
<1> HIDE DEF age
<1>6. /\ loads' \in Seq(LoadType) /\ Len(loads') = Len(loads) /\ DOMAIN loads' = DOMAIN loads
      /\ \A j \in DOMAIN loads :
           /\ loads'[j].what = loads[j].what /\ loads'[j].key = loads[j].key
           /\ loads'[j].from = loads[j].from /\ loads'[j].token = loads[j].token
           /\ (loads'[j].late <=> loads[j].late)
      /\ \A j \in DOMAIN loads : j # i => loads'[j] = loads[j]
      /\ loads'[i].ver = age
  <2>1. [loads[i] EXCEPT !.answered = TRUE, !.ver = age] \in LoadType
    BY <1>2, <1>3 DEF LoadType
  <2>2. loads' = [loads EXCEPT ![i] = [loads[i] EXCEPT !.answered = TRUE, !.ver = age]]
    BY <1>4
  <2>3. loads' \in Seq(LoadType) /\ Len(loads') = Len(loads) /\ DOMAIN loads' = DOMAIN loads
    BY <1>1, <2>1, <2>2
  <2>4. \A j \in DOMAIN loads : j # i => loads'[j] = loads[j]
    BY <2>2
  <2>5. loads'[i] = [loads[i] EXCEPT !.answered = TRUE, !.ver = age]
    BY <1>1, <2>2
  <2>6. /\ loads'[i].what = loads[i].what /\ loads'[i].key = loads[i].key
        /\ loads'[i].from = loads[i].from /\ loads'[i].token = loads[i].token
        /\ loads'[i].late = loads[i].late /\ loads'[i].ver = age
    BY <1>2, <2>5 DEF LoadType
  <2>7. ASSUME NEW j \in DOMAIN loads
        PROVE  /\ loads'[j].what = loads[j].what /\ loads'[j].key = loads[j].key
               /\ loads'[j].from = loads[j].from /\ loads'[j].token = loads[j].token
               /\ (loads'[j].late <=> loads[j].late)
    BY <2>4, <2>6
  <2> QED BY <2>3, <2>4, <2>6, <2>7
<1>7. ScreensTypeOK' /\ AgesOK'
  BY <1>1, <1>6 DEF ScreensTypeOK, AgesOK, Serve
<1>8. WaysOK'
  BY <1>1, <1>6 DEF WaysOK, LoadOK, Does, Serve
<1>9. ShowOK'
  <2>1. SUFFICES ASSUME ~disturbed', ~err'
                 PROVE  (\E n \in DOMAIN loads' : AwaitedLast(n)') \/ Rested'
    BY DEF ShowOK
  <2>2. (\E n \in DOMAIN loads : AwaitedLast(n)) \/ Rested
    BY <1>1, <2>1 DEF ShowOK, Serve
  <2>3. \A n : LateBut(n) => LateBut(n)'
    BY <1>6 DEF LateBut
  <2>4. (InOrder => InOrder') /\ (TitlesOK => TitlesOK')
    BY DEF InOrder, TitlesOK, Served, Does, Serve
  <2>5. CASE Rested
    BY <2>3, <2>4, <2>5 DEF Rested
  <2>6. ASSUME NEW n \in DOMAIN loads, AwaitedLast(n)
        PROVE  AwaitedLast(n)'
    <3>1. loads'[n].answered /\ loads'[n].what # "titles" => loads'[n].ver >= Served(mine[key])'
      <4>1. Served(mine[key])' = Served(mine[key])
        BY DEF Served, Does, Serve
      <4>2. CASE n = i
        BY <1>5, <1>6, <2>6, <4>1, <4>2 DEF AwaitedLast
      <4>3. CASE n # i
        BY <1>6, <2>6, <4>1, <4>3 DEF AwaitedLast
      <4> QED BY <4>2, <4>3
    <3>2. LateBut(n) => LateBut(n)'
      BY <2>3
    <3>3. key' = key /\ shown' = shown
      BY DEF Serve
    <3> QED BY <1>6, <2>4, <2>6, <3>1, <3>2, <3>3 DEF AwaitedLast
  <2> QED BY <1>6, <2>2, <2>5, <2>6
<1> QED BY <1>7, <1>8, <1>9 DEF PageShowsInv

LEMMA FailKeeps ==
  ASSUME PageShowsInv, NEW i \in DOMAIN loads, Fail(i)
  PROVE  PageShowsInv'
<1> DEFINE s == IF Does("empties") THEN Overtaken(i) ELSE loads
<1>1. ScreensTypeOK /\ AgesOK /\ WaysOK /\ ShowOK /\ loads \in Seq(LoadType)
  BY DEF PageShowsInv, ScreensTypeOK
<1>2. loads' = RemoveAt(s, i) /\ s \in {loads, Overtaken(i)}
  BY DEF Fail
<1>3. UNCHANGED <<page, key, mine, session, disturbed, world, changes>>
  BY DEF Fail
<1>4. /\ loads' \in Seq(LoadType) /\ Len(loads') <= MaxLoads
      /\ (\A j \in DOMAIN loads : LoadOK(loads[j]))'
      /\ Len(loads) <= 1 => DOMAIN loads' = {} /\ Len(loads') <= 1
  <2> HIDE DEF s
  <2> QED BY <1>1, <1>2, <1>3, DroppedWays
<1>5. /\ Does("guards") => Does("empties") /\ ~Does("continues")
      /\ Does("titled") => ~Does("empties") /\ ~Does("continues")
      /\ Does("empties") => Does("guards")
  BY <1>1, WaysOfPages DEF ScreensTypeOK
<1>6. ScreensTypeOK' /\ AgesOK'
  <2>1. shown' \in Seq(PartType) /\ titles' \in Keys \cup {Nothing} /\ fails' \in 0..MaxFailures
    BY <1>1, ScreensAssumption DEF ScreensTypeOK, Fail
  <2>2. err' \in BOOLEAN /\ loading' \in BOOLEAN
    BY DEF Fail
  <2> QED BY <1>1, <1>3, <1>4, <2>1, <2>2 DEF ScreensTypeOK, AgesOK
<1>7. WaysOK'
  <2>1. ~Does("titled") => titles' = Nothing
    BY <1>1 DEF WaysOK, Fail
  <2>2. Does("guards") => ~err'
    BY <1>1, <1>5 DEF WaysOK, Fail
  <2> QED BY <1>1, <1>3, <1>4, <2>1, <2>2 DEF WaysOK, Does
<1>8. ShowOK'
  <2>1. SUFFICES ASSUME ~disturbed', ~err'
                 PROVE  ShowOK'
    BY DEF ShowOK
  <2>2. ~disturbed /\ ~err /\ (loads[i].what = "titles" \/ Does("empties"))
    <3>1. err' = (err \/ (loads[i].what # "titles" /\ ~Does("empties")))
      BY DEF Fail
    <3> QED BY <1>3, <2>1, <3>1
  <2>3. (\E n \in DOMAIN loads : AwaitedLast(n)) \/ Rested
    BY <1>1, <2>2 DEF ShowOK
  <2>4. TitlesOK' /\ (Does("titled") \/ loads[i].what # "titles")
    <3>1. Does("titled") \/ titles = Nothing
      BY <1>1 DEF WaysOK
    <3>2. loads[i].what = "titles" => Does("titled")
      BY <1>1 DEF WaysOK, LoadOK
    <3>3. titles' = Nothing
      BY <1>5, <2>2, <3>1, <3>2 DEF Fail
    <3> QED BY <3>2, <3>3 DEF TitlesOK
  <2>5. CASE Rested
    <3>1. InOrder' /\ LateBut(i)
      BY <1>3, <2>5 DEF Rested, InOrder, LateBut, Fail, Served, Does
    <3>2. LateBut(0)'
      <4> HIDE DEF s
      <4> QED BY <1>1, <1>2, <3>1, NoneAwaited
    <3> QED BY <2>4, <3>1, <3>2 DEF ShowOK, Rested
  <2>6. ASSUME NEW n \in DOMAIN loads, AwaitedLast(n), n = i
        PROVE  ShowOK'
    <3>1. InOrder'
      <4>1. CASE Does("empties")
        BY <4>1 DEF InOrder, Fail
      <4>2. CASE ~Does("empties")
        BY <1>3, <2>2, <2>6, <4>2 DEF AwaitedLast, InOrder, Fail, Served, Does
      <4> QED BY <4>1, <4>2
    <3>2. LateBut(i) \/ (s = Overtaken(i) /\ i = Len(loads))
      BY <2>2, <2>6 DEF AwaitedLast
    <3>3. LateBut(0)'
      <4> HIDE DEF s
      <4> QED BY <1>1, <1>2, <3>2, NoneAwaited
    <3> QED BY <2>4, <3>1, <3>3 DEF ShowOK, Rested
  <2>7. ASSUME NEW n \in DOMAIN loads, AwaitedLast(n), n # i
        PROVE  ShowOK'
    <3>1. loads[n].what = "titles" => shown' = shown
      <4>1. loads[n].what = "titles" => Does("titled")
        BY <1>1 DEF WaysOK, LoadOK
      <4> QED BY <1>5, <4>1 DEF Fail
    <3> HIDE DEF s
    <3> QED BY <1>2, <1>3, <2>7, <3>1, StillAwaited
  <2> QED BY <2>3, <2>5, <2>6, <2>7
<1> QED BY <1>6, <1>7, <1>8 DEF PageShowsInv

(* What load i leaves under way when its reply comes: the titles in its     *)
(* place, or nothing.                                                       *)
LEMMA ArriveKeeps ==
  ASSUME PageShowsInv, NEW i \in DOMAIN loads, Arrive(i)
  PROVE  PageShowsInv'
<1> DEFINE s == Overtaken(i)
           next == [Load("titles", loads[i].key, 0) EXCEPT !.late = loads[i].late]
<1>1. ScreensTypeOK /\ AgesOK /\ WaysOK /\ ShowOK /\ loads \in Seq(LoadType)
  BY DEF PageShowsInv, ScreensTypeOK
<1>2. loads[i] \in LoadType /\ loads[i].answered /\ LoadOK(loads[i])
  <2>1. loads[i] \in LoadType
    BY <1>1
  <2> QED BY <1>1, <2>1 DEF WaysOK, Arrive
<1>3. UNCHANGED <<page, world, changes, key, err, session, mine, fails>>
  BY DEF Arrive
<1>4. /\ Does("guards") => ~Does("titled")
      /\ Does("titled") => ~Does("continues") /\ ~Does("browses")
  BY <1>1, WaysOfPages DEF ScreensTypeOK
<1>5. next \in LoadType /\ next.what = "titles" /\ next.key = loads[i].key
      /\ next.token = session /\ ~next.answered /\ (next.late <=> loads[i].late)
  <2>1. loads[i].key \in Keys /\ loads[i].late \in BOOLEAN
    BY <1>2 DEF LoadType
  <2>2. 0 \in 0..MaxParts /\ 0 \in 0..MaxChanges /\ session \in BOOLEAN
    BY <1>1, ScreensAssumption DEF ScreensTypeOK
  <2>3. Load("titles", loads[i].key, 0) \in LoadType
    BY <2>1, <2>2, Loads
  <2>4. next \in LoadType
    BY <2>1, <2>3 DEF LoadType
  <2>5. /\ next.what = Load("titles", loads[i].key, 0).what
        /\ next.key = Load("titles", loads[i].key, 0).key
        /\ next.token = Load("titles", loads[i].key, 0).token
        /\ next.answered = Load("titles", loads[i].key, 0).answered
        /\ next.late = loads[i].late
    BY <2>3 DEF LoadType
  <2> QED BY <2>4, <2>5 DEF Load
<1>6. s \in Seq(LoadType) /\ Len(s) = Len(loads) /\ s \in {loads, Overtaken(i)}
  BY <1>1, OvertakenAre
<1>7. \/ FollowedByTitles(loads[i]) /\ loads' = [s EXCEPT ![i] = next]
      \/ ~FollowedByTitles(loads[i]) /\ loads' = RemoveAt(s, i)
  BY DEF Arrive
<1> HIDE DEF next
<1>8. ASSUME FollowedByTitles(loads[i])
      PROVE  /\ loads' \in Seq(LoadType) /\ Len(loads') = Len(loads)
             /\ loads'[i] = next
             /\ \A j \in DOMAIN loads : j # i => loads'[j] = s[j]
  BY <1>1, <1>5, <1>6, <1>7, <1>8
<1>9. /\ loads' \in Seq(LoadType) /\ Len(loads') <= MaxLoads
      /\ (\A j \in DOMAIN loads : LoadOK(loads[j]))'
      /\ Does("guards") /\ Len(loads) <= 1 => DOMAIN loads' = {} /\ Len(loads') <= 1
  <2>1. CASE FollowedByTitles(loads[i])
    <3>1. Does("titled") /\ ~Does("guards")
      BY <1>4, <2>1 DEF FollowedByTitles
    <3>2. ASSUME NEW j \in DOMAIN loads'
          PROVE  LoadOK(loads[j])'
      <4>1. j \in DOMAIN loads
        BY <1>1, <1>8, <2>1
      <4>2. CASE j = i
        BY <1>3, <1>5, <1>8, <2>1, <3>1, <4>2 DEF LoadOK, Does
      <4>3. CASE j # i
        <5>1. loads'[j].what = loads[j].what /\ loads'[j].token = loads[j].token
          BY <1>1, <1>8, <2>1, <4>1, <4>3, OvertakenAre
        <5>2. LoadOK(loads[j])
          BY <1>1, <4>1 DEF WaysOK
        <5> QED BY <1>3, <5>1, <5>2 DEF LoadOK, Does
      <4> QED BY <4>2, <4>3
    <3> QED BY <1>1, <1>8, <2>1, <3>1, <3>2 DEF ScreensTypeOK
  <2>2. CASE ~FollowedByTitles(loads[i])
    <3> HIDE DEF s
    <3> QED BY <1>1, <1>3, <1>6, <1>7, <2>2, DroppedWays
  <2> QED BY <2>1, <2>2
<1>10. ScreensTypeOK' /\ AgesOK'
  <2>1. shown' \in Seq(PartType)
    <3>1. Part(loads[i]) \in PartType
      BY <1>2 DEF Part, PartType, LoadType
    <3> QED BY <1>1, <1>2, <3>1 DEF ScreensTypeOK, Arrive, ShownAfter, LoadType
  <2>2. titles' \in Keys \cup {Nothing}
    BY <1>1, <1>2 DEF ScreensTypeOK, Arrive, LoadType
  <2>3. loading' \in BOOLEAN /\ disturbed' \in BOOLEAN
    BY <1>1 DEF Arrive, ScreensTypeOK
  <2> QED BY <1>1, <1>3, <1>9, <2>1, <2>2, <2>3 DEF ScreensTypeOK, AgesOK
<1>11. WaysOK'
  <2>1. ~Does("titled") => titles' = Nothing
    BY <1>1, <1>2 DEF WaysOK, LoadOK, Arrive
  <2>2. Does("guards") /\ ~Does("browses") => ~disturbed' /\ Len(loads) <= 1
    <3>1. disturbed' = (disturbed \/ loads[i].late)
      BY DEF Arrive
    <3> QED BY <1>1, <3>1 DEF WaysOK
  <2> QED BY <1>1, <1>3, <1>9, <2>1, <2>2 DEF WaysOK, Does
<1>12. ShowOK'
  <2>1. SUFFICES ASSUME ~disturbed', ~err'
                 PROVE  ShowOK'
    BY DEF ShowOK
  <2>2. ~disturbed /\ ~err /\ ~loads[i].late
    <3>1. disturbed' = (disturbed \/ loads[i].late)
      BY DEF Arrive
    <3> QED BY <1>3, <2>1, <3>1
  <2>3. PICK n \in DOMAIN loads : AwaitedLast(n)
    <3>1. ~Rested
      BY <1>1, <2>2 DEF Rested, LateBut
    <3> QED BY <1>1, <2>2, <3>1 DEF ShowOK
  <2>4. CASE n = i
    <3>1. InOrder'
      <4>1. CASE loads[i].what \in {"list", "browse"}
        <5>1. shown' = <<Part(loads[i])>>
          BY <4>1 DEF Arrive, ShownAfter
        <5>2. /\ Part(loads[i]).key = key /\ Part(loads[i]).from = 0
              /\ Part(loads[i]).ver >= Served(mine[key])
          BY <1>2, <2>3, <2>4, <4>1 DEF AwaitedLast, Part
        <5> QED BY <1>3, <5>1, <5>2 DEF InOrder, Served, Does
      <4>2. CASE loads[i].what = "more"
        <5>1. shown' = Append(shown, Part(loads[i])) /\ shown \in Seq(PartType)
          BY <1>1, <4>2 DEF Arrive, ShownAfter, ScreensTypeOK
        <5>2. /\ Part(loads[i]).key = key /\ Part(loads[i]).from = Len(shown)
              /\ Part(loads[i]).ver >= Served(mine[key]) /\ InOrder
          BY <1>2, <2>3, <2>4, <4>2 DEF AwaitedLast, Part
        <5>3. Part(loads[i]) \in PartType
          BY <1>2 DEF Part, PartType, LoadType
        <5> HIDE DEF Part
        <5>4. ASSUME NEW j \in DOMAIN shown'
              PROVE  /\ shown'[j].key = key /\ shown'[j].from = j - 1
                     /\ shown'[j].ver >= Served(mine[key])
          <6>1. j \in 1..(Len(shown) + 1)
            BY <5>1, <5>3
          <6>2. CASE j = Len(shown) + 1
            BY <5>1, <5>2, <5>3, <6>2
          <6>3. CASE j # Len(shown) + 1
            <7>1. j \in DOMAIN shown /\ shown'[j] = shown[j]
              BY <5>1, <5>3, <6>1, <6>3
            <7> QED BY <5>2, <7>1 DEF InOrder
          <6> QED BY <6>2, <6>3
        <5> QED BY <1>3, <5>4 DEF InOrder, Served, Does
      <4>3. CASE loads[i].what = "titles"
        <5>1. InOrder /\ shown' = shown
          BY <2>3, <2>4, <4>3 DEF AwaitedLast, Arrive, ShownAfter
        <5> QED BY <1>3, <5>1 DEF InOrder, Served, Does
      <4> QED BY <1>2, <4>1, <4>2, <4>3 DEF LoadType
    <3>2. CASE FollowedByTitles(loads[i])
      <4>1. loads'[n].what = "titles" /\ loads'[n].key = key' /\ ~loads'[n].answered
            /\ ~loads'[n].late /\ n = Len(loads') /\ n \in DOMAIN loads'
        BY <1>1, <1>3, <1>5, <1>8, <2>2, <2>3, <2>4, <3>2 DEF AwaitedLast
      <4>2. ASSUME NEW j \in DOMAIN loads', j # n
            PROVE  loads'[j].late
        <5>1. j \in DOMAIN loads /\ j < i
          BY <1>1, <1>8, <2>3, <2>4, <3>2, <4>2 DEF AwaitedLast
        <5> QED BY <1>1, <1>8, <2>4, <3>2, <4>2, <5>1, OvertakenAre
      <4>3. LateBut(n)'
        BY <4>2 DEF LateBut
      <4>4. AwaitedLast(n)'
        BY <3>1, <4>1, <4>3 DEF AwaitedLast
      <4> QED BY <4>1, <4>4 DEF ShowOK
    <3>3. CASE ~FollowedByTitles(loads[i])
      <4>1. i = Len(loads)
        BY <2>3, <2>4 DEF AwaitedLast
      <4>2. LateBut(0)'
        BY <1>1, <1>6, <1>7, <3>3, <4>1, NoneAwaited
      <4>3. TitlesOK'
        <5>1. CASE loads[i].what = "titles"
          <6>1. titles' = loads[i].key /\ loads[i].key = key
            BY <2>3, <2>4, <5>1 DEF Arrive, AwaitedLast
          <6> QED BY <1>3, <6>1 DEF TitlesOK
        <5>2. CASE loads[i].what # "titles"
          <6>1. titles' = titles
            BY <5>2 DEF Arrive
          <6>2. CASE Does("titled")
            <7>1. loads[i].what = "list"
              BY <1>2, <1>4, <5>2, <6>2 DEF LoadOK, LoadType
            <7>2. ~session
              BY <1>2, <3>3, <6>2, <7>1 DEF LoadOK, FollowedByTitles
            <7> QED BY <1>3, <7>2 DEF TitlesOK
          <6>3. CASE ~Does("titled")
            BY <1>1, <6>1, <6>3 DEF WaysOK, TitlesOK
          <6> QED BY <6>2, <6>3
        <5> QED BY <5>1, <5>2
      <4> QED BY <3>1, <4>2, <4>3 DEF ShowOK, Rested
    <3> QED BY <3>2, <3>3
  <2>5. CASE n # i
    <3>1. loads[n].what # "titles"
      BY <2>2, <2>3, <2>5 DEF AwaitedLast, LateBut
    <3>2. CASE FollowedByTitles(loads[i])
      <4>1. n = Len(loads) /\ n \in DOMAIN loads' /\ Len(loads') = Len(loads) /\ ~(n < i)
        BY <1>1, <1>8, <2>3, <3>2 DEF AwaitedLast
      <4>2. /\ loads'[n].what = loads[n].what /\ loads'[n].key = loads[n].key
            /\ loads'[n].from = loads[n].from /\ loads'[n].answered = loads[n].answered
            /\ loads'[n].ver = loads[n].ver /\ (loads'[n].late <=> loads[n].late)
        BY <1>1, <1>8, <2>3, <2>5, <3>2, <4>1, OvertakenAre
      <4>3. loads[n].what # "more"
        BY <1>1, <2>3, <2>5, <4>1 DEF AwaitedLast
      <4>4. loads'[n].answered /\ loads'[n].what # "titles" => loads'[n].ver >= Served(mine[key])'
        BY <1>3, <2>3, <4>2 DEF AwaitedLast, Served, Does
      <4>5. AwaitedLast(n)'
        BY <1>3, <2>3, <3>1, <4>1, <4>2, <4>3, <4>4 DEF AwaitedLast
      <4> QED BY <4>1, <4>5 DEF ShowOK
    <3>3. CASE ~FollowedByTitles(loads[i])
      <4> HIDE DEF s
      <4> QED BY <1>3, <1>6, <1>7, <2>3, <2>5, <3>1, <3>3, StillAwaited
    <3> QED BY <3>2, <3>3
  <2> QED BY <2>4, <2>5
<1> QED BY <1>10, <1>11, <1>12 DEF PageShowsInv

LEMMA ScreensStep == PageShowsInv /\ [ScreensNext]_screensVars => PageShowsInv'
<1> SUFFICES ASSUME PageShowsInv, [ScreensNext]_screensVars
             PROVE  PageShowsInv'
  OBVIOUS
<1>1. ASSUME NEW k \in Keys, Select(k) \/ OthersChange(k) \/ OwnChange(k)
      PROVE  PageShowsInv'
  BY <1>1, SelectKeeps, OthersChangeKeeps, OwnChangeKeeps
<1>2. ASSUME NEW way \in {"retry", "poll"}, Again(way)
      PROVE  PageShowsInv'
  BY <1>2, AgainKeeps
<1>3. ASSUME More \/ SignedOutElsewhere
      PROVE  PageShowsInv'
  BY <1>3, MoreKeeps, SignedOutKeeps
<1>4. ASSUME NEW i \in 1..MaxLoads, Reply(i)
      PROVE  PageShowsInv'
  BY <1>4, ServeKeeps, ArriveKeeps, FailKeeps DEF Reply
<1>5. CASE UNCHANGED screensVars
  BY <1>5 DEF screensVars, PageShowsInv, ScreensTypeOK, AgesOK, WaysOK, LoadOK, Does, ShowOK,
              AwaitedLast, Rested, InOrder, TitlesOK, LateBut, Served
<1> QED BY <1>1, <1>2, <1>3, <1>4, <1>5 DEF ScreensNext

(* Whatever crosses, fails or is asked for again, a page knows what it      *)
(* waits for: the list it began last, or nothing that it will not overtake. *)
THEOREM ScreensInvariant == ScreensSpec => []PageShowsInv
BY ScreensInitOK, ScreensStep, PTL DEF ScreensSpec

(* A page at rest shows what is selected (schedule/page.tsx, denah/page.tsx *)
(* and the others), however many requests, changes and rows there are.      *)
THEOREM ScreensSafe == ScreensSpec => []ScreensInv
BY ScreensInvariant, PageShows, PTL
=============================================================================
