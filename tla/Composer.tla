------------------------------ MODULE Composer ------------------------------
(***************************************************************************)
(* The meeting form of the user portal (MeetingComposer.tsx) and the        *)
(* free-windows reply it picks from (booking.service.ts), on a tenant's     *)
(* wall clock, while other people book and cancel.                          *)
(*                                                                          *)
(* The form asks the API for the free windows of the date it shows and      *)
(* derives what it offers from the reply.  Nothing cancels a request that   *)
(* is under way when the date changes: replies arrive in any order.         *)
(*                                                                          *)
(* One room; a tick is a minute, so nothing is rounded here (Booking has    *)
(* the rounding).  Titles, participants, reminders, series and the schedule *)
(* assistant are left out, and so are the approval and the person behind a  *)
(* booking: a row is its slot.                                              *)
(***************************************************************************)
EXTENDS LocalDays, Sequences, FiniteSets

CONSTANTS
  Zones,            \* the time zones a tenant may have
  RoomPolicies,     \* the effective rules the room may have
  DefaultRules,     \* DEFAULT_RULES: what applies to an ONLINE booking
  Days,             \* the dates the form may show
  Slots,            \* the wall-clock slots other people ask for
  Step,             \* SLOT_STEP_MIN
  DefaultDuration,  \* the duration of a new form
  Durations,        \* the durations the user enters
  Unanswered,       \* the limits of a duration while there is no reply
  Starts,           \* the wall-clock times a form may be opened with
  None,             \* no slot, no reply, no preset start, no form yet
  Gone,             \* the form has been closed: a next one is a new one
  Opening,          \* the clock at the start
  MaxTime,          \* bound: the last instant of the clock
  MaxRows,          \* bound: bookings of the room
  MaxAsks           \* bound: free-windows requests under way

RulesType ==
  [ open : Int, close : Int, min : Int, max : Int, buffer : Int, minAdvance : Int,
    maxAdvanceDays : Int, overAdvanceApproval : BOOLEAN, days : SUBSET Int ]

(* No clock change is as large as half a day. *)
ASSUME ZoneAssumption ==
  \A z \in Zones :
    /\ z \in ZoneType
    /\ 2 * (z.after - z.before) < DayLength
    /\ 2 * (z.before - z.after) < DayLength

ASSUME ComposerAssumption ==
  /\ RoomPolicies \subseteq RulesType
  /\ DefaultRules \in RulesType
  /\ \A r \in RoomPolicies :
       /\ 0 < r.min /\ r.min <= r.max
       /\ r.buffer >= 0 /\ r.minAdvance >= 0
       /\ 0 <= r.open /\ r.close < DayLength
  /\ Days \subseteq Int
  /\ Slots \subseteq [start : Int, end : Int]
  /\ Step \in Nat \ {0}
  /\ DefaultDuration \in Int
  /\ Durations \subseteq Int
  /\ Unanswered \in [min : Int, max : Int]
  /\ Starts \subseteq Int
  /\ Opening \in Int
  /\ MaxTime \in Int
  /\ MaxRows \in Nat
  /\ MaxAsks \in Nat

SiteType == [zone : Zones, rules : RoomPolicies]

SlotType == [start : Int, end : Int]

VARIABLES
  site,   \* Tenant.timezone and the room's effective policy
  now,    \* the clock
  table,  \* the slots of the room's active bookings
  form,   \* the meeting form
  asked   \* free-windows requests under way: the date, and the reply once made

vars == <<site, now, table, form, asked>>

(* What a reply depends on: the date asked for, the moment and the rows. *)
ReplyType == [day : Days, now : Int, table : SUBSET SlotType]

FormType ==
  [ own : SlotType \cup {None},      \* the slot of the booking being edited
    date : Int, duration : Int, online : BOOLEAN,
    pick : SlotType \cup {None},     \* pickedStart, pickedEnd
    fw : ReplyType \cup {None},      \* the reply shown
    loading : BOOLEAN,
    preset : Starts \cup {None},     \* initialStart, until it is applied
    touched : BOOLEAN,               \* history: the user changed date or time
    overtaken : BOOLEAN ]            \* history: asked again before the reply

ASSUME NoneAssumption ==
  /\ None \notin SlotType \cup Int \cup ReplyType \cup FormType
  /\ Gone \notin FormType

TypeOK ==
  /\ site \in SiteType
  /\ now \in Int
  /\ table \subseteq SlotType
  /\ form \in FormType \cup {None, Gone}
  /\ asked \in Seq([day : Days, reply : ReplyType \cup {None}])

Init ==
  /\ site \in SiteType
  /\ now = Opening
  /\ table = {}
  /\ form = None
  /\ asked = <<>>

IsOpened == form \notin {None, Gone}

Today == LocalDay(site.zone, now)

Length(slot) == slot.end - slot.start

-----------------------------------------------------------------------------
(* What the API accepts, at time t, among the rows of `rows` *)

WithinHours(s, slot, r) ==
  /\ LocalDay(s.zone, slot.start) = LocalDay(s.zone, slot.end)
  /\ LocalDay(s.zone, slot.start) \in r.days
  /\ TimeOfDay(s.zone, slot.start) >= r.open
  /\ TimeOfDay(s.zone, slot.end) <= r.close

HorizonEnd(t, r) == t + r.maxAdvanceDays * DayLength

ValidSlot(s, slot, r, t) ==
  /\ slot.end > slot.start
  /\ Length(slot) >= r.min
  /\ Length(slot) <= r.max
  /\ slot.start - t >= r.minAdvance
  /\ r.overAdvanceApproval \/ slot.start <= HorizonEnd(t, r)
  /\ WithinHours(s, slot, r)

HasConflict(s, slot, rows) ==
  \E row \in rows :
    row.start < slot.end + s.rules.buffer /\ row.end > slot.start - s.rules.buffer

CreateAccepted(s, slot, online, t, rows) ==
  IF online THEN ValidSlot(s, slot, DefaultRules, t)
            ELSE ValidSlot(s, slot, s.rules, t) /\ ~HasConflict(s, slot, rows)

(* A meeting under way keeps its start; only what it gains is compared. *)
ExtensionAccepted(s, own, slot, t, rows) ==
  /\ slot.start = own.start
  /\ slot.end > t
  /\ Length(slot) <= s.rules.max
  /\ WithinHours(s, slot, s.rules)
  /\ slot.end > own.end =>
       ~HasConflict(s, [start |-> own.end, end |-> slot.end], rows \ {own})

UpdateAccepted(s, own, slot, t, rows) ==
  /\ own \in rows
  /\ own.end > t
  /\ slot # own =>
       IF own.start <= t THEN ExtensionAccepted(s, own, slot, t, rows)
                         ELSE CreateAccepted(s, slot, FALSE, t, rows \ {own})

-----------------------------------------------------------------------------
(* GET /bookings/free-windows: what a reply holds *)

DayStart(s, fw) == StartOfNamedDay(s.zone, fw.day)

DayEnd(s, fw) == AddLocalDays(s.zone, DayStart(s, fw), 1)

Later(a, b) == IF a > b THEN a ELSE b

Earlier(a, b) == IF a < b THEN a ELSE b

(* Business hours, from the shortest notice to the horizon. *)
Bookable(s, fw) ==
  LET close == AtTime(s.zone, DayStart(s, fw), s.rules.close)
  IN  [ start |-> Later(AtTime(s.zone, DayStart(s, fw), s.rules.open),
                        fw.now + s.rules.minAdvance),
        end   |-> IF s.rules.overAdvanceApproval THEN close
                  ELSE Earlier(close, HorizonEnd(fw.now, s.rules)) ]

IsOpen(s, fw) == LocalDay(s.zone, DayStart(s, fw) + DayLength \div 2) \in s.rules.days

BusyWithOwn(s, fw, own) ==
  { [start |-> row.start - s.rules.buffer, end |-> row.end + s.rules.buffer] :
      row \in { r \in fw.table : r.start < DayEnd(s, fw) /\ r.end > DayStart(s, fw) } }

BusyUnpadded(s, fw, own) ==
  { r \in fw.table \ {own} : r.start < DayEnd(s, fw) /\ r.end > DayStart(s, fw) }

(* The bookings of the day, the edited one aside, widened by the buffer. *)
Busy(s, fw, own) ==
  { [start |-> row.start - s.rules.buffer, end |-> row.end + s.rules.buffer] :
      row \in { r \in fw.table \ {own} :
                  /\ r.start < DayEnd(s, fw) + s.rules.buffer
                  /\ r.end > DayStart(s, fw) - s.rules.buffer } }

(* The maximal free stretches that hold the shortest meeting. *)
FreeWindows(s, fw, own) ==
  LET all  == Bookable(s, fw)
      busy == Busy(s, fw, own)
  IN  { w \in [ start : {all.start} \cup { b.end : b \in busy },
                end   : {all.end} \cup { b.start : b \in busy } ] :
          /\ IsOpen(s, fw)
          /\ all.start <= w.start /\ w.end <= all.end
          /\ Length(w) >= s.rules.min
          /\ \A b \in busy : b.end <= w.start \/ w.end <= b.start }

(* dayWindow: for a meeting that holds no room. *)
DayWindow(s, fw) ==
  IF IsOpen(s, fw) /\ Length(Bookable(s, fw)) > 0 THEN {Bookable(s, fw)} ELSE {}

-----------------------------------------------------------------------------
(* What the form offers *)

Windows(s, f) ==
  IF f.fw = None THEN {}
  ELSE IF f.online THEN DayWindow(s, f.fw) ELSE FreeWindows(s, f.fw, f.own)

OnGrid(s, f, t) == (t - DayStart(s, f.fw)) % Step = 0

(* The start is in the window, and the duration still fits. *)
Fits(f, t, w) == w.start <= t /\ t < w.end /\ t + f.duration <= w.end

StartOptions(s, f) ==
  UNION { { t \in w.start..(w.end - f.duration) : OnGrid(s, f, t) /\ t >= f.fw.now }
            \cup { own.start : own \in { o \in {f.own} : o # None /\ Fits(f, o.start, w) } }
          : w \in Windows(s, f) }

EndOptions(s, f) ==
  { e \in UNION { (f.pick.start + 1)..w.end :
                    w \in { v \in Windows(s, f) :
                              v.start <= f.pick.start /\ f.pick.start < v.end } } :
      /\ s.rules.min <= e - f.pick.start /\ e - f.pick.start <= s.rules.max
      /\ OnGrid(s, f, e) \/ e = f.pick.start + f.duration }

Clamped(limits, d) == Later(limits.min, Earlier(d, limits.max))

(* minDur and maxDur *)
Limits(s, f) == IF f.fw = None THEN Unanswered ELSE [min |-> s.rules.min, max |-> s.rules.max]

PickAt(f, t) == [start |-> t, end |-> t + f.duration]

(* Both effects that follow a change of the reply, the duration or the type: *)
(* keep the picked start if it is still offered, with the duration, and      *)
(* preselect the start the form was opened with, once.                       *)
KeepPick(s, f) ==
  IF f.loading \/ f.pick = None THEN f
  ELSE IF f.pick.start \in StartOptions(s, f)
       THEN [f EXCEPT !.pick = PickAt(f, f.pick.start)]
       ELSE [f EXCEPT !.pick = None]

ApplyPreset(s, f) ==
  LET hits == { t \in StartOptions(s, f) : TimeOfDay(s.zone, t) = f.preset }
  IN  IF f.own # None \/ f.preset = None \/ f.fw = None THEN f
      ELSE [f EXCEPT !.preset = None,
                     !.pick = IF hits = {} THEN @
                              ELSE PickAt(f, CHOOSE t \in hits : \A u \in hits : t <= u)]

Settled(s, f) == ApplyPreset(s, KeepPick(s, f))

InProgress ==
  /\ form.own # None
  /\ form.own.start <= now
  /\ now < form.own.end

-----------------------------------------------------------------------------
(* The form *)

NewForm(own, date, duration, preset) ==
  [ own |-> own, date |-> date, duration |-> duration, online |-> FALSE,
    pick |-> own, fw |-> None, loading |-> TRUE, preset |-> preset,
    touched |-> FALSE, overtaken |-> FALSE ]

Ask(day) == [day |-> day, reply |-> None]

OpenCreate(date, preset) ==
  /\ form = None
  /\ form' = NewForm(None, date, DefaultDuration, preset)
  /\ asked' = <<Ask(date)>>
  /\ UNCHANGED <<site, now, table>>

OpenEdit(own) ==
  LET date == LocalDay(site.zone, own.start)
  IN  /\ form = None
      /\ own.end > now
      /\ date \in Days
      /\ form' = NewForm(own, date, Length(own), None)
      /\ asked' = <<Ask(date)>>
      /\ UNCHANGED <<site, now, table>>

(* A reply to a form that is gone goes nowhere. *)
Close ==
  /\ IsOpened
  /\ form' = Gone
  /\ asked' = <<>>
  /\ UNCHANGED <<site, now, table>>

(* The old request stays under way. *)
ChangeDateKeepingPick(date) ==
  /\ IsOpened
  /\ ~InProgress
  /\ date # form.date
  /\ Len(asked) < MaxAsks
  /\ form' = [form EXCEPT !.date = date, !.loading = TRUE, !.touched = TRUE,
                          !.overtaken = @ \/ asked # <<>>]
  /\ asked' = Append(asked, Ask(date))
  /\ UNCHANGED <<site, now, table>>

ChangeDate(date) ==
  /\ IsOpened
  /\ ~InProgress
  /\ date # form.date
  /\ Len(asked) < MaxAsks
  /\ form' = [form EXCEPT !.date = date, !.loading = TRUE, !.touched = TRUE,
                          !.pick = None, !.overtaken = @ \/ asked # <<>>]
  /\ asked' = Append(asked, Ask(date))
  /\ UNCHANGED <<site, now, table>>

(* The API answers with what it finds now. *)
Answer(i) ==
  /\ asked[i].reply = None
  /\ asked' = [asked EXCEPT ![i].reply =
                 [day |-> asked[i].day, now |-> now, table |-> table]]
  /\ UNCHANGED <<site, now, table, form>>

Without(seq, i) == SubSeq(seq, 1, i - 1) \o SubSeq(seq, i + 1, Len(seq))

(* Any reply is shown, whichever request it answers. *)
Deliver(i) ==
  /\ asked[i].reply # None
  /\ form' = Settled(site, [form EXCEPT !.fw = asked[i].reply,
                                  !.duration = Clamped(site.rules, @), !.loading = FALSE])
  /\ asked' = Without(asked, i)
  /\ UNCHANGED <<site, now, table>>

AskFails(i) ==
  /\ form' = Settled(site, [form EXCEPT !.fw = None, !.loading = FALSE])
  /\ asked' = Without(asked, i)
  /\ UNCHANGED <<site, now, table>>

(* A chip or the typed number, within the limits known. *)
SetDuration(d) ==
  /\ IsOpened
  /\ form' = Settled(site, [form EXCEPT !.duration = Clamped(Limits(site, form), d),
                                        !.touched = TRUE])
  /\ UNCHANGED <<site, now, table, asked>>

(* ONLINE, or a type that holds the room; fixed once booked. *)
SetOnline(online) ==
  /\ IsOpened
  /\ form.own = None
  /\ form' = Settled(site, [form EXCEPT !.online = online])
  /\ UNCHANGED <<site, now, table, asked>>

ChooseStart(t) ==
  /\ ~InProgress
  /\ ~form.loading
  /\ form' = [form EXCEPT !.pick = PickAt(form, t), !.touched = TRUE]
  /\ UNCHANGED <<site, now, table, asked>>

ChooseEnd(t) ==
  /\ form' = Settled(site, [form EXCEPT !.pick.end = t, !.duration = t - form.pick.start,
                                  !.touched = TRUE])
  /\ UNCHANGED <<site, now, table, asked>>

(* The API judges the slot by what it finds now; refused, the form stays. *)
SubmitCreate ==
  /\ IsOpened /\ form.own = None /\ form.pick # None
  /\ CreateAccepted(site, form.pick, form.online, now, table)
  /\ table' = IF form.online THEN table ELSE table \cup {form.pick}
  /\ form' = Gone
  /\ asked' = <<>>
  /\ UNCHANGED <<site, now>>

SubmitEdit ==
  /\ IsOpened /\ form.own # None /\ form.pick # None
  /\ UpdateAccepted(site, form.own, form.pick, now, table)
  /\ table' = (table \ {form.own}) \cup {form.pick}
  /\ form' = Gone
  /\ asked' = <<>>
  /\ UNCHANGED <<site, now>>

-----------------------------------------------------------------------------
(* Everybody else *)

OnClock(w) ==
  [start |-> ZonedToUtc(site.zone, w.start), end |-> ZonedToUtc(site.zone, w.end)]

OtherBooks(slot) ==
  /\ Cardinality(table) < MaxRows
  /\ CreateAccepted(site, slot, FALSE, now, table)
  /\ table' = table \cup {slot}
  /\ UNCHANGED <<site, now, form, asked>>

Tick ==
  /\ now < MaxTime
  /\ now' = now + 1
  /\ UNCHANGED <<site, table, form, asked>>

Replies == \E i \in DOMAIN asked : Answer(i) \/ Deliver(i) \/ AskFails(i)

Picks ==
  /\ IsOpened
  /\ \/ \E t \in StartOptions(site, form) : ChooseStart(t)
     \/ form.pick # None /\ \E t \in EndOptions(site, form) : ChooseEnd(t)

Next ==
  \/ \E date \in Days : ChangeDate(date)
  \/ \E date \in Days, preset \in Starts \cup {None} : OpenCreate(date, preset)
  \/ \E own \in table : OpenEdit(own)
  \/ Close
  \/ Replies
  \/ \E d \in Durations : SetDuration(d)
  \/ \E online \in BOOLEAN : SetOnline(online)
  \/ Picks
  \/ SubmitCreate
  \/ SubmitEdit
  \/ \E w \in Slots : OtherBooks(OnClock(w))
  \/ Tick

Spec == Init /\ [][Next]_vars

-----------------------------------------------------------------------------
(* Properties *)

(* The clock passes the room's opening and closing time of the day once. *)
HoursSteady(s, day) ==
  \A time \in {s.rules.open, s.rules.close} :
    /\ ~Skipped(s.zone, Midnight(day) + time)
    /\ ~Repeated(s.zone, Midnight(day) + time)

(* It shows the midnights the day begins and ends with. *)
MidnightsShown(s, day) ==
  ~Skipped(s.zone, Midnight(day)) /\ ~Skipped(s.zone, Midnight(day + 1))

(* Every conversion from the clock to an instant shows the reading it was   *)
(* asked for, across clock changes, unless the clock never shows it: the     *)
(* portal's (zonedToUtcIso), the API's hours (wall()) and the occurrences    *)
(* of a series (shiftLocalDays).                                            *)
ReadingsKept ==
  /\ \A day \in Days, time \in 0..(DayLength - 1) :
       LET w     == Midnight(day) + time
           start == StartOfNamedDay(site.zone, day)
       IN  ~Skipped(site.zone, w) =>
             /\ Wall(site.zone, ZonedToUtc(site.zone, w)) = w
             /\ LocalDay(site.zone, start) = day => Wall(site.zone, AtTime(site.zone, start, time)) = w
  /\ \A day \in Days :
       LET w == Midnight(day) + TimeOfDay(site.zone, now)
       IN  ~Skipped(site.zone, w) => Wall(site.zone, ShiftLocalDays(site.zone, now, day - Today)) = w

(* From startOfDayInTz to addLocalDays(.., 1) are the instants of the local *)
(* day, no more and no fewer, though a day may be longer or shorter: when   *)
(* the clock passes the midnights at both ends as usual.                    *)
DaysTile ==
  \A day \in Days, time \in 0..(DayLength - 1) :
    LET t     == Midnight(day) + time
        start == StartOfDay(site.zone, t)
        here  == LocalDay(site.zone, t)
    IN  Ordinary(site.zone, here) /\ Ordinary(site.zone, here + 1) =>
          /\ start <= t /\ t < AddLocalDays(site.zone, start, 1)
          /\ LocalDay(site.zone, start) = here
          /\ LocalDay(site.zone, start - 1) < here
          /\ LocalDay(site.zone, AddLocalDays(site.zone, start, 1)) = here + 1

(* The wall clock of the tenant, as API and portal compute it *)
ClockKept == ReadingsKept /\ DaysTile

(* What the form holds picked for the room, the API would have accepted at  *)
(* the moment of the reply, whatever dates, durations and types were tried  *)
(* before; when editing, of a meeting that had not started then.            *)
PickIsBookable ==
  (IsOpened /\ form.pick # None /\ ~form.online /\ ~form.loading /\ form.fw # None
   /\ NoonIsOfDay(site.zone) /\ HoursSteady(site, form.fw.day) /\ MidnightsShown(site, form.fw.day)) =>
    IF form.own = None
    THEN CreateAccepted(site, form.pick, FALSE, form.fw.now, form.fw.table)
    ELSE form.own.start > form.fw.now =>
           UpdateAccepted(site, form.own, form.pick, form.fw.now, form.fw.table)

(* A pick lies on the date the form shows, unless the date was changed while *)
(* a request was under way: a late reply shows another day's times.         *)
PickIsOfDayShown ==
  (IsOpened /\ form.pick # None) =>
    \/ LocalDay(site.zone, form.pick.start) = form.date
    \/ form.overtaken
    \/ ~NoonIsOfDay(site.zone) \/ ~HoursSteady(site, form.date)

(* An edit form that nobody touched, of a meeting still to come at the reply *)
(* and that could still be booked as it is, holds the booking's slot: no     *)
(* effect drops or moves the prefilled pick.  Closer to its start than the   *)
(* shortest notice, or extended since to a time no one could book, it is let *)
(* go; so is a meeting under way, see StartStaysSelectable.                  *)
EditKeepsItsSlot ==
  (IsOpened /\ form.own # None /\ ~form.touched /\ ~form.loading /\ form.fw # None
   /\ form.own.start > form.fw.now) =>
    \/ form.pick = form.own
    \/ ~NoonIsOfDay(site.zone) \/ ~HoursSteady(site, form.date)
    \/ ~CreateAccepted(site, form.own, FALSE, form.fw.now, form.fw.table \ {form.own})
    \/ ~site.rules.overAdvanceApproval /\ form.own.end > HorizonEnd(form.fw.now, site.rules)

(* "Editing: keep the booking's own current start selectable [...] once the  *)
(* meeting has already started": the code does not keep this.  The free      *)
(* windows begin at the shortest notice from now, so the start lies in none  *)
(* of them, and the form drops the pick it needs to save anything.           *)
StartStaysSelectable ==
  (IsOpened /\ form.own # None /\ ~form.touched /\ ~form.loading /\ form.fw # None
   /\ form.own.start <= form.fw.now) =>
    form.own.start \in StartOptions(site, form)
=============================================================================
