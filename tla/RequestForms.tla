---------------------------- MODULE RequestForms ----------------------------
(***************************************************************************)
(* The two dialogs of the user portal around change requests: the one a     *)
(* colleague asks with (RequestChangeModal.tsx, opened from the meeting     *)
(* form), and the one the owner approves with (ApproveRescheduleModal.tsx,  *)
(* opened from approvals/page.tsx).                                         *)
(*                                                                          *)
(* A dialog works out by itself what the service will do with the booking,  *)
(* from the booking as it was listed; meanwhile bookings move.  Requests go *)
(* to the service as ChangeRequest has it.  Left out: titles, notes, lists  *)
(* of requests, and a reply of free windows for another day than the one    *)
(* shown (which Composer has).                                              *)
(***************************************************************************)
EXTENDS ChangeRequest, FiniteSetsExt

CONSTANTS
  Durations, \* of the meeting the asking form was opened from, in minutes
  Chips,     \* DURATION_CHIPS
  SlotStep,  \* SLOT_STEP_MIN
  NoForm,    \* no dialog
  Nothing    \* no reply, no pick

(* A time of day is hh:mm, at most 23:59; a week has seven days.            *)
ASSUME FormsAssumption ==
  /\ Durations \cup Chips \subseteq Nat \ {0} /\ SlotStep \in Nat \ {0}
  /\ DaysPerWeek > 1 /\ DayTicks % TicksPerMinute = 0
  /\ \A rules \in Policies : rules.close < DayTicks \div TicksPerMinute

(* Meetings are of a day at the most.  The service does not ask that of a  *)
(* policy: one that lasts for weeks starts and ends on the same weekday,   *)
(* which is all withinBusinessHours compares, and the dialogs would show   *)
(* the day it starts on.                                                   *)
ASSUME DayLongAssumption ==
  \A rules \in Policies : rules.maxDuration * TicksPerMinute <= DayTicks

VARIABLES
  asking,    \* the dialog that asks: for part of which booking, as listed
  answering  \* the dialog that approves: which request, on a booking as listed

formVars == <<asking, answering>>

AskForm == [who : Users, id : Nat \ {0}, seen : SlotType, duration : Durations]

(* A reply of free windows, and whether bookings have changed since.        *)
ReplyType ==
  [windows : SUBSET [start : Nat, end : Nat], now : 0..MaxTime, fresh : BOOLEAN]

AnswerForm ==
  [ who : Users, r : Nat \ {0}, seen : SlotType, room : Rooms, loading : BOOLEAN,
    fw : ReplyType \cup {Nothing}, duration : Nat, picked : Instants \cup {Nothing},
    cancelInstead : BOOLEAN ]

FormsTypeOK ==
  /\ asking \in AskForm \cup {NoForm}
  /\ answering \in AnswerForm \cup {NoForm}
  /\ asking # NoForm => asking.id \in DOMAIN bookings
  /\ answering # NoForm => answering.r \in DOMAIN requests

FormsInit == RequestInit /\ asking = NoForm /\ answering = NoForm

SlotOf(row) == [start |-> row.start, end |-> row.end]

-----------------------------------------------------------------------------
(* Asking *)

(* The meeting form lists a room's day with the bookings of others on it,   *)
(* unless its meeting is to be ONLINE.                                      *)
OpenAsk(who, id, duration) ==
  /\ asking = NoForm /\ Len(requests) < MaxRequests
  /\ Active(bookings[id]) /\ bookings[id].room # NoRoom
  /\ ~IsOwner(who, bookings[id])
  /\ asking' = [who |-> who, id |-> id, seen |-> SlotOf(bookings[id]), duration |-> duration]
  /\ UNCHANGED <<vars, requestVars, answering>>

CloseAsk ==
  /\ asking # NoForm /\ asking' = NoForm
  /\ UNCHANGED <<vars, requestVars, answering>>

(* The dialog reckons in minutes of the day: what hh:mm shows of a time,    *)
(* and the instant hh:mm is read as, on the date of the booking listed.     *)
MinutesOfDay == DayTicks \div TicksPerMinute

AtMinute(form, m) ==
  DayOf(form.seen.start) * DayTicks + (m % MinutesOfDay) * TicksPerMinute

(* The part asked for lies in the stretch listed and ends or starts with it.*)
Carvable(form, carve) ==
  LET busy == [start |-> MinuteOfDay(form.seen.start), end |-> MinuteOfDay(form.seen.end)]
  IN  /\ carve.start >= busy.start /\ carve.end <= busy.end /\ carve.end > carve.start
      /\ OnEdge(carve, busy)

(* The asker's meeting: it goes on past the stretch, or began before it.    *)
Wanted(form, carve) ==
  IF carve.end = MinuteOfDay(form.seen.end)
  THEN [start |-> carve.start, end |-> carve.start + form.duration]
  ELSE [start |-> carve.end - form.duration, end |-> carve.end]

Parts == [start : 0..MinutesOfDay, end : 0..MinutesOfDay]

Sent(form, minutes) ==
  [start |-> AtMinute(form, minutes.start), end |-> AtMinute(form, minutes.end)]

SendAsk(carve) ==
  /\ asking # NoForm /\ Carvable(asking, carve)
  /\ {Sent(asking, carve), Sent(asking, Wanted(asking, carve))} \subseteq SlotType
  /\ Ask(asking.who, asking.id, Sent(asking, carve), Sent(asking, Wanted(asking, carve)), FALSE)
  /\ asking' = NoForm
  /\ UNCHANGED answering

-----------------------------------------------------------------------------
(* Approving *)

Window(form) == requests[form.r].window

(* The window takes one end off the booking listed: nothing to be chosen.   *)
AutoMode(form) ==
  (Window(form).start = form.seen.start) # (Window(form).end = form.seen.end)

(* What the dialog says is left.                                            *)
ShownLeftover(form) ==
  IF Window(form).start = form.seen.start
  THEN [start |-> Window(form).end, end |-> form.seen.end]
  ELSE [start |-> form.seen.start, end |-> Window(form).start]

OpenAnswer(who, r) ==
  LET row == bookings[requests[r].booking]
      form ==
        [ who |-> who, r |-> r, seen |-> SlotOf(row), room |-> row.room, loading |-> TRUE,
          fw |-> Nothing, duration |-> MinutesBetween(row.start, row.end),
          picked |-> Nothing, cancelInstead |-> FALSE ]
  IN  /\ answering = NoForm
      /\ MayAnswer(who, r)
      /\ answering' = [form EXCEPT !.loading = ~AutoMode(form)]
      /\ UNCHANGED <<vars, requestVars, asking>>

CloseAnswer ==
  /\ answering # NoForm /\ answering' = NoForm
  /\ UNCHANGED <<vars, requestVars, asking>>

(* freeWindows: the gaps of the day between the bookings, the owner's aside.*)
DayWindow(form) ==
  LET rules == policy[form.room]
      day   == DayOf(form.seen.start) * DayTicks
      close == day + rules.close * TicksPerMinute
  IN  [ start |-> Max({day + rules.open * TicksPerMinute, now + rules.minAdvance * TicksPerMinute}),
        end   |-> IF rules.overAdvanceApproval THEN close
                  ELSE Min({close, now + rules.maxAdvanceDays * DayTicks}) ]

FreeWindows(form) ==
  LET rules == policy[form.room]
      pad   == rules.buffer * TicksPerMinute
      all   == DayWindow(form)
      busy  == { [start |-> bookings[b].start - pad, end |-> bookings[b].end + pad] :
                   b \in { c \in DOMAIN bookings \ {requests[form.r].booking} :
                             Active(bookings[c]) /\ bookings[c].room = form.room } }
  IN  { w \in [ start : {all.start} \cup { b.end : b \in busy },
                end   : {all.end} \cup { b.start : b \in busy } ] :
          /\ IsoWeekday(form.seen.start) \in rules.days
          /\ all.start <= w.start /\ w.end <= all.end
          /\ w.end - w.start >= rules.minDuration * TicksPerMinute
          /\ \A b \in busy : Disjoint(w, b) }

(* The reply comes with what is free now, or an error, which stays.         *)
WindowsArrive ==
  /\ answering # NoForm /\ answering.loading
  /\ roomStatus[answering.room] = "ACTIVE"
  /\ answering' =
       [ answering EXCEPT !.loading = FALSE,
           !.fw = [windows |-> FreeWindows(answering), now |-> now, fresh |-> TRUE] ]
  /\ UNCHANGED <<vars, requestVars, asking>>

WindowsFail ==
  /\ answering # NoForm /\ answering.loading
  /\ answering' = [answering EXCEPT !.loading = FALSE]
  /\ UNCHANGED <<vars, requestVars, asking>>

OfferedUncut(form) == form.fw.windows

(* The window to be granted is not booked yet: it is cut out here.          *)
Offered(form) ==
  LET granted == Window(form)
      cut(w) == { [w EXCEPT !.end = granted.start], [w EXCEPT !.start = granted.end] }
  IN  UNION { IF Disjoint(w, granted) THEN {w} ELSE { v \in cut(w) : v.end > v.start } :
                w \in form.fw.windows }

StartOptions(form) ==
  IF form.fw = Nothing THEN {}
  ELSE { t \in Instants :
           /\ t % (SlotStep * TicksPerMinute) = 0 /\ t >= form.fw.now
           /\ \E w \in Offered(form) :
                w.start <= t /\ t + form.duration * TicksPerMinute <= w.end }

Choosing == answering # NoForm /\ ~AutoMode(answering)

(* A pick that is no longer offered is dropped.                             *)
Duration(minutes) ==
  LET form  == [answering EXCEPT !.duration = minutes]
      rules == policy[answering.room]
  IN  /\ Choosing /\ answering.fw # Nothing /\ ~answering.cancelInstead
      /\ rules.minDuration <= minutes /\ minutes <= rules.maxDuration
      /\ answering' =
           [form EXCEPT !.picked = IF @ \in StartOptions(form) THEN @ ELSE Nothing]
      /\ UNCHANGED <<vars, requestVars, asking>>

Pick(t) ==
  /\ Choosing /\ ~answering.cancelInstead
  /\ t \in StartOptions(answering)
  /\ answering' = [answering EXCEPT !.picked = t]
  /\ UNCHANGED <<vars, requestVars, asking>>

CancelInstead ==
  /\ Choosing
  /\ answering' = [answering EXCEPT !.cancelInstead = ~@]
  /\ UNCHANGED <<vars, requestVars, asking>>

PickedSlot(form, t) == [start |-> t, end |-> t + form.duration * TicksPerMinute]

ChoiceSent(form) ==
  IF AutoMode(form) THEN [kind |-> "none"]
  ELSE IF form.cancelInstead THEN [kind |-> "cancel"]
  ELSE [kind |-> "pick", slot |-> PickedSlot(form, form.picked)]

(* An error leaves the dialog as it is, even if half of it was applied.     *)
(* Only picks inside the horizon are explored.                              *)
Approve ==
  /\ answering # NoForm
  /\ answering.picked # Nothing => PickedSlot(answering, answering.picked) \in SlotType
  /\ AutoMode(answering) \/ answering.cancelInstead \/ answering.picked # Nothing
  /\ Grant(answering.who, answering.r, ChoiceSent(answering))
  /\ answering' = IF requests' = requests THEN answering ELSE NoForm
  /\ UNCHANGED asking

(* On the list, which the dialog covers.                                    *)
RejectChange(who, r) ==
  /\ answering = NoForm
  /\ Decline(who, r)
  /\ UNCHANGED formVars

-----------------------------------------------------------------------------

(* Everything else that happens to bookings.                                *)
Meanwhile ==
  /\ Next
  /\ answering' = IF answering # NoForm /\ answering.fw # Nothing
                  THEN [answering EXCEPT !.fw.fresh = FALSE] ELSE answering
  /\ UNCHANGED <<requestVars, asking>>

FormsNext ==
  \/ Meanwhile
  \/ \E who \in Users :
       \/ \E id \in DOMAIN bookings, duration \in Durations : OpenAsk(who, id, duration)
       \/ \E r \in DOMAIN requests : OpenAnswer(who, r) \/ RejectChange(who, r)
  \/ CloseAsk \/ CloseAnswer
  \/ \E carve \in Parts : SendAsk(carve)
  \/ WindowsArrive \/ WindowsFail
  \/ \E minutes \in Chips : Duration(minutes)
  \/ \E t \in Instants : Pick(t)
  \/ CancelInstead \/ Approve

FormsSpec == FormsInit /\ [][FormsNext]_<<vars, requestVars, formVars>>

-----------------------------------------------------------------------------
(* Properties *)

(* The asking dialog lets through what the service takes, and asks for a    *)
(* meeting that fits beside what would be left of the booking, as long as   *)
(* that is where it was listed, at whole minutes, and the meeting does not  *)
(* leave the day.  Both sides check edges, one by minutes of the day and one*)
(* by instants, and the dialog alone decides which way the meeting extends. *)
WholeMinutes(slot) == slot.start % TicksPerMinute = 0 /\ slot.end % TicksPerMinute = 0

AskAgrees ==
  asking # NoForm =>
    LET row == bookings[asking.id]
        open == \E r \in DOMAIN requests :
                  /\ requests[r].booking = asking.id /\ requests[r].requester = asking.who
                  /\ requests[r].status = "PENDING"
    IN  /\ Active(row) /\ row.end > now /\ ~open
        /\ SlotOf(row) = asking.seen /\ WholeMinutes(asking.seen)
        => \A carve \in Parts :
            LET wanted == Wanted(asking, carve)
                window == Sent(asking, carve)
                draft  == Sent(asking, wanted)
            IN  Carvable(asking, carve) /\ 0 <= wanted.start /\ wanted.end < MinutesOfDay
                  => /\ AskAccepted(asking.who, asking.id, window, draft)
                     /\ Carves(window, row) => ~Meets(draft, Leftover(window, row))

(* What the approving dialog offers, the service does: nothing it lists is  *)
(* refused to the owner while the bookings are as they were when the free   *)
(* windows were read, their own among them, and the meeting has not begun.  *)
OfferAgrees ==
  Choosing /\ answering.fw # Nothing =>
    LET row   == bookings[requests[answering.r].booking]
        rules == policy[answering.room]
    IN  /\ answering.fw.fresh /\ SlotOf(row) = answering.seen /\ row.room = answering.room
        /\ Active(row) /\ row.start > now
        /\ rules.minDuration <= answering.duration /\ answering.duration <= rules.maxDuration
        => \A t \in StartOptions(answering) :
             OwnerGives(answering.who, answering.r,
                        [kind |-> "pick", slot |-> PickedSlot(answering, t)]) # {}

(* An approval does to the owner's booking what the dialog showed, if the   *)
(* booking is still where it was listed: it keeps the leftover, moves to    *)
(* the pick, or goes.                                                       *)
ShownIsGiven ==
  [][ answering # NoForm /\ requests' # requests /\ answering.r \in DOMAIN requests =>
        LET id == requests[answering.r].booking
        IN  (/\ requests[answering.r].status = "PENDING"
             /\ requests'[answering.r].status = "APPROVED"
             /\ SlotOf(bookings[id]) = answering.seen) =>
               IF AutoMode(answering) THEN SlotOf(bookings'[id]) = ShownLeftover(answering)
               ELSE IF answering.cancelInstead THEN bookings'[id].status = "CANCELLED"
               ELSE SlotOf(bookings'[id]) = PickedSlot(answering, answering.picked)
    ]_<<vars, requestVars, formVars>>

(* The dialogs and the service agree.                                       *)
FormsHold == [](FormsTypeOK /\ AskAgrees /\ OfferAgrees) /\ ShownIsGiven
=============================================================================
