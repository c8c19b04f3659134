------------------------------ MODULE Booking ------------------------------
(***************************************************************************)
(* The booking core of the API: bookings, their approval steps, check-in,  *)
(* the no-show sweep, and the policies and rooms the administrator edits.  *)
(*                                                                         *)
(* Every request runs to completion before the next one starts.  This is   *)
(* the system its handlers are written for; BookingRace splits the same    *)
(* handlers at their awaits.                                               *)
(*                                                                         *)
(* The service (booking.service.ts, approval.service.ts, no-show.service.ts*)
(* , policy.service.ts, resource.service.ts) keeps all of its state in the *)
(* database.  Titles, participants, reminders and audit rows are left out. *)
(***************************************************************************)
EXTENDS BookingRules

CONSTANTS
  Users,         \* people of the tenant
  Admins,        \* those with role ADMIN
  ApproverRole,  \* those with role APPROVER
  Rooms,         \* bookable resources
  NoRoom,        \* an ONLINE booking's resource
  NoUser,        \* the approver of an unassigned step
  Keep,          \* a field the update request does not send
  Policies,      \* the effective rule sets an administrator may configure
  InitPolicy,    \* the rule set of each room at the start
  DefaultRules,  \* DEFAULT_RULES: what applies without a room
  RoomStates,    \* the values Resource.status takes
  Slots,         \* the slots requests ask for
  MaxTime,       \* bound: the last instant of the clock
  Horizon,       \* bound: the last instant of any slot
  MaxBookings,   \* bound: rows of the Booking table
  MaxSeries,     \* bound: occurrences of a series
  Lookback,      \* LOOKBACK_MS of the no-show sweep, in ticks
  Grace,         \* how early a check-in may be, in ticks
  MinBuffer      \* the smallest buffer any configured policy has, in minutes

Instants == 0..Horizon

SlotType == [start : Instants, end : Instants]

RulesType ==
  [ minDuration : Nat \ {0}, maxDuration : Nat \ {0}, minAdvance : Nat,
    maxAdvanceDays : Nat, overAdvanceApproval : BOOLEAN, buffer : Nat,
    open : Nat, close : Nat, days : SUBSET Nat,
    requiresApproval : BOOLEAN, approvers : Seq(Users),
    maxPerDay : Nat, allowRecurring : BOOLEAN, checkInRequired : BOOLEAN,
    allowed : SUBSET Users ]

ASSUME ActorAssumption ==
  /\ Admins \subseteq Users
  /\ ApproverRole \subseteq Users
  /\ NoUser \notin Users
  /\ NoRoom \notin Rooms
  /\ Keep \notin Rooms \cup Slots
  /\ "ACTIVE" \in RoomStates

ASSUME BoundAssumption ==
  /\ MaxTime \in Nat
  /\ Horizon \in Nat
  /\ MaxBookings \in Nat
  /\ MaxSeries \in Nat
  /\ Lookback \in Nat
  /\ Grace \in Nat
  /\ MinBuffer \in Nat
  /\ Slots \subseteq [start : Nat, end : Nat]

(* The validated ranges of UpsertPolicyDto: each number has a least value,  *)
(* none a greatest.                                                         *)
ASSUME PolicyAssumption ==
  /\ DefaultRules \in RulesType
  /\ Policies \subseteq RulesType
  /\ InitPolicy \in [Rooms -> Policies]

(* What MinBuffer stands for; 0 will always do. *)
ASSUME BufferAssumption == \A p \in Policies : p.buffer >= MinBuffer

VARIABLES
  now,         \* the server's clock
  bookings,    \* the Booking table in creation order, with its ApprovalSteps
  policy,      \* the effective rules of each room
  roomStatus,  \* Resource.status
  unchecked    \* history: bookings that were never compared with a rival, being
               \* brought back from a final state by an approval, or booked in
               \* one series with that rival

vars == <<now, bookings, policy, roomStatus, unchecked>>

StepType == [approver : Users \cup {NoUser}, decision : Decisions]

BookingType ==
  [ status : BookingStates, room : Rooms \cup {NoRoom},
    principal : Users, booker : Users, start : Instants, end : Instants,
    token : BOOLEAN, checkedIn : BOOLEAN, noShow : BOOLEAN,
    steps : Seq(StepType) ]

TypeOK ==
  /\ now \in 0..MaxTime
  /\ bookings \in Seq(BookingType)
  /\ policy \in [Rooms -> Policies]
  /\ roomStatus \in [Rooms -> RoomStates]
  /\ unchecked \subseteq DOMAIN bookings

Init ==
  /\ now = 0
  /\ bookings = <<>>
  /\ policy = InitPolicy
  /\ roomStatus = [r \in Rooms |-> "ACTIVE"]
  /\ unchecked = {}

-----------------------------------------------------------------------------
(* What the handlers read. *)

Active(row) == row.status \in ActiveStates

IsOwner(user, row) == user \in {row.principal, row.booker}

RulesFor(room) == IF room = NoRoom THEN DefaultRules ELSE policy[room]

RoomUsable(room) == room # NoRoom => roomStatus[room] = "ACTIVE"

HasConflictUnbuffered(table, room, slot, buffer, exclude) ==
  \E b \in DOMAIN table \ {exclude} :
    /\ Active(table[b])
    /\ table[b].room = room
    /\ ~Disjoint(slot, table[b])

(* Is some active booking of the room, other than `exclude`, in the way of *)
(* the slot widened by the buffer?                                         *)
HasConflict(table, room, slot, buffer, exclude) ==
  \E b \in DOMAIN table \ {exclude} :
    /\ Active(table[b])
    /\ table[b].room = room
    /\ OverlapsBuffered(slot, table[b], buffer)

MayUse(rules, user) == rules.allowed = {} \/ user \in rules.allowed

(* The per-user daily quota, counted over every room. *)
WithinQuota(table, user, series, max) ==
  \A i \in DOMAIN series :
    LET sameDay(slot) == DayOf(slot.start) = DayOf(series[i].start)
        existing == { b \in DOMAIN table :
                        /\ table[b].principal = user
                        /\ Active(table[b]) \/ table[b].status = "COMPLETED"
                        /\ sameDay(table[b]) }
        batch == { j \in DOMAIN series : sameDay(series[j]) }
    IN  Cardinality(existing) + Cardinality(batch) <= max

(* createApprovalSteps: one unassigned step, or one level per approver. *)
NewSteps(approvers) ==
  LET step(approver) == [approver |-> approver, decision |-> "PENDING"]
  IN  IF approvers = <<>>
      THEN <<step(NoUser)>>
      ELSE [level \in DOMAIN approvers |-> step(approvers[level])]

-----------------------------------------------------------------------------
(* POST /bookings *)

SeriesSlots(base, offsets) == [i \in DOMAIN offsets |-> Shift(base, offsets[i])]

CreateAccepted(table, caller, principal, room, series, recurring) ==
  LET rules == RulesFor(room)
  IN  /\ principal = caller \/ caller \in Admins
      /\ RoomUsable(room)
      /\ MayUse(rules, principal)
      /\ recurring => rules.allowRecurring
      /\ \A i \in DOMAIN series :
           /\ ValidSlot(series[i], rules, now, rules.overAdvanceApproval)
           /\ room # NoRoom => ~HasConflict(table, room, series[i], rules.buffer, 0)
      /\ rules.maxPerDay > 0 => WithinQuota(table, principal, series, rules.maxPerDay)

NeedsApproval(rules, series) ==
  \/ rules.requiresApproval
  \/ /\ rules.overAdvanceApproval
     /\ \E i \in DOMAIN series : ExceedsMaxAdvance(series[i], rules, now)

(* The rows create() persists, one per occurrence. *)
NewRows(caller, principal, room, series) ==
  LET rules == RulesFor(room)
      gated == NeedsApproval(rules, series)
  IN  [ i \in DOMAIN series |->
          [ status    |-> IF gated THEN "PENDING" ELSE "APPROVED",
            room      |-> room,
            principal |-> principal,
            booker    |-> caller,
            start     |-> series[i].start,
            end       |-> series[i].end,
            token     |-> rules.checkInRequired,
            checkedIn |-> FALSE,
            noShow    |-> FALSE,
            steps     |-> IF gated THEN NewSteps(rules.approvers) ELSE <<>> ] ]

(* Only series inside the horizon and tables within MaxBookings are explored. *)
Fits(table, series) ==
  /\ series \in Seq(SlotType)
  /\ Len(table) + Len(series) <= MaxBookings

(* The occurrences that come closer to another of their own series than the *)
(* smallest buffer.  create() compares each of them with the table, and     *)
(* never two of them with each other.                                       *)
Crowded(series) ==
  { i \in DOMAIN series :
      \E j \in DOMAIN series \ {i} :
        ~Apart(series[i], series[j], MinBuffer * TicksPerMinute) }

Create(caller, principal, room, base, freq, count) ==
  \E offsets \in SeriesOffsets(base, freq, count, RulesFor(room).days) :
    LET series == SeriesSlots(base, offsets)
    IN  /\ Fits(bookings, series)
        /\ CreateAccepted(bookings, caller, principal, room, series, freq # "ONCE")
        /\ bookings' = bookings \o NewRows(caller, principal, room, series)
        /\ unchecked' = unchecked \cup { Len(bookings) + i : i \in Crowded(series) }
        /\ UNCHANGED <<now, policy, roomStatus>>

-----------------------------------------------------------------------------
(* PATCH /bookings/:id.  toRoom and toSlot are Keep when not sent. *)

TargetRoom(row, toRoom) == IF toRoom = Keep THEN row.room ELSE toRoom

TargetSlot(row, toSlot) ==
  IF toSlot = Keep THEN [start |-> row.start, end |-> row.end] ELSE toSlot

Started(row) == row.start <= now

StartedOnlyEndMovesIgnored(row, movingRoom, slot) == ~movingRoom

(* A meeting under way keeps its room and its start. *)
StartedOnlyEndMoves(row, movingRoom, slot) ==
  Started(row) => ~movingRoom /\ slot.start = row.start

ExtensionUnchecked(table, id, room, slot, rules) ==
  /\ slot.end > now
  /\ MinutesBetween(slot.start, slot.end) <= rules.maxDuration
  /\ WithinBusinessHours(slot, rules)

(* The new end of a meeting under way: only what it gains is checked against *)
(* the other bookings of the room.                                           *)
ExtensionAccepted(table, id, room, slot, rules) ==
  /\ slot.end > now
  /\ MinutesBetween(slot.start, slot.end) <= rules.maxDuration
  /\ WithinBusinessHours(slot, rules)
  /\ (room # NoRoom /\ slot.end > table[id].end) =>
       ~HasConflict(table, room, [start |-> table[id].end, end |-> slot.end],
                    rules.buffer, id)

MoveAccepted(table, id, room, slot, rules) ==
  /\ ValidSlot(slot, rules, now, rules.overAdvanceApproval)
  /\ room # NoRoom => ~HasConflict(table, room, slot, rules.buffer, id)

UpdateAccepted(table, caller, id, toRoom, toSlot) ==
  LET row  == table[id]
      room == TargetRoom(row, toRoom)
      slot == TargetSlot(row, toSlot)
      rules == RulesFor(room)
      movingRoom == room # row.room
      moving == movingRoom \/ toSlot # Keep
  IN  /\ IsOwner(caller, row) \/ caller \in Admins
      /\ Active(row)
      /\ row.end > now
      /\ moving => StartedOnlyEndMoves(row, movingRoom, slot)
      /\ RoomUsable(room)
      /\ movingRoom => MayUse(rules, row.principal)
      /\ moving => IF Started(row)
                   THEN ExtensionAccepted(table, id, room, slot, rules)
                   ELSE MoveAccepted(table, id, room, slot, rules)

(* A decision made about the old slot is void: back through approval. *)
NeedsReapproval(row, rules, moving, slot) ==
  /\ moving
  /\ ~Started(row)
  /\ row.status = "APPROVED"
  /\ \/ rules.requiresApproval
     \/ rules.overAdvanceApproval /\ ExceedsMaxAdvance(slot, rules, now)

UpdatedRow(row, toRoom, toSlot) ==
  LET room == TargetRoom(row, toRoom)
      slot == TargetSlot(row, toSlot)
      rules == RulesFor(room)
      again == NeedsReapproval(row, rules, room # row.room \/ toSlot # Keep, slot)
  IN  [row EXCEPT !.room = room, !.start = slot.start, !.end = slot.end,
                  !.status = IF again THEN "PENDING" ELSE @,
                  !.steps = IF again THEN NewSteps(rules.approvers) ELSE @]

Update(caller, id, toRoom, toSlot) ==
  /\ toSlot # Keep => toSlot \in SlotType
  /\ UpdateAccepted(bookings, caller, id, toRoom, toSlot)
  /\ bookings' = [bookings EXCEPT ![id] = UpdatedRow(@, toRoom, toSlot)]
  /\ UNCHANGED <<now, policy, roomStatus, unchecked>>

-----------------------------------------------------------------------------
(* POST /bookings/:id/cancel *)

CancelAccepted(table, caller, id) ==
  /\ IsOwner(caller, table[id]) \/ caller \in Admins
  /\ Active(table[id])

Cancel(caller, id) ==
  /\ CancelAccepted(bookings, caller, id)
  /\ bookings' = [bookings EXCEPT ![id].status = "CANCELLED"]
  /\ UNCHANGED <<now, policy, roomStatus, unchecked>>

(* POST /approvals/:stepId/decide *)

OutcomeOfOne(steps) ==
  IF \E l \in DOMAIN steps : steps[l].decision = "APPROVED" THEN "APPROVED"
  ELSE IF \E l \in DOMAIN steps : steps[l].decision = "REJECTED" THEN "REJECTED"
  ELSE "PENDING"

(* The booking's status recomputed from its steps. *)
Outcome(steps) ==
  IF \E l \in DOMAIN steps : steps[l].decision = "REJECTED" THEN "REJECTED"
  ELSE IF \A l \in DOMAIN steps : steps[l].decision = "APPROVED" THEN "APPROVED"
  ELSE "PENDING"

MayDecide(user, step) ==
  /\ step.decision = "PENDING"
  /\ \/ step.approver = user
     \/ step.approver = NoUser /\ user \in Admins \cup ApproverRole

Decide(user, id, level, decision) ==
  LET row == bookings[id]
      steps == [row.steps EXCEPT ![level] =
                  [approver |-> user, decision |-> decision]]
      outcome == Outcome(steps)
  IN  /\ MayDecide(user, row.steps[level])
      /\ bookings' = [bookings EXCEPT
                        ![id].steps = steps,
                        ![id].status = IF outcome = "PENDING" THEN @ ELSE outcome]
      /\ unchecked' = IF outcome = "APPROVED" /\ ~Active(row)
                    THEN unchecked \cup {id} ELSE unchecked
      /\ UNCHANGED <<now, policy, roomStatus>>

(* POST /bookings/:id/check-in.  `scanned`: the request carries the token. *)

CheckIn(caller, id, scanned) ==
  LET row == bookings[id]
  IN  /\ row.token
      /\ scanned \/ IsOwner(caller, row) \/ caller \in Admins
      /\ ~row.checkedIn
      /\ row.status = "APPROVED"
      /\ row.start - Grace <= now
      /\ now <= row.end
      /\ bookings' = [bookings EXCEPT ![id].checkedIn = TRUE]
      /\ UNCHANGED <<now, policy, roomStatus, unchecked>>

-----------------------------------------------------------------------------
(* The no-show sweep, and what changes around the bookings. *)

NoShowCandidate(row) ==
  /\ row.status = "APPROVED"
  /\ row.room # NoRoom
  /\ row.end < now
  /\ row.end > now - Lookback
  /\ ~row.checkedIn
  /\ ~row.noShow

(* NoShowService.tick: one pass stamps every candidate. *)
NoShowSweep ==
  /\ \E b \in DOMAIN bookings : NoShowCandidate(bookings[b])
  /\ bookings' = [ b \in DOMAIN bookings |->
                     IF NoShowCandidate(bookings[b])
                     THEN [bookings[b] EXCEPT !.noShow = TRUE]
                     ELSE bookings[b] ]
  /\ UNCHANGED <<now, policy, roomStatus, unchecked>>

(* An administrator replaces the rules of a room. *)
SetPolicy(room, rules) ==
  /\ policy' = [policy EXCEPT ![room] = rules]
  /\ UNCHANGED <<now, bookings, roomStatus, unchecked>>

(* An administrator takes a room out of service or returns it; the bookings *)
(* already in it are left as they are.                                      *)
SetRoomStatus(room, status) ==
  /\ roomStatus' = [roomStatus EXCEPT ![room] = status]
  /\ UNCHANGED <<now, bookings, policy, unchecked>>

Tick ==
  /\ now < MaxTime
  /\ now' = now + 1
  /\ UNCHANGED <<bookings, policy, roomStatus, unchecked>>

Next ==
  \/ \E caller, principal \in Users, room \in Rooms \cup {NoRoom}, base \in Slots :
       \/ Create(caller, principal, room, base, "ONCE", 1)
       \/ \E freq \in {"DAILY", "WEEKLY"}, count \in 2..MaxSeries :
            Create(caller, principal, room, base, freq, count)
  \/ \E caller \in Users, id \in DOMAIN bookings :
       \/ \E toRoom \in Rooms \cup {Keep}, toSlot \in Slots \cup {Keep} :
            Update(caller, id, toRoom, toSlot)
       \/ Cancel(caller, id)
       \/ \E level \in DOMAIN bookings[id].steps, decision \in {"APPROVED", "REJECTED"} :
            Decide(caller, id, level, decision)
       \/ \E scanned \in BOOLEAN : CheckIn(caller, id, scanned)
  \/ NoShowSweep
  \/ \E room \in Rooms : \/ \E rules \in Policies : SetPolicy(room, rules)
                         \/ \E status \in RoomStates : SetRoomStatus(room, status)
  \/ Tick

Spec == Init /\ [][Next]_vars

-----------------------------------------------------------------------------
(* Properties. *)

(* Two bookings compete when both occupy the same room. *)
Compete(a, b) ==
  /\ a # b
  /\ Active(bookings[a]) /\ Active(bookings[b])
  /\ bookings[a].room = bookings[b].room
  /\ bookings[a].room # NoRoom

(* No two active bookings of a room overlap: "conflict detection with      *)
(* buffer" in create() and update().  The code does not keep this: an      *)
(* approver may still decide a step of a cancelled booking, which brings   *)
(* the booking back into a slot that has been given away since.            *)
NoDoubleBooking ==
  \A a, b \in DOMAIN bookings : Compete(a, b) => Disjoint(bookings[a], bookings[b])

(* What the conflict checks of create() and update() do guarantee, moves,  *)
(* extensions, series and policy edits included: competing bookings keep   *)
(* the smallest configured buffer between them unless one was brought back *)
(* by a late approval, or was booked too close to another of its series.   *)
ExclusiveUnlessUnchecked ==
  \A a, b \in DOMAIN bookings \ unchecked :
    Compete(a, b) => Apart(bookings[a], bookings[b], MinBuffer * TicksPerMinute)

(* ApprovalService.decide and the resets of update() keep the booking's    *)
(* status and its steps in agreement: a PENDING booking has a step someone *)
(* can still decide (it is never stuck) and no rejection, an APPROVED one  *)
(* has no step left open, a REJECTED one has a rejection.                  *)
StatusMatchesSteps ==
  \A b \in DOMAIN bookings :
    LET row == bookings[b]
        some(d) == \E l \in DOMAIN row.steps : row.steps[l].decision = d
    IN  /\ row.status = "PENDING" => some("PENDING") /\ ~some("REJECTED")
        /\ row.status = "APPROVED" => ~some("PENDING") /\ ~some("REJECTED")
        /\ row.status = "REJECTED" => some("REJECTED")

(* The owner is warned about an unused room only when the meeting is over  *)
(* and nobody checked in, and a warned booking is never used afterwards:   *)
(* the windows of check-in, extension and sweep do not overlap.            *)
NoShowMeansUnused ==
  \A b \in DOMAIN bookings :
    bookings[b].noShow => bookings[b].end < now /\ ~bookings[b].checkedIn

(* What a row says of its approval and of its use is so.                   *)
RowsAgree == StatusMatchesSteps /\ NoShowMeansUnused

(* A meeting under way keeps its room and its start, and a meeting that is *)
(* over keeps its end too, whatever is requested, by whomever.             *)
SlotFrozen ==
  [][ \A b \in DOMAIN bookings :
        /\ bookings[b].start <= now =>
             /\ bookings'[b].room = bookings[b].room
             /\ bookings'[b].start = bookings[b].start
        /\ bookings[b].end <= now => bookings'[b].end = bookings[b].end ]_vars

(* The calendar of rooms the bookings present: who holds which slot, those *)
(* apart that were not checked.                                            *)
Held ==
  { [id |-> b, room |-> bookings[b].room, start |-> bookings[b].start,
     end |-> bookings[b].end] :
      b \in { c \in DOMAIN bookings \ unchecked :
                Active(bookings[c]) /\ bookings[c].room # NoRoom } }

Calendar == INSTANCE RoomCalendar WITH held <- Held, Gap <- MinBuffer * TicksPerMinute

(* The booking core implements the room calendar, those bookings apart. *)
CalendarSpec == Calendar!Spec
=============================================================================
