--------------------------- MODULE Booking_proofs ---------------------------
(***************************************************************************)
(* Theorems about the booking core, about the change requests composed with *)
(* it and about the portal's dialogs around those, for every value of the   *)
(* constants.                                                               *)
(***************************************************************************)
EXTENDS RequestForms, SequenceTheorems, TLAPS

-----------------------------------------------------------------------------
(* Lemmas about sequences and about the operators of the model. *)

(* A function over 1..n with values in S is a sequence over S. *)
LEMMA FunctionIsSeq ==
  ASSUME NEW S, NEW n \in Nat, NEW f \in [1..n -> S]
  PROVE  f \in Seq(S) /\ Len(f) = n
  OBVIOUS

(* Whatever the policy, createApprovalSteps yields at least one step, all  *)
(* of them open.                                                           *)
LEMMA NewStepsOpen ==
  ASSUME NEW approvers \in Seq(Users)
  PROVE  /\ NewSteps(approvers) \in Seq(StepType)
         /\ 1 \in DOMAIN NewSteps(approvers)
         /\ \A l \in DOMAIN NewSteps(approvers) :
              NewSteps(approvers)[l].decision = "PENDING"
<1> DEFINE step(approver) == [approver |-> approver, decision |-> "PENDING"]
<1>1. CASE approvers = <<>>
  <2>1. NewSteps(approvers) = <<step(NoUser)>>
    BY <1>1 DEF NewSteps
  <2>2. step(NoUser) \in StepType
    BY DEF StepType, Decisions
  <2> QED BY <2>1, <2>2
<1>2. CASE approvers # <<>>
  <2>1. NewSteps(approvers) = [level \in 1..Len(approvers) |-> step(approvers[level])]
    BY <1>2 DEF NewSteps
  <2>2. \A level \in 1..Len(approvers) : step(approvers[level]) \in StepType
    BY DEF StepType, Decisions
  <2>3. Len(approvers) \in Nat \ {0}
    BY <1>2, EmptySeq
  <2>4. NewSteps(approvers) \in [1..Len(approvers) -> StepType]
    BY <2>1, <2>2
  <2> QED BY <2>1, <2>3, <2>4, FunctionIsSeq
<1> QED BY <1>1, <1>2

(* The rules that apply to a room are a validated rule set. *)
LEMMA RulesForType ==
  ASSUME TypeOK, NEW room \in Rooms \cup {NoRoom}
  PROVE  /\ RulesFor(room) \in RulesType
         /\ room # NoRoom => RulesFor(room) \in Policies
  BY PolicyAssumption, ActorAssumption DEF TypeOK, RulesFor

(* The rows create() persists: one per occurrence, for the slots asked for, *)
(* in the requested room, and with steps that agree with their status.      *)
LEMMA NewRowsType ==
  ASSUME TypeOK, NEW caller \in Users, NEW principal \in Users,
         NEW room \in Rooms \cup {NoRoom}, NEW series \in Seq(SlotType)
  PROVE  /\ NewRows(caller, principal, room, series) \in Seq(BookingType)
         /\ Len(NewRows(caller, principal, room, series)) = Len(series)
         /\ \A i \in 1..Len(series) :
              LET row == NewRows(caller, principal, room, series)[i]
              IN  /\ row.room = room /\ row.principal = principal
                  /\ row.start = series[i].start
                  /\ row.end = series[i].end
                  /\ ~row.noShow
                  /\ \/ /\ row.status = "PENDING"
                        /\ row.steps = NewSteps(RulesFor(room).approvers)
                     \/ row.status = "APPROVED" /\ row.steps = <<>>
<1> DEFINE rules == RulesFor(room)
           gated == NeedsApproval(rules, series)
           rowAt(i) == [ status    |-> IF gated THEN "PENDING" ELSE "APPROVED",
                       room      |-> room,
                       principal |-> principal,
                       booker    |-> caller,
                       start     |-> series[i].start,
                       end       |-> series[i].end,
                       token     |-> rules.checkInRequired,
                       checkedIn |-> FALSE,
                       noShow    |-> FALSE,
                       steps     |-> IF gated THEN NewSteps(rules.approvers) ELSE <<>> ]
<1>1. rules.checkInRequired \in BOOLEAN /\ rules.approvers \in Seq(Users)
  BY RulesForType DEF RulesType
<1>2. (IF gated THEN NewSteps(rules.approvers) ELSE <<>>) \in Seq(StepType)
  BY <1>1, NewStepsOpen, EmptySeq
<1>3. \A i \in 1..Len(series) : series[i].start \in Instants /\ series[i].end \in Instants
  <2>1. \A i \in 1..Len(series) : series[i] \in SlotType
    BY ElementOfSeq
  <2> QED BY <2>1 DEF SlotType
<1>4. \A i \in 1..Len(series) : rowAt(i) \in BookingType
  BY <1>1, <1>2, <1>3 DEF BookingType, BookingStates, ActiveStates
<1>5. NewRows(caller, principal, room, series) = [i \in 1..Len(series) |-> rowAt(i)]
  BY DEF NewRows
<1> HIDE DEF rowAt
<1>6. NewRows(caller, principal, room, series) \in [1..Len(series) -> BookingType]
  BY <1>4, <1>5
<1>7. Len(series) \in Nat
  OBVIOUS
<1>8. /\ NewRows(caller, principal, room, series) \in Seq(BookingType)
      /\ Len(NewRows(caller, principal, room, series)) = Len(series)
  BY <1>6, <1>7, FunctionIsSeq
<1> QED BY <1>5, <1>8 DEF rowAt

-----------------------------------------------------------------------------
(* The shape of the steps: what each one does to the Booking table. *)

LEMMA RowType ==
  ASSUME TypeOK, NEW id \in DOMAIN bookings
  PROVE  /\ bookings[id] \in BookingType
         /\ DOMAIN bookings = 1..Len(bookings)
         /\ Len(bookings) \in Nat
  BY ElementOfSeq DEF TypeOK

(* Replacing a row of the table leaves every other row alone.              *)
LEMMA Replaced ==
  ASSUME TypeOK, NEW id \in DOMAIN bookings, NEW row \in BookingType
  PROVE  LET new == [bookings EXCEPT ![id] = row]
         IN  /\ new \in Seq(BookingType)
             /\ DOMAIN new = DOMAIN bookings
             /\ new[id] = row
             /\ \A b \in DOMAIN bookings : b # id => new[b] = bookings[b]
  BY ExceptSeq, LenProperties DEF TypeOK

(* A request that rewrites one row leaves every other row alone. *)
LEMMA OneRow ==
  ASSUME TypeOK, NEW id \in DOMAIN bookings, NEW row \in BookingType,
         bookings' = [bookings EXCEPT ![id] = row]
  PROVE  /\ bookings' \in Seq(BookingType)
         /\ DOMAIN bookings' = DOMAIN bookings
         /\ bookings'[id] = row
         /\ \A b \in DOMAIN bookings : b # id => bookings'[b] = bookings[b]
  BY ExceptSeq, LenProperties DEF TypeOK

(* Rows appended to a table touch none of its own.                         *)
LEMMA Appended ==
  ASSUME NEW table \in Seq(BookingType), NEW rows \in Seq(BookingType)
  PROVE  /\ table \o rows \in Seq(BookingType)
         /\ Len(table) \in Nat /\ Len(rows) \in Nat
         /\ DOMAIN table = 1..Len(table)
         /\ DOMAIN (table \o rows) = 1..(Len(table) + Len(rows))
         /\ \A b \in 1..Len(table) : (table \o rows)[b] = table[b]
         /\ \A b \in (Len(table) + 1)..(Len(table) + Len(rows)) :
              /\ (table \o rows)[b] = rows[b - Len(table)]
              /\ b - Len(table) \in 1..Len(rows)
<1> DEFINE all == table \o rows
<1>1. /\ all \in Seq(BookingType)
      /\ Len(all) = Len(table) + Len(rows)
      /\ \A i \in 1..Len(table) + Len(rows) :
           all[i] = IF i <= Len(table) THEN table[i] ELSE rows[i - Len(table)]
  BY ConcatProperties
<1>2. Len(table) \in Nat /\ Len(rows) \in Nat
  BY LenProperties
<1> HIDE DEF all
<1>3. /\ DOMAIN table = 1..Len(table)
      /\ DOMAIN all = 1..(Len(table) + Len(rows))
      /\ \A b \in 1..Len(table) : all[b] = table[b]
      /\ \A b \in (Len(table) + 1)..(Len(table) + Len(rows)) :
           all[b] = rows[b - Len(table)] /\ b - Len(table) \in 1..Len(rows)
  BY <1>1, <1>2, LenProperties
<1> QED BY <1>1, <1>2, <1>3 DEF all

(* create() appends its rows to the table and touches no other. *)
LEMMA AppendRows ==
  ASSUME TypeOK, NEW rows \in Seq(BookingType), bookings' = bookings \o rows
  PROVE  /\ bookings' \in Seq(BookingType)
         /\ Len(bookings) \in Nat /\ Len(rows) \in Nat
         /\ DOMAIN bookings = 1..Len(bookings)
         /\ DOMAIN bookings' = 1..(Len(bookings) + Len(rows))
         /\ \A b \in 1..Len(bookings) : bookings'[b] = bookings[b]
         /\ \A b \in (Len(bookings) + 1)..(Len(bookings) + Len(rows)) :
              /\ bookings'[b] = rows[b - Len(bookings)]
              /\ b - Len(bookings) \in 1..Len(rows)
  BY Appended DEF TypeOK

LEMMA UpdatedRowType ==
  ASSUME TypeOK, NEW id \in DOMAIN bookings,
         NEW toRoom \in Rooms \cup {Keep}, NEW toSlot, toSlot # Keep => toSlot \in SlotType
  PROVE  UpdatedRow(bookings[id], toRoom, toSlot) \in BookingType
<1> DEFINE row == bookings[id]
           room == TargetRoom(row, toRoom)
           slot == TargetSlot(row, toSlot)
           again == NeedsReapproval(row, RulesFor(room),
                                    room # row.room \/ toSlot # Keep, slot)
           steps == IF again THEN NewSteps(RulesFor(room).approvers) ELSE row.steps
<1>1. row \in BookingType
  BY RowType
<1>2. room \in Rooms \cup {NoRoom}
  BY <1>1 DEF TargetRoom, BookingType
<1>3. slot.start \in Instants /\ slot.end \in Instants
  BY <1>1 DEF TargetSlot, BookingType, SlotType
<1>4. steps \in Seq(StepType)
  BY <1>1, <1>2, RulesForType, NewStepsOpen DEF BookingType, RulesType
<1>5. UpdatedRow(row, toRoom, toSlot) =
        [row EXCEPT !.room = room, !.start = slot.start, !.end = slot.end,
                    !.status = IF again THEN "PENDING" ELSE @,
                    !.steps = steps]
  BY DEF UpdatedRow
<1> HIDE DEF row, room, slot, again, steps
<1> QED BY <1>1, <1>2, <1>3, <1>4, <1>5 DEF BookingType, BookingStates, ActiveStates, row

-----------------------------------------------------------------------------
(* Type correctness. *)

LEMMA InitTypeOK == Init => TypeOK
  BY EmptySeq, PolicyAssumption, ActorAssumption, BoundAssumption DEF Init, TypeOK

LEMMA CreateTypeOK ==
  ASSUME TypeOK, NEW caller \in Users, NEW principal \in Users,
         NEW room \in Rooms \cup {NoRoom}, NEW base, NEW freq, NEW count,
         Create(caller, principal, room, base, freq, count)
  PROVE  TypeOK'
<1>1. PICK offsets :
        LET series == SeriesSlots(base, offsets)
        IN  /\ series \in Seq(SlotType)
            /\ bookings' = bookings \o NewRows(caller, principal, room, series)
            /\ unchecked' = unchecked \cup { Len(bookings) + i : i \in Crowded(series) }
            /\ UNCHANGED <<now, policy, roomStatus>>
  BY DEF Create, Fits
<1> DEFINE rows == NewRows(caller, principal, room, SeriesSlots(base, offsets))
<1>2. rows \in Seq(BookingType)
  BY <1>1, NewRowsType
<1>3. /\ bookings' \in Seq(BookingType)
      /\ DOMAIN bookings \subseteq DOMAIN bookings'
  <2> HIDE DEF rows
  <2>1. bookings' = bookings \o rows
    BY <1>1 DEF rows
  <2>3. bookings \in Seq(BookingType)
    BY DEF TypeOK
  <2> QED BY <1>2, <2>1, <2>3, AppendRows
<1>4. \A i \in Crowded(SeriesSlots(base, offsets)) : Len(bookings) + i \in DOMAIN bookings'
  <2> DEFINE series == SeriesSlots(base, offsets)
  <2> HIDE DEF series
  <2>1. series \in Seq(SlotType) /\ bookings' = bookings \o rows /\ bookings \in Seq(BookingType)
    BY <1>1 DEF series, rows, TypeOK
  <2>2. Len(rows) = Len(series)
    BY <2>1, NewRowsType DEF series, rows
  <2>3. /\ DOMAIN bookings' = 1..(Len(bookings) + Len(rows)) /\ Len(bookings) \in Nat
        /\ DOMAIN series = 1..Len(series) /\ Len(series) \in Nat
    <3> HIDE DEF rows
    <3> QED BY <1>2, <2>1, Appended, LenProperties
  <2> QED BY <2>2, <2>3 DEF Crowded, series
<1> HIDE DEF rows
<1>5. unchecked' \subseteq DOMAIN bookings'
  BY <1>1, <1>3, <1>4 DEF TypeOK
<1> QED BY <1>1, <1>3, <1>5 DEF TypeOK

LEMMA UpdateTypeOK ==
  ASSUME TypeOK, NEW caller \in Users, NEW id \in DOMAIN bookings,
         NEW toRoom \in Rooms \cup {Keep}, NEW toSlot \in Slots \cup {Keep},
         Update(caller, id, toRoom, toSlot)
  PROVE  TypeOK'
<1> DEFINE row == UpdatedRow(bookings[id], toRoom, toSlot)
<1>1. /\ bookings' = [bookings EXCEPT ![id] = row]
      /\ toSlot # Keep => toSlot \in SlotType
      /\ UNCHANGED <<now, policy, roomStatus, unchecked>>
  BY DEF Update
<1>2. row \in BookingType
  BY <1>1, UpdatedRowType
<1> HIDE DEF row
<1>3. bookings' \in Seq(BookingType) /\ DOMAIN bookings' = DOMAIN bookings
  BY <1>1, <1>2, OneRow
<1> QED BY <1>1, <1>3 DEF TypeOK

LEMMA CancelTypeOK ==
  ASSUME TypeOK, NEW caller \in Users, NEW id \in DOMAIN bookings, Cancel(caller, id)
  PROVE  TypeOK'
<1> DEFINE row == [bookings[id] EXCEPT !.status = "CANCELLED"]
<1>1. /\ bookings' = [bookings EXCEPT ![id] = row]
      /\ UNCHANGED <<now, policy, roomStatus, unchecked>>
  BY DEF Cancel
<1>2. row \in BookingType
  BY RowType DEF BookingType, BookingStates
<1> HIDE DEF row
<1>3. bookings' \in Seq(BookingType) /\ DOMAIN bookings' = DOMAIN bookings
  BY <1>1, <1>2, OneRow
<1> QED BY <1>1, <1>3 DEF TypeOK

(* The row a decision leaves behind. *)
DecidedSteps(row, user, level, decision) ==
  [row.steps EXCEPT ![level] = [approver |-> user, decision |-> decision]]

DecidedRow(row, user, level, decision) ==
  LET steps == DecidedSteps(row, user, level, decision)
  IN  [row EXCEPT !.steps = steps,
                  !.status = IF Outcome(steps) = "PENDING" THEN @ ELSE Outcome(steps)]

LEMMA DecideRow ==
  ASSUME TypeOK, NEW user \in Users, NEW id \in DOMAIN bookings,
         NEW level \in DOMAIN bookings[id].steps,
         NEW decision \in {"APPROVED", "REJECTED"},
         Decide(user, id, level, decision)
  PROVE  LET row == DecidedRow(bookings[id], user, level, decision)
         IN  /\ bookings' = [bookings EXCEPT ![id] = row]
             /\ row \in BookingType
             /\ DecidedSteps(bookings[id], user, level, decision) \in Seq(StepType)
             /\ UNCHANGED <<now, policy, roomStatus>>
             /\ unchecked' \in {unchecked, unchecked \cup {id}}
<1> DEFINE steps == DecidedSteps(bookings[id], user, level, decision)
<1>1. bookings[id] \in BookingType
  BY RowType
<1>2. steps \in Seq(StepType)
  <2>1. bookings[id].steps \in Seq(StepType)
    BY <1>1 DEF BookingType
  <2>2. [approver |-> user, decision |-> decision] \in StepType
    BY DEF StepType, Decisions
  <2>3. level \in 1..Len(bookings[id].steps)
    BY <2>1, LenProperties
  <2> QED BY <2>1, <2>2, <2>3, ExceptSeq DEF DecidedSteps
<1>3. Outcome(steps) \in {"PENDING", "APPROVED", "REJECTED"}
  BY DEF Outcome
<1>4. bookings' = [bookings EXCEPT ![id].steps = steps,
                                   ![id].status = IF Outcome(steps) = "PENDING"
                                                  THEN @ ELSE Outcome(steps)]
  BY DEF Decide, DecidedSteps
<1>5. /\ UNCHANGED <<now, policy, roomStatus>>
      /\ unchecked' \in {unchecked, unchecked \cup {id}}
  BY DEF Decide
<1> HIDE DEF steps
<1>6. DecidedRow(bookings[id], user, level, decision) =
        [bookings[id] EXCEPT !.steps = steps,
                             !.status = IF Outcome(steps) = "PENDING"
                                        THEN @ ELSE Outcome(steps)]
  BY DEF DecidedRow, steps
<1>7. DecidedRow(bookings[id], user, level, decision) \in BookingType
  BY <1>1, <1>2, <1>3, <1>6 DEF BookingType, BookingStates, ActiveStates
<1>8. bookings' = [bookings EXCEPT ![id] = DecidedRow(bookings[id], user, level, decision)]
  BY <1>4, <1>6
<1> QED BY <1>2, <1>5, <1>7, <1>8 DEF steps

LEMMA DecideTypeOK ==
  ASSUME TypeOK, NEW user \in Users, NEW id \in DOMAIN bookings,
         NEW level \in DOMAIN bookings[id].steps,
         NEW decision \in {"APPROVED", "REJECTED"},
         Decide(user, id, level, decision)
  PROVE  TypeOK'
<1> DEFINE row == DecidedRow(bookings[id], user, level, decision)
<1>1. /\ bookings' = [bookings EXCEPT ![id] = row]
      /\ row \in BookingType
      /\ UNCHANGED <<now, policy, roomStatus>>
      /\ unchecked' \in {unchecked, unchecked \cup {id}}
  BY DecideRow
<1> HIDE DEF row
<1>2. bookings' \in Seq(BookingType) /\ DOMAIN bookings' = DOMAIN bookings
  BY <1>1, OneRow
<1> QED BY <1>1, <1>2 DEF TypeOK

LEMMA CheckInTypeOK ==
  ASSUME TypeOK, NEW caller \in Users, NEW id \in DOMAIN bookings,
         NEW scanned \in BOOLEAN, CheckIn(caller, id, scanned)
  PROVE  TypeOK'
<1> DEFINE row == [bookings[id] EXCEPT !.checkedIn = TRUE]
<1>1. /\ bookings' = [bookings EXCEPT ![id] = row]
      /\ UNCHANGED <<now, policy, roomStatus, unchecked>>
  BY DEF CheckIn
<1>2. row \in BookingType
  BY RowType DEF BookingType
<1> HIDE DEF row
<1>3. bookings' \in Seq(BookingType) /\ DOMAIN bookings' = DOMAIN bookings
  BY <1>1, <1>2, OneRow
<1> QED BY <1>1, <1>3 DEF TypeOK

LEMMA NoShowSweepTypeOK ==
  ASSUME TypeOK, NoShowSweep
  PROVE  /\ TypeOK'
         /\ DOMAIN bookings' = DOMAIN bookings
<1> DEFINE row(b) == IF NoShowCandidate(bookings[b])
                     THEN [bookings[b] EXCEPT !.noShow = TRUE]
                     ELSE bookings[b]
<1>1. /\ bookings' = [b \in DOMAIN bookings |-> row(b)]
      /\ UNCHANGED <<now, policy, roomStatus, unchecked>>
  BY DEF NoShowSweep
<1>2. \A b \in DOMAIN bookings : row(b) \in BookingType
  BY RowType DEF BookingType
<1> HIDE DEF row
<1>3. DOMAIN bookings = 1..Len(bookings) /\ Len(bookings) \in Nat
  BY LenProperties DEF TypeOK
<1>4. bookings' \in [1..Len(bookings) -> BookingType]
  BY <1>1, <1>2, <1>3
<1>5. bookings' \in Seq(BookingType)
  BY <1>3, <1>4, FunctionIsSeq
<1> QED BY <1>1, <1>5 DEF TypeOK

(* The remaining actions leave the table alone. *)
Surroundings ==
  \/ \E room \in Rooms :
       \/ \E rules \in Policies : SetPolicy(room, rules)
       \/ \E status \in RoomStates : SetRoomStatus(room, status)
  \/ Tick

LEMMA SurroundingsTypeOK ==
  ASSUME TypeOK, Surroundings
  PROVE  /\ TypeOK'
         /\ bookings' = bookings /\ unchecked' = unchecked
         /\ now' >= now
<1>1. ASSUME NEW room \in Rooms, NEW rules \in Policies, SetPolicy(room, rules)
      PROVE  TypeOK' /\ bookings' = bookings /\ unchecked' = unchecked /\ now' = now
  BY <1>1 DEF TypeOK, SetPolicy
<1>2. ASSUME NEW room \in Rooms, NEW status \in RoomStates, SetRoomStatus(room, status)
      PROVE  TypeOK' /\ bookings' = bookings /\ unchecked' = unchecked /\ now' = now
  BY <1>2 DEF TypeOK, SetRoomStatus
<1>3. ASSUME Tick
      PROVE  TypeOK' /\ bookings' = bookings /\ unchecked' = unchecked /\ now' = now + 1
  BY <1>3, BoundAssumption DEF TypeOK, Tick
<1> QED BY <1>1, <1>2, <1>3, BoundAssumption DEF Surroundings, TypeOK

(* One lemma's worth of case analysis: what an invariant must survive. *)
LEMMA NextCases ==
  ASSUME Next
  PROVE  \/ \E caller, principal \in Users, room \in Rooms \cup {NoRoom}, base \in Slots,
              freq \in {"ONCE", "DAILY", "WEEKLY"}, count \in 1..MaxSeries \cup {1} :
              Create(caller, principal, room, base, freq, count)
         \/ \E caller \in Users, id \in DOMAIN bookings :
              \/ \E toRoom \in Rooms \cup {Keep}, toSlot \in Slots \cup {Keep} :
                   Update(caller, id, toRoom, toSlot)
              \/ Cancel(caller, id)
              \/ \E level \in DOMAIN bookings[id].steps,
                    decision \in {"APPROVED", "REJECTED"} :
                    Decide(caller, id, level, decision)
              \/ \E scanned \in BOOLEAN : CheckIn(caller, id, scanned)
         \/ NoShowSweep
         \/ Surroundings
<1>1. CASE \E caller, principal \in Users, room \in Rooms \cup {NoRoom}, base \in Slots :
             \/ Create(caller, principal, room, base, "ONCE", 1)
             \/ \E freq \in {"DAILY", "WEEKLY"}, count \in 2..MaxSeries :
                  Create(caller, principal, room, base, freq, count)
  <2>1. PICK caller \in Users, principal \in Users,
             room \in Rooms \cup {NoRoom}, base \in Slots :
               \/ Create(caller, principal, room, base, "ONCE", 1)
               \/ \E freq \in {"DAILY", "WEEKLY"}, count \in 2..MaxSeries :
                    Create(caller, principal, room, base, freq, count)
    BY <1>1
  <2>2. CASE Create(caller, principal, room, base, "ONCE", 1)
    BY <2>2
  <2>3. ASSUME NEW freq \in {"DAILY", "WEEKLY"}, NEW count \in 2..MaxSeries,
               Create(caller, principal, room, base, freq, count)
        PROVE  \E f \in {"ONCE", "DAILY", "WEEKLY"}, c \in 1..MaxSeries \cup {1} :
                 Create(caller, principal, room, base, f, c)
    <3>1. count \in 1..MaxSeries
      BY BoundAssumption
    <3> QED BY <2>3, <3>1
  <2> QED BY <2>1, <2>2, <2>3
<1> QED BY <1>1 DEF Next, Surroundings

LEMMA NextTypeOK ==
  ASSUME TypeOK, [Next]_vars
  PROVE  TypeOK'
<1>1. CASE UNCHANGED vars
  BY <1>1 DEF vars, TypeOK
<1>2. CASE Next
  BY <1>2, NextCases, CreateTypeOK, UpdateTypeOK, CancelTypeOK, DecideTypeOK,
     CheckInTypeOK, NoShowSweepTypeOK, SurroundingsTypeOK
<1> QED BY <1>1, <1>2

(* Every state of the booking core is well typed. *)
THEOREM TypeCorrect == Spec => []TypeOK
  BY InitTypeOK, NextTypeOK, PTL DEF Spec

-----------------------------------------------------------------------------
(* The room calendar.  Two conflict-free bookings may only be told apart   *)
(* by their times if each of them is a real interval, so the inductive     *)
(* invariant adds that every row starts before it ends.                    *)

RowsOrdered == \A b \in DOMAIN bookings : bookings[b].start < bookings[b].end

CalendarInv == TypeOK /\ RowsOrdered /\ ExclusiveUnlessUnchecked

Separate(s, t) == Apart(s, t, MinBuffer * TicksPerMinute)

(* Two rows that may only coexist apart. *)
Rivals(x, y) ==
  /\ Active(x) /\ Active(y)
  /\ x.room = y.room
  /\ x.room # NoRoom

ExclusiveTable(table, except) ==
  \A a, b \in DOMAIN table \ except :
    a # b /\ Rivals(table[a], table[b]) => Separate(table[a], table[b])

(* The invariant, as a statement about a table. *)
LEMMA ExclusiveIsOfTable ==
  /\ ExclusiveUnlessUnchecked <=> ExclusiveTable(bookings, unchecked)
  /\ ExclusiveUnlessUnchecked' <=> ExclusiveTable(bookings', unchecked')
BY DEF ExclusiveUnlessUnchecked, ExclusiveTable, Compete, Rivals, Active, Separate

LEMMA SeparateSymmetric ==
  ASSUME NEW s, NEW t, Separate(s, t)
  PROVE  Separate(t, s)
BY DEF Separate, Apart

(* Replacing one row by one that is apart from its rivals. *)
LEMMA ReplaceRow ==
  ASSUME NEW table, NEW except, ExclusiveTable(table, except),
         NEW id \in DOMAIN table, NEW row,
         \A b \in DOMAIN table \ {id} :
           Rivals(row, table[b]) =>
             Separate(row, table[b]) \/ {id, b} \cap except # {}
  PROVE  ExclusiveTable([table EXCEPT ![id] = row], except)
<1> DEFINE new == [table EXCEPT ![id] = row]
<1>1. /\ DOMAIN new = DOMAIN table /\ new[id] = row
      /\ \A b \in DOMAIN table \ {id} : new[b] = table[b]
  OBVIOUS
<1> HIDE DEF new
<1>2. SUFFICES ASSUME NEW a \in DOMAIN table \ except, NEW b \in DOMAIN table \ except,
                      a # b, Rivals(new[a], new[b])
               PROVE  Separate(new[a], new[b])
  BY <1>1 DEF ExclusiveTable, new
<1>3. CASE a = id
  BY <1>1, <1>2, <1>3
<1>4. CASE b = id
  <2>1. Rivals(new[b], new[a])
    BY <1>2 DEF Rivals
  <2> QED BY <1>1, <1>2, <1>4, <2>1, SeparateSymmetric
<1>5. CASE a # id /\ b # id
  BY <1>1, <1>2, <1>5 DEF ExclusiveTable
<1> QED BY <1>3, <1>4, <1>5

(* A slot the conflict query finds free keeps the buffer to every booking  *)
(* that holds the room.                                                    *)
LEMMA NoConflictSeparates ==
  ASSUME NEW table \in Seq(BookingType), NEW rules \in Policies, NEW room, NEW exclude,
         NEW slot, slot.start \in Int, slot.end \in Int,
         ~HasConflict(table, room, slot, rules.buffer, exclude),
         NEW b \in DOMAIN table, b # exclude,
         Active(table[b]), table[b].room = room
  PROVE  Separate(table[b], slot) /\ Separate(slot, table[b])
<1>1. /\ rules.buffer \in Nat /\ rules.buffer >= MinBuffer /\ MinBuffer \in Nat
  BY PolicyAssumption, BufferAssumption, BoundAssumption DEF RulesType
<1>2. table[b].start \in Int /\ table[b].end \in Int
  <2>1. table[b] \in BookingType
    BY ElementOfSeq
  <2> QED BY <2>1, BoundAssumption DEF BookingType, Instants
<1>3. \/ table[b].start >= slot.end + rules.buffer * 2
      \/ table[b].end <= slot.start - rules.buffer * 2
  BY <1>1, <1>2 DEF HasConflict, OverlapsBuffered, TicksPerMinute
<1> QED BY <1>1, <1>2, <1>3 DEF Separate, Apart, TicksPerMinute

(* With the smallest buffer, the longest meeting the rules allow fits into  *)
(* a day.  The service does not ask that of a policy.                       *)
WithinADay(rules) == (rules.maxDuration + MinBuffer) * TicksPerMinute <= DayTicks

(* A valid slot is an interval, and with its buffer it fits into a day.     *)
LEMMA ValidSlotFits ==
  ASSUME NEW rules \in RulesType, WithinADay(rules), NEW slot, slot.start \in Int, slot.end \in Int,
         NEW t, NEW over, ValidSlot(slot, rules, t, over)
  PROVE  /\ slot.start < slot.end
         /\ slot.end + MinBuffer * TicksPerMinute <= slot.start + DayTicks
<1>1. /\ rules.maxDuration \in Nat
      /\ (rules.maxDuration + MinBuffer) * 2 <= DayTicks
  BY DEF RulesType, WithinADay, TicksPerMinute
<1>2. /\ slot.end > slot.start
      /\ (slot.end - slot.start + 1) \div 2 <= rules.maxDuration
  BY DEF ValidSlot, MinutesBetween, TicksPerMinute
<1>3. slot.end - slot.start <= 2 * rules.maxDuration
  BY <1>1, <1>2
<1> QED BY <1>1, <1>2, <1>3, BoundAssumption, TimeAssumption DEF TicksPerMinute

(* The day offsets of a series strictly increase. *)
LEMMA OffsetsIncrease ==
  ASSUME NEW base, NEW freq \in {"ONCE", "DAILY", "WEEKLY"}, NEW count \in Nat \ {0},
         NEW days, NEW offsets \in SeriesOffsets(base, freq, count, days)
  PROVE  /\ DOMAIN offsets \subseteq Nat
         /\ \A i \in DOMAIN offsets : offsets[i] \in Nat
         /\ \A i, j \in DOMAIN offsets : i < j => offsets[i] + 1 <= offsets[j]
<1>1. CASE freq = "ONCE"
  <2>1. offsets = [i \in 1..1 |-> 0]
    BY <1>1 DEF SeriesOffsets
  <2> QED BY <2>1
<1>2. CASE freq = "WEEKLY"
  <2>1. offsets = [i \in 1..count |-> (i - 1) * DaysPerWeek]
    BY <1>2 DEF SeriesOffsets
  <2>2. DaysPerWeek \in Nat \ {0}
    BY TimeAssumption
  <2>3. \A i \in 1..count : (i - 1) * DaysPerWeek \in Nat
    BY <2>2
  <2>4. ASSUME NEW i \in 1..count, NEW j \in 1..count, i < j
        PROVE  (i - 1) * DaysPerWeek + 1 <= (j - 1) * DaysPerWeek
    <3>1. (j - 1) * DaysPerWeek = (i - 1) * DaysPerWeek + (j - i) * DaysPerWeek
      BY <2>2
    <3>2. (j - i) * DaysPerWeek >= 1
      BY <2>2, <2>4
    <3>3. (i - 1) * DaysPerWeek \in Int /\ (j - i) * DaysPerWeek \in Int
      BY <2>2
    <3> QED BY <3>1, <3>2, <3>3
  <2> QED BY <2>1, <2>3, <2>4
<1>3. CASE freq = "DAILY"
  <2>1. /\ offsets \in [1..count -> 0..LastDay]
        /\ \A i, j \in 1..count : i < j => offsets[i] < offsets[j]
    BY <1>3 DEF SeriesOffsets, DailyOffsets
  <2> QED BY <2>1, TimeAssumption
<1> QED BY <1>1, <1>2, <1>3

(* The occurrences of a series that passed validateSlot do not collide,    *)
(* although create() never compares them with each other, where each of    *)
(* them, with its buffer, fits into a day: they are at least a day apart.  *)
LEMMA SeriesSeparate ==
  ASSUME NEW base \in Slots, NEW freq \in {"ONCE", "DAILY", "WEEKLY"},
         NEW count \in Nat \ {0}, NEW days,
         NEW offsets \in SeriesOffsets(base, freq, count, days),
         NEW rules \in RulesType, WithinADay(rules), NEW t, NEW over,
         \A i \in DOMAIN offsets : ValidSlot(SeriesSlots(base, offsets)[i], rules, t, over),
         NEW i \in DOMAIN offsets, NEW j \in DOMAIN offsets, i # j
  PROVE  Separate(SeriesSlots(base, offsets)[i], SeriesSlots(base, offsets)[j])
<1> DEFINE at(k) == SeriesSlots(base, offsets)[k]
<1>1. /\ base.start \in Nat /\ base.end \in Nat
      /\ DayTicks \in Nat /\ MinBuffer \in Nat
  BY BoundAssumption, TimeAssumption
<1>2. \A k \in DOMAIN offsets : /\ offsets[k] \in Nat
                                 /\ at(k).start = base.start + offsets[k] * DayTicks
                                 /\ at(k).end = base.end + offsets[k] * DayTicks
  BY OffsetsIncrease DEF SeriesSlots, Shift
<1>3. \A k \in DOMAIN offsets : offsets[k] * DayTicks \in Nat
  BY <1>1, <1>2
<1>4. ASSUME NEW k \in DOMAIN offsets, NEW l \in DOMAIN offsets, k < l
      PROVE  at(k).end + MinBuffer * TicksPerMinute <= at(l).start
  <2>1. offsets[k] + 1 <= offsets[l]
    BY <1>4, OffsetsIncrease
  <2>2. offsets[l] * DayTicks = offsets[k] * DayTicks + (offsets[l] - offsets[k]) * DayTicks
    BY <1>1, <1>2
  <2>3. (offsets[l] - offsets[k]) * DayTicks >= DayTicks
    BY <1>1, <1>2, <2>1
  <2>4. at(k).start \in Int /\ at(k).end \in Int
    BY <1>1, <1>2, <1>3
  <2>5. at(k).end + MinBuffer * TicksPerMinute <= at(k).start + DayTicks
    <3>1. ValidSlot(at(k), rules, t, over)
      OBVIOUS
    <3> HIDE DEF at
    <3> QED BY <2>4, <3>1, ValidSlotFits
  <2>6. (offsets[l] - offsets[k]) * DayTicks \in Int
    BY <1>1, <1>2
  <2> QED BY <1>1, <1>2, <1>3, <2>2, <2>3, <2>5, <2>6 DEF TicksPerMinute
<1>5. i < j \/ j < i
  <2>1. DOMAIN offsets \subseteq Nat
    BY OffsetsIncrease
  <2> QED BY <2>1
<1> QED BY <1>4, <1>5 DEF Separate, Apart

(* Rules under which a meeting and its buffer fit into a day leave create() *)
(* with nothing to compare within a series: no occurrence it accepts comes  *)
(* too close to another of the same request.                                *)
THEOREM SeriesNeverCrowded ==
  ASSUME NEW base \in Slots, NEW freq \in {"ONCE", "DAILY", "WEEKLY"},
         NEW count \in Nat \ {0}, NEW days,
         NEW offsets \in SeriesOffsets(base, freq, count, days),
         NEW rules \in RulesType, WithinADay(rules), NEW t, NEW over,
         \A i \in DOMAIN offsets : ValidSlot(SeriesSlots(base, offsets)[i], rules, t, over)
  PROVE  Crowded(SeriesSlots(base, offsets)) = {}
<1>1. DOMAIN SeriesSlots(base, offsets) = DOMAIN offsets
  BY DEF SeriesSlots
<1>2. \A i, j \in DOMAIN offsets :
        i # j => Separate(SeriesSlots(base, offsets)[i], SeriesSlots(base, offsets)[j])
  BY SeriesSeparate
<1> QED BY <1>1, <1>2 DEF Crowded, Separate

(* A table of well-formed rows that is exclusive.                          *)
Sound(table, except) ==
  /\ table \in Seq(BookingType)
  /\ \A b \in DOMAIN table : table[b].start < table[b].end
  /\ ExclusiveTable(table, except)

LEMMA CalendarIsSound ==
  /\ CalendarInv => TypeOK /\ Sound(bookings, unchecked)
  /\ Sound(bookings', unchecked') => RowsOrdered' /\ ExclusiveUnlessUnchecked'
BY ExclusiveIsOfTable DEF CalendarInv, Sound, RowsOrdered, TypeOK

(* Booking what create() accepts keeps a table sound, the occurrences that  *)
(* come too close to each other apart.                                      *)
LEMMA CreateSound ==
  ASSUME TypeOK, NEW table, NEW except, Sound(table, except),
         NEW caller \in Users, NEW principal \in Users, NEW room \in Rooms \cup {NoRoom},
         NEW series \in Seq(SlotType), NEW recurring,
         CreateAccepted(table, caller, principal, room, series, recurring)
  PROVE  Sound(table \o NewRows(caller, principal, room, series),
               except \cup { Len(table) + i : i \in Crowded(series) })
<1> DEFINE rules == RulesFor(room)
           rows == NewRows(caller, principal, room, series)
           new == table \o rows
           n == Len(table)
           apart == except \cup { n + i : i \in Crowded(series) }
<1>1. /\ rows \in Seq(BookingType) /\ Len(rows) = Len(series)
      /\ \A i \in 1..Len(series) : /\ rows[i].room = room
                                    /\ rows[i].start = series[i].start
                                    /\ rows[i].end = series[i].end
  BY NewRowsType
<1>2. DOMAIN series = 1..Len(series) /\ Len(series) \in Nat
  BY LenProperties
<1>3. \A i \in DOMAIN series : series[i].start \in Int /\ series[i].end \in Int
  <2>1. \A i \in DOMAIN series : series[i] \in SlotType
    BY ElementOfSeq
  <2> QED BY <2>1, BoundAssumption DEF SlotType, Instants
<1>4. \A i \in DOMAIN series :
        /\ ValidSlot(series[i], rules, now, rules.overAdvanceApproval)
        /\ room # NoRoom => ~HasConflict(table, room, series[i], rules.buffer, 0)
  BY DEF CreateAccepted
<1>5. /\ table \in Seq(BookingType)
      /\ \A b \in DOMAIN table : table[b].start < table[b].end
      /\ ExclusiveTable(table, except)
  BY DEF Sound
<1> HIDE DEF rows
<1>6. /\ n \in Nat /\ DOMAIN table = 1..n
      /\ new \in Seq(BookingType) /\ DOMAIN new = 1..(n + Len(series))
      /\ \A b \in 1..n : new[b] = table[b]
      /\ \A b \in (n + 1)..(n + Len(series)) : new[b] = rows[b - n] /\ b - n \in DOMAIN series
  <2>1. /\ n \in Nat /\ DOMAIN table = 1..n
        /\ new \in Seq(BookingType) /\ DOMAIN new = 1..(n + Len(rows))
        /\ \A b \in 1..n : new[b] = table[b]
        /\ \A b \in (n + 1)..(n + Len(rows)) : new[b] = rows[b - n] /\ b - n \in 1..Len(rows)
    BY <1>1, <1>5, Appended
  <2> HIDE DEF new, n
  <2> QED BY <1>1, <1>2, <2>1
<1>61. /\ except \subseteq apart
      /\ \A i \in Crowded(series) : n + i \in apart
  OBVIOUS
<1> HIDE DEF new, n, apart
<1>7. \A b \in DOMAIN new : b \in 1..n \/ b \in (n + 1)..(n + Len(series))
  BY <1>2, <1>6
<1>8. ASSUME NEW c \in (n + 1)..(n + Len(series))
      PROVE  /\ c - n \in DOMAIN series
             /\ new[c].room = room
             /\ new[c].start = series[c - n].start
             /\ new[c].end = series[c - n].end
  BY <1>1, <1>2, <1>6, <1>8
<1>9. ASSUME NEW b \in DOMAIN new
      PROVE  new[b].start < new[b].end
  <2>1. CASE b \in 1..n
    BY <1>5, <1>6, <2>1
  <2>2. CASE b \in (n + 1)..(n + Len(series))
    <3>1. series[b - n].start < series[b - n].end
      BY <1>3, <1>4, <1>8, <2>2 DEF ValidSlot
    <3> QED BY <1>8, <2>2, <3>1
  <2> QED BY <1>7, <2>1, <2>2
<1>10. ASSUME NEW a \in DOMAIN new \ apart, NEW b \in DOMAIN new \ apart,
              a # b, Rivals(new[a], new[b])
       PROVE  Separate(new[a], new[b])
  <2>1. CASE room = NoRoom
    \* an ONLINE booking competes with nobody
    <3>1. a \in 1..n /\ b \in 1..n
      BY <1>7, <1>8, <1>10, <2>1 DEF Rivals
    <3> QED BY <1>5, <1>6, <1>61, <1>10, <3>1 DEF ExclusiveTable
  <2>2. CASE room # NoRoom
    <3>1. rules \in Policies
      BY <2>2, RulesForType
    <3>2. ASSUME NEW c \in DOMAIN table, Active(table[c]), table[c].room = room,
                 NEW i \in DOMAIN series
          PROVE  Separate(table[c], series[i])
      <4>1. c # 0
        BY <1>6
      <4> HIDE DEF rules
      <4> QED BY <1>3, <1>4, <1>5, <2>2, <3>1, <3>2, <4>1, NoConflictSeparates
    <3> HIDE DEF rules
    <3>3. ASSUME NEW c \in 1..n, NEW d \in (n + 1)..(n + Len(series)),
                 Rivals(new[c], new[d])
          PROVE  Separate(new[c], new[d])
      <4>1. /\ c \in DOMAIN table /\ new[c] = table[c]
            /\ Active(table[c]) /\ table[c].room = room
        BY <1>6, <1>8, <3>3 DEF Rivals
      <4>2. Separate(table[c], series[d - n])
        BY <1>8, <3>2, <4>1
      <4> QED BY <1>8, <4>1, <4>2 DEF Separate, Apart
    <3>4. CASE a \in 1..n /\ b \in 1..n
      BY <1>5, <1>6, <1>61, <1>10, <3>4 DEF ExclusiveTable
    <3>5. CASE a \in 1..n /\ b \in (n + 1)..(n + Len(series))
      BY <1>10, <3>3, <3>5
    <3>6. CASE a \in (n + 1)..(n + Len(series)) /\ b \in 1..n
      <4>1. Rivals(new[b], new[a])
        BY <1>10 DEF Rivals
      <4> QED BY <3>3, <3>6, <4>1, SeparateSymmetric
    <3>7. CASE a \in (n + 1)..(n + Len(series)) /\ b \in (n + 1)..(n + Len(series))
      <4>1. a - n # b - n /\ n + (a - n) = a
        BY <1>6, <1>10, <3>7
      <4>2. a - n \in DOMAIN series /\ b - n \in DOMAIN series /\ a - n \notin Crowded(series)
        BY <1>8, <1>61, <1>10, <3>7, <4>1
      <4>3. Separate(series[a - n], series[b - n])
        BY <4>1, <4>2 DEF Crowded, Separate
      <4> QED BY <1>8, <3>7, <4>3 DEF Separate, Apart
    <3> QED BY <1>7, <3>4, <3>5, <3>6, <3>7
  <2> QED BY <2>1, <2>2
<1>11. Sound(new, apart)
  BY <1>6, <1>9, <1>10 DEF Sound, ExclusiveTable
<1> QED BY <1>11 DEF new, n, apart, rows

LEMMA CreateCalendar ==
  ASSUME CalendarInv, NEW caller \in Users, NEW principal \in Users,
         NEW room \in Rooms \cup {NoRoom}, NEW base \in Slots,
         NEW freq \in {"ONCE", "DAILY", "WEEKLY"}, NEW count \in Nat \ {0},
         Create(caller, principal, room, base, freq, count)
  PROVE  RowsOrdered' /\ ExclusiveUnlessUnchecked'
<1>1. PICK offsets :
        LET series == SeriesSlots(base, offsets)
        IN  /\ series \in Seq(SlotType)
            /\ CreateAccepted(bookings, caller, principal, room, series, freq # "ONCE")
            /\ bookings' = bookings \o NewRows(caller, principal, room, series)
            /\ unchecked' = unchecked \cup { Len(bookings) + i : i \in Crowded(series) }
  BY DEF Create, Fits
<1> DEFINE series == SeriesSlots(base, offsets)
<1>2. TypeOK /\ Sound(bookings, unchecked)
  BY CalendarIsSound
<1> HIDE DEF series
<1>5. Sound(bookings', unchecked')
  BY <1>1, <1>2, CreateSound DEF series
<1> QED BY <1>5, CalendarIsSound

(* No step that leaves the slots alone and brings nothing back to life can *)
(* break the calendar.                                                     *)
LEMMA SlotsKept ==
  ASSUME CalendarInv, DOMAIN bookings' = DOMAIN bookings, unchecked \subseteq unchecked',
         \A b \in DOMAIN bookings :
           /\ bookings'[b].room = bookings[b].room
           /\ bookings'[b].start = bookings[b].start
           /\ bookings'[b].end = bookings[b].end
           /\ b \in unchecked' \/ (Active(bookings'[b]) => Active(bookings[b]))
  PROVE  RowsOrdered' /\ ExclusiveUnlessUnchecked'
<1>1. RowsOrdered /\ ExclusiveTable(bookings, unchecked)
  BY ExclusiveIsOfTable DEF CalendarInv
<1>2. RowsOrdered'
  BY <1>1 DEF RowsOrdered
<1>3. ASSUME NEW a \in DOMAIN bookings' \ unchecked', NEW b \in DOMAIN bookings' \ unchecked',
             a # b, Rivals(bookings'[a], bookings'[b])
      PROVE  Separate(bookings'[a], bookings'[b])
  <2>1. Rivals(bookings[a], bookings[b])
    BY <1>3 DEF Rivals
  <2>2. Separate(bookings[a], bookings[b])
    BY <1>1, <1>3, <2>1 DEF ExclusiveTable
  <2> QED BY <1>3, <2>2 DEF Separate, Apart
<1> QED BY <1>2, <1>3, ExclusiveIsOfTable DEF ExclusiveTable

(* A meeting under way that gains time keeps its distance: what it gains   *)
(* was checked, and nothing can hide between the old end and the new one.  *)
LEMMA ExtensionSeparates ==
  ASSUME CalendarInv, NEW id \in DOMAIN bookings, NEW b \in DOMAIN bookings, b # id,
         NEW slot, slot.start = bookings[id].start, slot.end \in Int,
         NEW rules \in Policies,
         slot.end > bookings[id].end =>
           ~HasConflict(bookings, bookings[id].room,
                        [start |-> bookings[id].end, end |-> slot.end], rules.buffer, id),
         Active(bookings[b]), bookings[b].room = bookings[id].room,
         Separate(bookings[id], bookings[b])
  PROVE  Separate(slot, bookings[b])
<1> DEFINE gained == [start |-> bookings[id].end, end |-> slot.end]
<1>1. TypeOK /\ RowsOrdered
  BY DEF CalendarInv
<1>2. /\ bookings[id].start \in Int /\ bookings[id].end \in Int
      /\ bookings[b].start \in Int /\ bookings[b].end \in Int
      /\ MinBuffer \in Nat
  BY <1>1, RowType, BoundAssumption DEF BookingType, Instants
<1>3. bookings[b].start < bookings[b].end
  BY <1>1 DEF RowsOrdered
<1>4. CASE slot.end <= bookings[id].end
  BY <1>2, <1>4 DEF Separate, Apart, TicksPerMinute
<1>5. CASE slot.end > bookings[id].end
  <2>1. gained.start \in Int /\ gained.end \in Int
    BY <1>2
  <2>2. Separate(gained, bookings[b])
    <3>1. ~HasConflict(bookings, bookings[id].room, gained, rules.buffer, id)
      BY <1>5
    <3> HIDE DEF gained
    <3>2. bookings \in Seq(BookingType)
      BY <1>1 DEF TypeOK
    <3> QED BY <2>1, <3>1, <3>2, NoConflictSeparates
  <2> QED BY <1>2, <1>3, <2>2 DEF Separate, Apart, TicksPerMinute
<1> QED BY <1>2, <1>4, <1>5

(* So does moving a booking as update() accepts it.                        *)
LEMMA UpdateSound ==
  ASSUME CalendarInv, NEW caller \in Users, NEW id \in DOMAIN bookings,
         NEW toRoom \in Rooms \cup {Keep}, NEW toSlot, toSlot # Keep => toSlot \in SlotType,
         UpdateAccepted(bookings, caller, id, toRoom, toSlot)
  PROVE  Sound([bookings EXCEPT ![id] = UpdatedRow(bookings[id], toRoom, toSlot)], unchecked)
<1> DEFINE old == bookings[id]
           row == UpdatedRow(old, toRoom, toSlot)
           room == TargetRoom(old, toRoom)
           slot == TargetSlot(old, toSlot)
           rules == RulesFor(room)
           moving == room # old.room \/ toSlot # Keep
           new == [bookings EXCEPT ![id] = row]
<1>1. /\ toSlot # Keep => toSlot \in SlotType
      /\ UpdateAccepted(bookings, caller, id, toRoom, toSlot)
  OBVIOUS
<1>2. TypeOK /\ RowsOrdered /\ ExclusiveTable(bookings, unchecked)
  BY ExclusiveIsOfTable DEF CalendarInv
<1>3. old \in BookingType /\ row \in BookingType
  BY <1>1, <1>2, RowType, UpdatedRowType
<1>4. /\ room \in Rooms \cup {NoRoom}
      /\ slot.start \in Int /\ slot.end \in Int
      /\ old.start \in Int /\ old.end \in Int /\ now \in Int
  <2>1. room \in Rooms \cup {NoRoom}
    BY <1>3 DEF TargetRoom, BookingType
  <2>2. old.start \in Instants /\ old.end \in Instants
    BY <1>3 DEF BookingType
  <2>3. slot.start \in Instants /\ slot.end \in Instants
    BY <1>1, <2>2 DEF TargetSlot, SlotType
  <2>4. now \in Int
    BY <1>2, BoundAssumption DEF TypeOK
  <2> HIDE DEF old, slot, room
  <2> QED BY <2>1, <2>2, <2>3, <2>4, BoundAssumption DEF Instants
<1>5. /\ Active(old) /\ Active(row)
      /\ row.room = room /\ row.start = slot.start /\ row.end = slot.end
  BY <1>1, <1>3 DEF UpdateAccepted, UpdatedRow, Active, ActiveStates, BookingType
<1>6. /\ moving => StartedOnlyEndMoves(old, room # old.room, slot)
      /\ moving => IF Started(old)
                   THEN ExtensionAccepted(bookings, id, room, slot, rules)
                   ELSE MoveAccepted(bookings, id, room, slot, rules)
  BY <1>1 DEF UpdateAccepted
<1>7. ~moving => room = old.room /\ slot.start = old.start /\ slot.end = old.end
  BY DEF TargetSlot
<1>8. room # NoRoom => rules \in Policies
  BY <1>2, <1>4, RulesForType
<1> HIDE DEF row, room, slot, rules
<1>9. row.start < row.end
  <2>1. CASE ~moving
    BY <1>2, <1>5, <1>7, <2>1 DEF RowsOrdered
  <2>2. CASE moving /\ Started(old)
    BY <1>4, <1>5, <1>6, <2>2 DEF ExtensionAccepted, StartedOnlyEndMoves, Started
  <2>3. CASE moving /\ ~Started(old)
    BY <1>5, <1>6, <2>3 DEF MoveAccepted, ValidSlot
  <2> QED BY <2>1, <2>2, <2>3
<1>10. ASSUME NEW b \in DOMAIN bookings \ {id}, Rivals(row, bookings[b]),
              {id, b} \cap unchecked = {}
       PROVE  Separate(row, bookings[b])
  <2>1. /\ Active(bookings[b]) /\ bookings[b].room = room /\ room # NoRoom
    BY <1>5, <1>10 DEF Rivals
  <2>2. room = old.room => Separate(old, bookings[b])
    BY <1>2, <1>5, <1>10, <2>1 DEF ExclusiveTable, Rivals
  <2>3. Separate(slot, bookings[b])
    <3>1. CASE ~moving
      BY <1>7, <2>2, <3>1 DEF Separate, Apart
    <3>2. CASE moving /\ Started(old)
      <4>1. room = old.room /\ slot.start = old.start
        BY <1>6, <3>2 DEF StartedOnlyEndMoves
      <4>2. slot.end > old.end =>
              ~HasConflict(bookings, old.room, [start |-> old.end, end |-> slot.end],
                           rules.buffer, id)
        BY <1>6, <2>1, <3>2, <4>1 DEF ExtensionAccepted
      <4> QED BY <1>4, <1>8, <1>10, <2>1, <2>2, <4>1, <4>2, ExtensionSeparates
    <3>3. CASE moving /\ ~Started(old)
      <4>1. ~HasConflict(bookings, room, slot, rules.buffer, id)
        BY <1>6, <2>1, <3>3 DEF MoveAccepted
      <4>2. bookings \in Seq(BookingType)
        BY <1>2 DEF TypeOK
      <4> QED BY <1>4, <1>8, <1>10, <2>1, <4>1, <4>2, NoConflictSeparates
    <3> QED BY <3>1, <3>2, <3>3
  <2> QED BY <1>5, <2>3 DEF Separate, Apart
<1>11. ExclusiveTable(new, unchecked)
  BY <1>2, <1>10, ReplaceRow
<1>12. /\ new \in Seq(BookingType) /\ DOMAIN new = DOMAIN bookings /\ new[id] = row
       /\ \A b \in DOMAIN bookings : b # id => new[b] = bookings[b]
  BY <1>2, <1>3, Replaced
<1> HIDE DEF new
<1>13. Sound(new, unchecked)
  BY <1>2, <1>9, <1>11, <1>12 DEF Sound, RowsOrdered
<1> QED BY <1>13 DEF new, row

LEMMA UpdateCalendar ==
  ASSUME CalendarInv, NEW caller \in Users, NEW id \in DOMAIN bookings,
         NEW toRoom \in Rooms \cup {Keep}, NEW toSlot \in Slots \cup {Keep},
         Update(caller, id, toRoom, toSlot)
  PROVE  RowsOrdered' /\ ExclusiveUnlessUnchecked'
<1>1. /\ bookings' = [bookings EXCEPT ![id] = UpdatedRow(bookings[id], toRoom, toSlot)]
      /\ toSlot # Keep => toSlot \in SlotType
      /\ unchecked' = unchecked
      /\ UpdateAccepted(bookings, caller, id, toRoom, toSlot)
  BY DEF Update
<1>2. Sound(bookings', unchecked')
  BY <1>1, UpdateSound
<1> QED BY <1>2, CalendarIsSound

LEMMA CancelCalendar ==
  ASSUME CalendarInv, NEW caller \in Users, NEW id \in DOMAIN bookings, Cancel(caller, id)
  PROVE  RowsOrdered' /\ ExclusiveUnlessUnchecked'
<1> DEFINE row == [bookings[id] EXCEPT !.status = "CANCELLED"]
<1>1. bookings' = [bookings EXCEPT ![id] = row] /\ unchecked' = unchecked
  BY DEF Cancel
<1>2. bookings[id] \in BookingType
  BY RowType DEF CalendarInv
<1>3. ~Active(row) /\ row.room = bookings[id].room
      /\ row.start = bookings[id].start /\ row.end = bookings[id].end
  BY <1>2 DEF BookingType, Active, ActiveStates
<1> HIDE DEF row
<1> QED BY <1>1, <1>3, SlotsKept

LEMMA DecideCalendar ==
  ASSUME CalendarInv, NEW user \in Users, NEW id \in DOMAIN bookings,
         NEW level \in DOMAIN bookings[id].steps,
         NEW decision \in {"APPROVED", "REJECTED"},
         Decide(user, id, level, decision)
  PROVE  RowsOrdered' /\ ExclusiveUnlessUnchecked'
<1> DEFINE steps == DecidedSteps(bookings[id], user, level, decision)
           row == DecidedRow(bookings[id], user, level, decision)
<1>1. bookings' = [bookings EXCEPT ![id] = row]
      /\ unchecked \subseteq unchecked'
  BY DecideRow DEF CalendarInv
<1>2. bookings[id] \in BookingType
  BY RowType DEF CalendarInv
<1>3. row.room = bookings[id].room
      /\ row.start = bookings[id].start /\ row.end = bookings[id].end
      /\ row.status = IF Outcome(steps) = "PENDING" THEN bookings[id].status
                      ELSE Outcome(steps)
  BY <1>2 DEF DecidedRow, BookingType
<1>4. Outcome(steps) \in {"PENDING", "APPROVED", "REJECTED"}
  BY DEF Outcome
<1>5. Outcome(steps) = "APPROVED" /\ ~Active(bookings[id]) => id \in unchecked'
  BY DEF Decide, DecidedSteps
<1>6. id \in unchecked' \/ (Active(row) => Active(bookings[id]))
  BY <1>3, <1>4, <1>5 DEF Active, ActiveStates
<1> HIDE DEF row
<1> QED BY <1>1, <1>3, <1>6, SlotsKept

LEMMA CheckInCalendar ==
  ASSUME CalendarInv, NEW caller \in Users, NEW id \in DOMAIN bookings,
         NEW scanned \in BOOLEAN, CheckIn(caller, id, scanned)
  PROVE  RowsOrdered' /\ ExclusiveUnlessUnchecked'
<1> DEFINE row == [bookings[id] EXCEPT !.checkedIn = TRUE]
<1>1. bookings' = [bookings EXCEPT ![id] = row] /\ unchecked' = unchecked
  BY DEF CheckIn
<1>2. bookings[id] \in BookingType
  BY RowType DEF CalendarInv
<1>3. row.room = bookings[id].room /\ row.status = bookings[id].status
      /\ row.start = bookings[id].start /\ row.end = bookings[id].end
  BY <1>2 DEF BookingType
<1> HIDE DEF row
<1> QED BY <1>1, <1>3, SlotsKept DEF Active

LEMMA NoShowSweepCalendar ==
  ASSUME CalendarInv, NoShowSweep
  PROVE  RowsOrdered' /\ ExclusiveUnlessUnchecked'
<1> DEFINE row(b) == IF NoShowCandidate(bookings[b])
                     THEN [bookings[b] EXCEPT !.noShow = TRUE]
                     ELSE bookings[b]
<1>1. bookings' = [b \in DOMAIN bookings |-> row(b)] /\ unchecked' = unchecked
  BY DEF NoShowSweep
<1>2. \A b \in DOMAIN bookings :
        /\ row(b).room = bookings[b].room /\ row(b).status = bookings[b].status
        /\ row(b).start = bookings[b].start /\ row(b).end = bookings[b].end
  BY RowType DEF BookingType, CalendarInv
<1> HIDE DEF row
<1> QED BY <1>1, <1>2, SlotsKept DEF Active

LEMMA CalendarInductive ==
  ASSUME CalendarInv, [Next]_vars
  PROVE  CalendarInv'
<1>1. TypeOK'
  BY NextTypeOK DEF CalendarInv
<1>2. CASE UNCHANGED vars
  <2>1. bookings' = bookings /\ unchecked' = unchecked
    BY <1>2 DEF vars
  <2> QED BY <1>1, <2>1, SlotsKept DEF CalendarInv
<1>3. CASE Surroundings
  BY <1>3, SurroundingsTypeOK, SlotsKept DEF CalendarInv
<1>4. CASE Next
  <2>1. 1..MaxSeries \cup {1} \subseteq Nat \ {0}
    BY BoundAssumption
  <2>2. RowsOrdered' /\ ExclusiveUnlessUnchecked'
    BY <1>3, <1>4, <2>1, NextCases, CreateCalendar, UpdateCalendar, CancelCalendar,
       DecideCalendar, CheckInCalendar, NoShowSweepCalendar DEF CalendarInv
  <2> QED BY <1>1, <2>2 DEF CalendarInv
<1> QED BY <1>1, <1>2, <1>4 DEF CalendarInv

(* Competing bookings keep the smallest configured buffer between them,    *)
(* whatever is created, moved, extended or cancelled and however the       *)
(* policies change, unless a late approval brought one of them back or it  *)
(* was booked too close to another occurrence of its series.               *)
THEOREM Exclusive == Spec => []ExclusiveUnlessUnchecked
<1>1. Init => CalendarInv
  BY InitTypeOK DEF Init, CalendarInv, RowsOrdered, ExclusiveUnlessUnchecked
<1>2. CalendarInv /\ [Next]_vars => CalendarInv'
  BY CalendarInductive
<1>3. CalendarInv => ExclusiveUnlessUnchecked
  BY DEF CalendarInv
<1> QED BY <1>1, <1>2, <1>3, PTL DEF Spec

-----------------------------------------------------------------------------
(* Status and steps.                                                       *)

Has(row, decision) == \E l \in DOMAIN row.steps : row.steps[l].decision = decision

Agrees(row) ==
  /\ row.status = "PENDING" => Has(row, "PENDING") /\ ~Has(row, "REJECTED")
  /\ row.status = "APPROVED" => ~Has(row, "PENDING") /\ ~Has(row, "REJECTED")
  /\ row.status = "REJECTED" => Has(row, "REJECTED")

StepsInv == TypeOK /\ StatusMatchesSteps

LEMMA StepsInvRows ==
  /\ StatusMatchesSteps <=> \A b \in DOMAIN bookings : Agrees(bookings[b])
  /\ StatusMatchesSteps' <=> \A b \in DOMAIN bookings' : Agrees(bookings'[b])
BY DEF StatusMatchesSteps, Agrees, Has

(* A step that rewrites one row only has to leave that row in agreement.   *)
LEMMA RowAgrees ==
  ASSUME StepsInv, NEW id \in DOMAIN bookings, NEW row \in BookingType,
         bookings' = [bookings EXCEPT ![id] = row], Agrees(row)
  PROVE  StatusMatchesSteps'
<1>1. \A b \in DOMAIN bookings : Agrees(bookings[b])
  BY StepsInvRows DEF StepsInv
<1>2. /\ DOMAIN bookings' = DOMAIN bookings /\ bookings'[id] = row
      /\ \A b \in DOMAIN bookings : b # id => bookings'[b] = bookings[b]
  BY OneRow DEF StepsInv
<1> QED BY <1>1, <1>2, StepsInvRows

(* The new occurrences start out with all of their steps open, or none.    *)
LEMMA CreateSteps ==
  ASSUME StepsInv, NEW caller \in Users, NEW principal \in Users,
         NEW room \in Rooms \cup {NoRoom}, NEW base, NEW freq, NEW count,
         Create(caller, principal, room, base, freq, count)
  PROVE  StatusMatchesSteps'
<1>1. PICK offsets :
        /\ SeriesSlots(base, offsets) \in Seq(SlotType)
        /\ bookings' = bookings \o NewRows(caller, principal, room, SeriesSlots(base, offsets))
  BY DEF Create, Fits
<1> DEFINE rows == NewRows(caller, principal, room, SeriesSlots(base, offsets))
<1>2. /\ rows \in Seq(BookingType)
      /\ \A i \in 1..Len(rows) :
           \/ /\ rows[i].status = "PENDING"
              /\ rows[i].steps = NewSteps(RulesFor(room).approvers)
           \/ rows[i].status = "APPROVED" /\ rows[i].steps = <<>>
  <2> DEFINE series == SeriesSlots(base, offsets)
  <2>1. series \in Seq(SlotType)
    BY <1>1
  <2> HIDE DEF series
  <2>2. LET new == NewRows(caller, principal, room, series)
        IN  /\ new \in Seq(BookingType) /\ Len(new) = Len(series)
            /\ \A i \in 1..Len(series) :
                 \/ /\ new[i].status = "PENDING"
                    /\ new[i].steps = NewSteps(RulesFor(room).approvers)
                 \/ new[i].status = "APPROVED" /\ new[i].steps = <<>>
    BY <2>1, NewRowsType DEF StepsInv
  <2> QED BY <2>2 DEF series
<1>3. bookings' = bookings \o rows
  BY <1>1
<1> HIDE DEF rows
<1>4. RulesFor(room).approvers \in Seq(Users)
  BY RulesForType DEF RulesType, StepsInv
<1>5. \A i \in 1..Len(rows) : Agrees(rows[i])
  BY <1>2, <1>4, NewStepsOpen DEF Agrees, Has
<1>6. \A b \in DOMAIN bookings : Agrees(bookings[b])
  BY StepsInvRows DEF StepsInv
<1>7. ASSUME NEW b \in DOMAIN bookings'
      PROVE  Agrees(bookings'[b])
  <2>1. \/ b \in 1..Len(bookings)
        \/ b \in (Len(bookings) + 1)..(Len(bookings) + Len(rows))
    BY <1>2, <1>3, AppendRows DEF StepsInv
  <2> QED BY <1>2, <1>3, <1>5, <1>6, <2>1, AppendRows DEF StepsInv
<1> QED BY <1>7, StepsInvRows

LEMMA UpdateSteps ==
  ASSUME StepsInv, NEW caller \in Users, NEW id \in DOMAIN bookings,
         NEW toRoom \in Rooms \cup {Keep}, NEW toSlot \in Slots \cup {Keep},
         Update(caller, id, toRoom, toSlot)
  PROVE  StatusMatchesSteps'
<1> DEFINE old == bookings[id]
           row == UpdatedRow(old, toRoom, toSlot)
           room == TargetRoom(old, toRoom)
           approvers == RulesFor(room).approvers
<1>1. /\ bookings' = [bookings EXCEPT ![id] = row]
      /\ toSlot # Keep => toSlot \in SlotType
  BY DEF Update
<1>2. old \in BookingType /\ row \in BookingType /\ Agrees(old)
  BY <1>1, RowType, UpdatedRowType, StepsInvRows DEF StepsInv
<1>3. approvers \in Seq(Users)
  <2>1. room \in Rooms \cup {NoRoom}
    BY <1>2 DEF TargetRoom, BookingType
  <2> QED BY <2>1, RulesForType DEF RulesType, StepsInv
<1>4. \/ row.status = "PENDING" /\ row.steps = NewSteps(approvers)
      \/ row.status = old.status /\ row.steps = old.steps
  BY <1>2 DEF UpdatedRow, BookingType
<1> HIDE DEF row, approvers
<1>5. Agrees(row)
  BY <1>2, <1>3, <1>4, NewStepsOpen DEF Agrees, Has
<1> QED BY <1>1, <1>2, <1>5, RowAgrees

(* Deciding a step: the recomputed status agrees with the steps, and where *)
(* it says "still pending" the old status stands.                          *)
LEMMA DecideSteps ==
  ASSUME StepsInv, NEW user \in Users, NEW id \in DOMAIN bookings,
         NEW level \in DOMAIN bookings[id].steps,
         NEW decision \in {"APPROVED", "REJECTED"},
         Decide(user, id, level, decision)
  PROVE  StatusMatchesSteps'
<1> DEFINE old == bookings[id]
           steps == DecidedSteps(old, user, level, decision)
           row == DecidedRow(old, user, level, decision)
<1>1. /\ bookings' = [bookings EXCEPT ![id] = row]
      /\ row \in BookingType
      /\ steps \in Seq(StepType)
  BY DecideRow DEF StepsInv
<1>2. old \in BookingType /\ Agrees(old)
  BY RowType, StepsInvRows DEF StepsInv
<1>3. /\ old.steps[level].decision = "PENDING"
      /\ DOMAIN steps = DOMAIN old.steps
      /\ steps[level].decision = decision
      /\ \A l \in DOMAIN steps : l # level => steps[l] = old.steps[l]
  BY <1>2 DEF Decide, MayDecide, DecidedSteps, BookingType
<1>4. row.steps = steps
      /\ row.status = IF Outcome(steps) = "PENDING" THEN old.status ELSE Outcome(steps)
  BY <1>2 DEF DecidedRow, BookingType
<1>5. \A l \in DOMAIN steps : steps[l].decision \in {"PENDING", "APPROVED", "REJECTED"}
  <2> HIDE DEF steps
  <2>1. \A l \in DOMAIN steps : steps[l] \in StepType
    BY <1>1, ElementOfSeq
  <2> QED BY <2>1 DEF StepType, Decisions
<1> HIDE DEF row, steps
<1>6. ASSUME Outcome(steps) = "PENDING"
      PROVE  Agrees(row)
  <2>1. ~Has(row, "REJECTED")
    BY <1>4, <1>6 DEF Has, Outcome
  <2>2. \E l \in DOMAIN steps : steps[l].decision # "APPROVED"
    BY <1>6 DEF Outcome
  <2>3. Has(row, "PENDING")
    BY <1>4, <1>5, <2>1, <2>2 DEF Has
  <2>4. old.status # "APPROVED"
    BY <1>2, <1>3 DEF Agrees, Has
  <2>5. ~Has(old, "REJECTED")
    BY <1>3, <1>4, <2>1 DEF Has
  <2>6. row.status = old.status
    BY <1>4, <1>6
  <2> QED BY <1>2, <2>1, <2>3, <2>4, <2>5, <2>6 DEF Agrees
<1>7. ASSUME Outcome(steps) = "APPROVED"
      PROVE  Agrees(row)
  BY <1>4, <1>7 DEF Agrees, Has, Outcome
<1>8. ASSUME Outcome(steps) = "REJECTED"
      PROVE  Agrees(row)
  BY <1>4, <1>8 DEF Agrees, Has, Outcome
<1>9. Outcome(steps) \in {"PENDING", "APPROVED", "REJECTED"}
  BY DEF Outcome
<1>10. Agrees(row)
  BY <1>6, <1>7, <1>8, <1>9
<1> QED BY <1>1, <1>10, RowAgrees

(* Steps that change neither statuses nor approval steps. *)
LEMMA StepsKept ==
  ASSUME StepsInv, DOMAIN bookings' = DOMAIN bookings,
         \A b \in DOMAIN bookings :
           /\ bookings'[b].status \in {bookings[b].status, "CANCELLED"}
           /\ bookings'[b].steps = bookings[b].steps
  PROVE  StatusMatchesSteps'
BY StepsInvRows DEF StepsInv, Agrees, Has

LEMMA OthersSteps ==
  ASSUME StepsInv,
         \/ \E caller \in Users, id \in DOMAIN bookings :
              \/ Cancel(caller, id)
              \/ \E scanned \in BOOLEAN : CheckIn(caller, id, scanned)
         \/ NoShowSweep
  PROVE  StatusMatchesSteps'
<1>1. \A b \in DOMAIN bookings : bookings[b] \in BookingType
  BY RowType DEF StepsInv
<1>2. ASSUME NEW caller \in Users, NEW id \in DOMAIN bookings, Cancel(caller, id)
      PROVE  StatusMatchesSteps'
  <2>1. bookings' = [bookings EXCEPT ![id].status = "CANCELLED"]
    BY <1>2 DEF Cancel
  <2>2. \A b \in DOMAIN bookings :
          /\ bookings'[b].status \in {bookings[b].status, "CANCELLED"}
          /\ bookings'[b].steps = bookings[b].steps
    BY <1>1, <2>1 DEF BookingType
  <2>3. DOMAIN bookings' = DOMAIN bookings
    BY <2>1
  <2> QED BY <2>2, <2>3, StepsKept
<1>3. ASSUME NEW caller \in Users, NEW id \in DOMAIN bookings, NEW scanned \in BOOLEAN,
             CheckIn(caller, id, scanned)
      PROVE  StatusMatchesSteps'
  <2>1. bookings' = [bookings EXCEPT ![id].checkedIn = TRUE]
    BY <1>3 DEF CheckIn
  <2>2. \A b \in DOMAIN bookings :
          /\ bookings'[b].status \in {bookings[b].status, "CANCELLED"}
          /\ bookings'[b].steps = bookings[b].steps
    BY <1>1, <2>1 DEF BookingType
  <2>3. DOMAIN bookings' = DOMAIN bookings
    BY <2>1
  <2> QED BY <2>2, <2>3, StepsKept
<1>4. ASSUME NoShowSweep
      PROVE  StatusMatchesSteps'
  <2>1. \A b \in DOMAIN bookings :
          /\ bookings'[b].status = bookings[b].status
          /\ bookings'[b].steps = bookings[b].steps
    BY <1>1, <1>4 DEF NoShowSweep, BookingType
  <2>2. DOMAIN bookings' = DOMAIN bookings
    BY <1>4 DEF NoShowSweep
  <2> QED BY <2>1, <2>2, StepsKept
<1> QED BY <1>2, <1>3, <1>4

LEMMA StepsInductive ==
  ASSUME StepsInv, [Next]_vars
  PROVE  StepsInv'
<1>1. TypeOK'
  BY NextTypeOK DEF StepsInv
<1>2. CASE UNCHANGED vars
  BY <1>2 DEF StepsInv, vars, TypeOK, StatusMatchesSteps
<1>3. CASE Surroundings
  <2>1. bookings' = bookings
    BY <1>3, SurroundingsTypeOK DEF StepsInv
  <2> QED BY <1>1, <2>1, StepsInvRows DEF StepsInv
<1>4. CASE Next
  <2>1. StatusMatchesSteps'
    BY <1>3, <1>4, NextCases, CreateSteps, UpdateSteps, DecideSteps, OthersSteps DEF StepsInv
  <2> QED BY <1>1, <2>1 DEF StepsInv
<1> QED BY <1>2, <1>4

(* A PENDING booking always has a step someone can still decide, an        *)
(* APPROVED one none, a REJECTED one its rejection.                        *)
THEOREM StepsAgree == Spec => []StatusMatchesSteps
<1>1. Init => StepsInv
  BY InitTypeOK DEF Init, StepsInv, StatusMatchesSteps
<1>2. StepsInv /\ [Next]_vars => StepsInv'
  BY StepsInductive
<1>3. StepsInv => StatusMatchesSteps
  BY DEF StepsInv
<1> QED BY <1>1, <1>2, <1>3, PTL DEF Spec

-----------------------------------------------------------------------------
(* The time windows: check-in ends where the sweep begins, and a started   *)
(* meeting only ever gains or loses time at its end.                       *)

NoShowInv == TypeOK /\ NoShowMeansUnused

LEMMA CreateNoShow ==
  ASSUME NoShowInv, NEW caller \in Users, NEW principal \in Users,
         NEW room \in Rooms \cup {NoRoom}, NEW base, NEW freq, NEW count,
         Create(caller, principal, room, base, freq, count)
  PROVE  /\ NoShowMeansUnused'
         /\ \A b \in DOMAIN bookings : bookings'[b] = bookings[b]
<1>1. PICK offsets :
        /\ SeriesSlots(base, offsets) \in Seq(SlotType)
        /\ bookings' = bookings \o NewRows(caller, principal, room, SeriesSlots(base, offsets))
        /\ now' = now
  BY DEF Create, Fits
<1> DEFINE rows == NewRows(caller, principal, room, SeriesSlots(base, offsets))
<1>2. rows \in Seq(BookingType) /\ \A i \in 1..Len(rows) : ~rows[i].noShow
  <2> DEFINE series == SeriesSlots(base, offsets)
  <2>1. series \in Seq(SlotType)
    BY <1>1
  <2> HIDE DEF series
  <2> QED BY <2>1, NewRowsType DEF NoShowInv, series
<1>3. bookings' = bookings \o rows
  BY <1>1
<1> HIDE DEF rows
<1>4. \A b \in DOMAIN bookings : bookings'[b] = bookings[b]
  BY <1>2, <1>3, AppendRows DEF NoShowInv
<1>5. ASSUME NEW b \in DOMAIN bookings', bookings'[b].noShow
      PROVE  bookings'[b].end < now' /\ ~bookings'[b].checkedIn
  <2>1. \/ b \in 1..Len(bookings)
        \/ b \in (Len(bookings) + 1)..(Len(bookings) + Len(rows))
    BY <1>2, <1>3, AppendRows DEF NoShowInv
  <2>2. b \in 1..Len(bookings)
    BY <1>2, <1>3, <1>5, <2>1, AppendRows DEF NoShowInv
  <2> QED BY <1>1, <1>2, <1>3, <1>5, <2>2, AppendRows DEF NoShowInv, NoShowMeansUnused
<1> QED BY <1>4, <1>5 DEF NoShowMeansUnused

LEMMA UpdateNoShow ==
  ASSUME NoShowInv, NEW caller \in Users, NEW id \in DOMAIN bookings,
         NEW toRoom \in Rooms \cup {Keep}, NEW toSlot \in Slots \cup {Keep},
         Update(caller, id, toRoom, toSlot)
  PROVE  NoShowMeansUnused'
<1> DEFINE old == bookings[id]
           row == UpdatedRow(old, toRoom, toSlot)
<1>1. /\ bookings' = [bookings EXCEPT ![id] = row]
      /\ toSlot # Keep => toSlot \in SlotType
      /\ old.end > now
      /\ now' = now
  BY DEF Update, UpdateAccepted
<1>2. old \in BookingType /\ row \in BookingType
  BY <1>1, RowType, UpdatedRowType DEF NoShowInv
<1>3. row.noShow = old.noShow
  BY <1>2 DEF UpdatedRow, BookingType
<1>4. ~old.noShow
  <2>1. old.end \in Int /\ now \in Int
    BY <1>2, BoundAssumption DEF BookingType, Instants, NoShowInv, TypeOK
  <2> QED BY <1>1, <2>1 DEF NoShowInv, NoShowMeansUnused
<1> HIDE DEF row
<1> QED BY <1>1, <1>2, <1>3, <1>4, OneRow DEF NoShowInv, NoShowMeansUnused

LEMMA CheckInNoShow ==
  ASSUME NoShowInv, NEW caller \in Users, NEW id \in DOMAIN bookings,
         NEW scanned \in BOOLEAN, CheckIn(caller, id, scanned)
  PROVE  NoShowMeansUnused'
<1> DEFINE old == bookings[id]
           row == [old EXCEPT !.checkedIn = TRUE]
<1>1. /\ bookings' = [bookings EXCEPT ![id] = row]
      /\ now <= old.end
      /\ now' = now
  BY DEF CheckIn
<1>2. old \in BookingType
  BY RowType DEF NoShowInv
<1>3. row \in BookingType /\ row.noShow = old.noShow
  BY <1>2 DEF BookingType
<1>4. ~old.noShow
  <2>1. old.end \in Int /\ now \in Int
    BY <1>2, BoundAssumption DEF BookingType, Instants, NoShowInv, TypeOK
  <2> QED BY <1>1, <2>1 DEF NoShowInv, NoShowMeansUnused
<1> HIDE DEF row
<1> QED BY <1>1, <1>3, <1>4, OneRow DEF NoShowInv, NoShowMeansUnused

(* Steps that neither stamp a booking nor move its end. *)
LEMMA StampsKept ==
  ASSUME NoShowInv, DOMAIN bookings' = DOMAIN bookings, now' \in Int, now' >= now,
         \A b \in DOMAIN bookings :
           /\ bookings'[b].noShow = bookings[b].noShow
           /\ bookings'[b].checkedIn = bookings[b].checkedIn
           /\ bookings'[b].end = bookings[b].end
  PROVE  NoShowMeansUnused'
<1>1. now \in Int
  BY BoundAssumption DEF NoShowInv, TypeOK
<1>2. \A b \in DOMAIN bookings : bookings[b].end \in Int
  BY RowType, BoundAssumption DEF NoShowInv, BookingType, Instants
<1> QED BY <1>1, <1>2 DEF NoShowInv, NoShowMeansUnused

LEMMA OthersNoShow ==
  ASSUME NoShowInv,
         \/ \E caller \in Users, id \in DOMAIN bookings : Cancel(caller, id)
         \/ \E user \in Users, id \in DOMAIN bookings :
              \E level \in DOMAIN bookings[id].steps, decision \in {"APPROVED", "REJECTED"} :
                Decide(user, id, level, decision)
  PROVE  /\ NoShowMeansUnused'
         /\ \A b \in DOMAIN bookings : /\ bookings'[b].room = bookings[b].room
                                       /\ bookings'[b].start = bookings[b].start
                                       /\ bookings'[b].end = bookings[b].end
<1>1. \A b \in DOMAIN bookings : bookings[b] \in BookingType
  BY RowType DEF NoShowInv
<1>2. now \in Int
  BY BoundAssumption DEF NoShowInv, TypeOK
<1>3. ASSUME NEW id \in DOMAIN bookings, NEW row, now' = now,
             bookings' = [bookings EXCEPT ![id] = row],
             row.noShow = bookings[id].noShow, row.checkedIn = bookings[id].checkedIn,
             row.end = bookings[id].end, row.start = bookings[id].start,
             row.room = bookings[id].room
      PROVE  /\ NoShowMeansUnused'
             /\ \A b \in DOMAIN bookings : /\ bookings'[b].room = bookings[b].room
                                           /\ bookings'[b].start = bookings[b].start
                                           /\ bookings'[b].end = bookings[b].end
  <2>1. \A b \in DOMAIN bookings :
          /\ bookings'[b].noShow = bookings[b].noShow
          /\ bookings'[b].checkedIn = bookings[b].checkedIn
          /\ bookings'[b].room = bookings[b].room
          /\ bookings'[b].start = bookings[b].start
          /\ bookings'[b].end = bookings[b].end
    BY <1>3
  <2>2. DOMAIN bookings' = DOMAIN bookings /\ now' \in Int /\ now' >= now
    BY <1>2, <1>3
  <2> QED BY <2>1, <2>2, StampsKept
<1>4. ASSUME NEW caller \in Users, NEW id \in DOMAIN bookings, Cancel(caller, id)
      PROVE  \E row : /\ bookings' = [bookings EXCEPT ![id] = row] /\ now' = now
                      /\ row.noShow = bookings[id].noShow
                      /\ row.checkedIn = bookings[id].checkedIn
                      /\ row.end = bookings[id].end /\ row.start = bookings[id].start
                      /\ row.room = bookings[id].room
  <2> DEFINE row == [bookings[id] EXCEPT !.status = "CANCELLED"]
  <2>1. bookings' = [bookings EXCEPT ![id] = row] /\ now' = now
    BY <1>4 DEF Cancel
  <2>2. /\ row.noShow = bookings[id].noShow
        /\ row.checkedIn = bookings[id].checkedIn
        /\ row.end = bookings[id].end /\ row.start = bookings[id].start
        /\ row.room = bookings[id].room
    BY <1>1 DEF BookingType
  <2> HIDE DEF row
  <2> QED BY <2>1, <2>2
<1>5. ASSUME NEW user \in Users, NEW id \in DOMAIN bookings,
             NEW level \in DOMAIN bookings[id].steps,
             NEW decision \in {"APPROVED", "REJECTED"},
             Decide(user, id, level, decision)
      PROVE  \E row : /\ bookings' = [bookings EXCEPT ![id] = row] /\ now' = now
                      /\ row.noShow = bookings[id].noShow
                      /\ row.checkedIn = bookings[id].checkedIn
                      /\ row.end = bookings[id].end /\ row.start = bookings[id].start
                      /\ row.room = bookings[id].room
  <2> DEFINE row == DecidedRow(bookings[id], user, level, decision)
  <2>1. bookings' = [bookings EXCEPT ![id] = row] /\ now' = now
    BY <1>5, DecideRow DEF NoShowInv
  <2>2. /\ row.noShow = bookings[id].noShow
        /\ row.checkedIn = bookings[id].checkedIn
        /\ row.end = bookings[id].end /\ row.start = bookings[id].start
        /\ row.room = bookings[id].room
    BY <1>1 DEF BookingType, DecidedRow
  <2> HIDE DEF row
  <2> QED BY <2>1, <2>2
<1> QED BY <1>3, <1>4, <1>5

LEMMA NoShowSweepNoShow ==
  ASSUME NoShowInv, NoShowSweep
  PROVE  NoShowMeansUnused'
<1>1. \A b \in DOMAIN bookings : bookings[b] \in BookingType
  BY RowType DEF NoShowInv
<1>2. /\ DOMAIN bookings' = DOMAIN bookings /\ now' = now
      /\ \A b \in DOMAIN bookings :
           bookings'[b] = IF NoShowCandidate(bookings[b])
                          THEN [bookings[b] EXCEPT !.noShow = TRUE]
                          ELSE bookings[b]
  BY DEF NoShowSweep
<1>3. ASSUME NEW b \in DOMAIN bookings, bookings'[b].noShow
      PROVE  bookings'[b].end < now /\ ~bookings'[b].checkedIn
  <2>1. bookings'[b].end = bookings[b].end /\ bookings'[b].checkedIn = bookings[b].checkedIn
    BY <1>1, <1>2 DEF BookingType
  <2>2. CASE NoShowCandidate(bookings[b])
    BY <2>1, <2>2 DEF NoShowCandidate
  <2>3. CASE ~NoShowCandidate(bookings[b])
    BY <1>2, <1>3, <2>3 DEF NoShowInv, NoShowMeansUnused
  <2> QED BY <2>2, <2>3
<1> QED BY <1>2, <1>3 DEF NoShowMeansUnused

LEMMA NoShowInductive ==
  ASSUME NoShowInv, [Next]_vars
  PROVE  NoShowInv'
<1>1. TypeOK'
  BY NextTypeOK DEF NoShowInv
<1>2. now' \in Int
  BY <1>1, BoundAssumption DEF TypeOK
<1>3. CASE UNCHANGED vars
  BY <1>3 DEF NoShowInv, vars, TypeOK, NoShowMeansUnused
<1>4. CASE Surroundings
  <2>1. bookings' = bookings /\ now' >= now
    BY <1>4, SurroundingsTypeOK DEF NoShowInv
  <2> QED BY <1>1, <1>2, <2>1, StampsKept DEF NoShowInv
<1>5. CASE Next
  <2>1. NoShowMeansUnused'
    BY <1>4, <1>5, NextCases, CreateNoShow, UpdateNoShow, CheckInNoShow, OthersNoShow,
       NoShowSweepNoShow DEF NoShowInv
  <2> QED BY <1>1, <2>1 DEF NoShowInv
<1> QED BY <1>3, <1>5

(* Whoever is warned about an unused room had a meeting that is over and   *)
(* that nobody checked in to, and that never changes again.                *)
THEOREM WarnedMeansUnused == Spec => []NoShowMeansUnused
<1>1. Init => NoShowInv
  BY InitTypeOK DEF Init, NoShowInv, NoShowMeansUnused
<1>2. NoShowInv /\ [Next]_vars => NoShowInv'
  BY NoShowInductive
<1>3. NoShowInv => NoShowMeansUnused
  BY DEF NoShowInv
<1> QED BY <1>1, <1>2, <1>3, PTL DEF Spec

(* What a step may not do to a meeting that has begun, or is over.         *)
FrozenStep ==
  \A b \in DOMAIN bookings :
    /\ bookings[b].start <= now =>
         /\ bookings'[b].room = bookings[b].room
         /\ bookings'[b].start = bookings[b].start
    /\ bookings[b].end <= now => bookings'[b].end = bookings[b].end

LEMMA UpdateFrozen ==
  ASSUME NoShowInv, NEW caller \in Users, NEW id \in DOMAIN bookings,
         NEW toRoom \in Rooms \cup {Keep}, NEW toSlot \in Slots \cup {Keep},
         Update(caller, id, toRoom, toSlot)
  PROVE  FrozenStep
<1> DEFINE old == bookings[id]
           row == UpdatedRow(old, toRoom, toSlot)
           room == TargetRoom(old, toRoom)
           slot == TargetSlot(old, toSlot)
<1>1. /\ bookings' = [bookings EXCEPT ![id] = row]
      /\ toSlot # Keep => toSlot \in SlotType
      /\ old.end > now
      /\ room # old.room \/ toSlot # Keep =>
           StartedOnlyEndMoves(old, room # old.room, slot)
  BY DEF Update, UpdateAccepted
<1>2. old \in BookingType
  BY RowType DEF NoShowInv
<1>3. row.room = room /\ row.start = slot.start
  BY <1>2 DEF UpdatedRow, BookingType
<1>4. old.end \in Int /\ now \in Int
  BY <1>2, BoundAssumption DEF BookingType, Instants, NoShowInv, TypeOK
<1>5. old.start <= now => row.room = old.room /\ row.start = old.start
  BY <1>1, <1>3 DEF StartedOnlyEndMoves, Started, TargetSlot
<1>6. ~(old.end <= now)
  BY <1>1, <1>4
<1> HIDE DEF row
<1> QED BY <1>1, <1>5, <1>6 DEF FrozenStep

LEMMA NextFrozen ==
  ASSUME NoShowInv, Next
  PROVE  FrozenStep
<1>1. \A b \in DOMAIN bookings : bookings[b] \in BookingType
  BY RowType DEF NoShowInv
<1>2. CASE Surroundings
  BY <1>2, SurroundingsTypeOK DEF FrozenStep, NoShowInv
<1>3. CASE NoShowSweep
  BY <1>1, <1>3 DEF NoShowSweep, FrozenStep, BookingType
<1>4. ASSUME NEW caller \in Users, NEW id \in DOMAIN bookings, NEW scanned \in BOOLEAN,
             CheckIn(caller, id, scanned)
      PROVE  FrozenStep
  BY <1>1, <1>4 DEF CheckIn, FrozenStep, BookingType
<1>5. ASSUME NEW caller \in Users, NEW principal \in Users,
             NEW room \in Rooms \cup {NoRoom}, NEW base, NEW freq, NEW count,
             Create(caller, principal, room, base, freq, count)
      PROVE  FrozenStep
  BY <1>5, CreateNoShow DEF FrozenStep
<1>6. ASSUME \/ \E caller \in Users, id \in DOMAIN bookings : Cancel(caller, id)
             \/ \E user \in Users, id \in DOMAIN bookings :
                  \E level \in DOMAIN bookings[id].steps, decision \in {"APPROVED", "REJECTED"} :
                    Decide(user, id, level, decision)
      PROVE  FrozenStep
  BY <1>6, OthersNoShow DEF FrozenStep
<1> QED BY <1>2, <1>3, <1>4, <1>5, <1>6, NextCases, UpdateFrozen

(* No request moves a meeting once it has begun, but for its end, and none *)
(* changes a meeting that is over.                                         *)
THEOREM StartedStays == Spec => SlotFrozen
<1>1. Init => NoShowInv
  BY InitTypeOK DEF Init, NoShowInv, NoShowMeansUnused
<1>2. NoShowInv /\ [Next]_vars => NoShowInv'
  BY NoShowInductive
<1>3. NoShowInv /\ [Next]_vars => [FrozenStep]_vars
  BY NextFrozen
<1>4. SlotFrozen <=> [][FrozenStep]_vars
  BY DEF SlotFrozen, FrozenStep
<1> QED BY <1>1, <1>2, <1>3, <1>4, PTL DEF Spec

(* What a row says of its approval and of its use is always so.            *)
THEOREM RowsAlwaysAgree == Spec => []RowsAgree
BY StepsAgree, WarnedMeansUnused, PTL DEF RowsAgree

-----------------------------------------------------------------------------
(* The booking core implements the room calendar: every step of a handler  *)
(* is, seen through Held, a reservation, a change or a release of the      *)
(* calendar, or leaves it alone.                                           *)

Holding(table, b) ==
  [id |-> b, room |-> table[b].room, start |-> table[b].start, end |-> table[b].end]

Holds(table, except, b) ==
  /\ b \in DOMAIN table \ except
  /\ Active(table[b])
  /\ table[b].room # NoRoom

LEMMA HeldRows ==
  /\ \A h : h \in Held <=> \E b : Holds(bookings, unchecked, b) /\ h = Holding(bookings, b)
  /\ \A h : h \in Held' <=> \E b : Holds(bookings', unchecked', b) /\ h = Holding(bookings', b)
BY DEF Held, Holds, Holding, Active

(* What a holding says of its row. *)
LEMMA HoldingFields ==
  ASSUME NEW table, NEW b
  PROVE  /\ Holding(table, b).id = b
         /\ Holding(table, b).room = table[b].room
         /\ Holding(table, b).start = table[b].start
         /\ Holding(table, b).end = table[b].end
BY DEF Holding

(* After the step the holdings of a room may coexist: the exclusion shown  *)
(* above to be invariant is what the calendar asks for.                    *)
LEMMA HoldingsCompatible ==
  ASSUME CalendarInv', NEW a, NEW b, a # b,
         Holds(bookings', unchecked', a), Holds(bookings', unchecked', b)
  PROVE  Calendar!Compatible(Holding(bookings', a), Holding(bookings', b))
<1>1. ExclusiveTable(bookings', unchecked')
  BY ExclusiveIsOfTable DEF CalendarInv
<1>2. bookings'[a].room = bookings'[b].room => Separate(bookings'[a], bookings'[b])
  BY <1>1 DEF ExclusiveTable, Holds, Rivals
<1> QED BY <1>2, HoldingFields DEF Calendar!Compatible, Separate, Apart

(* A step that keeps every holding and adds some, all of rows that held    *)
(* nothing, is a reservation.                                              *)
LEMMA Reserves ==
  ASSUME CalendarInv',
         \A b : Holds(bookings, unchecked, b) =>
                  /\ Holds(bookings', unchecked', b)
                  /\ Holding(bookings', b) = Holding(bookings, b)
  PROVE  Calendar!Reserve
<1>1. Held \subseteq Held'
  BY HeldRows
<1>2. ASSUME NEW n \in Held' \ Held
      PROVE  /\ \A h \in Held : h.id # n.id
             /\ \A k \in Held' \ {n} : Calendar!Compatible(n, k)
  <2>1. PICK b : Holds(bookings', unchecked', b) /\ n = Holding(bookings', b)
    BY <1>2, HeldRows
  <2>2. ~Holds(bookings, unchecked, b)
    BY <1>2, <2>1, HeldRows
  <2>3. ASSUME NEW h \in Held PROVE h.id # n.id
    <3>1. PICK a : Holds(bookings, unchecked, a) /\ h = Holding(bookings, a)
      BY HeldRows
    <3> QED BY <2>1, <2>2, <3>1, HoldingFields
  <2>4. ASSUME NEW k \in Held' \ {n} PROVE Calendar!Compatible(n, k)
    <3>1. PICK a : Holds(bookings', unchecked', a) /\ k = Holding(bookings', a)
      BY HeldRows
    <3>2. a # b
      BY <2>1, <2>4, <3>1
    <3> QED BY <2>1, <3>1, <3>2, HoldingsCompatible
  <2> QED BY <2>3, <2>4
<1> QED BY <1>1, <1>2 DEF Calendar!Reserve

(* A step that rewrites one row changes, takes or gives up one holding.    *)
LEMMA OneRowRefines ==
  ASSUME TypeOK, CalendarInv', NEW id \in DOMAIN bookings, NEW row \in BookingType,
         bookings' = [bookings EXCEPT ![id] = row],
         unchecked' \in {unchecked, unchecked \cup {id}}
  PROVE  Calendar!Next \/ Held' = Held
<1>1. /\ DOMAIN bookings' = DOMAIN bookings
      /\ \A b \in DOMAIN bookings : b # id => bookings'[b] = bookings[b]
  BY OneRow
<1>2. \A b : b # id => /\ Holds(bookings', unchecked', b) <=> Holds(bookings, unchecked, b)
                       /\ Holds(bookings, unchecked, b) =>
                            Holding(bookings', b) = Holding(bookings, b)
  BY <1>1 DEF Holds, Holding
<1> DEFINE before == Holds(bookings, unchecked, id)
           after == Holds(bookings', unchecked', id)
           h == Holding(bookings, id)
           n == Holding(bookings', id)
<1>3. CASE before /\ after
  <2>1. h \in Held /\ n \in Held' /\ n.id = h.id
    <3>1. h.id = id /\ n.id = id
      BY HoldingFields
    <3>2. h \in Held
      BY <1>3, HeldRows
    <3>3. n \in Held'
      BY <1>3, HeldRows
    <3> QED BY <3>1, <3>2, <3>3
  <2>2. Held' = (Held \ {h}) \cup {n}
    <3>1. \A k : k \in Held \ {h} <=>
                   \E b : b # id /\ Holds(bookings, unchecked, b) /\ k = Holding(bookings, b)
      BY HeldRows, HoldingFields
    <3>2. \A k : k \in Held' <=>
                   \/ k = n
                   \/ \E b : b # id /\ Holds(bookings, unchecked, b) /\ k = Holding(bookings, b)
      <4>1. ASSUME NEW k \in Held', k # n
            PROVE  \E b : b # id /\ Holds(bookings, unchecked, b) /\ k = Holding(bookings, b)
        <5>1. PICK b : Holds(bookings', unchecked', b) /\ k = Holding(bookings', b)
          BY HeldRows
        <5>2. b # id
          BY <4>1, <5>1
        <5> QED BY <1>2, <5>1, <5>2
      <4>2. ASSUME NEW b, b # id, Holds(bookings, unchecked, b)
            PROVE  Holding(bookings, b) \in Held'
        <5>1. Holds(bookings', unchecked', b) /\ Holding(bookings', b) = Holding(bookings, b)
          BY <1>2, <4>2
        <5> QED BY <5>1, HeldRows
      <4> QED BY <2>1, <4>1, <4>2
    <3> QED BY <3>1, <3>2
  <2>3. ASSUME NEW k \in Held \ {h}
        PROVE  Calendar!Compatible(n, k) /\ Calendar!Compatible(k, n)
    <3>1. PICK b : Holds(bookings, unchecked, b) /\ k = Holding(bookings, b)
      BY HeldRows
    <3>2. b # id
      BY <2>3, <3>1
    <3>3. Holds(bookings', unchecked', b) /\ k = Holding(bookings', b)
      BY <1>2, <3>1, <3>2
    <3> QED BY <1>3, <3>2, <3>3, HoldingsCompatible
  <2> QED BY <2>1, <2>2, <2>3 DEF Calendar!Next, Calendar!Change
<1>4. CASE before /\ ~after
  <2>1. h \in Held
    BY <1>4, HeldRows
  <2>2. Held' = Held \ {h}
    <3>1. \A k : k \in Held \ {h} <=>
                   \E b : b # id /\ Holds(bookings, unchecked, b) /\ k = Holding(bookings, b)
      BY HeldRows, HoldingFields
    <3>2. \A k : k \in Held' <=>
                   \E b : b # id /\ Holds(bookings, unchecked, b) /\ k = Holding(bookings, b)
      <4>1. ASSUME NEW k \in Held'
            PROVE  \E b : b # id /\ Holds(bookings, unchecked, b) /\ k = Holding(bookings, b)
        <5>1. PICK b : Holds(bookings', unchecked', b) /\ k = Holding(bookings', b)
          BY HeldRows
        <5>2. b # id
          BY <1>4, <5>1
        <5> QED BY <1>2, <5>1, <5>2
      <4>2. ASSUME NEW b, b # id, Holds(bookings, unchecked, b)
            PROVE  Holding(bookings, b) \in Held'
        <5>1. Holds(bookings', unchecked', b) /\ Holding(bookings', b) = Holding(bookings, b)
          BY <1>2, <4>2
        <5> QED BY <5>1, HeldRows
      <4> QED BY <4>1, <4>2
    <3> QED BY <3>1, <3>2
  <2> QED BY <2>1, <2>2 DEF Calendar!Next, Calendar!Release
<1>5. CASE ~before
  BY <1>2, <1>5, Reserves DEF Calendar!Next
<1> QED BY <1>3, <1>4, <1>5

LEMMA CreateRefines ==
  ASSUME TypeOK, CalendarInv', NEW caller \in Users, NEW principal \in Users,
         NEW room \in Rooms \cup {NoRoom}, NEW base, NEW freq, NEW count,
         Create(caller, principal, room, base, freq, count)
  PROVE  Calendar!Next
<1>1. PICK offsets :
        /\ SeriesSlots(base, offsets) \in Seq(SlotType)
        /\ bookings' = bookings \o NewRows(caller, principal, room, SeriesSlots(base, offsets))
        /\ unchecked' = unchecked \cup
                          { Len(bookings) + i : i \in Crowded(SeriesSlots(base, offsets)) }
  BY DEF Create, Fits
<1> DEFINE series == SeriesSlots(base, offsets)
           rows == NewRows(caller, principal, room, series)
<1>2. rows \in Seq(BookingType) /\ bookings' = bookings \o rows
  <2> HIDE DEF series
  <2> QED BY <1>1, NewRowsType DEF series
<1> HIDE DEF rows
<1>3. /\ DOMAIN bookings \subseteq DOMAIN bookings'
      /\ \A b \in DOMAIN bookings : bookings'[b] = bookings[b]
  BY <1>2, AppendRows
<1>4. \A b \in DOMAIN bookings : b \in unchecked' <=> b \in unchecked
  <2>1. series \in Seq(SlotType) /\ bookings \in Seq(BookingType)
    BY <1>1 DEF TypeOK
  <2>2. unchecked' = unchecked \cup { Len(bookings) + i : i \in Crowded(series) }
    BY <1>1
  <2> HIDE DEF series
  <2>3. /\ DOMAIN bookings = 1..Len(bookings) /\ Len(bookings) \in Nat
        /\ DOMAIN series = 1..Len(series) /\ Len(series) \in Nat
    BY <2>1, LenProperties
  <2>4. \A i \in Crowded(series) : i \in 1..Len(series)
    BY <2>3 DEF Crowded
  <2>5. \A i \in Crowded(series) : Len(bookings) + i \notin DOMAIN bookings
    BY <2>3, <2>4
  <2> QED BY <2>2, <2>5
<1>5. \A b : Holds(bookings, unchecked, b) =>
               /\ Holds(bookings', unchecked', b)
               /\ Holding(bookings', b) = Holding(bookings, b)
  BY <1>3, <1>4 DEF Holds, Holding
<1> QED BY <1>5, Reserves DEF Calendar!Next

(* The sweep and the surroundings do not touch the calendar. *)
LEMMA SweepRefines ==
  ASSUME TypeOK, NoShowSweep
  PROVE  Held' = Held
<1>1. \A b \in DOMAIN bookings : bookings[b] \in BookingType
  BY RowType
<1>2. /\ DOMAIN bookings' = DOMAIN bookings /\ unchecked' = unchecked
      /\ \A b \in DOMAIN bookings : /\ bookings'[b].room = bookings[b].room
                                    /\ bookings'[b].status = bookings[b].status
                                    /\ bookings'[b].start = bookings[b].start
                                    /\ bookings'[b].end = bookings[b].end
  BY <1>1 DEF NoShowSweep, BookingType
<1>3. \A b : Holds(bookings', unchecked', b) <=> Holds(bookings, unchecked, b)
  BY <1>2 DEF Holds, Active
<1>4. \A b : Holds(bookings, unchecked, b) => Holding(bookings', b) = Holding(bookings, b)
  BY <1>2 DEF Holds, Holding
<1>5. \A h : h \in Held' <=> h \in Held
  BY <1>3, <1>4, HeldRows
<1> QED BY <1>5

LEMMA StepRefines ==
  ASSUME CalendarInv, CalendarInv', [Next]_vars
  PROVE  [Calendar!Next]_Held
<1>1. TypeOK
  BY DEF CalendarInv
<1>2. CASE UNCHANGED vars
  BY <1>2 DEF vars, Held, Active
<1>3. CASE Surroundings
  <2>1. bookings' = bookings /\ unchecked' = unchecked
    BY <1>1, <1>3, SurroundingsTypeOK
  <2> QED BY <2>1 DEF Held, Active
<1>4. ASSUME NEW caller \in Users, NEW id \in DOMAIN bookings,
             NEW toRoom \in Rooms \cup {Keep}, NEW toSlot \in Slots \cup {Keep},
             Update(caller, id, toRoom, toSlot)
      PROVE  Calendar!Next \/ Held' = Held
  <2> DEFINE row == UpdatedRow(bookings[id], toRoom, toSlot)
  <2>1. /\ bookings' = [bookings EXCEPT ![id] = row]
        /\ toSlot # Keep => toSlot \in SlotType
        /\ unchecked' = unchecked
    BY <1>4 DEF Update
  <2>2. row \in BookingType
    BY <1>1, <2>1, UpdatedRowType
  <2> HIDE DEF row
  <2> QED BY <1>1, <2>1, <2>2, OneRowRefines
<1>5. ASSUME NEW caller \in Users, NEW id \in DOMAIN bookings, Cancel(caller, id)
      PROVE  Calendar!Next \/ Held' = Held
  <2> DEFINE row == [bookings[id] EXCEPT !.status = "CANCELLED"]
  <2>1. bookings' = [bookings EXCEPT ![id] = row] /\ unchecked' = unchecked
    BY <1>5 DEF Cancel
  <2>2. row \in BookingType
    BY <1>1, RowType DEF BookingType, BookingStates
  <2> HIDE DEF row
  <2> QED BY <1>1, <2>1, <2>2, OneRowRefines
<1>6. ASSUME NEW user \in Users, NEW id \in DOMAIN bookings,
             NEW level \in DOMAIN bookings[id].steps,
             NEW decision \in {"APPROVED", "REJECTED"},
             Decide(user, id, level, decision)
      PROVE  Calendar!Next \/ Held' = Held
  <2> DEFINE row == DecidedRow(bookings[id], user, level, decision)
  <2>1. /\ bookings' = [bookings EXCEPT ![id] = row] /\ row \in BookingType
        /\ unchecked' \in {unchecked, unchecked \cup {id}}
    BY <1>1, <1>6, DecideRow
  <2> HIDE DEF row
  <2> QED BY <1>1, <2>1, OneRowRefines
<1>7. ASSUME NEW caller \in Users, NEW id \in DOMAIN bookings, NEW scanned \in BOOLEAN,
             CheckIn(caller, id, scanned)
      PROVE  Calendar!Next \/ Held' = Held
  <2> DEFINE row == [bookings[id] EXCEPT !.checkedIn = TRUE]
  <2>1. bookings' = [bookings EXCEPT ![id] = row] /\ unchecked' = unchecked
    BY <1>7 DEF CheckIn
  <2>2. row \in BookingType
    BY <1>1, RowType DEF BookingType
  <2> HIDE DEF row
  <2> QED BY <1>1, <2>1, <2>2, OneRowRefines
<1>8. CASE Next
  BY <1>1, <1>3, <1>4, <1>5, <1>6, <1>7, <1>8, NextCases, CreateRefines, SweepRefines
<1> QED BY <1>2, <1>8

(* The booking core implements the room calendar, the bookings left out     *)
(* that no conflict check compared with a rival, whatever the policies are. *)
THEOREM ImplementsCalendar == Spec => CalendarSpec
<1>1. Init => CalendarInv /\ Calendar!Init
  BY InitTypeOK DEF Init, CalendarInv, RowsOrdered, ExclusiveUnlessUnchecked,
     Calendar!Init, Held
<1>2. CalendarInv /\ [Next]_vars => CalendarInv'
  BY CalendarInductive
<1>3. CalendarInv /\ CalendarInv' /\ [Next]_vars => [Calendar!Next]_Held
  BY StepRefines
<1> QED BY <1>1, <1>2, <1>3, PTL DEF Spec, CalendarSpec, Calendar!Spec
-----------------------------------------------------------------------------
(* Change requests: what their decisions do to the calendar, and that a      *)
(* decision is applied in full.                                              *)

(* What POST /bookings/:id/change-requests has checked of a request.        *)
AskedFor(request) ==
  /\ request.window.start < request.window.end
  /\ OnEdge(request.window, request.draft)

ChangeInv ==
  /\ CalendarInv
  /\ requests \in Seq(RequestRow)
  /\ \A r \in DOMAIN requests :
       requests[r].booking \in DOMAIN bookings /\ AskedFor(requests[r])
  /\ half \subseteq DOMAIN requests

LEMMA InitChange == RequestInit => ChangeInv
  BY InitTypeOK, EmptySeq
  DEF RequestInit, ChangeInv, Init, CalendarInv, RowsOrdered, ExclusiveUnlessUnchecked

(* A request, the booking it is about and the room its meeting would take.  *)
LEMMA RequestType ==
  ASSUME ChangeInv, NEW r \in DOMAIN requests
  PROVE  /\ TypeOK /\ requests[r] \in RequestRow
         /\ requests[r].booking \in DOMAIN bookings
         /\ bookings[requests[r].booking] \in BookingType
         /\ requests[r].requester \in Users
         /\ requests[r].window \in SlotType /\ requests[r].draft \in SlotType
         /\ AskedFor(requests[r])
         /\ DraftRoom(r) \in Rooms \cup {NoRoom}
<1>1. /\ TypeOK /\ requests[r].booking \in DOMAIN bookings /\ AskedFor(requests[r])
      /\ requests[r] \in RequestRow
  BY ElementOfSeq DEF ChangeInv, CalendarInv
<1>2. bookings[requests[r].booking] \in BookingType
  BY <1>1, RowType
<1>3. /\ requests[r].requester \in Users
      /\ requests[r].window \in SlotType /\ requests[r].draft \in SlotType
  BY <1>1 DEF RequestRow
<1>4. DraftRoom(r) \in Rooms \cup {NoRoom}
  BY <1>2 DEF DraftRoom, BookingType
<1> QED BY <1>1, <1>2, <1>3, <1>4

-----------------------------------------------------------------------------
(* The two parts of a decision *)

(* Moving the owner's booking to a slot.                                    *)
LEMMA OwnerMoves ==
  ASSUME ChangeInv, NEW caller \in Users, NEW r \in DOMAIN requests, NEW slot \in SlotType,
         UpdateAccepted(bookings, caller, requests[r].booking, Keep, slot)
  PROVE  LET id == requests[r].booking
             table == [bookings EXCEPT ![id] = UpdatedRow(@, Keep, slot)]
         IN  /\ Sound(table, unchecked)
             /\ DOMAIN table = DOMAIN bookings
             /\ table[id].start = slot.start /\ table[id].end = slot.end
<1> DEFINE id == requests[r].booking
           row == UpdatedRow(bookings[id], Keep, slot)
<1>1. TypeOK /\ CalendarInv /\ id \in DOMAIN bookings /\ bookings[id] \in BookingType
  BY RequestType DEF ChangeInv
<1>2. slot # Keep
  BY RequestAssumption
<1>3. Sound([bookings EXCEPT ![id] = row], unchecked)
  BY <1>1, UpdateSound
<1>4. row.start = slot.start /\ row.end = slot.end
  BY <1>1, <1>2 DEF UpdatedRow, TargetSlot, BookingType
<1> HIDE DEF row
<1>5. /\ DOMAIN [bookings EXCEPT ![id] = row] = DOMAIN bookings
      /\ [bookings EXCEPT ![id] = row][id] = row
  BY <1>1
<1> QED BY <1>3, <1>4, <1>5 DEF row

(* Dropping it.                                                             *)
LEMMA OwnerDrops ==
  ASSUME ChangeInv, NEW r \in DOMAIN requests
  PROVE  LET id == requests[r].booking
             table == [bookings EXCEPT ![id].status = "CANCELLED"]
         IN  /\ Sound(table, unchecked)
             /\ DOMAIN table = DOMAIN bookings
             /\ ~Active(table[id])
<1> DEFINE id == requests[r].booking
           row == [bookings[id] EXCEPT !.status = "CANCELLED"]
           table == [bookings EXCEPT ![id] = row]
<1>1. /\ TypeOK /\ id \in DOMAIN bookings /\ bookings[id] \in BookingType
      /\ Sound(bookings, unchecked)
  BY RequestType, CalendarIsSound DEF ChangeInv
<1>2. /\ row \in BookingType /\ ~Active(row)
      /\ row.start = bookings[id].start /\ row.end = bookings[id].end
  BY <1>1 DEF BookingType, BookingStates, Active, ActiveStates
<1> HIDE DEF row
<1>3. /\ table \in Seq(BookingType) /\ DOMAIN table = DOMAIN bookings /\ table[id] = row
      /\ \A b \in DOMAIN bookings : b # id => table[b] = bookings[b]
  BY <1>1, <1>2, Replaced
<1>4. ExclusiveTable(table, unchecked)
  BY <1>1, <1>2, ReplaceRow DEF Sound, Rivals
<1> HIDE DEF table
<1>5. Sound(table, unchecked)
  BY <1>1, <1>2, <1>3, <1>4 DEF Sound
<1> QED BY <1>2, <1>3, <1>5 DEF table, row

(* Whatever the owner gives, the calendar stays sound and the owner's       *)
(* booking is out of the window.                                            *)
LEMMA OwnersPart ==
  ASSUME ChangeInv, NEW caller \in Users, NEW r \in DOMAIN requests,
         NEW choice, choice.kind = "pick" => choice.slot \in SlotType,
         NEW table \in OwnerGives(caller, r, choice)
  PROVE  /\ Sound(table, unchecked) /\ DOMAIN table = DOMAIN bookings
         /\ LET owners == table[requests[r].booking]
            IN  Active(owners) => ~Meets(owners, requests[r].window)
<1> DEFINE id == requests[r].booking
           row == bookings[id]
           window == requests[r].window
<1>1. /\ TypeOK /\ id \in DOMAIN bookings /\ row \in BookingType /\ window \in SlotType
  BY RequestType
<1>2. ASSUME NEW slot \in SlotType, KeepsOff(slot, window),
             UpdateAccepted(bookings, caller, id, Keep, slot),
             table = [bookings EXCEPT ![id] = UpdatedRow(@, Keep, slot)]
      PROVE  /\ Sound(table, unchecked) /\ DOMAIN table = DOMAIN bookings
             /\ ~Meets(table[id], window)
  <2>1. /\ Sound(table, unchecked) /\ DOMAIN table = DOMAIN bookings
        /\ table[id].start = slot.start /\ table[id].end = slot.end
    BY <1>2, OwnerMoves
  <2> QED BY <1>2, <2>1 DEF KeepsOff, Meets
<1>3. CASE Carves(window, row)
  <2>1. Leftover(window, row) \in SlotType
    BY <1>1 DEF Leftover, SlotType, BookingType
  <2>2. /\ KeepsOff(Leftover(window, row), window)
        /\ UpdateAccepted(bookings, caller, id, Keep, Leftover(window, row))
        /\ table = [bookings EXCEPT ![id] = UpdatedRow(@, Keep, Leftover(window, row))]
    BY <1>3 DEF OwnerGives
  <2> QED BY <1>2, <2>1, <2>2
<1>4. CASE ~Carves(window, row) /\ choice.kind = "pick"
  <2>1. choice.slot \in SlotType
    BY <1>4
  <2>2. /\ KeepsOff(choice.slot, window)
        /\ UpdateAccepted(bookings, caller, id, Keep, choice.slot)
        /\ table = [bookings EXCEPT ![id] = UpdatedRow(@, Keep, choice.slot)]
    BY <1>4 DEF OwnerGives
  <2> QED BY <1>2, <2>1, <2>2
<1>5. CASE ~Carves(window, row) /\ choice.kind = "cancel"
  <2>1. table = [bookings EXCEPT ![id].status = "CANCELLED"]
    BY <1>5 DEF OwnerGives
  <2> QED BY <2>1, OwnerDrops
<1>6. CASE ~Carves(window, row) /\ choice.kind \notin {"pick", "cancel"}
  BY <1>6 DEF OwnerGives
<1> QED BY <1>3, <1>4, <1>5, <1>6

(* The requester's part appends one booking, of the slot asked for.         *)
LEMMA RequestersPart ==
  ASSUME ChangeInv, NEW r \in DOMAIN requests, NEW slot \in SlotType,
         NEW table, Sound(table, unchecked), RequesterMay(table, r, slot)
  PROVE  LET new == table \o RequesterRows(r, slot)
             b == Len(table) + 1
         IN  /\ Sound(new, unchecked)
             /\ DOMAIN new = DOMAIN table \cup {b} /\ b \notin DOMAIN table
             /\ \A a \in DOMAIN table : new[a] = table[a]
             /\ new[b].principal = requests[r].requester /\ Active(new[b])
             /\ new[b].start = slot.start /\ new[b].end = slot.end
<1> DEFINE who == requests[r].requester
           rows == RequesterRows(r, slot)
           new == table \o rows
           n == Len(table)
<1>1. TypeOK /\ who \in Users /\ DraftRoom(r) \in Rooms \cup {NoRoom}
  BY RequestType
<1>2. /\ <<slot>> \in Seq(SlotType) /\ Len(<<slot>>) = 1 /\ <<slot>>[1] = slot
      /\ DOMAIN <<slot>> = 1..1
  OBVIOUS
<1>3. CreateAccepted(table, who, who, DraftRoom(r), <<slot>>, FALSE)
  BY DEF RequesterMay
<1>4. unchecked \cup { Len(table) + i : i \in Crowded(<<slot>>) } = unchecked
  <2>1. Crowded(<<slot>>) = {}
    BY <1>2 DEF Crowded
  <2> QED BY <2>1
<1>5. Sound(new, unchecked)
  <2>1. Sound(table \o NewRows(who, who, DraftRoom(r), <<slot>>),
              unchecked \cup { Len(table) + i : i \in Crowded(<<slot>>) })
    BY <1>1, <1>2, <1>3, CreateSound
  <2>2. Sound(table \o NewRows(who, who, DraftRoom(r), <<slot>>), unchecked)
    BY <1>4, <2>1, Zenon
  <2> QED BY <2>2, Zenon DEF RequesterRows
<1>6. /\ rows \in Seq(BookingType) /\ Len(rows) = 1
      /\ rows[1].principal = who /\ rows[1].start = slot.start /\ rows[1].end = slot.end
      /\ rows[1].status \in {"PENDING", "APPROVED"}
  <2> DEFINE series == <<slot>>
  <2>1. series \in Seq(SlotType) /\ Len(series) = 1 /\ series[1] = slot
    BY <1>2
  <2> HIDE DEF series, who
  <2>2. LET all == NewRows(who, who, DraftRoom(r), series)
        IN  /\ all \in Seq(BookingType) /\ Len(all) = Len(series)
            /\ \A i \in 1..Len(series) :
                 /\ all[i].principal = who
                 /\ all[i].start = series[i].start /\ all[i].end = series[i].end
                 /\ all[i].status \in {"PENDING", "APPROVED"}
    BY <1>1, <2>1, NewRowsType
  <2>3. 1 \in 1..Len(series)
    BY <2>1
  <2>4. rows = NewRows(who, who, DraftRoom(r), series)
    BY DEF RequesterRows, series, who
  <2> HIDE DEF rows
  <2> QED BY <2>1, <2>2, <2>3, <2>4
<1>7. table \in Seq(BookingType)
  BY DEF Sound
<1> HIDE DEF rows
<1>8. /\ n \in Nat /\ DOMAIN table = 1..n /\ DOMAIN new = 1..(n + 1)
      /\ \A a \in 1..n : new[a] = table[a]
      /\ new[n + 1] = rows[1]
  <2>1. /\ n \in Nat /\ DOMAIN table = 1..n /\ DOMAIN new = 1..(n + Len(rows))
        /\ \A a \in 1..n : new[a] = table[a]
        /\ \A a \in (n + 1)..(n + Len(rows)) : new[a] = rows[a - n]
    BY <1>6, <1>7, Appended
  <2> HIDE DEF new, n
  <2>2. n + 1 \in (n + 1)..(n + Len(rows)) /\ (n + 1) - n = 1
    BY <1>6, <2>1
  <2> QED BY <1>6, <2>1, <2>2
<1>9. DOMAIN new = DOMAIN table \cup {n + 1} /\ n + 1 \notin DOMAIN table
  BY <1>8
<1> HIDE DEF new, n, who
<1>10. Active(new[n + 1])
  BY <1>6, <1>8 DEF Active, ActiveStates
<1> QED BY <1>5, <1>6, <1>8, <1>9, <1>10 DEF new, n, who, rows

-----------------------------------------------------------------------------
(* What a step may do to the requests and to the bookings *)

(* Deciding a request changes its status and nothing else.                  *)
LEMMA SettledRequests ==
  ASSUME ChangeInv, NEW r \in DOMAIN requests, NEW status \in Decisions, Settled(r, status)
  PROVE  /\ requests' \in Seq(RequestRow) /\ DOMAIN requests' = DOMAIN requests
         /\ requests'[r].status = status
         /\ \A q \in DOMAIN requests :
              /\ q # r => requests'[q] = requests[q]
              /\ requests'[q].booking = requests[q].booking
              /\ requests'[q].window = requests[q].window
              /\ requests'[q].draft = requests[q].draft
<1> DEFINE row == [requests[r] EXCEPT !.status = status]
<1>1. requests[r] \in RequestRow /\ requests \in Seq(RequestRow)
  BY RequestType DEF ChangeInv
<1>2. /\ row \in RequestRow /\ row.status = status
      /\ row.booking = requests[r].booking /\ row.window = requests[r].window
      /\ row.draft = requests[r].draft
  BY <1>1 DEF RequestRow
<1>3. requests' = [requests EXCEPT ![r] = row]
  BY DEF Settled
<1> HIDE DEF row
<1>4. /\ requests' \in Seq(RequestRow) /\ DOMAIN requests' = DOMAIN requests
      /\ requests'[r] = row
      /\ \A q \in DOMAIN requests : q # r => requests'[q] = requests[q]
  BY <1>1, <1>2, <1>3, ExceptSeq, LenProperties
<1> QED BY <1>2, <1>4

(* Rows are never removed from either table.                                *)
LEMMA ChangeKept ==
  ASSUME ChangeInv, CalendarInv', DOMAIN bookings \subseteq DOMAIN bookings',
         requests' \in Seq(RequestRow), DOMAIN requests' = DOMAIN requests,
         \A q \in DOMAIN requests :
           /\ requests'[q].booking = requests[q].booking
           /\ requests'[q].window = requests[q].window
           /\ requests'[q].draft = requests[q].draft,
         half' \subseteq DOMAIN requests
  PROVE  ChangeInv'
  BY DEF ChangeInv, AskedFor

LEMMA CalendarAfter ==
  ASSUME ChangeInv, Sound(bookings', unchecked'), DOMAIN bookings \subseteq DOMAIN bookings',
         UNCHANGED <<now, policy, roomStatus, unchecked>>
  PROVE  CalendarInv'
<1>1. TypeOK'
  BY DEF ChangeInv, CalendarInv, TypeOK, Sound
<1> QED BY <1>1, CalendarIsSound DEF CalendarInv

LEMMA NextKeepsRows ==
  ASSUME TypeOK, Next
  PROVE  DOMAIN bookings \subseteq DOMAIN bookings'
<1>1. ASSUME NEW caller \in Users, NEW principal \in Users, NEW room \in Rooms \cup {NoRoom},
             NEW base, NEW freq, NEW count, Create(caller, principal, room, base, freq, count)
      PROVE  DOMAIN bookings \subseteq DOMAIN bookings'
  <2>1. PICK series \in Seq(SlotType) :
          bookings' = bookings \o NewRows(caller, principal, room, series)
    BY <1>1 DEF Create, Fits
  <2>2. NewRows(caller, principal, room, series) \in Seq(BookingType)
    BY NewRowsType
  <2> QED BY <2>1, <2>2, AppendRows
<1>2. ASSUME NEW caller \in Users, NEW id \in DOMAIN bookings,
             \/ \E toRoom \in Rooms \cup {Keep}, toSlot \in Slots \cup {Keep} :
                  Update(caller, id, toRoom, toSlot)
             \/ Cancel(caller, id)
             \/ \E level \in DOMAIN bookings[id].steps,
                   decision \in {"APPROVED", "REJECTED"} :
                   Decide(caller, id, level, decision)
             \/ \E scanned \in BOOLEAN : CheckIn(caller, id, scanned)
      PROVE  DOMAIN bookings \subseteq DOMAIN bookings'
  BY <1>2 DEF Update, Cancel, Decide, CheckIn
<1>3. ASSUME NoShowSweep
      PROVE  DOMAIN bookings \subseteq DOMAIN bookings'
  BY <1>3 DEF NoShowSweep
<1>4. ASSUME Surroundings
      PROVE  DOMAIN bookings \subseteq DOMAIN bookings'
  BY <1>4, SurroundingsTypeOK
<1> QED BY <1>1, <1>2, <1>3, <1>4, NextCases

-----------------------------------------------------------------------------
(* The steps *)

GrantedInFull ==
  \A r \in DOMAIN requests :
    LET owners == bookings'[requests[r].booking]
    IN  (/\ requests[r].status = "PENDING"
         /\ requests'[r].status = "APPROVED") =>
           /\ \E b \in NewBookings : BookedFor(r, requests[r].draft, b)
           /\ Active(owners) => ~Meets(owners, requests[r].window)

DeclinedTrimmed ==
  \A r \in DOMAIN requests :
    (/\ requests[r].status = "PENDING"
     /\ requests'[r].status = "REJECTED") =>
       \A b \in NewBookings :
         /\ ~Meets(bookings'[b], requests[r].window)
         /\ requests[r].draft.start <= bookings'[b].start
         /\ bookings'[b].end <= requests[r].draft.end

LEMMA GrantStep ==
  ASSUME ChangeInv, NEW caller \in Users, NEW r \in DOMAIN requests,
         NEW choice, choice.kind = "pick" => choice.slot \in SlotType,
         Grant(caller, r, choice)
  PROVE  ChangeInv' /\ GrantedInFull /\ DeclinedTrimmed
<1> DEFINE draft == requests[r].draft
           id == requests[r].booking
<1>1. PICK table \in OwnerGives(caller, r, choice) :
        IF RequesterMay(table, r, draft)
        THEN /\ bookings' = table \o RequesterRows(r, draft)
             /\ Settled(r, "APPROVED")
             /\ UNCHANGED half
        ELSE /\ bookings' = table
             /\ half' = half \cup {r}
             /\ UNCHANGED requests
  BY DEF Grant
<1>2. UNCHANGED <<now, policy, roomStatus, unchecked>>
  BY DEF Grant
<1>3. /\ Sound(table, unchecked) /\ DOMAIN table = DOMAIN bookings
      /\ Active(table[id]) => ~Meets(table[id], requests[r].window)
  BY OwnersPart
<1>4. draft \in SlotType /\ id \in DOMAIN bookings
  BY RequestType
<1>5. CASE RequesterMay(table, r, draft)
  <2> DEFINE new == Len(table) + 1
  <2>1. /\ Sound(bookings', unchecked')
        /\ DOMAIN bookings' = DOMAIN bookings \cup {new} /\ new \notin DOMAIN bookings
        /\ bookings'[id] = table[id]
        /\ bookings'[new].principal = requests[r].requester /\ Active(bookings'[new])
        /\ bookings'[new].start = draft.start /\ bookings'[new].end = draft.end
    <3>1. bookings' = table \o RequesterRows(r, draft)
      BY <1>1, <1>5
    <3> HIDE DEF draft
    <3> QED BY <1>2, <1>3, <1>4, <1>5, <3>1, RequestersPart
  <2> HIDE DEF new
  <2>2. CalendarInv'
    BY <1>2, <2>1, CalendarAfter
  <2>3. Settled(r, "APPROVED") /\ half' = half
    BY <1>1, <1>5
  <2>4. /\ requests' \in Seq(RequestRow) /\ DOMAIN requests' = DOMAIN requests
        /\ requests'[r].status = "APPROVED"
        /\ \A q \in DOMAIN requests :
             /\ q # r => requests'[q] = requests[q]
             /\ requests'[q].booking = requests[q].booking
             /\ requests'[q].window = requests[q].window
             /\ requests'[q].draft = requests[q].draft
    BY <2>3, SettledRequests DEF Decisions
  <2>5. ChangeInv'
    BY <2>1, <2>2, <2>3, <2>4, ChangeKept DEF ChangeInv
  <2>6. [start |-> draft.start, end |-> draft.end] = draft
    BY <1>4 DEF SlotType
  <2>7. BookedFor(r, draft, new) /\ new \in NewBookings
    BY <2>1, <2>6 DEF BookedFor, NewBookings
  <2>8. GrantedInFull
    <3> SUFFICES ASSUME NEW q \in DOMAIN requests,
                        requests[q].status = "PENDING", requests'[q].status = "APPROVED"
                 PROVE  /\ \E b \in NewBookings : BookedFor(q, requests[q].draft, b)
                        /\ Active(bookings'[requests[q].booking]) =>
                             ~Meets(bookings'[requests[q].booking], requests[q].window)
      BY DEF GrantedInFull
    <3>1. q = r
      BY <2>4
    <3> QED BY <1>3, <2>1, <2>7, <3>1
  <2>9. DeclinedTrimmed
    BY <2>4 DEF DeclinedTrimmed
  <2> QED BY <2>5, <2>8, <2>9
<1>6. CASE ~RequesterMay(table, r, draft)
  <2>1. bookings' = table /\ half' = half \cup {r} /\ requests' = requests
    BY <1>1, <1>6
  <2>2. CalendarInv'
    BY <1>2, <1>3, <2>1, CalendarAfter
  <2>3. ChangeInv'
    BY <1>3, <2>1, <2>2, ChangeKept DEF ChangeInv
  <2> QED BY <2>1, <2>3 DEF GrantedInFull, DeclinedTrimmed
<1> QED BY <1>5, <1>6

(* What is left of a meeting without the window at its edge is within the   *)
(* meeting and off the window.                                              *)
LEMMA FallbackTrims ==
  ASSUME ChangeInv, NEW r \in DOMAIN requests, Fallback(r).start < Fallback(r).end
  PROVE  /\ Fallback(r) \in SlotType
         /\ ~Meets(Fallback(r), requests[r].window)
         /\ requests[r].draft.start <= Fallback(r).start
         /\ Fallback(r).end <= requests[r].draft.end
<1> DEFINE window == requests[r].window
           draft == requests[r].draft
<1>1. window \in SlotType /\ draft \in SlotType /\ AskedFor(requests[r])
  BY RequestType
<1>2. /\ window.start \in Instants /\ window.end \in Instants
      /\ draft.start \in Instants /\ draft.end \in Instants
      /\ window.start < window.end
      /\ window.start = draft.start \/ window.end = draft.end
  BY <1>1 DEF SlotType, AskedFor, OnEdge
<1>3. /\ window.start \in Int /\ window.end \in Int
      /\ draft.start \in Int /\ draft.end \in Int
  BY <1>2, BoundAssumption DEF Instants
<1>4. Fallback(r) = IF window.start = draft.start
                    THEN [start |-> window.end, end |-> draft.end]
                    ELSE [start |-> draft.start, end |-> window.start]
  BY DEF Fallback
<1> HIDE DEF window, draft
<1>5. Fallback(r).start \in Instants /\ Fallback(r).end \in Instants /\ Fallback(r) \in SlotType
  BY <1>2, <1>4 DEF SlotType
<1>6. CASE window.start = draft.start
  <2>1. Fallback(r).start = window.end /\ Fallback(r).end = draft.end
    BY <1>4, <1>6
  <2> QED BY <1>2, <1>3, <1>5, <1>6, <2>1 DEF Meets, window, draft
<1>7. CASE window.start # draft.start
  <2>1. Fallback(r).start = draft.start /\ Fallback(r).end = window.start
    BY <1>4, <1>7
  <2>2. ~Meets(Fallback(r), window)
    BY <1>2, <1>3, <1>5, <2>1 DEF Meets
  <2>3. draft.start <= Fallback(r).start /\ Fallback(r).end <= draft.end
    BY <1>2, <1>3, <1>7, <2>1
  <2> QED BY <1>5, <2>2, <2>3 DEF window, draft
<1> QED BY <1>6, <1>7

LEMMA DeclineStep ==
  ASSUME ChangeInv, NEW caller \in Users, NEW r \in DOMAIN requests, Decline(caller, r)
  PROVE  ChangeInv' /\ GrantedInFull /\ DeclinedTrimmed
<1> DEFINE slot == Fallback(r)
           books == slot.end > slot.start /\ RequesterMay(bookings, r, slot)
<1>1. /\ bookings' = IF books THEN bookings \o RequesterRows(r, slot) ELSE bookings
      /\ Settled(r, "REJECTED")
      /\ UNCHANGED <<now, policy, roomStatus, unchecked, half>>
  BY DEF Decline
<1>2. Sound(bookings, unchecked)
  BY CalendarIsSound DEF ChangeInv
<1>3. /\ Sound(bookings', unchecked') /\ DOMAIN bookings \subseteq DOMAIN bookings'
      /\ \A b \in NewBookings :
           /\ ~Meets(bookings'[b], requests[r].window)
           /\ requests[r].draft.start <= bookings'[b].start
           /\ bookings'[b].end <= requests[r].draft.end
  <2>1. CASE ~books
    BY <1>1, <1>2, <2>1 DEF NewBookings
  <2>2. CASE books
    <3>1. slot.start < slot.end
      BY <2>2, BoundAssumption, RequestType DEF Fallback, SlotType, Instants
    <3>2. /\ slot \in SlotType /\ ~Meets(slot, requests[r].window)
          /\ requests[r].draft.start <= slot.start /\ slot.end <= requests[r].draft.end
      BY <3>1, FallbackTrims
    <3>3. RequesterMay(bookings, r, slot) /\ bookings' = bookings \o RequesterRows(r, slot)
      BY <1>1, <2>2
    <3> HIDE DEF slot
    <3>4. LET b == Len(bookings) + 1
          IN  /\ Sound(bookings', unchecked)
              /\ DOMAIN bookings' = DOMAIN bookings \cup {b}
              /\ bookings'[b].start = slot.start /\ bookings'[b].end = slot.end
      BY <1>2, <3>2, <3>3, RequestersPart
    <3> QED BY <1>1, <3>2, <3>4 DEF NewBookings, Meets
  <2> QED BY <2>1, <2>2
<1>4. CalendarInv'
  BY <1>1, <1>3, CalendarAfter
<1>5. /\ requests' \in Seq(RequestRow) /\ DOMAIN requests' = DOMAIN requests
      /\ requests'[r].status = "REJECTED"
      /\ \A q \in DOMAIN requests :
           /\ q # r => requests'[q] = requests[q]
           /\ requests'[q].booking = requests[q].booking
           /\ requests'[q].window = requests[q].window
           /\ requests'[q].draft = requests[q].draft
  BY <1>1, SettledRequests DEF Decisions
<1>6. ChangeInv'
  BY <1>1, <1>3, <1>4, <1>5, ChangeKept DEF ChangeInv
<1>7. GrantedInFull
  BY <1>5 DEF GrantedInFull
<1>8. DeclinedTrimmed
  BY <1>3, <1>5 DEF DeclinedTrimmed
<1> QED BY <1>6, <1>7, <1>8

LEMMA AskStep ==
  ASSUME ChangeInv, NEW caller \in Users, NEW id \in DOMAIN bookings,
         NEW window \in SlotType, NEW draft \in SlotType, NEW online \in BOOLEAN,
         Ask(caller, id, window, draft, online)
  PROVE  ChangeInv' /\ GrantedInFull /\ DeclinedTrimmed
<1> DEFINE row == [ booking |-> id, requester |-> caller, window |-> window,
                    draft |-> draft, online |-> online, status |-> "PENDING" ]
<1>1. /\ requests' = Append(requests, row)
      /\ UNCHANGED <<now, bookings, policy, roomStatus, unchecked, half>>
  BY DEF Ask, vars
<1>2. id \in Nat \ {0}
  BY RowType DEF ChangeInv, CalendarInv
<1>3. /\ row \in RequestRow /\ row.booking = id
      /\ row.window = window /\ row.draft = draft
  BY <1>2 DEF RequestRow, Decisions
<1>4. /\ window.start < window.end /\ OnEdge(window, draft)
  BY BoundAssumption DEF Ask, AskAccepted, SlotType, Instants
<1> HIDE DEF row
<1>5. /\ requests \in Seq(RequestRow) /\ requests' \in Seq(RequestRow)
      /\ DOMAIN requests' = DOMAIN requests \cup {Len(requests) + 1}
      /\ \A q \in DOMAIN requests : requests'[q] = requests[q]
      /\ requests'[Len(requests) + 1] = row
  <2>1. requests \in Seq(RequestRow) /\ Len(requests) \in Nat
    BY DEF ChangeInv
  <2> QED BY <1>1, <1>3, <2>1, AppendProperties, LenProperties
<1>6. CalendarInv'
  BY <1>1 DEF ChangeInv, CalendarInv, TypeOK, RowsOrdered, ExclusiveUnlessUnchecked, Compete,
              Active
<1>7. AskedFor(row)
  BY <1>3, <1>4 DEF AskedFor
<1>8. ChangeInv'
  BY <1>1, <1>3, <1>5, <1>6, <1>7 DEF ChangeInv, AskedFor
<1> QED BY <1>5, <1>8 DEF GrantedInFull, DeclinedTrimmed

(* Bookings change as Booking has it.                                       *)
LEMMA BookingStep ==
  ASSUME ChangeInv, [Next]_vars, UNCHANGED requestVars
  PROVE  ChangeInv' /\ GrantedInFull /\ DeclinedTrimmed
<1>1. CalendarInv'
  BY CalendarInductive DEF ChangeInv
<1>2. DOMAIN bookings \subseteq DOMAIN bookings'
  BY NextKeepsRows DEF ChangeInv, CalendarInv, vars
<1>3. requests' = requests /\ half' = half
  BY DEF requestVars
<1>4. ChangeInv'
  BY <1>1, <1>2, <1>3, ChangeKept DEF ChangeInv
<1> QED BY <1>3, <1>4 DEF GrantedInFull, DeclinedTrimmed

LEMMA ChangeStep ==
  ASSUME ChangeInv, [RequestNext]_<<vars, requestVars>>
  PROVE  ChangeInv' /\ GrantedInFull /\ DeclinedTrimmed
<1>1. CASE UNCHANGED <<vars, requestVars>>
  BY <1>1, BookingStep
<1>2. /\ Windows \subseteq SlotType /\ DraftOnline \subseteq BOOLEAN
      /\ \A choice \in OwnerChoices : choice.kind = "pick" => choice.slot \in SlotType
  BY RequestAssumption DEF OwnerChoices
<1>3. CASE RequestNext
  BY <1>2, <1>3, BookingStep, AskStep, GrantStep, DeclineStep DEF RequestNext
<1> QED BY <1>1, <1>3

-----------------------------------------------------------------------------
(* Theorems *)

(* The inductive invariant: a sound calendar, and requests about bookings   *)
(* that exist, for an edge of the requester's meeting.                      *)
THEOREM ChangeInvariant == RequestSpec => []ChangeInv
<1>1. RequestInit => ChangeInv
  BY InitChange
<1>2. ChangeInv /\ [RequestNext]_<<vars, requestVars>> => ChangeInv'
  BY ChangeStep
<1> QED BY <1>1, <1>2, PTL DEF RequestSpec

(* Granting and declining leave the calendar as sound as bookings do: a     *)
(* grant moves the owner and books the requester, each with its own checks. *)
THEOREM RequestsSafe == RequestSpec => []RequestInv
<1>1. ChangeInv => RequestInv
  BY DEF ChangeInv, CalendarInv, RequestInv, RequestTypeOK
<1> QED BY <1>1, ChangeInvariant, PTL

(* What is decided is done in full, and no more than that, wherever bookings*)
(* moved since the request was made.                                        *)
THEOREM DecisionsApply == RequestSpec => DecisionApplied
<1>1. ChangeInv /\ [RequestNext]_<<vars, requestVars>> =>
        [GrantedInFull]_<<vars, requestVars>> /\ [DeclinedTrimmed]_<<vars, requestVars>>
  BY ChangeStep
<1>2. RequestSpec => [][GrantedInFull]_<<vars, requestVars>>
                     /\ [][DeclinedTrimmed]_<<vars, requestVars>>
  BY <1>1, ChangeInvariant, PTL DEF RequestSpec
<1> QED BY <1>2 DEF DecisionApplied, GrantApplied, DeclineTrims, GrantedInFull,
                    DeclinedTrimmed

-----------------------------------------------------------------------------
(* The dialogs around change requests: what they rely on of the bookings.   *)

(* Of a row nobody changes whose it is, nor takes it out of a room; and a   *)
(* meeting in a room ends on the day it starts.                             *)
SameOwner(old, new) ==
  /\ new.principal = old.principal /\ new.booker = old.booker
  /\ old.room # NoRoom => new.room # NoRoom

OneDay(row) == row.room # NoRoom => DayOf(row.start) = DayOf(row.end)

DaysOK(table) == \A b \in DOMAIN table : OneDay(table[b])

Follows(table, new) ==
  /\ DOMAIN table \subseteq DOMAIN new
  /\ \A b \in DOMAIN table : SameOwner(table[b], new[b])

(* Division, for a day that is not known.                                   *)
LEMMA DayBounds ==
  ASSUME NEW t \in Int
  PROVE  /\ DayOf(t) \in Int /\ DayOf(t) * DayTicks \in Int
         /\ DayOf(t) * DayTicks <= t /\ t < DayOf(t) * DayTicks + DayTicks
         /\ t % DayTicks = t - DayOf(t) * DayTicks
BY TimeAssumption DEF DayOf

(* Instants at most a day apart lie on one day or on neighbours.            *)

LEMMA NextDay ==
  ASSUME NEW s \in Int, NEW t \in Int, s <= t, t <= s + DayTicks
  PROVE  DayOf(t) = DayOf(s) \/ DayOf(t) = DayOf(s) + 1
<1> DEFINE d == DayOf(s)
           e == DayOf(t)
<1>1. /\ d \in Int /\ e \in Int /\ DayTicks \in Nat \ {0}
      /\ d * DayTicks <= s /\ s < d * DayTicks + DayTicks
      /\ e * DayTicks <= t /\ t < e * DayTicks + DayTicks
  BY DayBounds, TimeAssumption
<1> HIDE DEF d, e
<1>2. e >= d
  <2>1. CASE e + 1 <= d
    <3>1. (e + 1) * DayTicks <= d * DayTicks
      BY <1>1, <2>1
    <3>2. (e + 1) * DayTicks = e * DayTicks + DayTicks
      BY <1>1
    <3> QED BY <1>1, <3>1, <3>2
  <2> QED BY <1>1, <2>1
<1>3. e <= d + 1
  <2>1. CASE e >= d + 2
    <3>1. (d + 2) * DayTicks <= e * DayTicks
      BY <1>1, <2>1
    <3>2. (d + 2) * DayTicks = d * DayTicks + DayTicks + DayTicks
      BY <1>1
    <3> QED BY <1>1, <3>1, <3>2
  <2> QED BY <1>1, <2>1
<1> QED BY <1>1, <1>2, <1>3 DEF d, e

(* A week has more than one day: neighbours have different weekdays.        *)
LEMMA WeekdaysDiffer ==
  ASSUME NEW d \in Int
  PROVE  (d + 1) % DaysPerWeek # d % DaysPerWeek
<1> DEFINE w == DaysPerWeek
           p == d \div w
           q == (d + 1) \div w
           a == d % w
           b == (d + 1) % w
<1>1. w \in Nat /\ w > 1
  BY TimeAssumption, FormsAssumption
<1>2. p \in Int /\ q \in Int /\ a \in Int /\ b \in Int /\ d = w * p + a /\ d + 1 = w * q + b
  BY <1>1
<1> HIDE DEF w, p, q, a, b
<1>3. w * (q - p) = w * q - w * p
  BY <1>1, <1>2
<1>4. w * (q - p) # 1
  <2> DEFINE k == q - p
  <2>1. k \in Int
    BY <1>2
  <2> HIDE DEF k
  <2>2. CASE k <= 0
    <3>1. w * k <= 0
      BY <1>1, <2>1, <2>2
    <3> QED BY <3>1 DEF k
  <2>3. CASE k >= 1
    <3>1. w * k >= w
      BY <1>1, <2>1, <2>3
    <3> QED BY <1>1, <2>1, <3>1 DEF k
  <2> QED BY <2>1, <2>2, <2>3
<1>5. a # b
  <2> SUFFICES ASSUME a = b PROVE FALSE
    OBVIOUS
  <2> DEFINE x == w * p
             y == w * q
  <2>1. x \in Int /\ y \in Int /\ d = x + a /\ d + 1 = y + b /\ y - x # 1
    BY <1>1, <1>2, <1>3, <1>4
  <2> HIDE DEF x, y
  <2> QED BY <1>2, <2>1
<1> QED BY <1>5 DEF w, a, b

(* A slot of a permitted length within the business hours lies in one day.  *)

LEMMA ShortIsOneDay ==
  ASSUME NEW slot, slot.start \in Int, slot.end \in Int, slot.start < slot.end,
         NEW rules \in Policies, WithinBusinessHours(slot, rules),
         MinutesBetween(slot.start, slot.end) <= rules.maxDuration
  PROVE  DayOf(slot.start) = DayOf(slot.end)
<1> DEFINE s == slot.start
           t == slot.end
<1>1. /\ rules.maxDuration \in Nat /\ DayTicks \in Nat
      /\ rules.maxDuration * 2 <= DayTicks
  BY PolicyAssumption, DayLongAssumption, TimeAssumption DEF RulesType, TicksPerMinute
<1>2. t <= s + DayTicks
  BY <1>1 DEF MinutesBetween, TicksPerMinute
<1>3. DayOf(t) = DayOf(s) \/ DayOf(t) = DayOf(s) + 1
  BY <1>2, NextDay
<1>4. DayOf(s) \in Int /\ DayOf(t) \in Int
  BY DayBounds
<1>5. DayOf(s) % DaysPerWeek = DayOf(t) % DaysPerWeek
  BY <1>4, TimeAssumption DEF WithinBusinessHours, IsoWeekday
<1> QED BY <1>3, <1>4, <1>5, WeekdaysDiffer

(* What update() accepts moves a meeting within one day, of the same owner. *)

LEMMA UpdateFollows ==
  ASSUME TypeOK, RowsOrdered, NEW caller \in Users, NEW id \in DOMAIN bookings,
         NEW toRoom \in Rooms \cup {Keep}, NEW toSlot, toSlot # Keep => toSlot \in SlotType,
         UpdateAccepted(bookings, caller, id, toRoom, toSlot), OneDay(bookings[id])
  PROVE  LET row == UpdatedRow(bookings[id], toRoom, toSlot)
         IN  OneDay(row) /\ SameOwner(bookings[id], row)
<1> DEFINE old == bookings[id]
           row == UpdatedRow(old, toRoom, toSlot)
           room == TargetRoom(old, toRoom)
           slot == TargetSlot(old, toSlot)
           rules == RulesFor(room)
           moving == room # old.room \/ toSlot # Keep
<1>1. old \in BookingType /\ old.start < old.end
  BY RowType DEF RowsOrdered
<1>2. /\ row.room = room /\ row.start = slot.start /\ row.end = slot.end
      /\ row.principal = old.principal /\ row.booker = old.booker
  BY <1>1 DEF UpdatedRow, BookingType
<1>3. /\ room \in Rooms \cup {NoRoom} /\ (old.room # NoRoom => room # NoRoom)
  BY <1>1, ActorAssumption DEF TargetRoom, BookingType
<1>4. /\ old.start \in Int /\ old.end \in Int /\ now \in Int
      /\ slot.start \in Int /\ slot.end \in Int
  <2>1. now \in Int /\ Instants \subseteq Int
    BY BoundAssumption DEF TypeOK, Instants
  <2> QED BY <1>1, <2>1 DEF TargetSlot, SlotType, BookingType
<1>5. ~moving => room = old.room /\ slot.start = old.start /\ slot.end = old.end
  BY DEF TargetSlot
<1>6. /\ moving => StartedOnlyEndMoves(old, room # old.room, slot)
      /\ moving => IF Started(old)
                   THEN ExtensionAccepted(bookings, id, room, slot, rules)
                   ELSE MoveAccepted(bookings, id, room, slot, rules)
  BY DEF UpdateAccepted
<1>7. room # NoRoom => rules \in Policies
  BY <1>3, RulesForType
<1> HIDE DEF row, room, slot, rules
<1>8. ASSUME room # NoRoom, moving
      PROVE  DayOf(slot.start) = DayOf(slot.end)
  <2>1. /\ slot.start < slot.end /\ WithinBusinessHours(slot, rules)
        /\ MinutesBetween(slot.start, slot.end) <= rules.maxDuration
    <3>1. CASE Started(old)
      BY <1>4, <1>6, <1>8, <3>1 DEF ExtensionAccepted, StartedOnlyEndMoves, Started
    <3>2. CASE ~Started(old)
      BY <1>6, <1>8, <3>2 DEF MoveAccepted, ValidSlot
    <3> QED BY <3>1, <3>2
  <2> QED BY <1>4, <1>7, <1>8, <2>1, ShortIsOneDay
<1>9. OneDay(row)
  BY <1>2, <1>5, <1>8 DEF OneDay
<1> QED BY <1>2, <1>3, <1>9 DEF SameOwner, row

(* What create() accepts lies in one day.                                   *)

LEMMA CreateFollows ==
  ASSUME TypeOK, NEW table \in Seq(BookingType), DaysOK(table),
         NEW caller \in Users, NEW principal \in Users, NEW room \in Rooms \cup {NoRoom},
         NEW series \in Seq(SlotType), NEW recurring,
         CreateAccepted(table, caller, principal, room, series, recurring)
  PROVE  LET new == table \o NewRows(caller, principal, room, series)
         IN  DaysOK(new) /\ Follows(table, new)
<1> DEFINE rules == RulesFor(room)
           rows == NewRows(caller, principal, room, series)
           new == table \o rows
           n == Len(table)
<1>1. /\ rows \in Seq(BookingType) /\ Len(rows) = Len(series)
      /\ \A i \in 1..Len(series) :
           /\ rows[i].room = room
           /\ rows[i].start = series[i].start /\ rows[i].end = series[i].end
  BY NewRowsType
<1>2. \A i \in 1..Len(series) : ValidSlot(series[i], rules, now, rules.overAdvanceApproval)
  BY DEF CreateAccepted
<1>3. \A i \in 1..Len(series) : series[i].start \in Int /\ series[i].end \in Int
  <2>1. \A i \in 1..Len(series) : series[i] \in SlotType
    BY ElementOfSeq
  <2> QED BY <2>1, BoundAssumption DEF SlotType, Instants
<1>4. room # NoRoom => rules \in Policies
  BY RulesForType
<1> HIDE DEF rules, rows
<1>5. \A i \in 1..Len(series) : OneDay(rows[i])
  <2> SUFFICES ASSUME NEW i \in 1..Len(series), room # NoRoom
               PROVE  DayOf(series[i].start) = DayOf(series[i].end)
    BY <1>1 DEF OneDay
  <2>1. /\ series[i].start < series[i].end /\ WithinBusinessHours(series[i], rules)
        /\ MinutesBetween(series[i].start, series[i].end) <= rules.maxDuration
    BY <1>2, <1>3 DEF ValidSlot
  <2> QED BY <1>3, <1>4, <2>1, ShortIsOneDay
<1>6. /\ n \in Nat /\ Len(rows) \in Nat
      /\ DOMAIN table = 1..n /\ DOMAIN new = 1..(n + Len(rows))
      /\ \A a \in 1..n : new[a] = table[a]
      /\ \A a \in (n + 1)..(n + Len(rows)) : new[a] = rows[a - n] /\ a - n \in 1..Len(rows)
  BY <1>1, Appended
<1> HIDE DEF new, n
<1>7. DaysOK(new)
  <2> SUFFICES ASSUME NEW a \in 1..(n + Len(rows)) PROVE OneDay(new[a])
    BY <1>6 DEF DaysOK
  <2>1. CASE a \in 1..n
    BY <1>6, <2>1 DEF DaysOK
  <2>2. CASE a \in (n + 1)..(n + Len(rows))
    BY <1>1, <1>5, <1>6, <2>2
  <2> QED BY <1>6, <2>1, <2>2
<1>8. Follows(table, new)
  BY <1>6 DEF Follows, SameOwner
<1> QED BY <1>7, <1>8 DEF new, rows

LEMMA ReplacedFollows ==
  ASSUME TypeOK, DaysOK(bookings), NEW id \in DOMAIN bookings, NEW row,
         OneDay(row), SameOwner(bookings[id], row)
  PROVE  LET new == [bookings EXCEPT ![id] = row]
         IN  DaysOK(new) /\ Follows(bookings, new)
BY DEF DaysOK, Follows, SameOwner

LEMMA KeptFollows ==
  ASSUME DaysOK(bookings), NEW new, DOMAIN new = DOMAIN bookings,
         \A b \in DOMAIN bookings :
           /\ new[b].room = bookings[b].room
           /\ new[b].start = bookings[b].start /\ new[b].end = bookings[b].end
           /\ new[b].principal = bookings[b].principal
           /\ new[b].booker = bookings[b].booker
  PROVE  DaysOK(new) /\ Follows(bookings, new)
BY DEF DaysOK, OneDay, Follows, SameOwner

(* The same for every step of the bookings.                                 *)

LEMMA NextFollows ==
  ASSUME TypeOK, RowsOrdered, DaysOK(bookings), Next
  PROVE  DaysOK(bookings') /\ Follows(bookings, bookings')
<1>1. ASSUME NEW caller \in Users, NEW principal \in Users, NEW room \in Rooms \cup {NoRoom},
             NEW base, NEW freq, NEW count, Create(caller, principal, room, base, freq, count)
      PROVE  DaysOK(bookings') /\ Follows(bookings, bookings')
  <2>1. PICK offsets :
          LET series == SeriesSlots(base, offsets)
          IN  /\ series \in Seq(SlotType)
              /\ CreateAccepted(bookings, caller, principal, room, series, freq # "ONCE")
              /\ bookings' = bookings \o NewRows(caller, principal, room, series)
    BY <1>1 DEF Create, Fits
  <2> DEFINE series == SeriesSlots(base, offsets)
  <2>2. bookings \in Seq(BookingType)
    BY DEF TypeOK
  <2> HIDE DEF series
  <2> QED BY <2>1, <2>2, CreateFollows DEF series
<1>2. ASSUME NEW caller \in Users, NEW id \in DOMAIN bookings,
             NEW toRoom \in Rooms \cup {Keep}, NEW toSlot \in Slots \cup {Keep},
             Update(caller, id, toRoom, toSlot)
      PROVE  DaysOK(bookings') /\ Follows(bookings, bookings')
  <2> DEFINE row == UpdatedRow(bookings[id], toRoom, toSlot)
  <2>1. /\ bookings' = [bookings EXCEPT ![id] = row]
        /\ toSlot # Keep => toSlot \in SlotType
        /\ UpdateAccepted(bookings, caller, id, toRoom, toSlot)
    BY <1>2 DEF Update
  <2>2. OneDay(row) /\ SameOwner(bookings[id], row)
    BY <2>1, UpdateFollows DEF DaysOK
  <2> HIDE DEF row
  <2> QED BY <2>1, <2>2, ReplacedFollows
<1>3. ASSUME NEW caller \in Users, NEW id \in DOMAIN bookings,
             \/ Cancel(caller, id)
             \/ \E level \in DOMAIN bookings[id].steps,
                   decision \in {"APPROVED", "REJECTED"} :
                   Decide(caller, id, level, decision)
             \/ \E scanned \in BOOLEAN : CheckIn(caller, id, scanned)
      PROVE  DaysOK(bookings') /\ Follows(bookings, bookings')
  <2>1. \A b \in DOMAIN bookings : bookings[b] \in BookingType
    BY RowType
  <2>2. CASE Cancel(caller, id)
    BY <2>1, <2>2, KeptFollows DEF Cancel, BookingType
  <2>3. ASSUME NEW level \in DOMAIN bookings[id].steps,
               NEW decision \in {"APPROVED", "REJECTED"},
               Decide(caller, id, level, decision)
        PROVE  DaysOK(bookings') /\ Follows(bookings, bookings')
    <3> DEFINE row == DecidedRow(bookings[id], caller, level, decision)
    <3>1. bookings' = [bookings EXCEPT ![id] = row]
      BY <2>3, DecideRow
    <3>2. /\ row.room = bookings[id].room
          /\ row.start = bookings[id].start /\ row.end = bookings[id].end
          /\ row.principal = bookings[id].principal /\ row.booker = bookings[id].booker
      BY <2>1 DEF DecidedRow, BookingType
    <3> HIDE DEF row
    <3> QED BY <3>1, <3>2, KeptFollows
  <2>4. ASSUME NEW scanned \in BOOLEAN, CheckIn(caller, id, scanned)
        PROVE  DaysOK(bookings') /\ Follows(bookings, bookings')
    BY <2>1, <2>4, KeptFollows DEF CheckIn, BookingType
  <2> QED BY <1>3, <2>2, <2>3, <2>4
<1>4. ASSUME NoShowSweep
      PROVE  DaysOK(bookings') /\ Follows(bookings, bookings')
  <2> DEFINE row(b) == IF NoShowCandidate(bookings[b])
                       THEN [bookings[b] EXCEPT !.noShow = TRUE]
                       ELSE bookings[b]
  <2>1. bookings' = [b \in DOMAIN bookings |-> row(b)]
    BY <1>4 DEF NoShowSweep
  <2>2. \A b \in DOMAIN bookings :
          /\ row(b).room = bookings[b].room
          /\ row(b).start = bookings[b].start /\ row(b).end = bookings[b].end
          /\ row(b).principal = bookings[b].principal
          /\ row(b).booker = bookings[b].booker
    BY RowType DEF BookingType
  <2> HIDE DEF row
  <2> QED BY <2>1, <2>2, KeptFollows
<1>5. ASSUME Surroundings
      PROVE  DaysOK(bookings') /\ Follows(bookings, bookings')
  <2>1. bookings' = bookings
    BY <1>5, SurroundingsTypeOK
  <2> QED BY <2>1, KeptFollows
<1> QED BY <1>1, <1>2, <1>3, <1>4, <1>5, NextCases

-----------------------------------------------------------------------------
(* Decisions *)

(* The owner's part changes the owner's booking alone, as shown.            *)

LEMMA OwnersFollow ==
  ASSUME ChangeInv, DaysOK(bookings), NEW caller \in Users, NEW r \in DOMAIN requests,
         NEW choice, choice.kind = "pick" => choice.slot \in SlotType,
         NEW table \in OwnerGives(caller, r, choice)
  PROVE  LET id == requests[r].booking
             carved == Carves(requests[r].window, bookings[id])
         IN  /\ DaysOK(table) /\ Follows(bookings, table) /\ DOMAIN table = DOMAIN bookings
             /\ \A b \in DOMAIN bookings \ {id} : table[b] = bookings[b]
             /\ carved => SlotOf(table[id]) = Leftover(requests[r].window, bookings[id])
             /\ ~carved /\ choice.kind = "pick" => SlotOf(table[id]) = choice.slot
             /\ ~carved /\ choice.kind = "cancel" => table[id].status = "CANCELLED"
<1> DEFINE id == requests[r].booking
           old == bookings[id]
           window == requests[r].window
<1>1. /\ TypeOK /\ RowsOrdered /\ id \in DOMAIN bookings
      /\ old \in BookingType /\ window \in SlotType
  BY RequestType DEF ChangeInv, CalendarInv
<1>2. ASSUME NEW slot \in SlotType,
             UpdateAccepted(bookings, caller, id, Keep, slot),
             table = [bookings EXCEPT ![id] = UpdatedRow(@, Keep, slot)]
      PROVE  /\ DaysOK(table) /\ Follows(bookings, table) /\ DOMAIN table = DOMAIN bookings
             /\ \A b \in DOMAIN bookings \ {id} : table[b] = bookings[b]
             /\ SlotOf(table[id]) = slot
  <2> DEFINE row == UpdatedRow(old, Keep, slot)
  <2>1. OneDay(row) /\ SameOwner(old, row)
    BY <1>1, <1>2, UpdateFollows DEF DaysOK
  <2>2. row.start = slot.start /\ row.end = slot.end
    BY <1>1, RequestAssumption DEF UpdatedRow, TargetSlot, BookingType
  <2>3. SlotOf(row) = slot
    BY <2>2 DEF SlotOf, SlotType
  <2> HIDE DEF row
  <2>4. table = [bookings EXCEPT ![id] = row]
    BY <1>2 DEF row
  <2>5. DaysOK(table) /\ Follows(bookings, table)
    BY <1>1, <2>1, <2>4, ReplacedFollows
  <2> QED BY <1>1, <2>3, <2>4, <2>5
<1>3. CASE Carves(window, old)
  <2>1. Leftover(window, old) \in SlotType
    BY <1>1 DEF Leftover, SlotType, BookingType
  <2>2. /\ UpdateAccepted(bookings, caller, id, Keep, Leftover(window, old))
        /\ table = [bookings EXCEPT ![id] = UpdatedRow(@, Keep, Leftover(window, old))]
    BY <1>3 DEF OwnerGives
  <2> QED BY <1>2, <1>3, <2>1, <2>2
<1>4. CASE ~Carves(window, old) /\ choice.kind = "pick"
  <2>1. /\ UpdateAccepted(bookings, caller, id, Keep, choice.slot)
        /\ table = [bookings EXCEPT ![id] = UpdatedRow(@, Keep, choice.slot)]
    BY <1>4 DEF OwnerGives
  <2> QED BY <1>2, <1>4, <2>1
<1>5. CASE ~Carves(window, old) /\ choice.kind = "cancel"
  <2> DEFINE row == [old EXCEPT !.status = "CANCELLED"]
  <2>1. table = [bookings EXCEPT ![id] = row]
    BY <1>5 DEF OwnerGives
  <2>2. OneDay(row) /\ SameOwner(old, row) /\ row.status = "CANCELLED"
    BY <1>1 DEF OneDay, SameOwner, DaysOK, BookingType
  <2> HIDE DEF row
  <2>3. DaysOK(table) /\ Follows(bookings, table)
    BY <1>1, <2>1, <2>2, ReplacedFollows
  <2> QED BY <1>1, <1>5, <2>1, <2>2, <2>3
<1>6. CASE ~Carves(window, old) /\ choice.kind \notin {"pick", "cancel"}
  BY <1>6 DEF OwnerGives
<1> QED BY <1>3, <1>4, <1>5, <1>6

(* The requester's part changes no row there was.                           *)
LEMMA RequestersFollow ==
  ASSUME ChangeInv, NEW r \in DOMAIN requests, NEW slot \in SlotType,
         NEW table \in Seq(BookingType), DaysOK(table), RequesterMay(table, r, slot)
  PROVE  LET new == table \o RequesterRows(r, slot)
         IN  /\ DaysOK(new) /\ Follows(table, new)
             /\ \A b \in DOMAIN table : new[b] = table[b]
<1> DEFINE who == requests[r].requester
           new == table \o RequesterRows(r, slot)
<1>1. TypeOK /\ who \in Users /\ DraftRoom(r) \in Rooms \cup {NoRoom}
  BY RequestType
<1>2. <<slot>> \in Seq(SlotType)
  OBVIOUS
<1>3. CreateAccepted(table, who, who, DraftRoom(r), <<slot>>, FALSE)
  BY DEF RequesterMay
<1>4. DaysOK(new) /\ Follows(table, new)
  BY <1>1, <1>2, <1>3, CreateFollows DEF RequesterRows
<1>5. RequesterRows(r, slot) \in Seq(BookingType)
  BY <1>1, <1>2, NewRowsType DEF RequesterRows
<1>6. \A b \in DOMAIN table : new[b] = table[b]
  BY <1>5, Appended
<1> QED BY <1>4, <1>6

GivenAsShown(r, choice) ==
  LET id == requests[r].booking
      carved == Carves(requests[r].window, bookings[id])
  IN  /\ carved => SlotOf(bookings'[id]) = Leftover(requests[r].window, bookings[id])
      /\ ~carved /\ choice.kind = "pick" => SlotOf(bookings'[id]) = choice.slot
      /\ ~carved /\ choice.kind = "cancel" => bookings'[id].status = "CANCELLED"

(* And for a grant, which changes no other booking that there was.          *)

LEMMA GrantFollows ==
  ASSUME ChangeInv, DaysOK(bookings), NEW caller \in Users, NEW r \in DOMAIN requests,
         NEW choice, choice.kind = "pick" => choice.slot \in SlotType,
         Grant(caller, r, choice)
  PROVE  /\ DaysOK(bookings') /\ Follows(bookings, bookings')
         /\ \A b \in DOMAIN bookings \ {requests[r].booking} : bookings'[b] = bookings[b]
         /\ requests' = requests => DOMAIN bookings' = DOMAIN bookings
         /\ requests' # requests => GivenAsShown(r, choice)
<1> DEFINE draft == requests[r].draft
           id == requests[r].booking
<1>1. PICK table \in OwnerGives(caller, r, choice) :
        IF RequesterMay(table, r, draft)
        THEN /\ bookings' = table \o RequesterRows(r, draft)
             /\ Settled(r, "APPROVED")
             /\ UNCHANGED half
        ELSE /\ bookings' = table
             /\ half' = half \cup {r}
             /\ UNCHANGED requests
  BY DEF Grant
<1>2. requests[r].status = "PENDING" /\ draft \in SlotType /\ id \in DOMAIN bookings
  BY RequestType DEF Grant, MayAnswer
<1>3. /\ DaysOK(table) /\ Follows(bookings, table) /\ DOMAIN table = DOMAIN bookings
      /\ \A b \in DOMAIN bookings \ {id} : table[b] = bookings[b]
      /\ Carves(requests[r].window, bookings[id]) =>
           SlotOf(table[id]) = Leftover(requests[r].window, bookings[id])
      /\ ~Carves(requests[r].window, bookings[id]) /\ choice.kind = "pick" =>
           SlotOf(table[id]) = choice.slot
      /\ ~Carves(requests[r].window, bookings[id]) /\ choice.kind = "cancel" =>
           table[id].status = "CANCELLED"
  BY OwnersFollow
<1>4. table \in Seq(BookingType)
  BY OwnersPart DEF Sound
<1>5. CASE RequesterMay(table, r, draft)
  <2>1. /\ DaysOK(bookings') /\ Follows(table, bookings')
        /\ \A b \in DOMAIN table : bookings'[b] = table[b]
    BY <1>1, <1>2, <1>3, <1>4, <1>5, RequestersFollow
  <2>2. Follows(bookings, bookings')
    BY <1>3, <2>1 DEF Follows, SameOwner
  <2>3. requests' # requests
    <3>1. requests'[r].status = "APPROVED"
      BY <1>1, <1>5, SettledRequests DEF Decisions
    <3> QED BY <1>2, <3>1
  <2>4. bookings'[id] = table[id]
    BY <1>2, <1>3, <2>1
  <2> HIDE DEF draft
  <2> QED BY <1>3, <2>1, <2>2, <2>3, <2>4 DEF GivenAsShown, SlotOf
<1>6. CASE ~RequesterMay(table, r, draft)
  BY <1>1, <1>3, <1>6
<1> QED BY <1>5, <1>6

LEMMA DeclineFollows ==
  ASSUME ChangeInv, DaysOK(bookings), NEW caller \in Users, NEW r \in DOMAIN requests,
         Decline(caller, r)
  PROVE  DaysOK(bookings') /\ Follows(bookings, bookings')
<1> DEFINE slot == Fallback(r)
           books == slot.end > slot.start /\ RequesterMay(bookings, r, slot)
<1>1. bookings' = IF books THEN bookings \o RequesterRows(r, slot) ELSE bookings
  BY DEF Decline
<1>2. bookings \in Seq(BookingType)
  BY DEF ChangeInv, CalendarInv, TypeOK
<1>3. CASE ~books
  BY <1>1, <1>3, KeptFollows
<1>4. CASE books
  <2>1. slot.start < slot.end
    BY <1>4, BoundAssumption, RequestType DEF Fallback, SlotType, Instants
  <2>2. slot \in SlotType
    BY <2>1, FallbackTrims
  <2> HIDE DEF slot
  <2> QED BY <1>1, <1>2, <1>4, <2>2, RequestersFollow
<1> QED BY <1>3, <1>4

-----------------------------------------------------------------------------
(* Free windows *)

LEMMA MaxOfTwo ==
  ASSUME NEW a \in Int, NEW b \in Int
  PROVE  Max({a, b}) \in {a, b} /\ Max({a, b}) >= a /\ Max({a, b}) >= b
<1>1. \E x \in {a, b} : \A y \in {a, b} : x >= y
  OBVIOUS
<1>2. Max({a, b}) \in {a, b} /\ \A y \in {a, b} : Max({a, b}) >= y
  BY <1>1 DEF Max
<1> QED BY <1>2

LEMMA MinOfTwo ==
  ASSUME NEW a \in Int, NEW b \in Int
  PROVE  Min({a, b}) \in {a, b} /\ Min({a, b}) <= a /\ Min({a, b}) <= b
<1>1. \E x \in {a, b} : \A y \in {a, b} : x <= y
  OBVIOUS
<1>2. Min({a, b}) \in {a, b} /\ \A y \in {a, b} : Min({a, b}) <= y
  BY <1>1 DEF Min
<1> QED BY <1>2

(* The day the policy opens, from the earliest instant it takes bookings    *)
(* for to the last.                                                         *)
LEMMA DayWindowBounds ==
  ASSUME TypeOK, NEW form \in AnswerForm
  PROVE  LET rules == policy[form.room]
             day == DayOf(form.seen.start) * DayTicks
             all == DayWindow(form)
         IN  /\ rules \in Policies /\ rules \in RulesType /\ now \in Nat /\ day \in Nat
             /\ all.start \in Nat /\ all.end \in Nat
             /\ all.start >= day + rules.open * TicksPerMinute
             /\ all.start >= now + rules.minAdvance * TicksPerMinute
             /\ all.end <= day + rules.close * TicksPerMinute
             /\ ~rules.overAdvanceApproval =>
                  all.end <= now + rules.maxAdvanceDays * DayTicks
<1> DEFINE rules == policy[form.room]
           day == DayOf(form.seen.start) * DayTicks
           opens == day + rules.open * TicksPerMinute
           closes == day + rules.close * TicksPerMinute
           first == now + rules.minAdvance * TicksPerMinute
           last == now + rules.maxAdvanceDays * DayTicks
<1>1. rules \in Policies /\ rules \in RulesType
  BY PolicyAssumption DEF TypeOK, AnswerForm
<1>2. now \in Nat /\ form.seen.start \in Nat
  BY BoundAssumption DEF TypeOK, AnswerForm, SlotType, Instants
<1>3. DayOf(form.seen.start) \in Nat /\ DayTicks \in Nat
  BY <1>2, TimeAssumption DEF DayOf
<1>4. day \in Nat
  BY <1>3
<1>5. /\ rules.open \in Nat /\ rules.close \in Nat /\ rules.minAdvance \in Nat
      /\ rules.maxAdvanceDays \in Nat
  BY <1>1 DEF RulesType
<1> HIDE DEF rules, day
<1>6. opens \in Nat /\ closes \in Nat /\ first \in Nat
  BY <1>2, <1>4, <1>5 DEF TicksPerMinute
<1>7. last \in Nat
  BY <1>2, <1>3, <1>5
<1>8. DayWindow(form) =
        [ start |-> Max({opens, first}),
          end |-> IF rules.overAdvanceApproval THEN closes ELSE Min({closes, last}) ]
  BY DEF DayWindow, rules, day
<1> HIDE DEF opens, closes, first, last
<1>9. /\ Max({opens, first}) \in Nat /\ Max({opens, first}) >= opens
      /\ Max({opens, first}) >= first
  BY <1>6, MaxOfTwo
<1>10. /\ Min({closes, last}) \in Nat /\ Min({closes, last}) <= closes
       /\ Min({closes, last}) <= last
  BY <1>6, <1>7, MinOfTwo
<1>11. /\ DayWindow(form).start \in Nat /\ DayWindow(form).end \in Nat
       /\ DayWindow(form).start >= opens /\ DayWindow(form).start >= first
       /\ DayWindow(form).end <= closes
       /\ ~rules.overAdvanceApproval => DayWindow(form).end <= last
  BY <1>6, <1>8, <1>9, <1>10
<1> QED BY <1>1, <1>2, <1>4, <1>11 DEF rules, day, opens, closes, first, last

(* A free window lies in the day the policy opens, and no booking of another*)
(* is in its way, the buffer included.                                      *)
LEMMA WindowIsFree ==
  ASSUME TypeOK, NEW form \in AnswerForm, NEW w \in FreeWindows(form)
  PROVE  LET rules == policy[form.room]
             pad == rules.buffer * TicksPerMinute
         IN  /\ w \in [start : Nat, end : Nat]
             /\ IsoWeekday(form.seen.start) \in rules.days
             /\ DayWindow(form).start <= w.start /\ w.end <= DayWindow(form).end
             /\ \A b \in DOMAIN bookings \ {requests[form.r].booking} :
                  Active(bookings[b]) /\ bookings[b].room = form.room =>
                    Disjoint(w, [start |-> bookings[b].start - pad,
                                 end |-> bookings[b].end + pad])
<1> DEFINE rules == policy[form.room]
           pad == rules.buffer * TicksPerMinute
           all == DayWindow(form)
           others == { c \in DOMAIN bookings \ {requests[form.r].booking} :
                         Active(bookings[c]) /\ bookings[c].room = form.room }
           wide(b) == [start |-> bookings[b].start - pad, end |-> bookings[b].end + pad]
           busy == { wide(b) : b \in others }
           starts == {all.start} \cup { b.end : b \in busy }
           ends == {all.end} \cup { b.start : b \in busy }
<1>1. /\ rules \in RulesType /\ all.start \in Nat /\ all.end \in Nat
  BY DayWindowBounds
<1>2. rules.buffer \in Nat /\ rules.minDuration \in Nat /\ pad \in Nat
  <2>1. rules.buffer \in Nat /\ rules.minDuration \in Nat
    BY <1>1 DEF RulesType
  <2> QED BY <2>1 DEF TicksPerMinute
<1>3. \A b \in DOMAIN bookings : bookings[b].start \in Nat /\ bookings[b].end \in Nat
  BY RowType, BoundAssumption DEF BookingType, Instants
<1>4. /\ w \in [start : starts, end : ends]
      /\ IsoWeekday(form.seen.start) \in rules.days
      /\ all.start <= w.start /\ w.end <= all.end
      /\ w.end - w.start >= rules.minDuration * TicksPerMinute
      /\ \A b \in busy : Disjoint(w, b)
  BY DEF FreeWindows
<1> HIDE DEF rules, pad, all
<1>5. \A b \in others : wide(b).end \in Nat /\ wide(b).start \in Int
  BY <1>2, <1>3
<1> HIDE DEF wide
<1>6. w.start \in Nat /\ w.end \in Int
  BY <1>1, <1>4, <1>5
<1>7. w.end \in Nat
  BY <1>2, <1>4, <1>6 DEF TicksPerMinute
<1>8. w \in [start : Nat, end : Nat]
  BY <1>4, <1>6, <1>7
<1>9. \A b \in others : Disjoint(w, wide(b))
  BY <1>4
<1> HIDE DEF others
<1> QED BY <1>4, <1>8, <1>9 DEF others, wide, rules, pad, all

(* They are the same while nobody else's booking, nor the rules, nor the    *)
(* clock change.                                                            *)
LEMMA SameWindows ==
  ASSUME UNCHANGED <<now, policy>>, DOMAIN bookings' = DOMAIN bookings,
         requests'[answering.r].booking = requests[answering.r].booking,
         \A b \in DOMAIN bookings \ {requests[answering.r].booking} :
           bookings'[b] = bookings[b],
         answering'.r = answering.r, answering'.seen = answering.seen,
         answering'.room = answering.room
  PROVE  FreeWindows(answering)' = FreeWindows(answering)
<1> DEFINE pad == policy[answering.room].buffer * TicksPerMinute
           others == { c \in DOMAIN bookings \ {requests[answering.r].booking} :
                         Active(bookings[c]) /\ bookings[c].room = answering.room }
           busy == { [start |-> bookings[b].start - pad, end |-> bookings[b].end + pad] :
                       b \in others }
<1>1. others' = others
  BY DEF Active
<1>2. pad' = pad
  OBVIOUS
<1> HIDE DEF pad
<1>3. \A b \in others : bookings'[b] = bookings[b]
  OBVIOUS
<1> HIDE DEF others
<1>4. busy' = busy
  BY <1>1, <1>2, <1>3
<1>5. DayWindow(answering)' = DayWindow(answering)
  BY DEF DayWindow
<1>6. FreeWindows(answering) =
        { w \in [ start : {DayWindow(answering).start} \cup { b.end : b \in busy },
                  end   : {DayWindow(answering).end} \cup { b.start : b \in busy } ] :
            /\ IsoWeekday(answering.seen.start) \in policy[answering.room].days
            /\ DayWindow(answering).start <= w.start /\ w.end <= DayWindow(answering).end
            /\ w.end - w.start >= policy[answering.room].minDuration * TicksPerMinute
            /\ \A b \in busy : Disjoint(w, b) }
  BY DEF FreeWindows, busy, others, pad
<1>7. FreeWindows(answering)' =
        { w \in [ start : {DayWindow(answering)'.start} \cup { b.end : b \in busy' },
                  end   : {DayWindow(answering)'.end} \cup { b.start : b \in busy' } ] :
            /\ IsoWeekday(answering'.seen.start) \in policy'[answering'.room].days
            /\ DayWindow(answering)'.start <= w.start /\ w.end <= DayWindow(answering)'.end
            /\ w.end - w.start >= policy'[answering'.room].minDuration * TicksPerMinute
            /\ \A b \in busy' : Disjoint(w, b) }
  BY DEF FreeWindows, busy, others, pad
<1> HIDE DEF busy
<1> QED BY <1>4, <1>5, <1>6, <1>7

-----------------------------------------------------------------------------
(* The invariant of the dialogs *)

(* What the asking dialog is about: a meeting in a room, of somebody else.  *)
AskingHolds ==
  /\ asking \in AskForm \cup {NoForm}
  /\ asking # NoForm =>
       /\ asking.id \in DOMAIN bookings
       /\ ~IsOwner(asking.who, bookings[asking.id])
       /\ bookings[asking.id].room # NoRoom
       /\ DayOf(asking.seen.start) = DayOf(asking.seen.end)

(* Only an owner answers, and free windows that are fresh are still free.   *)
AnsweringHolds ==
  /\ answering \in AnswerForm \cup {NoForm}
  /\ answering # NoForm =>
       /\ answering.r \in DOMAIN requests
       /\ IsOwner(answering.who, bookings[requests[answering.r].booking])
       /\ answering.fw # Nothing /\ answering.fw.fresh =>
            /\ answering.fw.windows = FreeWindows(answering)
            /\ roomStatus[answering.room] = "ACTIVE"

RequestsHaveRooms ==
  \A r \in DOMAIN requests : bookings[requests[r].booking].room # NoRoom

FormsInv ==
  /\ ChangeInv /\ DaysOK(bookings) /\ RequestsHaveRooms
  /\ AskingHolds /\ AnsweringHolds

LEMMA InitForms == FormsInit => FormsInv
<1> SUFFICES ASSUME FormsInit PROVE FormsInv
  OBVIOUS
<1>1. ChangeInv
  BY InitChange DEF FormsInit
<1>2. bookings = <<>> /\ requests = <<>> /\ asking = NoForm /\ answering = NoForm
  BY DEF FormsInit, RequestInit, Init
<1> QED BY <1>1, <1>2 DEF FormsInv, DaysOK, RequestsHaveRooms, AskingHolds, AnsweringHolds

(* What holds of the requests' bookings and of the asking dialog stays so   *)
(* while nobody takes rows away.                                            *)
LEMMA RestKept ==
  ASSUME FormsInv, Follows(bookings, bookings'), asking' \in {asking, NoForm},
         DOMAIN requests' = DOMAIN requests,
         \A r \in DOMAIN requests : requests'[r].booking = requests[r].booking
  PROVE  RequestsHaveRooms' /\ AskingHolds'
<1>1. RequestsHaveRooms'
  <2>1. \A r \in DOMAIN requests : requests[r].booking \in DOMAIN bookings
    BY DEF FormsInv, ChangeInv
  <2> QED BY <2>1 DEF FormsInv, RequestsHaveRooms, Follows, SameOwner
<1>2. AskingHolds'
  BY DEF FormsInv, AskingHolds, Follows, SameOwner, IsOwner
<1> QED BY <1>1, <1>2

(* Who owns a booking asked for stays so too.                               *)
LEMMA OwnerKept ==
  ASSUME ChangeInv, Follows(bookings, bookings'), NEW r \in DOMAIN requests,
         requests'[r].booking = requests[r].booking,
         NEW who, IsOwner(who, bookings[requests[r].booking])
  PROVE  IsOwner(who, bookings'[requests'[r].booking])
<1>1. requests[r].booking \in DOMAIN bookings
  BY DEF ChangeInv
<1> QED BY <1>1 DEF Follows, SameOwner, IsOwner

(* Steps that change neither table.                                         *)
LEMMA TablesKept ==
  ASSUME FormsInv, UNCHANGED <<vars, requestVars>>
  PROVE  ChangeInv' /\ DaysOK(bookings') /\ Follows(bookings, bookings') /\ RequestsHaveRooms'
<1>1. ChangeInv'
  BY BookingStep DEF FormsInv
<1>2. bookings' = bookings /\ requests' = requests
  BY DEF vars, requestVars
<1> QED BY <1>1, <1>2, KeptFollows DEF FormsInv, RequestsHaveRooms

LEMMA AskingKept ==
  ASSUME FormsInv, UNCHANGED <<vars, requestVars>>, asking' \in {asking, NoForm}
  PROVE  AskingHolds'
BY DEF FormsInv, AskingHolds, vars, requestVars, IsOwner

LEMMA AnsweringKept ==
  ASSUME FormsInv, UNCHANGED <<vars, requestVars>>, answering' \in {answering, NoForm}
  PROVE  AnsweringHolds'
<1>1. UNCHANGED <<now, policy, roomStatus, bookings, requests>>
  BY DEF vars, requestVars
<1>2. CASE answering' = NoForm
  BY <1>2 DEF AnsweringHolds
<1>3. CASE answering' = answering
  <2>1. FreeWindows(answering)' = FreeWindows(answering)
    BY <1>1, <1>3, SameWindows
  <2> QED BY <1>1, <1>3, <2>1 DEF FormsInv, AnsweringHolds, IsOwner
<1> QED BY <1>2, <1>3

ShownStep ==
  answering # NoForm /\ requests' # requests /\ answering.r \in DOMAIN requests =>
    LET id == requests[answering.r].booking
    IN  (/\ requests[answering.r].status = "PENDING"
         /\ requests'[answering.r].status = "APPROVED"
         /\ SlotOf(bookings[id]) = answering.seen) =>
           IF AutoMode(answering) THEN SlotOf(bookings'[id]) = ShownLeftover(answering)
           ELSE IF answering.cancelInstead THEN bookings'[id].status = "CANCELLED"
           ELSE SlotOf(bookings'[id]) = PickedSlot(answering, answering.picked)

LEMMA MeanwhileForms ==
  ASSUME FormsInv, Meanwhile
  PROVE  FormsInv' /\ ShownStep
<1>1. Next /\ requests' = requests /\ half' = half /\ asking' = asking
  BY DEF Meanwhile, requestVars
<1>2. ChangeInv'
  BY <1>1, BookingStep DEF FormsInv, requestVars
<1>3. DaysOK(bookings') /\ Follows(bookings, bookings')
  BY <1>1, NextFollows DEF FormsInv, ChangeInv, CalendarInv
<1>4. RequestsHaveRooms' /\ AskingHolds'
  BY <1>1, <1>3, RestKept
<1>5. AnsweringHolds'
  <2>1. CASE answering = NoForm
    BY <2>1 DEF Meanwhile, AnsweringHolds
  <2>2. CASE answering # NoForm
    <3>1. /\ answering \in AnswerForm /\ answering.r \in DOMAIN requests
          /\ IsOwner(answering.who, bookings[requests[answering.r].booking])
      BY <2>2 DEF FormsInv, AnsweringHolds
    <3>2. IsOwner(answering.who, bookings'[requests'[answering.r].booking])
      BY <1>1, <1>3, <3>1, OwnerKept DEF FormsInv
    <3>3. CASE answering.fw = Nothing
      BY <1>1, <2>2, <3>1, <3>2, <3>3 DEF Meanwhile, AnsweringHolds
    <3>4. CASE answering.fw # Nothing
      <4> DEFINE stale == [answering.fw EXCEPT !.fresh = FALSE]
      <4>1. answering.fw \in ReplyType
        BY <3>1, <3>4 DEF AnswerForm
      <4>2. stale \in ReplyType /\ ~stale.fresh
        BY <4>1 DEF ReplyType
      <4>3. answering' = [answering EXCEPT !.fw = stale]
        BY <2>2, <3>4 DEF Meanwhile
      <4> HIDE DEF stale
      <4>4. /\ answering' \in AnswerForm /\ answering'.r = answering.r
            /\ answering'.who = answering.who /\ answering'.fw = stale
        BY <3>1, <4>2, <4>3 DEF AnswerForm
      <4> QED BY <1>1, <3>1, <3>2, <4>2, <4>4 DEF AnsweringHolds
    <3> QED BY <3>3, <3>4
  <2> QED BY <2>1, <2>2
<1> QED BY <1>1, <1>2, <1>3, <1>4, <1>5 DEF FormsInv, ShownStep

LEMMA OpenAskForms ==
  ASSUME FormsInv, NEW who \in Users, NEW id \in DOMAIN bookings, NEW duration \in Durations,
         OpenAsk(who, id, duration)
  PROVE  FormsInv' /\ ShownStep
<1> DEFINE row == bookings[id]
           form == [who |-> who, id |-> id, seen |-> SlotOf(row), duration |-> duration]
<1>1. /\ row.room # NoRoom /\ ~IsOwner(who, row) /\ asking' = form
      /\ UNCHANGED <<vars, requestVars, answering>>
  BY DEF OpenAsk
<1>2. row \in BookingType /\ id \in Nat \ {0}
  BY RowType DEF FormsInv, ChangeInv, CalendarInv
<1>3. DayOf(row.start) = DayOf(row.end)
  BY <1>1 DEF FormsInv, DaysOK, OneDay
<1>4. form \in AskForm
  BY <1>2 DEF AskForm, SlotOf, SlotType, BookingType
<1>5. AskingHolds'
  <2>1. bookings' = bookings
    BY <1>1 DEF vars
  <2>2. /\ asking'.id = id /\ asking'.who = who
        /\ asking'.seen.start = row.start /\ asking'.seen.end = row.end
    BY <1>1 DEF SlotOf
  <2> HIDE DEF form
  <2> QED BY <1>1, <1>3, <1>4, <2>1, <2>2 DEF AskingHolds, IsOwner
<1>6. AnsweringHolds'
  BY <1>1, AnsweringKept
<1>7. requests' = requests
  BY <1>1 DEF requestVars
<1> QED BY <1>1, <1>5, <1>6, <1>7, TablesKept DEF FormsInv, ShownStep

LEMMA ClosingForms ==
  ASSUME FormsInv, CloseAsk \/ CloseAnswer
  PROVE  FormsInv' /\ ShownStep
<1>1. /\ UNCHANGED <<vars, requestVars>> /\ asking' \in {asking, NoForm}
      /\ answering' \in {answering, NoForm}
  BY DEF CloseAsk, CloseAnswer
<1>2. AskingHolds' /\ AnsweringHolds'
  BY <1>1, AskingKept, AnsweringKept
<1>3. requests' = requests
  BY <1>1 DEF requestVars
<1> QED BY <1>1, <1>2, <1>3, TablesKept DEF FormsInv, ShownStep

LEMMA SendAskForms ==
  ASSUME FormsInv, NEW carve \in Parts, SendAsk(carve)
  PROVE  FormsInv' /\ ShownStep
<1> DEFINE window == Sent(asking, carve)
           draft == Sent(asking, Wanted(asking, carve))
           n == Len(requests) + 1
<1>1. /\ asking # NoForm /\ window \in SlotType /\ draft \in SlotType
      /\ Ask(asking.who, asking.id, window, draft, FALSE)
      /\ asking' = NoForm /\ answering' = answering
  BY DEF SendAsk
<1>2. /\ asking \in AskForm /\ asking.who \in Users /\ asking.id \in DOMAIN bookings
      /\ bookings[asking.id].room # NoRoom
  BY <1>1 DEF FormsInv, AskingHolds, AskForm
<1> HIDE DEF window, draft
<1>3. ChangeInv'
  BY <1>1, <1>2, AskStep DEF FormsInv
<1>4. /\ UNCHANGED <<now, bookings, policy, roomStatus, unchecked>>
      /\ \E row : row.booking = asking.id /\ row.status = "PENDING"
                  /\ requests' = Append(requests, row)
  BY <1>1 DEF Ask, vars
<1>5. /\ DOMAIN requests' = DOMAIN requests \cup {n}
      /\ \A q \in DOMAIN requests : requests'[q] = requests[q]
      /\ requests'[n].booking = asking.id
  <2>1. requests \in Seq(RequestRow) /\ requests' \in Seq(RequestRow)
    BY <1>3 DEF FormsInv, ChangeInv
  <2> QED BY <1>4, <2>1, AppendProperties, LenProperties
<1> HIDE DEF n
<1>6. RequestsHaveRooms' /\ DaysOK(bookings')
  BY <1>2, <1>4, <1>5 DEF FormsInv, RequestsHaveRooms
<1>7. AskingHolds'
  BY <1>1 DEF AskingHolds
<1>8. AnsweringHolds'
  <2>1. CASE answering = NoForm
    BY <1>1, <2>1 DEF AnsweringHolds
  <2>2. CASE answering # NoForm
    <3>1. answering.r \in DOMAIN requests /\ answering.r \in DOMAIN requests'
          /\ requests'[answering.r].booking = requests[answering.r].booking
      BY <1>5, <2>2 DEF FormsInv, AnsweringHolds
    <3>2. FreeWindows(answering)' = FreeWindows(answering)
      BY <1>1, <1>4, <3>1, SameWindows
    <3> QED BY <1>1, <1>4, <3>1, <3>2 DEF FormsInv, AnsweringHolds, IsOwner
  <2> QED BY <2>1, <2>2
<1>9. ShownStep
  BY <1>5 DEF ShownStep
<1> QED BY <1>3, <1>6, <1>7, <1>8, <1>9 DEF FormsInv

LEMMA OpenAnswerForms ==
  ASSUME FormsInv, NEW who \in Users, NEW r \in DOMAIN requests, OpenAnswer(who, r)
  PROVE  FormsInv' /\ ShownStep
<1> DEFINE row == bookings[requests[r].booking]
           form == [ who |-> who, r |-> r, seen |-> SlotOf(row), room |-> row.room,
                     loading |-> TRUE, fw |-> Nothing,
                     duration |-> MinutesBetween(row.start, row.end),
                     picked |-> Nothing, cancelInstead |-> FALSE ]
           loads == ~AutoMode(form)
<1>1. /\ IsOwner(who, row) /\ answering' = [form EXCEPT !.loading = loads]
      /\ UNCHANGED <<vars, requestVars, asking>>
  BY DEF OpenAnswer, MayAnswer
<1>2. /\ row \in BookingType /\ row.start < row.end /\ row.room # NoRoom /\ r \in Nat \ {0}
  <2>1. requests \in Seq(RequestRow)
    BY DEF FormsInv, ChangeInv
  <2>2. r \in Nat \ {0}
    BY <2>1, LenProperties
  <2> QED BY <2>2, RequestType DEF FormsInv, ChangeInv, CalendarInv, RowsOrdered,
                                   RequestsHaveRooms
<1>3. loads \in BOOLEAN
  BY DEF AutoMode
<1>4. MinutesBetween(row.start, row.end) \in Nat
  <2>1. row.start \in Nat /\ row.end \in Nat
    BY <1>2, BoundAssumption DEF BookingType, Instants
  <2> QED BY <1>2, <2>1 DEF MinutesBetween, TicksPerMinute
<1>5. SlotOf(row) \in SlotType /\ row.room \in Rooms
  BY <1>2 DEF SlotOf, SlotType, BookingType
<1> HIDE DEF loads
<1>6. answering' = [form EXCEPT !.loading = loads]
  BY <1>1
<1>7. /\ answering' \in AnswerForm /\ answering'.fw = Nothing
      /\ answering'.r = r /\ answering'.who = who
  BY <1>2, <1>3, <1>4, <1>5, <1>6 DEF AnswerForm
<1>8. AnsweringHolds'
  <2>1. bookings' = bookings /\ requests' = requests
    BY <1>1 DEF vars, requestVars
  <2> HIDE DEF form
  <2> QED BY <1>1, <1>7, <2>1 DEF AnsweringHolds, IsOwner
<1>9. AskingHolds'
  BY <1>1, AskingKept
<1>10. requests' = requests
  BY <1>1 DEF requestVars
<1> HIDE DEF row, form
<1> QED BY <1>1, <1>8, <1>9, <1>10, TablesKept DEF FormsInv, ShownStep

(* Steps of the approving dialog that change nothing else.                  *)
LEMMA DialogForms ==
  ASSUME FormsInv, UNCHANGED <<vars, requestVars, asking>>, answering # NoForm,
         answering' \in AnswerForm, answering'.r = answering.r,
         answering'.who = answering.who, answering'.seen = answering.seen,
         answering'.room = answering.room,
         \/ answering'.fw = answering.fw
         \/ /\ answering'.fw.windows = FreeWindows(answering)
            /\ roomStatus[answering.room] = "ACTIVE"
  PROVE  FormsInv' /\ ShownStep
<1>1. UNCHANGED <<now, policy, roomStatus, bookings, requests>>
  BY DEF vars, requestVars
<1>2. FreeWindows(answering)' = FreeWindows(answering)
  BY <1>1, SameWindows
<1>3. AnsweringHolds'
  BY <1>1, <1>2 DEF FormsInv, AnsweringHolds, IsOwner
<1> QED BY <1>1, <1>3, TablesKept, AskingKept DEF FormsInv, ShownStep

LEMMA WindowsForms ==
  ASSUME FormsInv, WindowsArrive \/ WindowsFail
  PROVE  FormsInv' /\ ShownStep
<1>1. answering # NoForm /\ UNCHANGED <<vars, requestVars, asking>>
  BY DEF WindowsArrive, WindowsFail
<1>2. TypeOK /\ answering \in AnswerForm
  BY <1>1 DEF FormsInv, AnsweringHolds, ChangeInv, CalendarInv
<1>3. CASE WindowsArrive
  <2> DEFINE reply == [windows |-> FreeWindows(answering), now |-> now, fresh |-> TRUE]
  <2>1. reply \in ReplyType /\ reply.windows = FreeWindows(answering)
    BY <1>2, WindowIsFree DEF ReplyType, TypeOK
  <2>2. /\ answering' = [answering EXCEPT !.loading = FALSE, !.fw = reply]
        /\ roomStatus[answering.room] = "ACTIVE"
    BY <1>3 DEF WindowsArrive
  <2> HIDE DEF reply
  <2>3. /\ answering' \in AnswerForm /\ answering'.fw = reply
        /\ answering'.r = answering.r /\ answering'.who = answering.who
        /\ answering'.seen = answering.seen /\ answering'.room = answering.room
    BY <1>2, <2>1, <2>2 DEF AnswerForm
  <2> QED BY <1>1, <2>1, <2>2, <2>3, DialogForms
<1>4. CASE WindowsFail
  <2>1. answering' = [answering EXCEPT !.loading = FALSE]
    BY <1>4 DEF WindowsFail
  <2>2. /\ answering' \in AnswerForm /\ answering'.fw = answering.fw
        /\ answering'.r = answering.r /\ answering'.who = answering.who
        /\ answering'.seen = answering.seen /\ answering'.room = answering.room
    BY <1>2, <2>1 DEF AnswerForm
  <2> QED BY <1>1, <2>2, DialogForms
<1> QED BY <1>3, <1>4

LEMMA ChoosingForms ==
  ASSUME FormsInv,
         \/ \E minutes \in Chips : Duration(minutes)
         \/ \E t \in Instants : Pick(t)
         \/ CancelInstead
  PROVE  FormsInv' /\ ShownStep
<1>1. answering # NoForm /\ UNCHANGED <<vars, requestVars, asking>>
  BY DEF Duration, Pick, CancelInstead, Choosing
<1>2. answering \in AnswerForm
  BY <1>1 DEF FormsInv, AnsweringHolds
<1>3. /\ answering' \in AnswerForm /\ answering'.fw = answering.fw
      /\ answering'.r = answering.r /\ answering'.who = answering.who
      /\ answering'.seen = answering.seen /\ answering'.room = answering.room
  <2>1. ASSUME NEW minutes \in Chips, Duration(minutes)
        PROVE  <1>3!:
    <3> DEFINE form == [answering EXCEPT !.duration = minutes]
               keep == answering.picked \in StartOptions(form)
    <3>1. minutes \in Nat
      BY FormsAssumption
    <3>2. form \in AnswerForm /\ form.picked = answering.picked
      BY <1>2, <3>1 DEF AnswerForm
    <3>3. answering' = [form EXCEPT !.picked = IF keep THEN answering.picked ELSE Nothing]
      BY <2>1, <3>2 DEF Duration
    <3>4. /\ form.fw = answering.fw /\ form.r = answering.r /\ form.who = answering.who
          /\ form.seen = answering.seen /\ form.room = answering.room
      BY <1>2 DEF AnswerForm
    <3> HIDE DEF form, keep
    <3> QED BY <3>2, <3>3, <3>4 DEF AnswerForm
  <2>2. ASSUME NEW t \in Instants, Pick(t)
        PROVE  <1>3!:
    BY <1>2, <2>2 DEF Pick, AnswerForm
  <2>3. ASSUME CancelInstead
        PROVE  <1>3!:
    BY <1>2, <2>3 DEF CancelInstead, AnswerForm
  <2> QED BY <2>1, <2>2, <2>3
<1> QED BY <1>1, <1>3, DialogForms

(* The window takes one end off: the dialog and the service agree on a      *)
(* booking that is where it was listed.                                     *)
LEMMA AutoIsCarve ==
  ASSUME ChangeInv, answering # NoForm, answering.r \in DOMAIN requests,
         SlotOf(bookings[requests[answering.r].booking]) = answering.seen
  PROVE  LET row == bookings[requests[answering.r].booking]
         IN  /\ AutoMode(answering) <=> Carves(Window(answering), row)
             /\ AutoMode(answering) =>
                  Leftover(Window(answering), row) = ShownLeftover(answering)
<1> DEFINE row == bookings[requests[answering.r].booking]
<1>1. row.start = answering.seen.start /\ row.end = answering.seen.end
  BY DEF SlotOf
<1> HIDE DEF row
<1>2. AutoMode(answering) <=> Carves(Window(answering), row)
  BY <1>1 DEF AutoMode, Carves, OnEdge
<1>3. Leftover(Window(answering), row) = ShownLeftover(answering)
  BY <1>1 DEF Leftover, ShownLeftover
<1> QED BY <1>2, <1>3 DEF row

LEMMA ApproveForms ==
  ASSUME FormsInv, Approve
  PROVE  FormsInv' /\ ShownStep
<1> DEFINE choice == ChoiceSent(answering)
           r == answering.r
           id == requests[r].booking
<1>1. /\ answering # NoForm /\ Grant(answering.who, r, choice)
      /\ answering.picked # Nothing => PickedSlot(answering, answering.picked) \in SlotType
      /\ AutoMode(answering) \/ answering.cancelInstead \/ answering.picked # Nothing
      /\ answering' = IF requests' = requests THEN answering ELSE NoForm
      /\ asking' = asking
  BY DEF Approve
<1>2. /\ answering \in AnswerForm /\ answering.who \in Users /\ r \in DOMAIN requests
      /\ IsOwner(answering.who, bookings[id])
  BY <1>1 DEF FormsInv, AnsweringHolds, AnswerForm
<1>3. ChangeInv /\ DaysOK(bookings)
  BY DEF FormsInv
<1>4. choice.kind = "pick" => choice.slot \in SlotType
  BY <1>1 DEF ChoiceSent
<1>5. /\ AutoMode(answering) => choice.kind = "none"
      /\ ~AutoMode(answering) /\ answering.cancelInstead => choice.kind = "cancel"
      /\ ~AutoMode(answering) /\ ~answering.cancelInstead =>
           /\ choice.kind = "pick"
           /\ choice.slot = PickedSlot(answering, answering.picked)
  BY DEF ChoiceSent
<1> HIDE DEF choice
<1>6. /\ DaysOK(bookings') /\ Follows(bookings, bookings')
      /\ \A b \in DOMAIN bookings \ {id} : bookings'[b] = bookings[b]
      /\ requests' = requests => DOMAIN bookings' = DOMAIN bookings
      /\ requests' # requests => GivenAsShown(r, choice)
  BY <1>1, <1>2, <1>3, <1>4, GrantFollows
<1>7. ChangeInv'
  BY <1>1, <1>2, <1>3, <1>4, GrantStep
<1>8. UNCHANGED <<now, policy, roomStatus>>
  BY <1>1 DEF Grant
<1>9. /\ DOMAIN requests' = DOMAIN requests
      /\ \A q \in DOMAIN requests : requests'[q].booking = requests[q].booking
  <2>1. CASE requests' = requests
    BY <2>1
  <2>2. CASE requests' # requests
    <3>1. Settled(r, "APPROVED")
      BY <1>1, <2>2 DEF Grant
    <3> QED BY <1>2, <1>3, <3>1, SettledRequests DEF Decisions
  <2> QED BY <2>1, <2>2
<1>10. RequestsHaveRooms' /\ AskingHolds'
  BY <1>1, <1>6, <1>9, RestKept
<1>11. AnsweringHolds'
  <2>1. CASE requests' # requests
    BY <1>1, <2>1 DEF AnsweringHolds
  <2>2. CASE requests' = requests
    <3>1. answering' = answering
      BY <1>1, <2>2
    <3>2. FreeWindows(answering)' = FreeWindows(answering)
      BY <1>6, <1>8, <2>2, <3>1, SameWindows
    <3>3. IsOwner(answering.who, bookings'[requests'[r].booking])
      BY <1>2, <1>3, <1>6, <2>2, OwnerKept
    <3> QED BY <1>8, <2>2, <3>1, <3>2, <3>3 DEF FormsInv, AnsweringHolds
  <2> QED BY <2>1, <2>2
<1>12. ShownStep
  <2> SUFFICES ASSUME requests' # requests, SlotOf(bookings[id]) = answering.seen
               PROVE  IF AutoMode(answering)
                      THEN SlotOf(bookings'[id]) = ShownLeftover(answering)
                      ELSE IF answering.cancelInstead THEN bookings'[id].status = "CANCELLED"
                      ELSE SlotOf(bookings'[id]) = PickedSlot(answering, answering.picked)
    BY DEF ShownStep
  <2>1. /\ AutoMode(answering) <=> Carves(requests[r].window, bookings[id])
        /\ AutoMode(answering) =>
             Leftover(requests[r].window, bookings[id]) = ShownLeftover(answering)
    BY <1>1, <1>2, <1>3, AutoIsCarve DEF Window
  <2>2. GivenAsShown(r, choice)
    BY <1>6
  <2> QED BY <1>5, <2>1, <2>2 DEF GivenAsShown
<1> QED BY <1>6, <1>7, <1>10, <1>11, <1>12 DEF FormsInv

LEMMA RejectForms ==
  ASSUME FormsInv, NEW who \in Users, NEW r \in DOMAIN requests, RejectChange(who, r)
  PROVE  FormsInv' /\ ShownStep
<1>1. /\ answering = NoForm /\ Decline(who, r) /\ asking' = asking /\ answering' = NoForm
  BY DEF RejectChange, formVars
<1>2. ChangeInv' /\ DaysOK(bookings') /\ Follows(bookings, bookings')
  BY <1>1, DeclineStep, DeclineFollows DEF FormsInv
<1>3. /\ DOMAIN requests' = DOMAIN requests
      /\ \A q \in DOMAIN requests : requests'[q].booking = requests[q].booking
  <2>1. Settled(r, "REJECTED")
    BY <1>1 DEF Decline
  <2> QED BY <2>1, SettledRequests DEF FormsInv, Decisions
<1>4. RequestsHaveRooms' /\ AskingHolds'
  BY <1>1, <1>2, <1>3, RestKept
<1> QED BY <1>1, <1>2, <1>4 DEF FormsInv, AnsweringHolds, ShownStep

LEMMA FormsStep ==
  ASSUME FormsInv, [FormsNext]_<<vars, requestVars, formVars>>
  PROVE  FormsInv' /\ ShownStep
<1>1. CASE UNCHANGED <<vars, requestVars, formVars>>
  <2>1. /\ UNCHANGED <<vars, requestVars>> /\ asking' = asking /\ answering' = answering
    BY <1>1 DEF formVars
  <2>2. AskingHolds' /\ AnsweringHolds'
    BY <2>1, AskingKept, AnsweringKept
  <2>3. requests' = requests
    BY <2>1 DEF requestVars
  <2> QED BY <2>1, <2>2, <2>3, TablesKept DEF FormsInv, ShownStep
<1>2. CASE FormsNext
  BY <1>2, MeanwhileForms, OpenAskForms, OpenAnswerForms, RejectForms, ClosingForms,
     SendAskForms, WindowsForms, ChoosingForms, ApproveForms DEF FormsNext
<1> QED BY <1>1, <1>2

-----------------------------------------------------------------------------
(* Minutes of the day *)

LEMMA InDay ==
  ASSUME NEW d \in Int, NEW t \in Int, d * DayTicks <= t, t < d * DayTicks + DayTicks
  PROVE  DayOf(t) = d /\ MinuteOfDay(t) = (t - d * DayTicks) \div TicksPerMinute
<1> DEFINE e == DayOf(t)
<1>1. /\ e \in Int /\ DayTicks \in Nat \ {0} /\ t % DayTicks = t - e * DayTicks
      /\ e * DayTicks <= t /\ t < e * DayTicks + DayTicks
  BY DayBounds, TimeAssumption
<1> HIDE DEF e
<1>2. e = d
  <2>1. CASE e + 1 <= d
    <3>1. (e + 1) * DayTicks <= d * DayTicks /\ (e + 1) * DayTicks = e * DayTicks + DayTicks
      BY <1>1, <2>1
    <3> QED BY <1>1, <3>1
  <2>2. CASE d + 1 <= e
    <3>1. (d + 1) * DayTicks <= e * DayTicks /\ (d + 1) * DayTicks = d * DayTicks + DayTicks
      BY <1>1, <2>2
    <3> QED BY <1>1, <3>1
  <2> QED BY <1>1, <2>1, <2>2
<1> QED BY <1>1, <1>2 DEF e, MinuteOfDay

(* A whole minute is what hh:mm on its day says.                            *)
LEMMA WholeMinute ==
  ASSUME NEW t \in Nat, t % TicksPerMinute = 0
  PROVE  /\ MinuteOfDay(t) \in Nat /\ MinuteOfDay(t) < MinutesOfDay
         /\ t = DayOf(t) * DayTicks + MinuteOfDay(t) * TicksPerMinute
<1> DEFINE d == DayOf(t)
           u == t - d * DayTicks
           half_day == DayTicks \div 2
<1>1. /\ d \in Int /\ DayTicks \in Nat \ {0} /\ DayTicks % 2 = 0
      /\ d * DayTicks <= t /\ t < d * DayTicks + DayTicks
  <2>1. DayTicks \in Nat \ {0} /\ DayTicks % 2 = 0
    BY TimeAssumption, FormsAssumption DEF TicksPerMinute
  <2> QED BY <2>1, DayBounds
<1>2. MinuteOfDay(t) = u \div 2
  <2>1. t % DayTicks = u
    BY DayBounds
  <2> QED BY <2>1 DEF MinuteOfDay, TicksPerMinute
<1>3. DayTicks = 2 * half_day /\ half_day \in Nat
  BY <1>1
<1>4. d * DayTicks = 2 * (d * half_day) /\ d * half_day \in Int
  <2> HIDE DEF half_day, d
  <2> QED BY <1>1, <1>3
<1>5. t % 2 = 0
  BY DEF TicksPerMinute
<1> DEFINE base == d * half_day
<1>6. base \in Int /\ u = t - 2 * base /\ 0 <= u /\ u < 2 * half_day
  BY <1>1, <1>3, <1>4
<1> HIDE DEF u, base
<1>7. u \div 2 \in Nat /\ u \div 2 < half_day /\ u = (u \div 2) * 2
  <2> HIDE DEF half_day
  <2> QED BY <1>3, <1>5, <1>6
<1> QED BY <1>1, <1>2, <1>4, <1>6, <1>7 DEF u, base, MinutesOfDay, TicksPerMinute

LEMMA AtMinuteOfDay ==
  ASSUME NEW form, NEW m \in Nat, m < MinutesOfDay
  PROVE  AtMinute(form, m) = DayOf(form.seen.start) * DayTicks + m * TicksPerMinute
<1>1. MinutesOfDay \in Nat
  BY TimeAssumption DEF MinutesOfDay, TicksPerMinute
<1>2. m % MinutesOfDay = m
  BY <1>1
<1> QED BY <1>2 DEF AtMinute

-----------------------------------------------------------------------------
(* The dialogs agree with the service *)

(* The asking dialog reckons in whole minutes of one day.                   *)

LEMMA AskingAgrees == FormsInv => AskAgrees
<1> SUFFICES ASSUME FormsInv, asking # NoForm,
                    Active(bookings[asking.id]), bookings[asking.id].end > now,
                    ~ \E r \in DOMAIN requests :
                        /\ requests[r].booking = asking.id
                        /\ requests[r].requester = asking.who
                        /\ requests[r].status = "PENDING",
                    SlotOf(bookings[asking.id]) = asking.seen, WholeMinutes(asking.seen),
                    NEW carve \in Parts, Carvable(asking, carve),
                    0 <= Wanted(asking, carve).start,
                    Wanted(asking, carve).end < MinutesOfDay
             PROVE  LET window == Sent(asking, carve)
                        draft  == Sent(asking, Wanted(asking, carve))
                        row    == bookings[asking.id]
                    IN  /\ AskAccepted(asking.who, asking.id, window, draft)
                        /\ Carves(window, row) => ~Meets(draft, Leftover(window, row))
  BY DEF AskAgrees
<1> DEFINE row    == bookings[asking.id]
           wanted == Wanted(asking, carve)
           window == Sent(asking, carve)
           draft  == Sent(asking, wanted)
           day    == DayOf(asking.seen.start) * DayTicks
           s      == MinuteOfDay(asking.seen.start)
           e      == MinuteOfDay(asking.seen.end)
<1>1. /\ asking \in AskForm /\ ~IsOwner(asking.who, row) /\ row.room # NoRoom
      /\ DayOf(asking.seen.start) = DayOf(asking.seen.end)
  BY DEF FormsInv, AskingHolds
<1>2. /\ asking.seen.start \in Nat /\ asking.seen.end \in Nat
      /\ asking.duration \in Nat /\ asking.duration > 0
      /\ row.start = asking.seen.start /\ row.end = asking.seen.end
  BY <1>1, BoundAssumption, FormsAssumption DEF AskForm, SlotType, Instants, SlotOf
<1>3. /\ s \in Nat /\ s < MinutesOfDay /\ e \in Nat /\ e < MinutesOfDay
      /\ row.start = day + s * TicksPerMinute /\ row.end = day + e * TicksPerMinute
  BY <1>1, <1>2, WholeMinute DEF WholeMinutes
<1>4. /\ day \in Int /\ MinutesOfDay \in Nat
  BY <1>2, DayBounds, TimeAssumption DEF MinutesOfDay, TicksPerMinute
<1>5. /\ carve.start \in Nat /\ carve.end \in Nat
      /\ s <= carve.start /\ carve.end <= e /\ carve.start < carve.end
      /\ carve.start = s \/ carve.end = e
  BY <1>4 DEF Parts, Carvable, OnEdge
<1>6. wanted = IF carve.end = e
               THEN [start |-> carve.start, end |-> carve.start + asking.duration]
               ELSE [start |-> carve.end - asking.duration, end |-> carve.end]
  BY DEF Wanted
<1> HIDE DEF row, wanted, day, s, e
<1>7. /\ wanted.start \in Nat /\ wanted.end \in Nat /\ wanted.start < wanted.end
      /\ wanted.end < MinutesOfDay
      /\ carve.end = e => wanted.start = carve.start
      /\ carve.end # e => wanted.end = carve.end
  <2>1. 0 <= wanted.start /\ wanted.end < MinutesOfDay
    BY DEF wanted
  <2> QED BY <1>2, <1>5, <1>6, <2>1
<1>8. /\ window.start = day + carve.start * 2 /\ window.end = day + carve.end * 2
      /\ draft.start = day + wanted.start * 2 /\ draft.end = day + wanted.end * 2
      /\ row.start = day + s * 2 /\ row.end = day + e * 2
  <2>1. \A m \in Nat : m < MinutesOfDay => AtMinute(asking, m) = day + m * 2
    BY AtMinuteOfDay DEF day, TicksPerMinute
  <2>2. /\ carve.start < MinutesOfDay /\ carve.end < MinutesOfDay
        /\ wanted.start < MinutesOfDay
    BY <1>3, <1>4, <1>5, <1>7
  <2> QED BY <1>3, <1>5, <1>7, <2>1, <2>2 DEF Sent, TicksPerMinute
<1> HIDE DEF window, draft
<1>9. AskAccepted(asking.who, asking.id, window, draft)
  <2>1. /\ window.end > window.start /\ row.start <= window.start /\ window.end <= row.end
        /\ draft.end > draft.start
    BY <1>3, <1>4, <1>5, <1>7, <1>8
  <2>2. OnEdge(window, row)
    BY <1>5, <1>8 DEF OnEdge
  <2>3. OnEdge(window, draft)
    BY <1>7, <1>8 DEF OnEdge
  <2>4. Meets(window, draft)
    BY <1>3, <1>4, <1>5, <1>7, <1>8 DEF Meets
  <2> QED BY <1>1, <2>1, <2>2, <2>3, <2>4 DEF AskAccepted, row
<1>10. ASSUME Carves(window, row)
       PROVE  ~Meets(draft, Leftover(window, row))
  <2>1. CASE carve.end = e
    <3>1. window.end = row.end /\ draft.start = window.start
      BY <1>7, <1>8, <2>1
    <3>2. window.start # row.start
      BY <1>10, <3>1 DEF Carves
    <3>3. Leftover(window, row).end = draft.start
      BY <3>1, <3>2 DEF Leftover
    <3> QED BY <1>4, <1>7, <1>8, <3>3 DEF Meets
  <2>2. CASE carve.end # e
    <3>1. window.start = row.start /\ draft.end = window.end
      BY <1>5, <1>7, <1>8, <2>2
    <3>2. Leftover(window, row).start = draft.end
      BY <3>1 DEF Leftover
    <3> QED BY <1>4, <1>7, <1>8, <3>2 DEF Meets
  <2> QED BY <2>1, <2>2
<1> QED BY <1>9, <1>10 DEF window, draft, wanted, row

(* What is offered lies within a free window, off the one to be granted.    *)
LEMMA OfferedOff ==
  ASSUME NEW form, form.fw.windows \subseteq [start : Nat, end : Nat],
         Window(form) \in SlotType, NEW v \in Offered(form)
  PROVE  \E w \in form.fw.windows :
           /\ v.start \in Nat /\ v.end \in Nat
           /\ w.start <= v.start /\ v.end <= w.end
           /\ v.end <= Window(form).start \/ Window(form).end <= v.start
<1> DEFINE granted == Window(form)
           cut(w) == { [w EXCEPT !.end = granted.start], [w EXCEPT !.start = granted.end] }
<1>1. granted.start \in Nat /\ granted.end \in Nat
  BY BoundAssumption DEF SlotType, Instants
<1>2. PICK w \in form.fw.windows :
        v \in IF Disjoint(w, granted) THEN {w} ELSE { x \in cut(w) : x.end > x.start }
  BY DEF Offered
<1>3. w \in [start : Nat, end : Nat]
  BY <1>2
<1> HIDE DEF granted
<1>4. CASE Disjoint(w, granted)
  BY <1>1, <1>2, <1>3, <1>4 DEF Disjoint, granted
<1>5. CASE ~Disjoint(w, granted)
  <2>1. granted.start < w.end /\ w.start < granted.end
    BY <1>1, <1>3, <1>5 DEF Disjoint
  <2>2. v \in cut(w)
    BY <1>2, <1>5
  <2>3. \/ v.start = w.start /\ v.end = granted.start
        \/ v.start = granted.end /\ v.end = w.end
    BY <1>3, <2>2
  <2> QED BY <1>1, <1>3, <2>1, <2>3 DEF granted
<1> QED BY <1>4, <1>5

(* Each check of update() is one that free windows are made from.           *)

LEMMA OfferingAgrees == FormsInv => OfferAgrees
<1> SUFFICES ASSUME FormsInv, Choosing, answering.fw # Nothing, answering.fw.fresh,
                    SlotOf(bookings[requests[answering.r].booking]) = answering.seen,
                    bookings[requests[answering.r].booking].room = answering.room,
                    Active(bookings[requests[answering.r].booking]),
                    bookings[requests[answering.r].booking].start > now,
                    policy[answering.room].minDuration <= answering.duration,
                    answering.duration <= policy[answering.room].maxDuration,
                    NEW t \in StartOptions(answering)
             PROVE  OwnerGives(answering.who, answering.r,
                               [kind |-> "pick", slot |-> PickedSlot(answering, t)]) # {}
  BY DEF OfferAgrees
<1> DEFINE id     == requests[answering.r].booking
           row    == bookings[id]
           rules  == policy[answering.room]
           window == Window(answering)
           slot   == PickedSlot(answering, t)
           d      == DayOf(answering.seen.start)
           day    == d * DayTicks
           len    == answering.duration
           pad    == rules.buffer * TicksPerMinute
           minutes == DayTicks \div TicksPerMinute
<1>1. /\ answering # NoForm /\ answering \in AnswerForm /\ answering.r \in DOMAIN requests
      /\ IsOwner(answering.who, row) /\ ~AutoMode(answering)
      /\ answering.fw.windows = FreeWindows(answering)
      /\ roomStatus[answering.room] = "ACTIVE"
  BY DEF FormsInv, AnsweringHolds, Choosing
<1>2. /\ ChangeInv /\ TypeOK /\ row \in BookingType /\ window \in SlotType
      /\ id \in DOMAIN bookings /\ row.start < row.end
  BY <1>1, RequestType DEF FormsInv, ChangeInv, CalendarInv, RowsOrdered, Window
<1>3. /\ row.start \in Nat /\ row.end \in Nat /\ now \in Nat /\ len \in Nat /\ t \in Nat
      /\ window.start \in Nat /\ window.end \in Nat
      /\ answering.room \in Rooms /\ d \in Int /\ day \in Int
  <2>1. Instants \subseteq Nat /\ now \in Nat
    BY <1>2, BoundAssumption DEF Instants, TypeOK
  <2>2. t \in Instants
    BY DEF StartOptions
  <2>3. /\ len \in Nat /\ answering.room \in Rooms
        /\ answering.seen.start \in Instants
        /\ window.start \in Instants /\ window.end \in Instants
    BY <1>1, <1>2 DEF AnswerForm, SlotType
  <2>4. row.start \in Instants /\ row.end \in Instants
    BY <1>2 DEF BookingType
  <2>5. answering.seen.start \in Nat
    <3> DEFINE first == answering.seen.start
    <3>1. first \in Instants
      BY <2>3
    <3> HIDE DEF first
    <3> QED BY <2>1, <3>1 DEF first
  <2>6. d \in Int /\ day \in Int
    BY <2>5, DayBounds
  <2> HIDE DEF row, len, window, d, day
  <2> QED BY <2>1, <2>2, <2>3, <2>4, <2>6
<1>4. /\ rules \in Policies /\ rules \in RulesType
      /\ DayWindow(answering).start >= day + rules.open * TicksPerMinute
      /\ DayWindow(answering).start >= now + rules.minAdvance * TicksPerMinute
      /\ DayWindow(answering).end <= day + rules.close * TicksPerMinute
      /\ ~rules.overAdvanceApproval =>
           DayWindow(answering).end <= now + rules.maxAdvanceDays * DayTicks
      /\ DayWindow(answering).start \in Nat /\ DayWindow(answering).end \in Nat
  BY <1>1, <1>2, DayWindowBounds
<1>5. /\ rules.minDuration \in Nat \ {0} /\ rules.maxDuration \in Nat
      /\ rules.open \in Nat /\ rules.close \in Nat /\ rules.minAdvance \in Nat
      /\ rules.maxAdvanceDays \in Nat /\ rules.buffer \in Nat
      /\ rules.minDuration <= len /\ len <= rules.maxDuration
  BY <1>4 DEF RulesType
<1>6. /\ slot.start = t /\ slot.end = t + len * 2 /\ slot.start < slot.end
      /\ slot.start \in Nat /\ slot.end \in Nat
  <2>1. slot.start = t /\ slot.end = t + len * 2
    BY DEF PickedSlot, TicksPerMinute
  <2> HIDE DEF slot, rules, len
  <2> QED BY <1>3, <1>5, <2>1
<1>7. PICK v \in Offered(answering) : v.start <= t /\ t + len * 2 <= v.end
  BY DEF StartOptions, TicksPerMinute
<1>8. FreeWindows(answering) \subseteq [start : Nat, end : Nat]
  BY <1>1, <1>2, WindowIsFree
<1>9. PICK w \in FreeWindows(answering) :
        /\ v.start \in Nat /\ v.end \in Nat
        /\ w.start <= v.start /\ v.end <= w.end
        /\ v.end <= window.start \/ window.end <= v.start
  BY <1>1, <1>2, <1>7, <1>8, OfferedOff
<1>10. /\ w.start \in Nat /\ w.end \in Nat
       /\ IsoWeekday(answering.seen.start) \in rules.days
       /\ DayWindow(answering).start <= w.start /\ w.end <= DayWindow(answering).end
       /\ \A b \in DOMAIN bookings \ {id} :
            Active(bookings[b]) /\ bookings[b].room = answering.room =>
              Disjoint(w, [start |-> bookings[b].start - pad, end |-> bookings[b].end + pad])
  BY <1>1, <1>2, WindowIsFree
<1>11. rules.close < minutes /\ minutes \in Nat /\ DayTicks = 2 * minutes
  BY <1>4, FormsAssumption, TimeAssumption DEF TicksPerMinute
<1> HIDE DEF rules, day, d, len, slot, minutes, window, row, id
<1>12. w.start <= slot.start /\ slot.end <= w.end
  BY <1>3, <1>5, <1>6, <1>7, <1>9, <1>10
<1>13. KeepsOff(slot, window)
  BY <1>3, <1>5, <1>6, <1>7, <1>9 DEF KeepsOff, Meets
<1>14. /\ day + rules.open * 2 <= slot.start
       /\ slot.end <= day + rules.close * 2
       /\ now + rules.minAdvance * 2 <= slot.start
       /\ ~rules.overAdvanceApproval => slot.end <= now + rules.maxAdvanceDays * DayTicks
  <2>1. rules.maxAdvanceDays * DayTicks \in Nat
    BY <1>5, TimeAssumption
  <2> QED BY <1>3, <1>4, <1>5, <1>6, <1>10, <1>12, <2>1 DEF TicksPerMinute
<1>15. WithinBusinessHours(slot, rules)
  <2>1. /\ day <= slot.start /\ slot.start < day + DayTicks
        /\ day <= slot.end /\ slot.end < day + DayTicks
    BY <1>3, <1>5, <1>6, <1>11, <1>14
  <2>2. /\ DayOf(slot.start) = d /\ MinuteOfDay(slot.start) = (slot.start - day) \div 2
        /\ DayOf(slot.end) = d /\ MinuteOfDay(slot.end) = (slot.end - day) \div 2
    BY <1>3, <1>6, <2>1, InDay DEF day, TicksPerMinute
  <2>3. MinuteOfDay(slot.start) >= rules.open /\ MinuteOfDay(slot.end) <= rules.close
    BY <1>3, <1>5, <1>6, <1>14, <2>2
  <2>4. IsoWeekday(slot.start) = IsoWeekday(answering.seen.start)
        /\ IsoWeekday(slot.end) = IsoWeekday(answering.seen.start)
    BY <2>2 DEF IsoWeekday, d
  <2> QED BY <1>10, <2>3, <2>4 DEF WithinBusinessHours
<1>16. ValidSlot(slot, rules, now, rules.overAdvanceApproval)
  <2>1. MinutesBetween(slot.start, slot.end) = len
    BY <1>3, <1>6 DEF MinutesBetween, TicksPerMinute
  <2>2. MinutesBetween(now, slot.start) >= rules.minAdvance
    BY <1>3, <1>5, <1>6, <1>14 DEF MinutesBetween, TicksPerMinute
  <2>3. rules.overAdvanceApproval \/ ~ExceedsMaxAdvance(slot, rules, now)
    <3>1. rules.maxAdvanceDays * DayTicks \in Nat
      BY <1>5, TimeAssumption
    <3> QED BY <1>3, <1>6, <1>14, <3>1 DEF ExceedsMaxAdvance
  <2> QED BY <1>5, <1>6, <1>15, <2>1, <2>2, <2>3 DEF ValidSlot
<1>17. ~HasConflict(bookings, answering.room, slot, rules.buffer, id)
  <2> SUFFICES ASSUME NEW b \in DOMAIN bookings \ {id}, Active(bookings[b]),
                      bookings[b].room = answering.room
               PROVE  ~OverlapsBuffered(slot, bookings[b], rules.buffer)
    BY DEF HasConflict
  <2>1. bookings[b].start \in Nat /\ bookings[b].end \in Nat
    BY <1>2, RowType, BoundAssumption DEF BookingType, Instants
  <2>2. pad \in Nat
    BY <1>5 DEF TicksPerMinute
  <2>3. w.end <= bookings[b].start - pad \/ bookings[b].end + pad <= w.start
    BY <1>10 DEF Disjoint
  <2>4. ~(bookings[b].start < slot.end + pad /\ bookings[b].end > slot.start - pad)
    <3> HIDE DEF pad
    <3> QED BY <1>6, <1>10, <1>12, <2>1, <2>2, <2>3
  <2> QED BY <2>4 DEF OverlapsBuffered
<1>18. UpdateAccepted(bookings, answering.who, id, Keep, slot)
  <2>1. /\ IsOwner(answering.who, row) /\ Active(row) /\ row.end > now /\ ~Started(row)
        /\ row.room = answering.room
    BY <1>1, <1>2, <1>3 DEF Started, row, id
  <2>2. /\ TargetRoom(row, Keep) = answering.room /\ RoomUsable(answering.room)
        /\ RulesFor(answering.room) = rules
    BY <1>1, <1>3, <2>1, ActorAssumption DEF TargetRoom, RoomUsable, RulesFor, rules
  <2>3. slot # Keep => MoveAccepted(bookings, id, answering.room, TargetSlot(row, slot), rules)
    BY <1>16, <1>17 DEF MoveAccepted, TargetSlot
  <2> QED BY <2>1, <2>2, <2>3 DEF UpdateAccepted, StartedOnlyEndMoves, row
<1>19. ~Carves(window, row)
  BY <1>1, <1>2, AutoIsCarve DEF window, row, id
<1>20. slot \in { s \in { x \in {slot} : x.end > x.start } :
                    /\ KeepsOff(s, window)
                    /\ UpdateAccepted(bookings, answering.who, id, Keep, s) }
  BY <1>6, <1>13, <1>18
<1>21. [bookings EXCEPT ![id] = UpdatedRow(@, Keep, slot)]
         \in OwnerGives(answering.who, answering.r, [kind |-> "pick", slot |-> slot])
  BY <1>19, <1>20 DEF OwnerGives, window, Window, row, id
<1> QED BY <1>21 DEF slot

-----------------------------------------------------------------------------
(* Theorems *)

(* The inductive invariant of the dialogs, over that of change requests.    *)

THEOREM FormsInvariant == FormsSpec => []FormsInv
<1>1. FormsInv /\ [FormsNext]_<<vars, requestVars, formVars>> => FormsInv'
  BY FormsStep
<1> QED BY <1>1, InitForms, PTL DEF FormsSpec

(* The dialogs agree with the service: the asking one lets through what the *)
(* service takes, the approving one offers what it does, and an approval    *)
(* does what was shown.                                                     *)
THEOREM DialogsAgree == FormsSpec => FormsHold
<1>1. FormsInv => FormsTypeOK /\ AskAgrees /\ OfferAgrees
  BY AskingAgrees, OfferingAgrees
  DEF FormsInv, FormsTypeOK, AskingHolds, AnsweringHolds
<1>2. FormsInv /\ [FormsNext]_<<vars, requestVars, formVars>> =>
        [ShownStep]_<<vars, requestVars, formVars>>
  BY FormsStep
<1>3. FormsSpec => [](FormsTypeOK /\ AskAgrees /\ OfferAgrees)
                   /\ [][ShownStep]_<<vars, requestVars, formVars>>
  BY <1>1, <1>2, FormsInvariant, PTL DEF FormsSpec
<1> QED BY <1>3 DEF FormsHold, ShownIsGiven, ShownStep
=============================================================================
