------------------------- MODULE BookingRace_proofs -------------------------
(***************************************************************************)
(* Theorems about the interleaved handlers of the booking core, for every   *)
(* value of the constants: what a double booking takes, and that no booking *)
(* is left waiting for a decision nobody can take.                          *)
(***************************************************************************)
EXTENDS BookingRace, SequenceTheorems, TLAPS

-----------------------------------------------------------------------------
(* The invariant *)

SlotType == [start : Nat, end : Nat]

(* A request, by what it carries; a dead one carries what it died with.     *)
CreateType ==
  [pc : {"check", "insert", "dead"}, slots : {TRUE}, room : Rooms, series : Serieses, k : Nat]
IssueType ==
  [ pc : {"issue", "dead"}, slots : {TRUE}, booking : Nat, level : Nat, room : Rooms,
    series : Serieses \cup {<<>>}, k : Nat ]
UpdateType ==
  [ pc : {"recheck", "rewrite", "revoke", "dead"}, slots : {TRUE}, booking : Nat,
    toRoom : Rooms \cup {Keep}, toSlot : Ranges \cup {Keep}, room : Rooms, slot : SlotType,
    again : BOOLEAN ]
ResendType == [pc : {"resend", "dead"}, slots : {TRUE}, booking : Nat, room : Rooms]
CancelType == [pc : {"cancel", "dead"}, slots : {FALSE}, booking : Nat]
DecideType ==
  [ pc : {"decide", "tally", "dead"}, slots : {FALSE}, booking : Nat, step : StepIds,
    user : Users, decision : {"APPROVED", "REJECTED"} ]
SettleType ==
  [ pc : {"settle", "dead"}, slots : {FALSE}, booking : Nat,
    outcome : {"APPROVED", "REJECTED"} ]
ReqType ==
  [pc : {"idle", "done"}] \cup CreateType \cup IssueType \cup UpdateType
    \cup ResendType \cup CancelType \cup DecideType \cup SettleType

(* What a request holds at its stage is about a booking of the table, a     *)
(* level that is issued, an occurrence of its series.                       *)
ReqOK(q, rows) ==
  /\ q.pc \in {"check", "insert"} => q.k \in 1..Len(q.series)
  /\ q.pc = "issue" =>
       /\ q.booking \in rows
       /\ q.level \in 1..Len(Issued(q.room))
       /\ \/ q.series = <<>> /\ q.k = 0
          \/ q.series \in Serieses /\ q.k \in 1..Len(q.series)
  /\ q.pc \in {"recheck", "rewrite", "revoke"} =>
       /\ q.booking \in rows
       /\ q.toRoom # Keep => q.room = q.toRoom
       /\ q.toSlot # Keep => q.slot = q.toSlot
  /\ q.pc \in {"resend", "cancel", "settle"} => q.booking \in rows
  /\ q.pc \in {"decide", "tally"} => q.booking \in rows /\ q.booking = q.step[2]

ReqInv == req \in [Requests -> ReqType] /\ \A r \in Requests : ReqOK(req[r], DOMAIN bookings)

(* Creates and updates that are in flight now are in flight at once.        *)
Writing(q) == q.pc \notin {"idle", "done", "dead"} /\ q.slots

TogetherInv ==
  \A r, s \in Requests : r # s /\ Writing(req[r]) /\ Writing(req[s]) => {r, s} \in together

(* Somebody r was in flight with has written the row.                       *)
Raced(r, row, pairs) == \E w \in row.writers : w # r /\ {r, w} \in pairs

(* The occurrences in this part of a series, to be booked.                  *)
Slots(q, ks) == { [room |-> q.room, slot |-> q.series[i], except |-> 0] : i \in ks }

(* The slots a request has found free and has still to write: those of a    *)
(* series it has checked, and of these those it has not stored; the one its *)
(* update checked.                                                          *)
Found(q) ==
  IF q.pc = "check" THEN Slots(q, 1..(q.k - 1))
  ELSE IF q.pc = "insert" THEN Slots(q, q.k..Len(q.series))
  ELSE IF q.pc = "issue" THEN Slots(q, (q.k + 1)..Len(q.series))
  ELSE IF q.pc = "rewrite" THEN {[room |-> q.room, slot |-> q.slot, except |-> q.booking]}
  ELSE {}

(* A booking stands in the way of a slot.                                   *)
InTheWay(row, c) == Active(row) /\ row.room = c.room /\ ~Disjoint(c.slot, row)

(* A slot found free is still free, or taken by one in flight with r.       *)
Covered(r, c, table, except, pairs) ==
  \A a \in DOMAIN table \ except :
    a # c.except /\ InTheWay(table[a], c) => Raced(r, table[a], pairs)

FoundInv ==
  \A r \in Requests : \A c \in Found(req[r]) : Covered(r, c, bookings, revived, together)

(* What an update read of its own booking, and does not send or sends       *)
(* unchanged, still stands, or one in flight with it has written it.        *)
Kept(r, q, row, pairs) ==
  \/ q.pc = "resend" /\ row.room = q.room
  \/ /\ q.pc # "resend"
     /\ q.toRoom = Keep => row.room = q.room
     /\ q.toSlot = Keep => row.start = q.slot.start /\ row.end = q.slot.end
  \/ Raced(r, row, pairs)

KeptInv ==
  \A r \in Requests :
    req[r].pc \in {"recheck", "rewrite", "resend"} =>
      Kept(r, req[r], bookings[req[r].booking], together)

(* Somebody is about to settle the booking or to issue its steps, or died   *)
(* with it in hand.                                                         *)
WorkingOn(q, b) ==
  /\ q.pc \in {"revoke", "issue", "tally", "settle", "dead"}
  /\ "booking" \in DOMAIN q
  /\ q.booking = b

Working(b) == \E r \in Requests : WorkingOn(req[r], b)

Open(b) == \E s \in DOMAIN steps : s[2] = b /\ steps[s].decision = "PENDING"

PendingInv ==
  \A b \in DOMAIN bookings : bookings[b].status = "PENDING" /\ ~Working(b) => Open(b)

-----------------------------------------------------------------------------
(* Rows, steps and requests *)

LEMMA RaceTypes ==
  ASSUME TypeOK
  PROVE  /\ bookings \in Seq(RowType) /\ Len(bookings) \in Nat
         /\ DOMAIN bookings = 1..Len(bookings)
         /\ \A b \in DOMAIN bookings : bookings[b] \in RowType
  BY DEF TypeOK

LEMMA SeriesSlots ==
  ASSUME NEW series \in Serieses
  PROVE  /\ series \in Seq(SlotType) /\ Len(series) \in Nat \ {0}
         /\ \A i \in 1..Len(series) : series[i] \in SlotType
         /\ \A i, j \in 1..Len(series) : i # j => Disjoint(series[i], series[j])
<1>1. series \in Seq(SlotType) /\ series # <<>>
      /\ \A i, j \in DOMAIN series : i # j => Disjoint(series[i], series[j])
  BY SlotAssumption DEF SlotType
<1> QED BY <1>1, EmptySeq

LEMMA IssuedLevels ==
  ASSUME NEW room \in Rooms
  PROVE  /\ Issued(room) \in Seq(Users \cup {NoUser}) /\ Len(Issued(room)) \in Nat \ {0}
         /\ \A level \in 1..Len(Issued(room)) : Issued(room)[level] \in Users \cup {NoUser}
<1>1. Levels[room] \in Seq(Users)
  BY ActorAssumption
<1>2. CASE Levels[room] = <<>>
  BY <1>2 DEF Issued
<1>3. CASE Levels[room] # <<>>
  <2>1. Issued(room) = Levels[room] /\ Len(Levels[room]) \in Nat \ {0}
    BY <1>1, <1>3, EmptySeq DEF Issued
  <2> QED BY <1>1, <2>1
<1> QED BY <1>2, <1>3

(* What a request carries, stage by stage.                                  *)
LEMMA AtCreate ==
  ASSUME ReqInv, NEW r \in Requests, req[r].pc \in {"check", "insert"}
  PROVE  /\ req[r] \in CreateType /\ req[r].slots = TRUE
         /\ req[r].room \in Rooms /\ req[r].series \in Serieses
         /\ req[r].k \in 1..Len(req[r].series)
  BY DEF ReqInv, ReqOK, ReqType, CreateType, IssueType, UpdateType, ResendType, CancelType,
         DecideType, SettleType

LEMMA AtIssue ==
  ASSUME ReqInv, NEW r \in Requests, req[r].pc = "issue"
  PROVE  /\ req[r] \in IssueType /\ req[r].slots = TRUE
         /\ req[r].room \in Rooms /\ req[r].booking \in DOMAIN bookings
         /\ req[r].level \in 1..Len(Issued(req[r].room))
         /\ \/ req[r].series = <<>> /\ req[r].k = 0
            \/ req[r].series \in Serieses /\ req[r].k \in 1..Len(req[r].series)
  BY DEF ReqInv, ReqOK, ReqType, CreateType, IssueType, UpdateType, ResendType, CancelType,
         DecideType, SettleType

LEMMA AtUpdate ==
  ASSUME ReqInv, NEW r \in Requests, req[r].pc \in {"recheck", "rewrite", "revoke"}
  PROVE  /\ req[r] \in UpdateType /\ req[r].slots = TRUE
         /\ req[r].room \in Rooms /\ req[r].slot \in SlotType
         /\ req[r].toRoom \in Rooms \cup {Keep} /\ req[r].toSlot \in Ranges \cup {Keep}
         /\ req[r].toRoom # Keep => req[r].room = req[r].toRoom
         /\ req[r].toSlot # Keep => req[r].slot = req[r].toSlot
         /\ req[r].booking \in DOMAIN bookings /\ req[r].again \in BOOLEAN
  BY DEF ReqInv, ReqOK, ReqType, CreateType, IssueType, UpdateType, ResendType, CancelType,
         DecideType, SettleType

LEMMA AtResend ==
  ASSUME ReqInv, NEW r \in Requests, req[r].pc = "resend"
  PROVE  /\ req[r] \in ResendType /\ req[r].slots = TRUE /\ req[r].room \in Rooms
         /\ req[r].booking \in DOMAIN bookings
  BY DEF ReqInv, ReqOK, ReqType, CreateType, IssueType, UpdateType, ResendType, CancelType,
         DecideType, SettleType

LEMMA AtCancel ==
  ASSUME ReqInv, NEW r \in Requests, req[r].pc = "cancel"
  PROVE  req[r] \in CancelType /\ req[r].slots = FALSE /\ req[r].booking \in DOMAIN bookings
  BY DEF ReqInv, ReqOK, ReqType, CreateType, IssueType, UpdateType, ResendType, CancelType,
         DecideType, SettleType

LEMMA AtDecide ==
  ASSUME ReqInv, NEW r \in Requests, req[r].pc \in {"decide", "tally"}
  PROVE  /\ req[r] \in DecideType /\ req[r].slots = FALSE
         /\ req[r].booking \in DOMAIN bookings /\ req[r].booking = req[r].step[2]
         /\ req[r].step \in StepIds /\ req[r].user \in Users
         /\ req[r].decision \in {"APPROVED", "REJECTED"}
  BY DEF ReqInv, ReqOK, ReqType, CreateType, IssueType, UpdateType, ResendType, CancelType,
         DecideType, SettleType

LEMMA AtSettle ==
  ASSUME ReqInv, NEW r \in Requests, req[r].pc = "settle"
  PROVE  /\ req[r] \in SettleType /\ req[r].slots = FALSE
         /\ req[r].booking \in DOMAIN bookings /\ req[r].outcome \in {"APPROVED", "REJECTED"}
  BY DEF ReqInv, ReqOK, ReqType, CreateType, IssueType, UpdateType, ResendType, CancelType,
         DecideType, SettleType

(* One request goes on, the others stay where they are.                     *)
LEMMA OneGoes ==
  ASSUME ReqInv, NEW r \in Requests, NEW q, Goes(r, q)
  PROVE  /\ DOMAIN req' = Requests /\ req'[r] = q
         /\ \A s \in Requests : s # r => req'[s] = req[s]
         /\ q \in ReqType => req' \in [Requests -> ReqType]
  BY DEF ReqInv, Goes

LEMMA StillOK ==
  ASSUME NEW q, NEW rows, NEW more, ReqOK(q, rows), rows \subseteq more
  PROVE  ReqOK(q, more)
  BY DEF ReqOK

LEMMA ReqAfter ==
  ASSUME ReqInv, NEW r \in Requests, NEW q \in ReqType, Goes(r, q),
         DOMAIN bookings \subseteq DOMAIN bookings', ReqOK(q, DOMAIN bookings')
  PROVE  ReqInv'
<1>1. req' \in [Requests -> ReqType] /\ req'[r] = q
      /\ \A s \in Requests : s # r => req'[s] = req[s]
  BY OneGoes
<1>2. ASSUME NEW s \in Requests
      PROVE  ReqOK(req'[s], DOMAIN bookings')
  <2>1. CASE s = r
    BY <2>1, <1>1
  <2>2. CASE s # r
    <3>1. ReqOK(req[s], DOMAIN bookings)
      BY DEF ReqInv
    <3> QED BY <3>1, <2>2, <1>1, StillOK
  <2> QED BY <2>1, <2>2
<1> QED BY <1>1, <1>2 DEF ReqInv

-----------------------------------------------------------------------------
(* What each step does to the requests: one goes on, with what it needs.    *)

Others(r) == \A s \in Requests : s # r => req'[s] = req[s]

LEMMA StopEffect ==
  ASSUME ReqInv, NEW r \in Requests, Stops(r), DOMAIN bookings \subseteq DOMAIN bookings'
  PROVE  ReqInv' /\ Others(r) /\ req'[r] = [pc |-> "done"]
<1>1. [pc |-> "done"] \in ReqType /\ ReqOK([pc |-> "done"], DOMAIN bookings')
  BY DEF ReqType, ReqOK
<1>2. Goes(r, [pc |-> "done"])
  BY DEF Stops
<1> QED BY <1>1, <1>2, ReqAfter, OneGoes DEF Others

LEMMA StartEffect ==
  ASSUME ReqInv, NEW r \in Requests, NEW room \in Rooms, NEW series \in Serieses,
         CreateStart(r, room, series)
  PROVE  /\ ReqInv' /\ Others(r)
         /\ req'[r].pc = "check" /\ req'[r].k = 1
<1> DEFINE q == [pc |-> "check", slots |-> TRUE, room |-> room, series |-> series, k |-> 1]
<1>1. Len(series) \in Nat \ {0}
  BY SeriesSlots
<1>2. q \in CreateType /\ ReqOK(q, DOMAIN bookings')
  BY <1>1 DEF CreateType, ReqOK
<1>3. Goes(r, q) /\ bookings' = bookings
  BY DEF CreateStart
<1>4. q \in ReqType /\ q.pc = "check" /\ q.k = 1
  BY <1>2 DEF ReqType
<1> HIDE DEF q
<1> QED BY <1>2, <1>3, <1>4, ReqAfter, OneGoes DEF Others

(* The next occurrence is checked, or the first one stored.                 *)
LEMMA AtOccurrence ==
  ASSUME NEW q \in CreateType, NEW n \in Nat
  PROVE  LET p == [q EXCEPT !.k = n]
         IN  /\ p \in CreateType /\ p.pc = q.pc /\ p.room = q.room /\ p.series = q.series
             /\ p.k = n
<1>1. [q EXCEPT !.k = n] \in CreateType
  BY DEF CreateType
<1>2. LET p == [q EXCEPT !.k = n]
      IN  p.pc = q.pc /\ p.room = q.room /\ p.series = q.series /\ p.k = n
  BY DEF CreateType
<1> QED BY <1>1, <1>2

LEMMA AtInsert ==
  ASSUME NEW q \in CreateType
  PROVE  LET p == [q EXCEPT !.pc = "insert", !.k = 1]
         IN  /\ p \in CreateType /\ p.pc = "insert" /\ p.room = q.room /\ p.series = q.series
             /\ p.k = 1
<1> DEFINE m == [q EXCEPT !.pc = "insert"]
<1>1. m \in CreateType
  BY DEF CreateType
<1>2. m.pc = "insert" /\ m.room = q.room /\ m.series = q.series
  BY DEF CreateType
<1> HIDE DEF m
<1>3. LET p == [m EXCEPT !.k = 1]
      IN  /\ p \in CreateType /\ p.pc = m.pc /\ p.room = m.room /\ p.series = m.series
          /\ p.k = 1
  BY <1>1, AtOccurrence
<1> QED BY <1>2, <1>3 DEF m

LEMMA CheckEffect ==
  ASSUME ReqInv, NEW r \in Requests, CreateCheck(r)
  PROVE  /\ ReqInv' /\ Others(r)
         /\ \/ req'[r] = [pc |-> "done"]
            \/ /\ ~Conflict(req[r].room, req[r].series[req[r].k], 0)
               /\ req'[r].room = req[r].room /\ req'[r].series = req[r].series
               /\ \/ req'[r].pc = "check" /\ req'[r].k = req[r].k + 1
                  \/ req'[r].pc = "insert" /\ req'[r].k = 1 /\ req[r].k = Len(req[r].series)
<1> DEFINE q == req[r]
           p1 == [q EXCEPT !.k = q.k + 1]
           p2 == [q EXCEPT !.pc = "insert", !.k = 1]
<1>1. q \in CreateType /\ q.series \in Serieses /\ q.k \in 1..Len(q.series) /\ q.pc = "check"
      /\ bookings' = bookings
  BY AtCreate DEF CreateCheck
<1>2. Len(q.series) \in Nat \ {0}
  BY <1>1, SeriesSlots
<1>3. /\ p1 \in CreateType /\ p1.pc = "check" /\ p1.room = q.room /\ p1.series = q.series
      /\ p1.k = q.k + 1
      /\ p2 \in CreateType /\ p2.pc = "insert" /\ p2.room = q.room /\ p2.series = q.series
      /\ p2.k = 1
  <2>1. q.k + 1 \in Nat
    BY <1>1, <1>2
  <2>2. p1 \in CreateType /\ p1.pc = q.pc /\ p1.room = q.room /\ p1.series = q.series
        /\ p1.k = q.k + 1
    BY <1>1, <2>1, AtOccurrence, Zenon
  <2> QED BY <1>1, <2>2, AtInsert
<1>4. \/ Stops(r)
      \/ ~Conflict(q.room, q.series[q.k], 0) /\ q.k < Len(q.series) /\ Goes(r, p1)
      \/ ~Conflict(q.room, q.series[q.k], 0) /\ ~(q.k < Len(q.series)) /\ Goes(r, p2)
  BY DEF CreateCheck
<1>5. CASE Stops(r)
  BY <1>1, <1>5, StopEffect
<1> HIDE DEF p1, p2
<1>6. CASE ~Conflict(q.room, q.series[q.k], 0) /\ q.k < Len(q.series) /\ Goes(r, p1)
  <2>1. p1 \in ReqType /\ ReqOK(p1, DOMAIN bookings')
    BY <1>1, <1>2, <1>3, <1>6 DEF ReqType, ReqOK
  <2> QED BY <1>1, <1>3, <1>6, <2>1, ReqAfter, OneGoes DEF Others
<1>7. CASE ~Conflict(q.room, q.series[q.k], 0) /\ ~(q.k < Len(q.series)) /\ Goes(r, p2)
  <2>1. p2 \in ReqType /\ ReqOK(p2, DOMAIN bookings') /\ q.k = Len(q.series)
    BY <1>1, <1>2, <1>3, <1>7 DEF ReqType, ReqOK
  <2> QED BY <1>1, <1>3, <1>7, <2>1, ReqAfter, OneGoes DEF Others
<1> QED BY <1>4, <1>5, <1>6, <1>7

(* After an occurrence: the next one of the series, if there is one.        *)
LEMMA OccurrenceNext ==
  ASSUME ReqInv, NEW r \in Requests, NEW rows,
         req[r].room \in Rooms,
         \/ req[r].series = <<>> /\ req[r].k = 0
         \/ req[r].series \in Serieses /\ req[r].k \in 1..Len(req[r].series)
  PROVE  LET p == NextOccurrence(r)
         IN  /\ p \in ReqType /\ ReqOK(p, rows)
             /\ \/ p = [pc |-> "done"]
                \/ /\ p.pc = "insert" /\ p.room = req[r].room /\ p.series = req[r].series
                   /\ p.k = req[r].k + 1 /\ p.slots = TRUE
<1> DEFINE p == [pc |-> "insert", slots |-> TRUE, room |-> req[r].room,
                 series |-> req[r].series, k |-> req[r].k + 1]
           d == [pc |-> "done"]
<1>1. d \in ReqType /\ ReqOK(d, rows)
  BY DEF ReqType, ReqOK
<1>2. CASE req[r].k < Len(req[r].series)
  <2>1. req[r].series \in Serieses /\ req[r].k \in 1..Len(req[r].series)
    BY <1>2
  <2>2. Len(req[r].series) \in Nat \ {0}
    BY <2>1, SeriesSlots
  <2>3. p \in CreateType /\ ReqOK(p, rows)
    BY <1>2, <2>1, <2>2 DEF CreateType, ReqOK
  <2>4. NextOccurrence(r) = p
    BY <1>2 DEF NextOccurrence
  <2> QED BY <2>3, <2>4 DEF ReqType
<1>3. CASE ~(req[r].k < Len(req[r].series))
  <2>1. NextOccurrence(r) = d
    BY <1>3 DEF NextOccurrence
  <2> QED BY <1>1, <2>1
<1> QED BY <1>2, <1>3

(* The row is appended; its steps are issued next, if it needs any.         *)
LEMMA InsertEffect ==
  ASSUME TypeOK, ReqInv, NEW r \in Requests, CreateInsert(r)
  PROVE  LET q == req[r]
             new == bookings'[Len(bookings) + 1]
         IN  /\ ReqInv' /\ Others(r) /\ TypeOK'
             /\ DOMAIN bookings' = 1..(Len(bookings) + 1)
             /\ \A b \in DOMAIN bookings : bookings'[b] = bookings[b]
             /\ new.room = q.room /\ new.start = q.series[q.k].start
             /\ new.end = q.series[q.k].end /\ new.writers = {r}
             /\ \/ /\ new.status = "PENDING"
                   /\ req'[r].pc = "issue" /\ req'[r].booking = Len(bookings) + 1
                   /\ "booking" \in DOMAIN req'[r]
                   /\ req'[r].room = q.room /\ req'[r].series = q.series /\ req'[r].k = q.k
                \/ new.status = "APPROVED" /\ req'[r] = [pc |-> "done"]
                \/ /\ new.status = "APPROVED"
                   /\ req'[r].pc = "insert" /\ req'[r].room = q.room
                   /\ req'[r].series = q.series /\ req'[r].k = q.k + 1
<1> DEFINE q == req[r]
           slot == q.series[q.k]
           state == IF q.room \in GatedRooms THEN "PENDING" ELSE "APPROVED"
           row == [ status |-> state, room |-> q.room, start |-> slot.start,
                    end |-> slot.end, writers |-> {r} ]
           i == [ pc |-> "issue", slots |-> TRUE, booking |-> Len(bookings) + 1,
                  level |-> 1, room |-> q.room, series |-> q.series, k |-> q.k ]
<1>1. /\ q.series \in Serieses /\ q.k \in 1..Len(q.series) /\ q.room \in Rooms
      /\ q.pc = "insert"
  BY AtCreate DEF CreateInsert
<1>2. Len(q.series) \in Nat \ {0} /\ slot \in SlotType
  BY <1>1, SeriesSlots
<1>3. row \in RowType
  BY <1>1, <1>2 DEF RowType, SlotType, BookingStates, ActiveStates
<1>4. /\ bookings' = Append(bookings, row) /\ UNCHANGED <<steps, together, revived>>
      /\ \/ q.room \in GatedRooms /\ Goes(r, i)
         \/ q.room \notin GatedRooms /\ Goes(r, NextOccurrence(r))
  BY DEF CreateInsert
<1>5. /\ row.room = q.room /\ row.start = slot.start /\ row.end = slot.end
      /\ row.writers = {r} /\ row.status = state
  OBVIOUS
<1> HIDE DEF row
<1>6. bookings \in Seq(RowType) /\ Len(bookings) \in Nat /\ DOMAIN bookings = 1..Len(bookings)
  BY RaceTypes
<1>7. /\ bookings' \in Seq(RowType) /\ DOMAIN bookings' = 1..(Len(bookings) + 1)
      /\ \A b \in DOMAIN bookings : bookings'[b] = bookings[b]
      /\ bookings'[Len(bookings) + 1] = row
  BY <1>3, <1>4, <1>6
<1>8. DOMAIN bookings \subseteq DOMAIN bookings'
  BY <1>6, <1>7
<1>9. ReqInv' /\ Others(r)
      /\ \/ /\ state = "PENDING"
            /\ req'[r].pc = "issue" /\ req'[r].booking = Len(bookings) + 1
            /\ "booking" \in DOMAIN req'[r]
            /\ req'[r].room = q.room /\ req'[r].series = q.series /\ req'[r].k = q.k
         \/ state = "APPROVED" /\ req'[r] = [pc |-> "done"]
         \/ /\ state = "APPROVED"
            /\ req'[r].pc = "insert" /\ req'[r].room = q.room
            /\ req'[r].series = q.series /\ req'[r].k = q.k + 1
  <2>1. CASE q.room \in GatedRooms /\ Goes(r, i)
    <3>1. Len(Issued(q.room)) \in Nat \ {0}
      BY <1>1, IssuedLevels
    <3>2. i \in IssueType
      BY <1>1, <1>2, <1>6 DEF IssueType
    <3>3. i \in ReqType /\ ReqOK(i, DOMAIN bookings')
      BY <1>1, <1>2, <1>6, <1>7, <3>1, <3>2 DEF ReqOK, ReqType
    <3>4. /\ i.pc = "issue" /\ i.booking = Len(bookings) + 1 /\ i.room = q.room
          /\ i.series = q.series /\ i.k = q.k /\ "booking" \in DOMAIN i
      OBVIOUS
    <3> HIDE DEF i
    <3> QED BY <1>8, <2>1, <3>3, <3>4, ReqAfter, OneGoes DEF Others
  <2>2. CASE q.room \notin GatedRooms /\ Goes(r, NextOccurrence(r))
    <3>1. LET p == NextOccurrence(r)
          IN  /\ p \in ReqType /\ ReqOK(p, DOMAIN bookings')
              /\ \/ p = [pc |-> "done"]
                 \/ /\ p.pc = "insert" /\ p.room = req[r].room /\ p.series = req[r].series
                    /\ p.k = req[r].k + 1 /\ p.slots = TRUE
      BY <1>1, OccurrenceNext
    <3> QED BY <1>8, <2>2, <3>1, ReqAfter, OneGoes DEF Others
  <2> QED BY <1>4, <2>1, <2>2
<1>10. TypeOK'
  <2>1. DOMAIN req' = Requests /\ \A s \in Requests : req'[s].pc \in Stages
    BY <1>9 DEF ReqInv, ReqType, CreateType, IssueType, UpdateType, ResendType, CancelType, DecideType,
                SettleType, Stages
  <2> QED BY <1>4, <1>7, <1>8, <2>1 DEF TypeOK
<1> QED BY <1>5, <1>7, <1>9, <1>10

LEMMA TypeAfter ==
  ASSUME TypeOK, ReqInv', bookings' \in Seq(RowType), DOMAIN bookings' = DOMAIN bookings,
         steps' = steps, together' \subseteq SUBSET Requests, revived' \subseteq DOMAIN bookings
  PROVE  TypeOK'
<1>1. DOMAIN req' = Requests /\ \A s \in Requests : req'[s].pc \in Stages
  BY DEF ReqInv, ReqType, CreateType, IssueType, UpdateType, ResendType, CancelType, DecideType,
         SettleType, Stages
<1> QED BY <1>1 DEF TypeOK

LEMMA TypeSteps ==
  ASSUME TypeOK, ReqInv', DOMAIN steps' \subseteq StepIds,
         \A s \in DOMAIN steps' : steps'[s] \in StepType /\ s[2] \in DOMAIN bookings,
         UNCHANGED <<bookings, together, revived>>
  PROVE  TypeOK'
<1>1. DOMAIN req' = Requests /\ \A s \in Requests : req'[s].pc \in Stages
  BY DEF ReqInv, ReqType, CreateType, IssueType, UpdateType, ResendType, CancelType, DecideType,
         SettleType, Stages
<1> QED BY <1>1 DEF TypeOK

(* The step of one level is stored, open.                                   *)
LEMMA StepStored ==
  ASSUME NEW id, NEW row,
         steps' = [s \in DOMAIN steps \cup {id} |-> IF s = id THEN row ELSE steps[s]]
  PROVE  /\ DOMAIN steps' = DOMAIN steps \cup {id} /\ steps'[id] = row
         /\ \A s \in DOMAIN steps : s # id => steps'[s] = steps[s]
  OBVIOUS

LEMMA NextLevel ==
  ASSUME NEW q \in IssueType, NEW n \in Nat
  PROVE  LET p == [q EXCEPT !.level = n]
         IN  /\ p \in IssueType /\ p.pc = q.pc /\ p.booking = q.booking /\ p.level = n
             /\ p.room = q.room /\ p.series = q.series /\ p.k = q.k
             /\ "booking" \in DOMAIN p
<1>1. [q EXCEPT !.level = n] \in IssueType
  BY DEF IssueType
<1>2. LET p == [q EXCEPT !.level = n]
      IN  /\ p.pc = q.pc /\ p.booking = q.booking /\ p.level = n
          /\ p.room = q.room /\ p.series = q.series /\ p.k = q.k
  BY DEF IssueType
<1>3. "booking" \in DOMAIN [q EXCEPT !.level = n]
  BY DEF IssueType
<1> QED BY <1>1, <1>2, <1>3

LEMMA IssueEffect ==
  ASSUME TypeOK, ReqInv, NEW r \in Requests, IssueStep(r)
  PROVE  LET q == req[r]
             id == <<r, q.booking, q.level>>
         IN  /\ ReqInv' /\ Others(r) /\ TypeOK'
             /\ DOMAIN steps' = DOMAIN steps \cup {id} /\ steps'[id].decision = "PENDING"
             /\ \A s \in DOMAIN steps : s # id => steps'[s] = steps[s]
             /\ \/ /\ req'[r].pc = "issue" /\ req'[r].booking = q.booking
                   /\ "booking" \in DOMAIN req'[r]
                   /\ req'[r].room = q.room /\ req'[r].series = q.series /\ req'[r].k = q.k
                \/ req'[r] = [pc |-> "done"]
                \/ /\ req'[r].pc = "insert" /\ req'[r].room = q.room
                   /\ req'[r].series = q.series /\ req'[r].k = q.k + 1
<1> DEFINE q == req[r]
           id == <<r, q.booking, q.level>>
           row == [approver |-> Issued(q.room)[q.level], decision |-> "PENDING"]
           p == [q EXCEPT !.level = q.level + 1]
<1>1. /\ q \in IssueType /\ q.room \in Rooms /\ q.booking \in DOMAIN bookings
      /\ q.level \in 1..Len(Issued(q.room)) /\ q.pc = "issue"
      /\ \/ q.series = <<>> /\ q.k = 0
         \/ q.series \in Serieses /\ q.k \in 1..Len(q.series)
  BY AtIssue DEF IssueStep
<1>2. /\ Len(Issued(q.room)) \in Nat \ {0} /\ Issued(q.room)[q.level] \in Users \cup {NoUser}
      /\ q.level \in Nat \ {0} /\ q.level <= Len(Issued(q.room))
  BY <1>1, IssuedLevels
<1>3. row \in StepType /\ row.decision = "PENDING"
  BY <1>2 DEF StepType, Decisions
<1>4. id \in StepIds /\ id[2] = q.booking
  BY <1>1, <1>2, RaceTypes DEF StepIds
<1>5. /\ steps' = [s \in DOMAIN steps \cup {id} |-> IF s = id THEN row ELSE steps[s]]
      /\ \/ q.level < Len(Issued(q.room)) /\ Goes(r, p)
         \/ Goes(r, NextOccurrence(r))
      /\ UNCHANGED <<bookings, together, revived>>
  BY <1>2 DEF IssueStep
<1> HIDE DEF row, id
<1>6. /\ DOMAIN steps' = DOMAIN steps \cup {id} /\ steps'[id] = row
      /\ \A s \in DOMAIN steps : s # id => steps'[s] = steps[s]
  BY <1>5, StepStored
<1>7. ReqInv' /\ Others(r)
      /\ \/ /\ req'[r].pc = "issue" /\ req'[r].booking = q.booking
            /\ "booking" \in DOMAIN req'[r]
            /\ req'[r].room = q.room /\ req'[r].series = q.series /\ req'[r].k = q.k
         \/ req'[r] = [pc |-> "done"]
         \/ /\ req'[r].pc = "insert" /\ req'[r].room = q.room
            /\ req'[r].series = q.series /\ req'[r].k = q.k + 1
  <2>1. CASE q.level < Len(Issued(q.room)) /\ Goes(r, p)
    <3>1. q.level + 1 \in 1..Len(Issued(q.room)) /\ q.level + 1 \in Nat
      BY <1>2, <2>1
    <3>2. /\ p \in IssueType /\ p.pc = q.pc /\ p.booking = q.booking /\ p.level = q.level + 1
          /\ p.room = q.room /\ p.series = q.series /\ p.k = q.k /\ "booking" \in DOMAIN p
      BY <1>1, <3>1, NextLevel, Zenon
    <3> HIDE DEF p
    <3>3. p \in ReqType /\ ReqOK(p, DOMAIN bookings')
      BY <1>1, <1>5, <3>1, <3>2 DEF ReqType, ReqOK
    <3> QED BY <1>1, <1>5, <2>1, <3>2, <3>3, ReqAfter, OneGoes DEF Others
  <2>2. CASE Goes(r, NextOccurrence(r))
    <3>1. LET n == NextOccurrence(r)
          IN  /\ n \in ReqType /\ ReqOK(n, DOMAIN bookings')
              /\ \/ n = [pc |-> "done"]
                 \/ /\ n.pc = "insert" /\ n.room = req[r].room /\ n.series = req[r].series
                    /\ n.k = req[r].k + 1 /\ n.slots = TRUE
      BY <1>1, OccurrenceNext
    <3> QED BY <1>5, <2>2, <3>1, ReqAfter, OneGoes DEF Others
  <2> QED BY <1>5, <2>1, <2>2
<1>8. TypeOK'
  <2>1. DOMAIN steps' \subseteq StepIds
    BY <1>4, <1>6 DEF TypeOK
  <2>2. \A s \in DOMAIN steps' : steps'[s] \in StepType /\ s[2] \in DOMAIN bookings
    BY <1>1, <1>3, <1>4, <1>6 DEF TypeOK
  <2> QED BY <1>5, <1>7, <2>1, <2>2, TypeSteps
<1> QED BY <1>3, <1>6, <1>7, <1>8 DEF id

LEMMA ReadEffect ==
  ASSUME TypeOK, ReqInv, NEW r \in Requests, NEW b \in DOMAIN bookings,
         NEW toRoom \in Rooms \cup {Keep}, NEW toSlot \in Ranges \cup {Keep},
         UpdateRead(r, b, toRoom, toSlot)
  PROVE  LET q == req'[r]
         IN  /\ ReqInv' /\ Others(r)
             /\ q.pc = "recheck" /\ q.booking = b /\ q.toRoom = toRoom /\ q.toSlot = toSlot
             /\ toRoom = Keep => q.room = bookings[b].room
             /\ toSlot = Keep => q.slot.start = bookings[b].start /\ q.slot.end = bookings[b].end
<1> DEFINE row == bookings[b]
           room == IF toRoom = Keep THEN row.room ELSE toRoom
           slot == IF toSlot = Keep THEN [start |-> row.start, end |-> row.end] ELSE toSlot
           again == room \in GatedRooms /\ row.status = "APPROVED"
           q == [ pc |-> "recheck", slots |-> TRUE, booking |-> b, toRoom |-> toRoom,
                  toSlot |-> toSlot, room |-> room, slot |-> slot, again |-> again ]
<1>1. row \in RowType /\ b \in Nat
  BY RaceTypes
<1>2. room \in Rooms
  BY <1>1 DEF RowType
<1>3. slot \in SlotType
  BY <1>1, SlotAssumption DEF RowType, SlotType
<1>4. again \in BOOLEAN
  OBVIOUS
<1>5. Goes(r, q) /\ bookings' = bookings
  BY DEF UpdateRead
<1>6. /\ toRoom = Keep => room = row.room
      /\ toRoom # Keep => room = toRoom
      /\ toSlot = Keep => slot.start = row.start /\ slot.end = row.end
      /\ toSlot # Keep => slot = toSlot
  OBVIOUS
<1> HIDE DEF room, slot, again
<1>7. /\ q.pc = "recheck" /\ q.booking = b /\ q.toRoom = toRoom /\ q.toSlot = toSlot
      /\ q.room = room /\ q.slot = slot /\ q \in UpdateType
  BY <1>1, <1>2, <1>3, <1>4 DEF UpdateType
<1> HIDE DEF q
<1>8. q \in ReqType /\ ReqOK(q, DOMAIN bookings')
  BY <1>5, <1>6, <1>7 DEF ReqType, ReqOK
<1> QED BY <1>5, <1>6, <1>7, <1>8, ReqAfter, OneGoes DEF Others

LEMMA Restaged ==
  ASSUME NEW q \in UpdateType, NEW stage \in {"rewrite", "revoke"}
  PROVE  LET p == [q EXCEPT !.pc = stage]
         IN  /\ p \in UpdateType /\ p.pc = stage /\ p.booking = q.booking
             /\ p.toRoom = q.toRoom /\ p.toSlot = q.toSlot /\ p.room = q.room
             /\ p.slot = q.slot /\ "booking" \in DOMAIN p
<1>1. [q EXCEPT !.pc = stage] \in UpdateType
  BY DEF UpdateType
<1>2. LET p == [q EXCEPT !.pc = stage]
      IN  /\ p.pc = stage /\ p.booking = q.booking /\ p.toRoom = q.toRoom
          /\ p.toSlot = q.toSlot /\ p.room = q.room /\ p.slot = q.slot
  BY DEF UpdateType
<1>3. "booking" \in DOMAIN [q EXCEPT !.pc = stage]
  BY DEF UpdateType
<1> QED BY <1>1, <1>2, <1>3

LEMMA RecheckEffect ==
  ASSUME ReqInv, NEW r \in Requests, UpdateCheck(r)
  PROVE  LET q == req[r]
             p == req'[r]
         IN  /\ ReqInv' /\ Others(r)
             /\ \/ p = [pc |-> "done"]
                \/ /\ ~Conflict(q.room, q.slot, q.booking)
                   /\ p.pc = "rewrite" /\ p.booking = q.booking /\ p.toRoom = q.toRoom
                   /\ p.toSlot = q.toSlot /\ p.room = q.room /\ p.slot = q.slot
<1> DEFINE q == req[r]
           p == [q EXCEPT !.pc = "rewrite"]
<1>1. /\ q \in UpdateType /\ q.booking \in DOMAIN bookings
      /\ q.toRoom # Keep => q.room = q.toRoom
      /\ q.toSlot # Keep => q.slot = q.toSlot
      /\ bookings' = bookings /\ q.pc = "recheck"
  BY AtUpdate DEF UpdateCheck
<1>2. Stops(r) \/ (~Conflict(q.room, q.slot, q.booking) /\ Goes(r, p))
  BY DEF UpdateCheck
<1>3. CASE Stops(r)
  BY <1>1, <1>3, StopEffect
<1>4. CASE ~Conflict(q.room, q.slot, q.booking) /\ Goes(r, p)
  <2>1. /\ p \in UpdateType /\ p.pc = "rewrite" /\ p.booking = q.booking
        /\ p.toRoom = q.toRoom /\ p.toSlot = q.toSlot /\ p.room = q.room /\ p.slot = q.slot
    BY <1>1, Restaged
  <2> HIDE DEF p
  <2>2. p \in ReqType /\ ReqOK(p, DOMAIN bookings')
    BY <1>1, <2>1 DEF ReqType, ReqOK
  <2> QED BY <1>1, <1>4, <2>1, <2>2, ReqAfter, OneGoes DEF Others
<1> QED BY <1>2, <1>3, <1>4

(* A row with one of its columns written.                                   *)
LEMMA PutRoom ==
  ASSUME NEW row \in RowType, NEW v \in Rooms
  PROVE  LET new == [row EXCEPT !.room = v]
         IN  /\ new \in RowType /\ new.room = v
             /\ new.status = row.status /\ new.start = row.start
             /\ new.end = row.end /\ new.writers = row.writers
<1>1. [row EXCEPT !.room = v] \in RowType
  BY DEF RowType
<1> QED BY <1>1 DEF RowType

LEMMA PutStart ==
  ASSUME NEW row \in RowType, NEW v \in Nat
  PROVE  LET new == [row EXCEPT !.start = v]
         IN  /\ new \in RowType /\ new.start = v
             /\ new.status = row.status /\ new.room = row.room
             /\ new.end = row.end /\ new.writers = row.writers
<1>1. [row EXCEPT !.start = v] \in RowType
  BY DEF RowType
<1> QED BY <1>1 DEF RowType

LEMMA PutEnd ==
  ASSUME NEW row \in RowType, NEW v \in Nat
  PROVE  LET new == [row EXCEPT !.end = v]
         IN  /\ new \in RowType /\ new.end = v
             /\ new.status = row.status /\ new.room = row.room
             /\ new.start = row.start /\ new.writers = row.writers
<1>1. [row EXCEPT !.end = v] \in RowType
  BY DEF RowType
<1> QED BY <1>1 DEF RowType

LEMMA PutStatus ==
  ASSUME NEW row \in RowType, NEW v \in BookingStates
  PROVE  LET new == [row EXCEPT !.status = v]
         IN  /\ new \in RowType /\ new.status = v
             /\ new.room = row.room /\ new.start = row.start
             /\ new.end = row.end /\ new.writers = row.writers
<1>1. [row EXCEPT !.status = v] \in RowType
  BY DEF RowType
<1> QED BY <1>1 DEF RowType

LEMMA PutWriters ==
  ASSUME NEW row \in RowType, NEW v \in SUBSET Requests
  PROVE  LET new == [row EXCEPT !.writers = v]
         IN  /\ new \in RowType /\ new.writers = v
             /\ new.status = row.status /\ new.room = row.room
             /\ new.start = row.start /\ new.end = row.end
<1>1. [row EXCEPT !.writers = v] \in RowType
  BY DEF RowType
<1> QED BY <1>1 DEF RowType

LEMMA RewriteEffect ==
  ASSUME TypeOK, ReqInv, NEW r \in Requests, UpdateWrite(r)
  PROVE  LET q == req[r]
             row == bookings[q.booking]
             new == bookings'[q.booking]
         IN  /\ ReqInv' /\ Others(r) /\ TypeOK'
             /\ DOMAIN bookings' = DOMAIN bookings
             /\ \A b \in DOMAIN bookings : b # q.booking => bookings'[b] = bookings[b]
             /\ new.room = IF q.toRoom = Keep THEN row.room ELSE q.toRoom
             /\ new.start = IF q.toSlot = Keep THEN row.start ELSE q.toSlot.start
             /\ new.end = IF q.toSlot = Keep THEN row.end ELSE q.toSlot.end
             /\ new.writers = row.writers \cup {r}
             /\ \/ /\ new.status = "PENDING" /\ req'[r].pc = "revoke"
                   /\ req'[r].booking = q.booking /\ "booking" \in DOMAIN req'[r]
                \/ new.status = row.status /\ req'[r] = [pc |-> "done"]
<1> DEFINE q == req[r]
           b == q.booking
           row == bookings[b]
           v1 == IF q.toRoom = Keep THEN row.room ELSE q.toRoom
           m1 == [row EXCEPT !.room = v1]
           v2 == IF q.toSlot = Keep THEN m1.start ELSE q.toSlot.start
           m2 == [m1 EXCEPT !.start = v2]
           v3 == IF q.toSlot = Keep THEN m2.end ELSE q.toSlot.end
           m3 == [m2 EXCEPT !.end = v3]
           v4 == IF q.again THEN "PENDING" ELSE m3.status
           m4 == [m3 EXCEPT !.status = v4]
           v5 == m4.writers \cup {r}
           new == [row EXCEPT !.room = IF q.toRoom = Keep THEN @ ELSE q.toRoom,
                              !.start = IF q.toSlot = Keep THEN @ ELSE q.toSlot.start,
                              !.end = IF q.toSlot = Keep THEN @ ELSE q.toSlot.end,
                              !.status = IF q.again THEN "PENDING" ELSE @,
                              !.writers = @ \cup {r}]
           p == [q EXCEPT !.pc = "revoke"]
<1>1. /\ q \in UpdateType /\ b \in DOMAIN bookings /\ q.pc = "rewrite"
      /\ q.toRoom # Keep => q.room = q.toRoom
      /\ q.toSlot # Keep => q.slot = q.toSlot
      /\ q.toRoom \in Rooms \cup {Keep} /\ q.toSlot \in Ranges \cup {Keep} /\ q.again \in BOOLEAN
  BY AtUpdate DEF UpdateWrite
<1>2. /\ bookings \in Seq(RowType) /\ row \in RowType /\ DOMAIN bookings = 1..Len(bookings)
      /\ Len(bookings) \in Nat
  BY <1>1, RaceTypes
<1>3. q.toSlot # Keep => q.toSlot.start \in Nat /\ q.toSlot.end \in Nat
  BY <1>1, SlotAssumption
<1>4. bookings' = [bookings EXCEPT ![b] = new]
  BY <1>1, <1>2 DEF UpdateWrite
<1>5. /\ new \in RowType
      /\ new.room = IF q.toRoom = Keep THEN row.room ELSE q.toRoom
      /\ new.start = IF q.toSlot = Keep THEN row.start ELSE q.toSlot.start
      /\ new.end = IF q.toSlot = Keep THEN row.end ELSE q.toSlot.end
      /\ new.writers = row.writers \cup {r}
      /\ new.status = IF q.again THEN "PENDING" ELSE row.status
  <2>0. new = [m4 EXCEPT !.writers = v5]
    OBVIOUS
  <2>1. /\ m1 \in RowType /\ m1.room = v1 /\ m1.start = row.start /\ m1.end = row.end
        /\ m1.status = row.status /\ m1.writers = row.writers
    <3>1. v1 \in Rooms
      BY <1>1, <1>2 DEF RowType
    <3> QED BY <1>2, <3>1, PutRoom
  <2> HIDE DEF m1, new
  <2>2. /\ m2 \in RowType /\ m2.start = v2 /\ m2.room = m1.room /\ m2.end = m1.end
        /\ m2.status = m1.status /\ m2.writers = m1.writers
    <3>1. v2 \in Nat
      BY <1>3, <2>1 DEF RowType
    <3> QED BY <2>1, <3>1, PutStart
  <2> HIDE DEF m2
  <2>3. /\ m3 \in RowType /\ m3.end = v3 /\ m3.room = m2.room /\ m3.start = m2.start
        /\ m3.status = m2.status /\ m3.writers = m2.writers
    <3>1. v3 \in Nat
      BY <1>3, <2>2 DEF RowType
    <3> QED BY <2>2, <3>1, PutEnd
  <2> HIDE DEF m3
  <2>4. /\ m4 \in RowType /\ m4.status = v4 /\ m4.room = m3.room /\ m4.start = m3.start
        /\ m4.end = m3.end /\ m4.writers = m3.writers
    <3>1. v4 \in BookingStates
      BY <2>3 DEF RowType, BookingStates, ActiveStates
    <3> QED BY <2>3, <3>1, PutStatus
  <2> HIDE DEF m4
  <2>5. /\ new \in RowType /\ new.writers = v5 /\ new.room = m4.room /\ new.start = m4.start
        /\ new.end = m4.end /\ new.status = m4.status
    <3>1. v5 \in SUBSET Requests
      BY <2>4 DEF RowType
    <3> QED BY <2>0, <2>4, <3>1, PutWriters
  <2> HIDE DEF new
  <2> QED BY <2>1, <2>2, <2>3, <2>4, <2>5
<1> HIDE DEF new
<1>6. /\ bookings' \in Seq(RowType) /\ DOMAIN bookings' = DOMAIN bookings /\ bookings'[b] = new
      /\ \A c \in DOMAIN bookings : c # b => bookings'[c] = bookings[c]
  BY <1>1, <1>2, <1>5, <1>4
<1>7. /\ \/ q.again /\ Goes(r, p)
         \/ ~q.again /\ Stops(r)
      /\ UNCHANGED <<steps, together, revived>>
  BY DEF UpdateWrite
<1>8. /\ ReqInv' /\ Others(r)
      /\ \/ /\ q.again /\ req'[r].pc = "revoke"
            /\ req'[r].booking = b /\ "booking" \in DOMAIN req'[r]
         \/ ~q.again /\ req'[r] = [pc |-> "done"]
  <2>1. CASE ~q.again /\ Stops(r)
    BY <1>6, <2>1, StopEffect
  <2>2. CASE q.again /\ Goes(r, p)
    <3>1. /\ p \in UpdateType /\ p.pc = "revoke" /\ p.booking = b
          /\ p.toRoom = q.toRoom /\ p.toSlot = q.toSlot /\ p.room = q.room /\ p.slot = q.slot
          /\ "booking" \in DOMAIN p
      BY <1>1, Restaged
    <3> HIDE DEF p
    <3>2. p \in ReqType /\ ReqOK(p, DOMAIN bookings')
      BY <1>1, <1>6, <3>1 DEF ReqType, ReqOK
    <3> QED BY <1>6, <2>2, <3>1, <3>2, ReqAfter, OneGoes DEF Others
  <2> QED BY <1>7, <2>1, <2>2
<1>9. TypeOK'
  BY <1>6, <1>7, <1>8, TypeAfter DEF TypeOK
<1> QED BY <1>5, <1>6, <1>8, <1>9

LEMMA RevokeEffect ==
  ASSUME TypeOK, ReqInv, NEW r \in Requests, UpdateRevoke(r)
  PROVE  LET b == req[r].booking
         IN  /\ ReqInv' /\ Others(r) /\ TypeOK'
             /\ req'[r].pc = "issue" /\ req'[r].booking = b /\ "booking" \in DOMAIN req'[r]
             /\ req'[r].series = <<>> /\ req'[r].k = 0
             /\ \A s \in DOMAIN steps : s[2] # b => s \in DOMAIN steps' /\ steps'[s] = steps[s]
<1> DEFINE b == req[r].booking
           p == [ pc |-> "issue", slots |-> TRUE, booking |-> b, level |-> 1,
                  room |-> req[r].room, series |-> <<>>, k |-> 0 ]
<1>1. b \in DOMAIN bookings /\ b \in Nat /\ req[r].room \in Rooms
  <2>1. req[r].pc = "revoke"
    BY DEF UpdateRevoke
  <2>2. b \in DOMAIN bookings /\ req[r].room \in Rooms
    BY <2>1, AtUpdate
  <2> QED BY <2>2, RaceTypes
<1>2. Len(Issued(req[r].room)) \in Nat \ {0}
  BY <1>1, IssuedLevels
<1>3. /\ Goes(r, p) /\ UNCHANGED <<bookings, together, revived>>
      /\ steps' = [s \in DOMAIN steps \ StepsOf(b) |-> steps[s]]
  BY DEF UpdateRevoke
<1>4. p \in IssueType
  BY <1>1 DEF IssueType
<1>5. p \in ReqType /\ ReqOK(p, DOMAIN bookings')
  BY <1>1, <1>2, <1>3, <1>4 DEF ReqType, ReqOK
<1>6. p.pc = "issue" /\ p.booking = b /\ p.series = <<>> /\ p.k = 0 /\ "booking" \in DOMAIN p
  OBVIOUS
<1> HIDE DEF p
<1>7. ReqInv' /\ Others(r) /\ req'[r] = p
  BY <1>3, <1>5, ReqAfter, OneGoes DEF Others
<1>8. /\ DOMAIN steps' \subseteq DOMAIN steps
      /\ \A s \in DOMAIN steps' : steps'[s] = steps[s]
      /\ \A s \in DOMAIN steps : s[2] # b => s \in DOMAIN steps'
  BY <1>3 DEF StepsOf
<1>9. TypeOK'
  BY <1>3, <1>7, <1>8, TypeSteps DEF TypeOK
<1> QED BY <1>6, <1>7, <1>8, <1>9

LEMMA ResendReadEffect ==
  ASSUME ReqInv, TypeOK, NEW r \in Requests, NEW b \in DOMAIN bookings, ResendRead(r, b)
  PROVE  LET q == req'[r]
         IN  /\ ReqInv' /\ Others(r)
             /\ q.pc = "resend" /\ q.booking = b /\ q.room = bookings[b].room
<1> DEFINE p == [ pc |-> "resend", slots |-> TRUE, booking |-> b, room |-> bookings[b].room ]
<1>1. Goes(r, p) /\ bookings' = bookings /\ b \in Nat /\ bookings[b].room \in Rooms
  BY RaceTypes DEF ResendRead, RowType
<1>2. /\ p \in ResendType /\ p.pc = "resend" /\ p.booking = b /\ p.room = bookings[b].room
  BY <1>1 DEF ResendType
<1> HIDE DEF p
<1>3. p \in ReqType /\ ReqOK(p, DOMAIN bookings')
  BY <1>1, <1>2 DEF ReqType, ReqOK
<1> QED BY <1>1, <1>2, <1>3, ReqAfter, OneGoes DEF Others

LEMMA ResendEffect ==
  ASSUME TypeOK, ReqInv, NEW r \in Requests, ResendWrite(r)
  PROVE  LET q == req[r]
             row == bookings[q.booking]
             new == bookings'[q.booking]
         IN  /\ ReqInv' /\ Others(r) /\ TypeOK' /\ req'[r] = [pc |-> "done"]
             /\ q.booking \in DOMAIN bookings /\ DOMAIN bookings' = DOMAIN bookings
             /\ \A b \in DOMAIN bookings : b # q.booking => bookings'[b] = bookings[b]
             /\ new.room = q.room /\ new.start = row.start /\ new.end = row.end
             /\ new.status = row.status /\ new.writers = row.writers \cup {r}
<1> DEFINE q == req[r]
           b == q.booking
           row == bookings[b]
           moved == [row EXCEPT !.room = q.room]
           new == [moved EXCEPT !.writers = row.writers \cup {r}]
<1>1. q.room \in Rooms /\ b \in DOMAIN bookings
  BY AtResend DEF ResendWrite
<1>2. /\ bookings \in Seq(RowType) /\ row \in RowType /\ DOMAIN bookings = 1..Len(bookings)
      /\ Len(bookings) \in Nat
  BY <1>1, RaceTypes
<1>3. bookings' = [bookings EXCEPT ![b] = new]
  <2>1. moved.writers = row.writers
    BY <1>2 DEF RowType
  <2>2. new = [row EXCEPT !.room = q.room, !.writers = @ \cup {r}]
    BY <2>1
  <2> HIDE DEF new
  <2> QED BY <1>1, <1>2, <2>2 DEF ResendWrite
<1>4. /\ new \in RowType /\ new.room = q.room /\ new.start = row.start /\ new.end = row.end
      /\ new.status = row.status /\ new.writers = row.writers \cup {r}
  <2>1. /\ moved \in RowType /\ moved.room = q.room
        /\ moved.status = row.status /\ moved.start = row.start
        /\ moved.end = row.end /\ moved.writers = row.writers
    BY <1>1, <1>2, PutRoom
  <2> HIDE DEF moved
  <2>2. row.writers \cup {r} \in SUBSET Requests
    BY <1>2 DEF RowType
  <2> QED BY <2>1, <2>2, PutWriters
<1> HIDE DEF new
<1>5. /\ bookings' \in Seq(RowType) /\ DOMAIN bookings' = DOMAIN bookings /\ bookings'[b] = new
      /\ \A c \in DOMAIN bookings : c # b => bookings'[c] = bookings[c]
  BY <1>1, <1>2, <1>3, <1>4
<1>6. Stops(r) /\ UNCHANGED <<steps, together, revived>>
  BY DEF ResendWrite
<1>7. ReqInv' /\ Others(r) /\ req'[r] = [pc |-> "done"]
  BY <1>5, <1>6, StopEffect
<1>8. TypeOK'
  BY <1>5, <1>6, <1>7, TypeAfter DEF TypeOK
<1> QED BY <1>1, <1>4, <1>5, <1>7, <1>8

LEMMA CancelReadEffect ==
  ASSUME ReqInv, TypeOK, NEW r \in Requests, NEW b \in DOMAIN bookings, CancelRead(r, b)
  PROVE  ReqInv' /\ Others(r) /\ req'[r].pc = "cancel" /\ req'[r].slots = FALSE
<1> DEFINE p == [pc |-> "cancel", slots |-> FALSE, booking |-> b]
<1>1. Goes(r, p) /\ bookings' = bookings /\ b \in Nat
  BY RaceTypes DEF CancelRead
<1>2. p \in CancelType /\ p.pc = "cancel" /\ p.slots = FALSE /\ p.booking = b
  BY <1>1 DEF CancelType
<1> HIDE DEF p
<1>3. p \in ReqType /\ ReqOK(p, DOMAIN bookings')
  BY <1>1, <1>2 DEF ReqType, ReqOK
<1> QED BY <1>1, <1>2, <1>3, ReqAfter, OneGoes DEF Others

(* A write of the status alone.                                             *)
LEMMA StatusWritten ==
  ASSUME TypeOK, NEW b \in DOMAIN bookings, NEW state \in BookingStates,
         bookings' = [bookings EXCEPT ![b].status = state]
  PROVE  LET row == bookings[b]
             new == bookings'[b]
         IN  /\ bookings' \in Seq(RowType) /\ DOMAIN bookings' = DOMAIN bookings
             /\ \A c \in DOMAIN bookings : c # b => bookings'[c] = bookings[c]
             /\ new.status = state /\ new.room = row.room /\ new.start = row.start
             /\ new.end = row.end /\ new.writers = row.writers
<1> DEFINE row == bookings[b]
           new == [row EXCEPT !.status = state]
<1>1. /\ bookings \in Seq(RowType) /\ row \in RowType /\ DOMAIN bookings = 1..Len(bookings)
      /\ Len(bookings) \in Nat
  BY RaceTypes
<1>2. new \in RowType
  BY <1>1 DEF RowType
<1>3. /\ new.status = state /\ new.room = row.room /\ new.start = row.start
      /\ new.end = row.end /\ new.writers = row.writers
  BY <1>1 DEF RowType
<1>4. bookings' = [bookings EXCEPT ![b] = new]
  BY <1>1
<1> HIDE DEF new
<1> QED BY <1>1, <1>2, <1>3, <1>4

(* A cancellation and a decision settle the status of one row.              *)
LEMMA StatusEffect ==
  ASSUME TypeOK, ReqInv, NEW r \in Requests, CancelWrite(r) \/ DecideSettle(r)
  PROVE  LET b == req[r].booking
             new == bookings'[b]
         IN  /\ ReqInv' /\ Others(r) /\ TypeOK' /\ req'[r] = [pc |-> "done"]
             /\ b \in DOMAIN bookings /\ DOMAIN bookings' = DOMAIN bookings
             /\ \A c \in DOMAIN bookings : c # b => bookings'[c] = bookings[c]
             /\ new.room = bookings[b].room /\ new.start = bookings[b].start
             /\ new.end = bookings[b].end /\ new.writers = bookings[b].writers
             /\ new.status # "PENDING"
             /\ Active(new) => Active(bookings[b]) \/ b \in revived'
             /\ revived \subseteq revived' /\ UNCHANGED <<steps, together>>
<1> DEFINE b == req[r].booking
<1>1. Stops(r) /\ UNCHANGED <<steps, together>>
  BY DEF CancelWrite, DecideSettle
<1>2. CASE CancelWrite(r)
  <2>1. b \in DOMAIN bookings
    BY <1>2, AtCancel DEF CancelWrite
  <2>2. /\ bookings' = [bookings EXCEPT ![b].status = "CANCELLED"] /\ revived' = revived
        /\ "CANCELLED" \in BookingStates
    BY <1>2 DEF CancelWrite, BookingStates
  <2>3. LET new == bookings'[b]
        IN  /\ bookings' \in Seq(RowType) /\ DOMAIN bookings' = DOMAIN bookings
            /\ \A c \in DOMAIN bookings : c # b => bookings'[c] = bookings[c]
            /\ new.status = "CANCELLED" /\ new.room = bookings[b].room
            /\ new.start = bookings[b].start /\ new.end = bookings[b].end
            /\ new.writers = bookings[b].writers
    BY <2>1, <2>2, StatusWritten
  <2>4. ReqInv' /\ Others(r) /\ req'[r] = [pc |-> "done"]
    BY <1>1, <2>3, StopEffect
  <2>5. TypeOK'
    BY <1>1, <2>2, <2>3, <2>4, TypeAfter DEF TypeOK
  <2> QED BY <1>1, <2>1, <2>2, <2>3, <2>4, <2>5 DEF Active, ActiveStates
<1>3. CASE DecideSettle(r)
  <2> DEFINE state == req[r].outcome
  <2>1. b \in DOMAIN bookings /\ state \in {"APPROVED", "REJECTED"}
    BY <1>3, AtSettle DEF DecideSettle
  <2>2. /\ bookings' = [bookings EXCEPT ![b].status = state] /\ state \in BookingStates
        /\ revived' = IF state = "APPROVED" /\ ~Active(bookings[b])
                      THEN revived \cup {b} ELSE revived
    BY <1>3, <2>1 DEF DecideSettle, BookingStates, ActiveStates
  <2>3. LET new == bookings'[b]
        IN  /\ bookings' \in Seq(RowType) /\ DOMAIN bookings' = DOMAIN bookings
            /\ \A c \in DOMAIN bookings : c # b => bookings'[c] = bookings[c]
            /\ new.status = state /\ new.room = bookings[b].room
            /\ new.start = bookings[b].start /\ new.end = bookings[b].end
            /\ new.writers = bookings[b].writers
    BY <2>1, <2>2, StatusWritten
  <2>4. ReqInv' /\ Others(r) /\ req'[r] = [pc |-> "done"]
    BY <1>1, <2>3, StopEffect
  <2>5. revived' \subseteq DOMAIN bookings /\ revived \subseteq revived'
    BY <2>1, <2>2 DEF TypeOK
  <2>6. TypeOK'
    BY <1>1, <2>3, <2>4, <2>5, TypeAfter DEF TypeOK
  <2>7. Active(bookings'[b]) => Active(bookings[b]) \/ b \in revived'
    BY <2>1, <2>2, <2>3 DEF Active, ActiveStates
  <2> QED BY <1>1, <2>1, <2>3, <2>4, <2>5, <2>6, <2>7
<1> QED BY <1>2, <1>3

LEMMA DecideReadEffect ==
  ASSUME TypeOK, ReqInv, NEW r \in Requests, NEW s \in DOMAIN steps, NEW user \in Users,
         NEW decision \in {"APPROVED", "REJECTED"}, DecideRead(r, user, s, decision)
  PROVE  ReqInv' /\ Others(r) /\ req'[r].pc = "decide" /\ req'[r].slots = FALSE
<1> DEFINE p == [ pc |-> "decide", slots |-> FALSE, booking |-> s[2], step |-> s,
                  user |-> user, decision |-> decision ]
<1>1. Goes(r, p) /\ bookings' = bookings
  BY DEF DecideRead
<1>2. s \in StepIds /\ s[2] \in DOMAIN bookings
  BY DEF TypeOK
<1>3. s[2] \in Nat
  BY <1>2 DEF StepIds
<1>4. p \in DecideType /\ p.pc = "decide" /\ p.slots = FALSE /\ p.booking = s[2] /\ p.step = s
  BY <1>2, <1>3 DEF DecideType
<1> HIDE DEF p
<1>5. p \in ReqType /\ ReqOK(p, DOMAIN bookings')
  BY <1>1, <1>2, <1>4 DEF ReqType, ReqOK
<1> QED BY <1>1, <1>4, <1>5, ReqAfter, OneGoes DEF Others

LEMMA ToTally ==
  ASSUME NEW q \in DecideType
  PROVE  LET p == [q EXCEPT !.pc = "tally"]
         IN  /\ p \in DecideType /\ p.pc = "tally" /\ p.booking = q.booking /\ p.step = q.step
             /\ p.slots = FALSE /\ "booking" \in DOMAIN p
<1>1. [q EXCEPT !.pc = "tally"] \in DecideType
  BY DEF DecideType
<1>2. LET p == [q EXCEPT !.pc = "tally"]
      IN  p.pc = "tally" /\ p.booking = q.booking /\ p.step = q.step /\ p.slots = FALSE
  BY DEF DecideType
<1>3. "booking" \in DOMAIN [q EXCEPT !.pc = "tally"]
  BY DEF DecideType
<1> QED BY <1>1, <1>2, <1>3

LEMMA DecideWriteEffect ==
  ASSUME TypeOK, ReqInv, NEW r \in Requests, DecideWrite(r)
  PROVE  LET q == req[r]
         IN  /\ ReqInv' /\ Others(r) /\ TypeOK' /\ DOMAIN steps' = DOMAIN steps
             /\ \/ /\ req'[r].pc = "tally" /\ req'[r].booking = q.booking
                   /\ "booking" \in DOMAIN req'[r] /\ req'[r].slots = FALSE
                   /\ \A s \in DOMAIN steps : s[2] # q.booking => steps'[s] = steps[s]
                \/ req'[r] = [pc |-> "done"] /\ steps' = steps
<1> DEFINE q == req[r]
           s == q.step
           p == [q EXCEPT !.pc = "tally"]
           row == [approver |-> q.user, decision |-> q.decision]
<1>1. /\ q \in DecideType /\ q.booking \in DOMAIN bookings /\ q.booking = s[2] /\ q.user \in Users
      /\ q.decision \in {"APPROVED", "REJECTED"} /\ q.pc = "decide"
  BY AtDecide DEF DecideWrite
<1>2. UNCHANGED <<bookings, together, revived>>
  BY DEF DecideWrite
<1>3. CASE s \notin DOMAIN steps
  <2>1. steps' = steps /\ Stops(r)
    BY <1>3 DEF DecideWrite
  <2>2. ReqInv' /\ Others(r) /\ req'[r] = [pc |-> "done"]
    BY <1>2, <2>1, StopEffect
  <2>3. TypeOK'
    BY <1>2, <2>1, <2>2, TypeSteps DEF TypeOK
  <2> QED BY <2>1, <2>2, <2>3
<1>4. CASE s \in DOMAIN steps
  <2>1. steps' = [steps EXCEPT ![s] = row] /\ Goes(r, p)
    BY <1>4 DEF DecideWrite
  <2>2. /\ p \in DecideType /\ p.pc = "tally" /\ p.booking = q.booking /\ p.step = s
        /\ p.slots = FALSE /\ "booking" \in DOMAIN p
    BY <1>1, ToTally
  <2>3. row \in StepType
    BY <1>1 DEF StepType, Decisions
  <2> HIDE DEF p, row
  <2>4. p \in ReqType /\ ReqOK(p, DOMAIN bookings')
    BY <1>1, <1>2, <2>2 DEF ReqType, ReqOK
  <2>5. ReqInv' /\ Others(r) /\ req'[r] = p
    BY <1>2, <2>1, <2>4, ReqAfter, OneGoes DEF Others
  <2>6. /\ DOMAIN steps' = DOMAIN steps /\ steps'[s] = row
        /\ \A x \in DOMAIN steps : x # s => steps'[x] = steps[x]
    BY <1>4, <2>1
  <2>7. \A x \in DOMAIN steps : x[2] # q.booking => steps'[x] = steps[x]
    BY <1>1, <2>6
  <2>8. TypeOK'
    BY <1>2, <2>3, <2>5, <2>6, TypeSteps DEF TypeOK
  <2> QED BY <2>2, <2>5, <2>6, <2>7, <2>8
<1> QED BY <1>3, <1>4

LEMMA TallyEffect ==
  ASSUME TypeOK, ReqInv, NEW r \in Requests, DecideTally(r)
  PROVE  LET q == req[r]
         IN  /\ ReqInv' /\ Others(r) /\ q.booking \in DOMAIN bookings
             /\ \/ /\ req'[r].pc = "settle" /\ req'[r].booking = q.booking
                   /\ "booking" \in DOMAIN req'[r] /\ req'[r].slots = FALSE
                \/ req'[r] = [pc |-> "done"] /\ Open(q.booking)
<1> DEFINE q == req[r]
           found == [s \in StepsOf(q.booking) |-> steps[s]]
           o == Outcome(found)
           p == [pc |-> "settle", slots |-> FALSE, booking |-> q.booking, outcome |-> o]
<1>1. q \in DecideType /\ q.booking \in DOMAIN bookings /\ q.booking \in Nat
  <2>1. q.pc = "tally"
    BY DEF DecideTally
  <2>2. q \in DecideType /\ q.booking \in DOMAIN bookings
    BY <2>1, AtDecide
  <2> QED BY <2>2, RaceTypes
<1>2. bookings' = bookings
  BY DEF DecideTally
<1>3. \/ o = "PENDING" /\ Stops(r)
      \/ o # "PENDING" /\ Goes(r, p)
  BY DEF DecideTally
<1>4. o \in {"PENDING", "APPROVED", "REJECTED"}
  BY DEF Outcome
<1>5. CASE o = "PENDING" /\ Stops(r)
  <2>1. ReqInv' /\ Others(r) /\ req'[r] = [pc |-> "done"]
    BY <1>2, <1>5, StopEffect
  <2>2. PICK s \in DOMAIN found :
          found[s].decision # "APPROVED" /\ found[s].decision # "REJECTED"
    BY <1>5 DEF Outcome
  <2>3. s \in DOMAIN steps /\ s[2] = q.booking /\ found[s] = steps[s]
    BY <2>2 DEF StepsOf
  <2>4. steps[s].decision \in Decisions
    BY <2>3 DEF TypeOK, StepType
  <2>5. steps[s].decision = "PENDING"
    BY <2>2, <2>3, <2>4 DEF Decisions
  <2> QED BY <1>1, <2>1, <2>3, <2>5 DEF Open
<1>6. CASE o # "PENDING" /\ Goes(r, p)
  <2> HIDE DEF o
  <2>1. /\ p \in SettleType /\ p.pc = "settle" /\ p.booking = q.booking /\ "booking" \in DOMAIN p
        /\ p.slots = FALSE
    BY <1>1, <1>4, <1>6 DEF SettleType
  <2> HIDE DEF p
  <2>2. p \in ReqType /\ ReqOK(p, DOMAIN bookings')
    BY <1>1, <1>2, <2>1 DEF ReqType, ReqOK
  <2> QED BY <1>1, <1>2, <1>6, <2>1, <2>2, ReqAfter, OneGoes DEF Others
<1> QED BY <1>3, <1>5, <1>6

(* A request that dies keeps what it carried.                               *)
LEMMA Dies ==
  ASSUME NEW q \in ReqType, q.pc \notin {"idle", "done", "dead"}
  PROVE  LET p == [q EXCEPT !.pc = "dead"]
         IN  /\ p \in ReqType /\ p.pc = "dead"
             /\ "booking" \in DOMAIN q => "booking" \in DOMAIN p /\ p.booking = q.booking
<1> DEFINE p == [q EXCEPT !.pc = "dead"]
<1>1. CASE q \in CreateType
  <2>1. p \in CreateType /\ p.pc = "dead" /\ "booking" \notin DOMAIN q
    BY <1>1 DEF CreateType
  <2> QED BY <2>1 DEF ReqType
<1>2. CASE q \in IssueType
  <2>1. p \in IssueType /\ p.pc = "dead" /\ p.booking = q.booking /\ "booking" \in DOMAIN p
    BY <1>2 DEF IssueType
  <2> QED BY <2>1 DEF ReqType
<1>3. CASE q \in UpdateType
  <2>1. p \in UpdateType /\ p.pc = "dead" /\ p.booking = q.booking /\ "booking" \in DOMAIN p
    BY <1>3 DEF UpdateType
  <2> QED BY <2>1 DEF ReqType
<1>4. CASE q \in CancelType
  <2>1. p \in CancelType /\ p.pc = "dead" /\ p.booking = q.booking /\ "booking" \in DOMAIN p
    BY <1>4 DEF CancelType
  <2> QED BY <2>1 DEF ReqType
<1>5. CASE q \in DecideType
  <2>1. p \in DecideType /\ p.pc = "dead" /\ p.booking = q.booking /\ "booking" \in DOMAIN p
    BY <1>5 DEF DecideType
  <2> QED BY <2>1 DEF ReqType
<1>6. CASE q \in SettleType
  <2>1. p \in SettleType /\ p.pc = "dead" /\ p.booking = q.booking /\ "booking" \in DOMAIN p
    BY <1>6 DEF SettleType
  <2> QED BY <2>1 DEF ReqType
<1>7. CASE q \in ResendType
  <2>1. p \in ResendType /\ p.pc = "dead" /\ p.booking = q.booking /\ "booking" \in DOMAIN p
    BY <1>7 DEF ResendType
  <2> QED BY <2>1 DEF ReqType
<1>8. q \notin [pc : {"idle", "done"}]
  OBVIOUS
<1> QED BY <1>1, <1>2, <1>3, <1>4, <1>5, <1>6, <1>7, <1>8 DEF ReqType

LEMMA RestartEffect ==
  ASSUME TypeOK, ReqInv, Restart
  PROVE  /\ ReqInv' /\ TypeOK' /\ UNCHANGED <<bookings, steps, together, revived>>
         /\ \A r \in Requests :
              \/ req'[r] = req[r] /\ req[r].pc \in {"idle", "done", "dead"}
              \/ /\ req'[r].pc = "dead"
                 /\ "booking" \in DOMAIN req[r] =>
                      "booking" \in DOMAIN req'[r] /\ req'[r].booking = req[r].booking
<1>1. /\ UNCHANGED <<bookings, steps, together, revived>> /\ req \in [Requests -> ReqType]
      /\ req' = [r \in Requests |-> IF Live(r) THEN [req[r] EXCEPT !.pc = "dead"] ELSE req[r]]
  BY DEF Restart, ReqInv
<1>2. ASSUME NEW r \in Requests
      PROVE  /\ req'[r] \in ReqType /\ ReqOK(req'[r], DOMAIN bookings)
             /\ \/ req'[r] = req[r] /\ req[r].pc \in {"idle", "done", "dead"}
                \/ /\ req'[r].pc = "dead"
                   /\ "booking" \in DOMAIN req[r] =>
                        "booking" \in DOMAIN req'[r] /\ req'[r].booking = req[r].booking
  <2>1. CASE Live(r)
    <3>1. req'[r] = [req[r] EXCEPT !.pc = "dead"]
      BY <1>1, <2>1
    <3>2. req[r] \in ReqType /\ req[r].pc \notin {"idle", "done", "dead"}
      BY <1>1, <2>1 DEF Live
    <3>3. /\ req'[r] \in ReqType /\ req'[r].pc = "dead"
          /\ "booking" \in DOMAIN req[r] =>
               "booking" \in DOMAIN req'[r] /\ req'[r].booking = req[r].booking
      BY <3>1, <3>2, Dies, Zenon
    <3> QED BY <3>3 DEF ReqOK
  <2>2. CASE ~Live(r)
    BY <1>1, <2>2 DEF Live, ReqInv
  <2> QED BY <2>1, <2>2
<1>3. ReqInv'
  BY <1>1, <1>2 DEF ReqInv
<1>4. TypeOK'
  BY <1>1, <1>3, TypeAfter DEF TypeOK
<1> QED BY <1>1, <1>2, <1>3, <1>4

-----------------------------------------------------------------------------
(* Types *)

LEMMA TypeStays ==
  ASSUME TypeOK, ReqInv', UNCHANGED <<bookings, steps, revived>>,
         together' = together \/ \E r \in Requests : Overlaps(r)
  PROVE  TypeOK'
<1>1. together' \subseteq SUBSET Requests
  BY DEF TypeOK, Overlaps
<1> QED BY <1>1, TypeAfter DEF TypeOK

LEMMA TypesStep ==
  ASSUME TypeOK, ReqInv, [Next]_vars
  PROVE  TypeOK' /\ ReqInv'
<1>1. ASSUME NEW r \in Requests, Begin(r)
      PROVE  TypeOK' /\ ReqInv'
  <2>1. ASSUME NEW room \in Rooms, NEW series \in Serieses, CreateStart(r, room, series)
        PROVE  TypeOK' /\ ReqInv'
    BY <2>1, StartEffect, TypeStays DEF CreateStart
  <2>2. ASSUME NEW b \in DOMAIN bookings, NEW toRoom \in Rooms \cup {Keep},
               NEW toSlot \in Ranges \cup {Keep}, UpdateRead(r, b, toRoom, toSlot)
        PROVE  TypeOK' /\ ReqInv'
    BY <2>2, ReadEffect, TypeStays DEF UpdateRead
  <2>3. ASSUME NEW b \in DOMAIN bookings, CancelRead(r, b)
        PROVE  TypeOK' /\ ReqInv'
    BY <2>3, CancelReadEffect, TypeStays DEF CancelRead
  <2>4. ASSUME NEW s \in DOMAIN steps, NEW user \in Users,
               NEW decision \in {"APPROVED", "REJECTED"}, DecideRead(r, user, s, decision)
        PROVE  TypeOK' /\ ReqInv'
    BY <2>4, DecideReadEffect, TypeStays DEF DecideRead
  <2>5. ASSUME NEW b \in DOMAIN bookings, ResendRead(r, b)
        PROVE  TypeOK' /\ ReqInv'
    BY <2>5, ResendReadEffect, TypeStays DEF ResendRead
  <2> QED BY <1>1, <2>1, <2>2, <2>3, <2>4, <2>5 DEF Begin
<1>2. ASSUME NEW r \in Requests, Continue(r)
      PROVE  TypeOK' /\ ReqInv'
  <2>1. CASE CreateCheck(r)
    BY <2>1, CheckEffect, TypeStays DEF CreateCheck
  <2>2. CASE CreateInsert(r)
    BY <2>2, InsertEffect
  <2>3. CASE IssueStep(r)
    BY <2>3, IssueEffect
  <2>4. CASE UpdateCheck(r)
    BY <2>4, RecheckEffect, TypeStays DEF UpdateCheck
  <2>5. CASE UpdateWrite(r)
    BY <2>5, RewriteEffect
  <2>6. CASE UpdateRevoke(r)
    BY <2>6, RevokeEffect
  <2>7. CASE CancelWrite(r) \/ DecideSettle(r)
    BY <2>7, StatusEffect
  <2>8. CASE DecideWrite(r)
    BY <2>8, DecideWriteEffect
  <2>9. CASE DecideTally(r)
    BY <2>9, TallyEffect, TypeStays DEF DecideTally
  <2>10. CASE ResendWrite(r)
    BY <2>10, ResendEffect
  <2> QED BY <1>2, <2>1, <2>2, <2>3, <2>4, <2>5, <2>6, <2>7, <2>8, <2>9, <2>10 DEF Continue
<1>3. CASE Restart
  BY <1>3, RestartEffect
<1>4. CASE UNCHANGED vars
  BY <1>4 DEF vars, TypeOK, ReqInv
<1> QED BY <1>1, <1>2, <1>3, <1>4 DEF Next

-----------------------------------------------------------------------------
(* No booking is left waiting *)

LEMMA StillWorking ==
  ASSUME NEW r \in Requests, Others(r), NEW b, Working(b), ~WorkingOn(req[r], b)
  PROVE  \E s \in Requests : WorkingOn(req'[s], b)
BY DEF Working, Others

(* A step of r leaves a booking PENDING only with r at work on it, with a   *)
(* step to decide, or as it was.                                            *)
LEMMA PendingAfter ==
  ASSUME PendingInv, NEW r \in Requests, Others(r),
         \A b \in DOMAIN bookings' :
           \/ bookings'[b].status # "PENDING"
           \/ WorkingOn(req'[r], b)
           \/ \E s \in DOMAIN steps' : s[2] = b /\ steps'[s].decision = "PENDING"
           \/ /\ b \in DOMAIN bookings /\ bookings[b].status = "PENDING"
              /\ ~WorkingOn(req[r], b)
              /\ \A s \in DOMAIN steps :
                   s[2] = b => s \in DOMAIN steps' /\ steps'[s] = steps[s]
  PROVE  PendingInv'
<1>1. ASSUME NEW b \in DOMAIN bookings', bookings'[b].status = "PENDING",
             ~ \E s \in Requests : WorkingOn(req'[s], b)
      PROVE  \E s \in DOMAIN steps' : s[2] = b /\ steps'[s].decision = "PENDING"
  <2>1. CASE /\ b \in DOMAIN bookings /\ bookings[b].status = "PENDING"
             /\ ~WorkingOn(req[r], b)
             /\ \A s \in DOMAIN steps :
                  s[2] = b => s \in DOMAIN steps' /\ steps'[s] = steps[s]
    <3>1. ~Working(b)
      BY <1>1, <2>1, StillWorking
    <3>2. PICK s \in DOMAIN steps : s[2] = b /\ steps[s].decision = "PENDING"
      BY <2>1, <3>1 DEF PendingInv, Open
    <3> QED BY <2>1, <3>2
  <2> QED BY <1>1, <2>1
<1> QED BY <1>1 DEF PendingInv, Working, Open

(* A step that leaves the tables alone, of a request at work on nothing.    *)
LEMMA PendingIdle ==
  ASSUME PendingInv, NEW r \in Requests, Others(r), UNCHANGED <<bookings, steps>>,
         req[r].pc \notin {"revoke", "issue", "tally", "settle", "dead"}
  PROVE  PendingInv'
<1>1. \A b : ~WorkingOn(req[r], b)
  BY DEF WorkingOn
<1> QED BY <1>1, PendingAfter

LEMMA PendingStep ==
  ASSUME TypeOK, ReqInv, PendingInv, [Next]_vars
  PROVE  PendingInv'
<1>1. ASSUME NEW r \in Requests, Begin(r)
      PROVE  PendingInv'
  <2>1. ASSUME NEW room \in Rooms, NEW series \in Serieses, CreateStart(r, room, series)
        PROVE  PendingInv'
    BY <2>1, StartEffect, PendingIdle DEF CreateStart
  <2>2. ASSUME NEW b \in DOMAIN bookings, NEW toRoom \in Rooms \cup {Keep},
               NEW toSlot \in Ranges \cup {Keep}, UpdateRead(r, b, toRoom, toSlot)
        PROVE  PendingInv'
    BY <2>2, ReadEffect, PendingIdle DEF UpdateRead
  <2>3. ASSUME NEW b \in DOMAIN bookings, CancelRead(r, b)
        PROVE  PendingInv'
    BY <2>3, CancelReadEffect, PendingIdle DEF CancelRead
  <2>4. ASSUME NEW s \in DOMAIN steps, NEW user \in Users,
               NEW decision \in {"APPROVED", "REJECTED"}, DecideRead(r, user, s, decision)
        PROVE  PendingInv'
    BY <2>4, DecideReadEffect, PendingIdle DEF DecideRead
  <2>5. ASSUME NEW b \in DOMAIN bookings, ResendRead(r, b)
        PROVE  PendingInv'
    BY <2>5, ResendReadEffect, PendingIdle DEF ResendRead
  <2> QED BY <1>1, <2>1, <2>2, <2>3, <2>4, <2>5 DEF Begin
<1>2. ASSUME NEW r \in Requests, Continue(r)
      PROVE  PendingInv'
  <2>1. CASE CreateCheck(r)
    BY <2>1, CheckEffect, PendingIdle DEF CreateCheck
  <2>2. CASE CreateInsert(r)
    <3> DEFINE n == Len(bookings) + 1
    <3>1. /\ Others(r) /\ DOMAIN bookings' = 1..n /\ steps' = steps
          /\ \A b \in DOMAIN bookings : bookings'[b] = bookings[b]
          /\ bookings'[n].status # "PENDING" \/ WorkingOn(req'[r], n)
      BY <2>2, InsertEffect DEF CreateInsert, WorkingOn
    <3>2. \A b : ~WorkingOn(req[r], b)
      BY <2>2 DEF CreateInsert, WorkingOn
    <3>3. DOMAIN bookings = 1..Len(bookings) /\ Len(bookings) \in Nat
      BY RaceTypes
    <3>4. \A b \in DOMAIN bookings' : b = n \/ b \in DOMAIN bookings
      BY <3>1, <3>3
    <3> QED BY <3>1, <3>2, <3>4, PendingAfter
  <2>3. CASE IssueStep(r)
    <3> DEFINE q == req[r]
               id == <<r, q.booking, q.level>>
    <3>1. /\ Others(r)
          /\ DOMAIN steps' = DOMAIN steps \cup {id} /\ steps'[id].decision = "PENDING"
          /\ \A s \in DOMAIN steps : s # id => steps'[s] = steps[s]
      BY <2>3, IssueEffect
    <3>2. bookings' = bookings /\ \A b : b # q.booking => ~WorkingOn(q, b)
      BY <2>3 DEF IssueStep, WorkingOn
    <3>3. id[2] = q.booking
      OBVIOUS
    <3> HIDE DEF id
    <3>4. ASSUME NEW b \in DOMAIN bookings, bookings[b].status = "PENDING"
          PROVE  \/ \E s \in DOMAIN steps' : s[2] = b /\ steps'[s].decision = "PENDING"
                 \/ /\ ~WorkingOn(q, b)
                    /\ \A s \in DOMAIN steps :
                         s[2] = b => s \in DOMAIN steps' /\ steps'[s] = steps[s]
      <4>1. CASE b = q.booking
        BY <3>1, <3>3, <4>1
      <4>2. CASE b # q.booking
        BY <3>1, <3>2, <3>3, <4>2
      <4> QED BY <4>1, <4>2
    <3> QED BY <3>1, <3>2, <3>4, PendingAfter
  <2>4. CASE UpdateCheck(r)
    BY <2>4, RecheckEffect, PendingIdle DEF UpdateCheck
  <2>5. CASE UpdateWrite(r)
    <3> DEFINE q == req[r]
    <3>1. /\ Others(r) /\ DOMAIN bookings' = DOMAIN bookings /\ steps' = steps
          /\ \A b \in DOMAIN bookings : b # q.booking => bookings'[b] = bookings[b]
          /\ \/ WorkingOn(req'[r], q.booking)
             \/ bookings'[q.booking].status = bookings[q.booking].status
      BY <2>5, RewriteEffect DEF UpdateWrite, WorkingOn
    <3>2. \A b : ~WorkingOn(q, b)
      BY <2>5 DEF UpdateWrite, WorkingOn
    <3>3. \A b \in DOMAIN bookings' :
            \/ WorkingOn(req'[r], b)
            \/ bookings'[b].status = bookings[b].status
      BY <3>1
    <3> QED BY <3>1, <3>2, <3>3, PendingAfter
  <2>6. CASE UpdateRevoke(r)
    <3> DEFINE q == req[r]
    <3>1. /\ Others(r) /\ WorkingOn(req'[r], q.booking)
          /\ \A s \in DOMAIN steps : s[2] # q.booking => s \in DOMAIN steps' /\ steps'[s] = steps[s]
      BY <2>6, RevokeEffect DEF WorkingOn
    <3>2. bookings' = bookings /\ \A b : b # q.booking => ~WorkingOn(q, b)
      BY <2>6 DEF UpdateRevoke, WorkingOn
    <3> QED BY <3>1, <3>2, PendingAfter
  <2>7. CASE CancelWrite(r) \/ DecideSettle(r)
    <3> DEFINE q == req[r]
    <3>1. /\ Others(r) /\ DOMAIN bookings' = DOMAIN bookings /\ steps' = steps
          /\ \A b \in DOMAIN bookings : b # q.booking => bookings'[b] = bookings[b]
          /\ bookings'[q.booking].status # "PENDING"
      BY <2>7, StatusEffect
    <3>2. \A b : b # q.booking => ~WorkingOn(q, b)
      BY DEF WorkingOn
    <3> QED BY <3>1, <3>2, PendingAfter
  <2>8. CASE DecideWrite(r)
    <3> DEFINE q == req[r]
    <3>1. /\ Others(r) /\ DOMAIN steps' = DOMAIN steps
          /\ \/ /\ WorkingOn(req'[r], q.booking)
                /\ \A s \in DOMAIN steps : s[2] # q.booking => steps'[s] = steps[s]
             \/ steps' = steps
      BY <2>8, DecideWriteEffect DEF WorkingOn
    <3>2. bookings' = bookings /\ \A b : ~WorkingOn(q, b)
      BY <2>8 DEF DecideWrite, WorkingOn
    <3> QED BY <3>1, <3>2, PendingAfter
  <2>9. CASE DecideTally(r)
    <3> DEFINE q == req[r]
    <3>1. /\ Others(r)
          /\ \/ WorkingOn(req'[r], q.booking)
             \/ \E s \in DOMAIN steps : s[2] = q.booking /\ steps[s].decision = "PENDING"
      BY <2>9, TallyEffect DEF WorkingOn, Open
    <3>2. UNCHANGED <<bookings, steps>> /\ \A b : b # q.booking => ~WorkingOn(q, b)
      BY <2>9 DEF DecideTally, WorkingOn
    <3> QED BY <3>1, <3>2, PendingAfter
  <2>10. CASE ResendWrite(r)
    <3> DEFINE q == req[r]
    <3>1. /\ Others(r) /\ DOMAIN bookings' = DOMAIN bookings /\ steps' = steps
          /\ \A b \in DOMAIN bookings : b # q.booking => bookings'[b] = bookings[b]
          /\ bookings'[q.booking].status = bookings[q.booking].status
      BY <2>10, ResendEffect DEF ResendWrite
    <3>2. \A b : ~WorkingOn(q, b)
      BY <2>10 DEF ResendWrite, WorkingOn
    <3>3. \A b \in DOMAIN bookings' : bookings'[b].status = bookings[b].status
      BY <3>1
    <3> QED BY <3>1, <3>2, <3>3, PendingAfter
  <2> QED BY <1>2, <2>1, <2>2, <2>3, <2>4, <2>5, <2>6, <2>7, <2>8, <2>9, <2>10 DEF Continue
<1>3. CASE Restart
  <2>1. UNCHANGED <<bookings, steps>>
    BY <1>3 DEF Restart
  <2>2. ASSUME NEW b, Working(b)
        PROVE  \E r \in Requests : WorkingOn(req'[r], b)
    <3>1. PICK r \in Requests : WorkingOn(req[r], b)
      BY <2>2 DEF Working
    <3>2. WorkingOn(req'[r], b)
      BY <1>3, <3>1, RestartEffect DEF WorkingOn
    <3> QED BY <3>2
  <2> QED BY <2>1, <2>2 DEF PendingInv, Working, Open
<1>4. CASE UNCHANGED vars
  BY <1>4 DEF vars, PendingInv, Working, Open
<1> QED BY <1>1, <1>2, <1>3, <1>4 DEF Next

-----------------------------------------------------------------------------
(* What a step does to the slots *)

SameSlot(x, y) ==
  /\ y.room = x.room /\ y.start = x.start /\ y.end = x.end
  /\ x.writers \subseteq y.writers

(* A row is where it was, and does not come back to life unnoticed; or a    *)
(* create or an update r has written it.                                    *)
Stays(b) ==
  /\ b \in DOMAIN bookings
  /\ SameSlot(bookings[b], bookings'[b])
  /\ Active(bookings'[b]) => Active(bookings[b]) \/ b \in revived'

Wrote(r, b) == r \in bookings'[b].writers /\ Writing(req[r])

RowsAfter(r) ==
  /\ together \subseteq together' /\ revived \subseteq revived'
  /\ DOMAIN bookings \subseteq DOMAIN bookings'
  /\ \A b \in DOMAIN bookings' : Stays(b) \/ Wrote(r, b)

LEMMA SameTable ==
  ASSUME UNCHANGED <<bookings, revived>>
  PROVE  \A b \in DOMAIN bookings' : Stays(b)
BY DEF Stays, SameSlot

LEMMA SameRows ==
  ASSUME NEW r, UNCHANGED <<bookings, revived>>, together \subseteq together'
  PROVE  RowsAfter(r)
BY SameTable DEF RowsAfter

LEMMA WritingCreate ==
  ASSUME ReqInv, NEW r \in Requests,
         req[r].pc \in {"check", "insert", "issue", "recheck", "rewrite", "revoke", "resend"}
  PROVE  Writing(req[r])
<1>1. req[r].slots = TRUE
  BY AtCreate, AtIssue, AtUpdate, AtResend
<1> QED BY <1>1 DEF Writing

LEMMA FindersWrite ==
  ASSUME ReqInv, NEW r \in Requests, NEW c \in Found(req[r])
  PROVE  Writing(req[r])
<1>1. req[r].pc \in {"check", "insert", "issue", "rewrite"}
  BY DEF Found
<1> QED BY <1>1, WritingCreate

(* Whoever is at work on slots together with r finds the rows r writes      *)
(* marked.                                                                  *)
LEMMA MarkedForOthers ==
  ASSUME TogetherInv, NEW r \in Requests, NEW s \in Requests, r # s, Writing(req[s]),
         NEW row, r \in row.writers, Writing(req[r]), NEW pairs, together \subseteq pairs
  PROVE  Raced(s, row, pairs)
<1>1. {s, r} \in together
  BY DEF TogetherInv
<1> QED BY <1>1 DEF Raced

LEMMA TogetherAfter ==
  ASSUME TogetherInv, NEW r \in Requests, Others(r),
         \/ together' = together /\ (Writing(req'[r]) => Writing(req[r]))
         \/ Overlaps(r)
  PROVE  TogetherInv'
<1>1. together \subseteq together'
  BY DEF Overlaps
<1>2. ASSUME NEW s \in Requests, s # r, Writing(req[s]), Writing(req'[r])
      PROVE  {r, s} \in together'
  <2>1. CASE Overlaps(r)
    <3>1. WritesSlots(s)
      BY <1>2 DEF WritesSlots, Live, Writing
    <3> QED BY <2>1, <3>1 DEF Overlaps
  <2>2. CASE together' = together /\ (Writing(req'[r]) => Writing(req[r]))
    BY <1>2, <2>2 DEF TogetherInv
  <2> QED BY <2>1, <2>2
<1>3. ASSUME NEW s \in Requests, NEW t \in Requests, s # t, Writing(req'[s]), Writing(req'[t])
      PROVE  {s, t} \in together'
  <2>1. CASE s = r
    BY <1>2, <1>3, <2>1 DEF Others
  <2>2. CASE t = r
    <3>1. {t, s} = {s, t}
      OBVIOUS
    <3> QED BY <1>2, <1>3, <2>2, <3>1 DEF Others
  <2>3. CASE s # r /\ t # r
    BY <1>1, <1>3, <2>3 DEF Others, TogetherInv
  <2> QED BY <2>1, <2>2, <2>3
<1> QED BY <1>3 DEF TogetherInv

LEMMA StillInTheWay ==
  ASSUME NEW x, NEW y, NEW c, SameSlot(x, y), Active(x), InTheWay(y, c)
  PROVE  InTheWay(x, c)
BY DEF SameSlot, InTheWay, Disjoint

LEMMA StillRaced ==
  ASSUME NEW r, NEW x, NEW y, SameSlot(x, y), NEW pairs, NEW more, pairs \subseteq more,
         Raced(r, x, pairs)
  PROVE  Raced(r, y, more)
BY DEF SameSlot, Raced

LEMMA CoveredStays ==
  ASSUME NEW s, NEW c, NEW b \in DOMAIN bookings' \ revived',
         Covered(s, c, bookings, revived, together),
         Stays(b), together \subseteq together', revived \subseteq revived',
         b # c.except, InTheWay(bookings'[b], c)
  PROVE  Raced(s, bookings'[b], together')
<1>1. b \in DOMAIN bookings \ revived /\ SameSlot(bookings[b], bookings'[b])
      /\ Active(bookings[b])
  BY DEF Stays, InTheWay
<1>2. InTheWay(bookings[b], c)
  BY <1>1, StillInTheWay
<1>3. Raced(s, bookings[b], together)
  BY <1>1, <1>2 DEF Covered
<1> QED BY <1>1, <1>3, StillRaced

(* What others have found is unaffected by a step of r; what r finds is to  *)
(* be shown.                                                                *)
LEMMA FoundAfter ==
  ASSUME ReqInv, FoundInv, TogetherInv, NEW r \in Requests, Others(r), RowsAfter(r),
         \A c \in Found(req'[r]) : Covered(r, c, bookings', revived', together')
  PROVE  FoundInv'
<1>1. ASSUME NEW s \in Requests, NEW c \in Found(req'[s]),
             NEW b \in DOMAIN bookings' \ revived', b # c.except, InTheWay(bookings'[b], c)
      PROVE  Raced(s, bookings'[b], together')
  <2>1. CASE s = r
    BY <1>1, <2>1 DEF Covered
  <2>2. CASE s # r
    <3>1. c \in Found(req[s])
      BY <1>1, <2>2 DEF Others
    <3>2. Covered(s, c, bookings, revived, together) /\ Writing(req[s])
      BY <3>1, FindersWrite DEF FoundInv
    <3>3. CASE Stays(b)
      BY <1>1, <3>2, <3>3, CoveredStays DEF RowsAfter
    <3>4. CASE Wrote(r, b)
      BY <2>2, <3>2, <3>4, MarkedForOthers DEF RowsAfter, Wrote
    <3> QED BY <3>3, <3>4 DEF RowsAfter
  <2> QED BY <2>1, <2>2
<1> QED BY <1>1 DEF FoundInv, Covered

(* A step that leaves the tables alone: what was found is still found.      *)
LEMMA FoundStays ==
  ASSUME NEW s, NEW c, Covered(s, c, bookings, revived, together),
         UNCHANGED <<bookings, revived>>, together \subseteq together'
  PROVE  Covered(s, c, bookings', revived', together')
BY DEF Covered, Raced

LEMMA KeptAfter ==
  ASSUME ReqInv, KeptInv, TogetherInv, NEW r \in Requests, Others(r), RowsAfter(r),
         req'[r].pc \in {"recheck", "rewrite", "resend"} =>
           Kept(r, req'[r], bookings'[req'[r].booking], together')
  PROVE  KeptInv'
<1>1. ASSUME NEW s \in Requests, req'[s].pc \in {"recheck", "rewrite", "resend"}
      PROVE  Kept(s, req'[s], bookings'[req'[s].booking], together')
  <2>1. CASE s = r
    BY <1>1, <2>1
  <2>2. CASE s # r
    <3> DEFINE b == req[s].booking
    <3>1. req'[s] = req[s] /\ req[s].pc \in {"recheck", "rewrite", "resend"}
      BY <1>1, <2>2 DEF Others
    <3>2. b \in DOMAIN bookings /\ Writing(req[s]) /\ Kept(s, req[s], bookings[b], together)
      BY <3>1, AtUpdate, AtResend, WritingCreate DEF KeptInv
    <3>3. b \in DOMAIN bookings' /\ together \subseteq together'
      BY <3>2 DEF RowsAfter
    <3>4. CASE Stays(b)
      <4>1. SameSlot(bookings[b], bookings'[b])
        BY <3>4 DEF Stays
      <4>2. CASE Raced(s, bookings[b], together)
        BY <3>1, <3>3, <4>1, <4>2, StillRaced DEF Kept
      <4>3. CASE ~Raced(s, bookings[b], together)
        BY <3>1, <3>2, <4>1, <4>3 DEF Kept, SameSlot
      <4> QED BY <4>2, <4>3
    <3>5. CASE Wrote(r, b)
      <4>1. Raced(s, bookings'[b], together')
        BY <2>2, <3>2, <3>3, <3>5, MarkedForOthers DEF Wrote
      <4> QED BY <3>1, <4>1 DEF Kept
    <3> QED BY <3>3, <3>4, <3>5 DEF RowsAfter
  <2> QED BY <2>1, <2>2
<1> QED BY <1>1 DEF KeptInv

(* Two rows are double-booked; two of their writers were in flight at once. *)
Doubled(x, y) == Active(x) /\ Active(y) /\ x.room = y.room /\ ~Disjoint(x, y)
RacedRows(x, y, pairs) ==
  \E r, s \in x.writers \cup y.writers : r # s /\ {r, s} \in pairs

LEMMA NeedsRace ==
  /\ DoubleBookingNeedsRace <=>
       \A a, b \in DOMAIN bookings \ revived :
         a # b /\ Doubled(bookings[a], bookings[b])
           => RacedRows(bookings[a], bookings[b], together)
  /\ DoubleBookingNeedsRace' <=>
       \A a, b \in DOMAIN bookings' \ revived' :
         a # b /\ Doubled(bookings'[a], bookings'[b])
           => RacedRows(bookings'[a], bookings'[b], together')
BY DEF DoubleBookingNeedsRace, DoubleBooked, Doubled, RacedRows, Active

LEMMA DoubledSymmetric ==
  ASSUME NEW x, NEW y, NEW pairs
  PROVE  /\ Doubled(x, y) => Doubled(y, x)
         /\ RacedRows(x, y, pairs) => RacedRows(y, x, pairs)
BY DEF Doubled, RacedRows, Disjoint

(* At most the row w is written; it is to be shown that it overlaps others  *)
(* only after a race.                                                       *)
LEMMA DoubleAfter ==
  ASSUME DoubleBookingNeedsRace, NEW r, RowsAfter(r), NEW w,
         \A b \in DOMAIN bookings' : b # w => Stays(b),
         w \in DOMAIN bookings' \ revived' =>
           \A b \in DOMAIN bookings' \ revived' :
             b # w /\ Doubled(bookings'[w], bookings'[b])
               => RacedRows(bookings'[w], bookings'[b], together')
  PROVE  DoubleBookingNeedsRace'
<1>1. ASSUME NEW a \in DOMAIN bookings' \ revived', NEW b \in DOMAIN bookings' \ revived',
             a # b, Doubled(bookings'[a], bookings'[b])
      PROVE  RacedRows(bookings'[a], bookings'[b], together')
  <2>1. CASE a = w
    BY <1>1, <2>1
  <2>2. CASE b = w
    BY <1>1, <2>2, DoubledSymmetric
  <2>3. CASE a # w /\ b # w
    <3>1. Stays(a) /\ Stays(b)
      BY <2>3
    <3>2. /\ a \in DOMAIN bookings \ revived /\ b \in DOMAIN bookings \ revived
          /\ Doubled(bookings[a], bookings[b])
      BY <1>1, <3>1 DEF Stays, SameSlot, Doubled, Disjoint, RowsAfter
    <3>3. RacedRows(bookings[a], bookings[b], together)
      BY <1>1, <3>2, NeedsRace
    <3> QED BY <3>1, <3>3 DEF RacedRows, Stays, SameSlot, RowsAfter
  <2> QED BY <2>1, <2>2, <2>3
<1> QED BY <1>1, NeedsRace

-----------------------------------------------------------------------------
(* What a request finds *)

(* A slot the conflict query finds free is free.                            *)
LEMMA ClearSlot ==
  ASSUME TypeOK, NEW room, NEW slot \in SlotType, NEW except, NEW s, NEW c,
         ~Conflict(room, slot, except),
         c.room = room, c.slot = slot, c.except = except
  PROVE  Covered(s, c, bookings, revived, together)
<1>1. ASSUME NEW b \in DOMAIN bookings, b # except, InTheWay(bookings[b], c)
      PROVE  FALSE
  <2>1. bookings[b] \in RowType
    BY RaceTypes
  <2>2. /\ slot.start \in Nat /\ slot.end \in Nat
        /\ bookings[b].start \in Nat /\ bookings[b].end \in Nat
    BY <2>1 DEF SlotType, RowType
  <2>3. Buffer * TicksPerMinute \in Nat
    BY ActorAssumption DEF TicksPerMinute
  <2>4. OverlapsBuffered(slot, bookings[b], Buffer)
    BY <1>1, <2>2, <2>3 DEF InTheWay, Disjoint, OverlapsBuffered
  <2>5. Active(bookings[b]) /\ bookings[b].room = room
    BY <1>1 DEF InTheWay
  <2> QED BY <1>1, <2>4, <2>5 DEF Conflict
<1> QED BY <1>1 DEF Covered

LEMMA FindsNothing ==
  ASSUME NEW q, q.pc \notin {"check", "insert", "issue", "rewrite"}
  PROVE  Found(q) = {}
BY DEF Found

LEMMA SlotFields ==
  ASSUME NEW q, NEW ks, NEW c \in Slots(q, ks)
  PROVE  \E i \in ks : c.room = q.room /\ c.slot = q.series[i] /\ c.except = 0
BY DEF Slots

LEMMA SameOccurrences ==
  ASSUME NEW p, NEW q, p.room = q.room, p.series = q.series, NEW ks, NEW ls, ks \subseteq ls
  PROVE  Slots(p, ks) \subseteq Slots(q, ls)
BY DEF Slots

(* A request whose slots it had already found still finds them covered.     *)
LEMMA NothingNew ==
  ASSUME FoundInv, NEW r \in Requests, Found(req'[r]) \subseteq Found(req[r]),
         UNCHANGED <<bookings, revived>>, together \subseteq together'
  PROVE  \A c \in Found(req'[r]) : Covered(r, c, bookings', revived', together')
BY FoundStays DEF FoundInv

(* What keeps the slots apart.                                             *)
Race == TogetherInv /\ FoundInv /\ KeptInv /\ DoubleBookingNeedsRace

(* A step that leaves the tables alone and finds nothing.                   *)
LEMMA QuietRace ==
  ASSUME TypeOK, ReqInv, Race, NEW r \in Requests, Others(r), UNCHANGED <<bookings, revived>>,
         Found(req'[r]) \subseteq Found(req[r]),
         \/ together' = together /\ (Writing(req'[r]) => Writing(req[r]))
         \/ Overlaps(r),
         req'[r].pc \in {"recheck", "rewrite", "resend"} =>
           Kept(r, req'[r], bookings'[req'[r].booking], together')
  PROVE  Race'
<1>1. together \subseteq together'
  BY DEF Overlaps
<1>2. RowsAfter(r) /\ \A b \in DOMAIN bookings' : Stays(b)
  BY <1>1, SameRows, SameTable
<1>3. TogetherInv'
  BY TogetherAfter DEF Race
<1>4. FoundInv'
  BY <1>1, <1>2, NothingNew, FoundAfter DEF Race
<1>5. KeptInv'
  BY <1>2, KeptAfter DEF Race
<1>6. 0 \notin DOMAIN bookings'
  BY RaceTypes
<1>7. DoubleBookingNeedsRace'
  BY <1>2, <1>6, DoubleAfter DEF Race
<1> QED BY <1>3, <1>4, <1>5, <1>7 DEF Race

(* Requests that take no slot, and those that stop.                         *)
LEMMA OffRace ==
  ASSUME TypeOK, ReqInv, Race, NEW r \in Requests, Others(r), UNCHANGED <<bookings, revived>>,
         together' = together,
         \/ req'[r] = [pc |-> "done"]
         \/ req'[r].pc \in {"cancel", "decide", "tally", "settle"} /\ req'[r].slots = FALSE
  PROVE  Race'
<1>1. req'[r].pc \in {"done", "cancel", "decide", "tally", "settle"}
  OBVIOUS
<1>2. Found(req'[r]) = {}
  BY <1>1, FindsNothing
<1>3. ~Writing(req'[r])
  BY DEF Writing
<1> QED BY <1>1, <1>2, <1>3, QuietRace

LEMMA CheckRace ==
  ASSUME TypeOK, ReqInv, Race, NEW r \in Requests, CreateCheck(r)
  PROVE  Race'
<1> DEFINE q == req[r]
           p == req'[r]
<1>1. /\ q.pc = "check" /\ UNCHANGED <<bookings, revived, together>>
  BY DEF CreateCheck
<1>2. /\ q.series \in Serieses /\ q.k \in 1..Len(q.series) /\ q.room \in Rooms
  BY <1>1, AtCreate
<1>3. Len(q.series) \in Nat \ {0} /\ q.series[q.k] \in SlotType
  BY <1>2, SeriesSlots
<1>4. /\ Others(r)
      /\ \/ p = [pc |-> "done"]
         \/ /\ ~Conflict(q.room, q.series[q.k], 0)
            /\ p.room = q.room /\ p.series = q.series
            /\ \/ p.pc = "check" /\ p.k = q.k + 1
               \/ p.pc = "insert" /\ p.k = 1 /\ q.k = Len(q.series)
  BY CheckEffect
<1>5. CASE p = [pc |-> "done"]
  BY <1>1, <1>4, <1>5, OffRace
<1>6. CASE /\ ~Conflict(q.room, q.series[q.k], 0)
           /\ p.room = q.room /\ p.series = q.series
           /\ \/ p.pc = "check" /\ p.k = q.k + 1
              \/ p.pc = "insert" /\ p.k = 1 /\ q.k = Len(q.series)
  <2>1. Found(p) = Slots(p, 1..q.k)
    <3>1. CASE p.pc = "check" /\ p.k = q.k + 1
      <4>1. (p.k - 1) = q.k
        BY <1>2, <1>3, <3>1
      <4> QED BY <3>1, <4>1 DEF Found
    <3>2. CASE p.pc = "insert" /\ p.k = 1 /\ q.k = Len(q.series)
      BY <1>6, <3>2 DEF Found
    <3> QED BY <1>6, <3>1, <3>2
  <2>2. Found(q) = Slots(q, 1..(q.k - 1))
    BY <1>1 DEF Found
  <2>3. ASSUME NEW c \in Found(p)
        PROVE  Covered(r, c, bookings', revived', together')
    <3>1. PICK i \in 1..q.k : c.room = q.room /\ c.slot = q.series[i] /\ c.except = 0
      <4>1. c \in Slots(p, 1..q.k)
        BY <2>1, <2>3
      <4>2. \E i \in 1..q.k : c.room = p.room /\ c.slot = p.series[i] /\ c.except = 0
        BY <4>1, SlotFields
      <4> QED BY <1>6, <4>2
    <3>2. CASE i = q.k
      <4>1. Covered(r, c, bookings, revived, together)
        BY <1>3, <1>6, <3>1, <3>2, ClearSlot
      <4> QED BY <1>1, <4>1, FoundStays
    <3>3. CASE i # q.k
      <4>1. i \in 1..(q.k - 1)
        BY <1>2, <1>3, <3>1, <3>3
      <4> DEFINE d == [room |-> q.room, slot |-> q.series[i], except |-> 0]
      <4>2. d \in Found(q)
        BY <2>2, <4>1 DEF Slots
      <4>3. Covered(r, d, bookings, revived, together)
        BY <4>2 DEF Race, FoundInv
      <4>4. Covered(r, c, bookings, revived, together)
        BY <3>1, <4>3 DEF Covered, InTheWay
      <4> QED BY <1>1, <4>4, FoundStays
    <3> QED BY <3>2, <3>3
  <2>4. RowsAfter(r) /\ \A b \in DOMAIN bookings' : Stays(b)
    BY <1>1, SameRows, SameTable
  <2>5. TogetherInv'
    <3>1. Writing(q)
      BY <1>1, WritingCreate
    <3> QED BY <1>1, <1>4, <3>1, TogetherAfter DEF Race
  <2>6. FoundInv'
    BY <1>4, <2>3, <2>4, FoundAfter DEF Race
  <2>7. KeptInv'
    BY <1>4, <1>6, <2>4, KeptAfter DEF Race
  <2>8. 0 \notin DOMAIN bookings'
    BY <1>1, RaceTypes
  <2>9. DoubleBookingNeedsRace'
    BY <2>4, <2>8, DoubleAfter DEF Race
  <2> QED BY <2>5, <2>6, <2>7, <2>9 DEF Race
<1> QED BY <1>4, <1>5, <1>6

(* A create stores a slot it has found: whatever stands in its way was      *)
(* written by one in flight with it.  The occurrences still to be stored do *)
(* not meet the one that was.                                               *)
LEMMA InsertRace ==
  ASSUME TypeOK, ReqInv, Race, NEW r \in Requests, CreateInsert(r)
  PROVE  Race'
<1> DEFINE q == req[r]
           p == req'[r]
           n == Len(bookings) + 1
           new == bookings'[n]
           claim(i) == [room |-> q.room, slot |-> q.series[i], except |-> 0]
<1>1. q.pc = "insert" /\ UNCHANGED <<steps, revived, together>>
  BY DEF CreateInsert
<1>2. /\ q.series \in Serieses /\ q.k \in 1..Len(q.series) /\ q.room \in Rooms
  BY <1>1, AtCreate
<1>3. /\ Len(q.series) \in Nat \ {0}
      /\ \A i, j \in 1..Len(q.series) : i # j => Disjoint(q.series[i], q.series[j])
  BY <1>2, SeriesSlots
<1>4. /\ Others(r) /\ DOMAIN bookings' = 1..n
      /\ \A b \in DOMAIN bookings : bookings'[b] = bookings[b]
      /\ new.room = q.room /\ new.start = q.series[q.k].start
      /\ new.end = q.series[q.k].end /\ new.writers = {r}
      /\ \/ p.pc = "issue" /\ p.room = q.room /\ p.series = q.series /\ p.k = q.k
         \/ p = [pc |-> "done"]
         \/ p.pc = "insert" /\ p.room = q.room /\ p.series = q.series /\ p.k = q.k + 1
  BY InsertEffect
<1> HIDE DEF new
<1>5. /\ DOMAIN bookings = 1..Len(bookings) /\ Len(bookings) \in Nat /\ revived \subseteq DOMAIN bookings
  BY RaceTypes DEF TypeOK
<1>6. Writing(q)
  BY <1>1, WritingCreate
<1>7. \A b \in DOMAIN bookings' : b # n => b \in DOMAIN bookings /\ Stays(b)
  BY <1>4, <1>5 DEF Stays, SameSlot
<1>8. RowsAfter(r)
  <2>1. Wrote(r, n)
    BY <1>4, <1>6 DEF Wrote, new
  <2> QED BY <1>1, <1>4, <1>5, <1>7, <2>1 DEF RowsAfter
<1>9. TogetherInv'
  BY <1>1, <1>4, <1>6, TogetherAfter DEF Race
<1>10. \A i \in q.k..Len(q.series) : Covered(r, claim(i), bookings, revived, together)
  <2>1. Found(q) = Slots(q, q.k..Len(q.series))
    BY <1>1 DEF Found
  <2>2. \A i \in q.k..Len(q.series) : claim(i) \in Found(q)
    BY <2>1 DEF Slots
  <2> QED BY <2>2 DEF Race, FoundInv
<1>11. Found(p) \subseteq Slots(q, (q.k + 1)..Len(q.series))
  <2>1. CASE p.pc = "issue" /\ p.room = q.room /\ p.series = q.series /\ p.k = q.k
    BY <2>1 DEF Found, Slots
  <2>2. CASE p = [pc |-> "done"]
    BY <2>2, FindsNothing
  <2>3. CASE p.pc = "insert" /\ p.room = q.room /\ p.series = q.series /\ p.k = q.k + 1
    BY <2>3 DEF Found, Slots
  <2> QED BY <1>4, <2>1, <2>2, <2>3
<1>12. ASSUME NEW c \in Found(p)
       PROVE  Covered(r, c, bookings', revived', together')
  <2>1. PICK i \in (q.k + 1)..Len(q.series) :
          c.room = q.room /\ c.slot = q.series[i] /\ c.except = 0
    <3>1. c \in Slots(q, (q.k + 1)..Len(q.series))
      BY <1>11
    <3> QED BY <3>1, SlotFields
  <2>2. i \in 1..Len(q.series) /\ i # q.k /\ i \in q.k..Len(q.series)
    BY <1>2, <1>3, <2>1
  <2>3. Disjoint(c.slot, new)
    <3>1. Disjoint(q.series[i], q.series[q.k])
      BY <1>2, <1>3, <2>2
    <3> QED BY <1>4, <2>1, <3>1 DEF Disjoint
  <2>4. Covered(r, claim(i), bookings, revived, together)
    BY <1>10, <2>2
  <2>5. Covered(r, c, bookings, revived, together)
    BY <2>1, <2>4 DEF Covered, InTheWay
  <2>6. ASSUME NEW b \in DOMAIN bookings' \ revived', b # c.except, InTheWay(bookings'[b], c)
        PROVE  Raced(r, bookings'[b], together')
    <3>1. b # n
      BY <2>3, <2>6 DEF InTheWay, new
    <3> QED BY <1>1, <1>4, <1>7, <2>5, <2>6, <3>1 DEF Covered
  <2> QED BY <2>6 DEF Covered
<1>13. FoundInv'
  BY <1>4, <1>8, <1>12, FoundAfter DEF Race
<1>14. KeptInv'
  <2>1. p.pc \notin {"recheck", "rewrite", "resend"}
    BY <1>4
  <2> QED BY <1>4, <1>8, <2>1, KeptAfter DEF Race
<1>15. ASSUME NEW b \in DOMAIN bookings' \ revived', b # n, Doubled(new, bookings'[b])
       PROVE  RacedRows(new, bookings'[b], together')
  <2>1. b \in DOMAIN bookings \ revived /\ bookings'[b] = bookings[b] /\ b # 0
    BY <1>1, <1>4, <1>5, <1>7, <1>15
  <2>2. q.k \in q.k..Len(q.series)
    BY <1>2, <1>3
  <2>3. Covered(r, claim(q.k), bookings, revived, together)
    BY <1>10, <2>2
  <2>4. InTheWay(bookings[b], claim(q.k))
    BY <1>4, <1>15, <2>1 DEF Doubled, InTheWay, Disjoint
  <2>5. claim(q.k).except = 0
    OBVIOUS
  <2> HIDE DEF claim
  <2>6. Raced(r, bookings[b], together)
    BY <2>1, <2>3, <2>4, <2>5 DEF Covered
  <2> QED BY <1>1, <1>4, <2>1, <2>6 DEF Raced, RacedRows
<1>16. DoubleBookingNeedsRace'
  BY <1>7, <1>8, <1>15, DoubleAfter DEF Race, new
<1> QED BY <1>9, <1>13, <1>14, <1>16 DEF Race

LEMMA IssueRace ==
  ASSUME TypeOK, ReqInv, Race, NEW r \in Requests, IssueStep(r)
  PROVE  Race'
<1> DEFINE q == req[r]
           p == req'[r]
<1>1. q.pc = "issue" /\ UNCHANGED <<bookings, revived, together>>
  BY DEF IssueStep
<1>2. /\ Others(r)
      /\ \/ p.pc = "issue" /\ p.room = q.room /\ p.series = q.series /\ p.k = q.k
         \/ p = [pc |-> "done"]
         \/ p.pc = "insert" /\ p.room = q.room /\ p.series = q.series /\ p.k = q.k + 1
  BY IssueEffect
<1>3. Found(p) \subseteq Found(q)
  <2>1. CASE p.pc = "issue" /\ p.room = q.room /\ p.series = q.series /\ p.k = q.k
    BY <1>1, <2>1 DEF Found, Slots
  <2>2. CASE p = [pc |-> "done"]
    BY <2>2, FindsNothing
  <2>3. CASE p.pc = "insert" /\ p.room = q.room /\ p.series = q.series /\ p.k = q.k + 1
    BY <1>1, <2>3 DEF Found, Slots
  <2> QED BY <1>2, <2>1, <2>2, <2>3
<1>4. Writing(q)
  BY <1>1, WritingCreate
<1>5. p.pc \notin {"recheck", "rewrite", "resend"}
  BY <1>2
<1> QED BY <1>1, <1>2, <1>3, <1>4, <1>5, QuietRace

LEMMA RecheckRace ==
  ASSUME TypeOK, ReqInv, Race, NEW r \in Requests, UpdateCheck(r)
  PROVE  Race'
<1> DEFINE q == req[r]
           p == req'[r]
<1>1. /\ q.pc = "recheck" /\ UNCHANGED <<bookings, revived, together>>
  BY DEF UpdateCheck
<1>2. /\ Others(r)
      /\ \/ p = [pc |-> "done"]
         \/ /\ ~Conflict(q.room, q.slot, q.booking)
            /\ p.pc = "rewrite" /\ p.booking = q.booking /\ p.toRoom = q.toRoom
            /\ p.toSlot = q.toSlot /\ p.room = q.room /\ p.slot = q.slot
  BY RecheckEffect
<1>3. CASE p = [pc |-> "done"]
  BY <1>1, <1>2, <1>3, OffRace
<1>4. CASE /\ ~Conflict(q.room, q.slot, q.booking)
           /\ p.pc = "rewrite" /\ p.booking = q.booking /\ p.toRoom = q.toRoom
           /\ p.toSlot = q.toSlot /\ p.room = q.room /\ p.slot = q.slot
  <2>1. q.slot \in SlotType /\ Writing(q)
    BY <1>1, AtUpdate, WritingCreate
  <2>2. ASSUME NEW c \in Found(p)
        PROVE  Covered(r, c, bookings', revived', together')
    <3>1. c.room = q.room /\ c.slot = q.slot /\ c.except = q.booking
      BY <1>4, <2>2 DEF Found
    <3>2. Covered(r, c, bookings, revived, together)
      BY <1>4, <2>1, <3>1, ClearSlot
    <3> QED BY <1>1, <3>2, FoundStays
  <2>3. RowsAfter(r) /\ \A b \in DOMAIN bookings' : Stays(b)
    BY <1>1, SameRows, SameTable
  <2>4. TogetherInv'
    BY <1>1, <1>2, <2>1, TogetherAfter DEF Race
  <2>5. FoundInv'
    BY <1>2, <2>2, <2>3, FoundAfter DEF Race
  <2>6. Kept(r, p, bookings'[p.booking], together')
    <3>1. Kept(r, q, bookings[q.booking], together)
      BY <1>1 DEF Race, KeptInv
    <3> QED BY <1>1, <1>4, <3>1 DEF Kept
  <2>7. KeptInv'
    BY <1>2, <2>3, <2>6, KeptAfter DEF Race
  <2>8. 0 \notin DOMAIN bookings'
    BY <1>1, RaceTypes
  <2>9. DoubleBookingNeedsRace'
    BY <2>3, <2>8, DoubleAfter DEF Race
  <2> QED BY <2>4, <2>5, <2>7, <2>9 DEF Race
<1> QED BY <1>2, <1>3, <1>4

(* An update writes the slot it has checked, unless somebody wrote the      *)
(* booking since it was read.                                               *)
LEMMA RewriteRace ==
  ASSUME TypeOK, ReqInv, Race, NEW r \in Requests, UpdateWrite(r)
  PROVE  Race'
<1> DEFINE q == req[r]
           p == req'[r]
           w == q.booking
           row == bookings[w]
           new == bookings'[w]
           claim == [room |-> q.room, slot |-> q.slot, except |-> w]
<1>1. q.pc = "rewrite" /\ UNCHANGED <<steps, revived, together>>
  BY DEF UpdateWrite
<1>2. /\ w \in DOMAIN bookings
      /\ q.toRoom # Keep => q.room = q.toRoom
      /\ q.toSlot # Keep => q.slot = q.toSlot
  BY <1>1, AtUpdate
<1>3. /\ Others(r) /\ DOMAIN bookings' = DOMAIN bookings
      /\ \A b \in DOMAIN bookings : b # w => bookings'[b] = bookings[b]
      /\ new.room = IF q.toRoom = Keep THEN row.room ELSE q.toRoom
      /\ new.start = IF q.toSlot = Keep THEN row.start ELSE q.toSlot.start
      /\ new.end = IF q.toSlot = Keep THEN row.end ELSE q.toSlot.end
      /\ new.writers = row.writers \cup {r}
      /\ p.pc = "revoke" \/ p = [pc |-> "done"]
  BY RewriteEffect
<1> HIDE DEF new
<1>4. Writing(q)
  BY <1>1, WritingCreate
<1>5. \A b \in DOMAIN bookings' : b # w => Stays(b)
  BY <1>3 DEF Stays, SameSlot
<1>6. RowsAfter(r)
  <2>1. Wrote(r, w)
    BY <1>3, <1>4 DEF Wrote, new
  <2> QED BY <1>1, <1>3, <1>5, <2>1 DEF RowsAfter
<1>7. TogetherInv'
  BY <1>1, <1>3, <1>4, TogetherAfter DEF Race
<1>8. p.pc \notin {"check", "insert", "issue", "recheck", "rewrite", "resend"}
  BY <1>3
<1>9. FoundInv'
  <2>1. Found(p) = {}
    BY <1>8, FindsNothing
  <2> QED BY <1>3, <1>6, <2>1, FoundAfter DEF Race
<1>10. KeptInv'
  BY <1>3, <1>6, <1>8, KeptAfter DEF Race
<1>11. ASSUME NEW b \in DOMAIN bookings' \ revived', b # w, Doubled(new, bookings'[b])
       PROVE  RacedRows(new, bookings'[b], together')
  <2>1. b \in DOMAIN bookings \ revived /\ bookings'[b] = bookings[b]
    BY <1>1, <1>3, <1>11
  <2>2. CASE Raced(r, row, together)
    BY <1>1, <1>3, <2>2 DEF Raced, RacedRows
  <2>3. CASE ~Raced(r, row, together)
    <3>1. /\ q.toRoom = Keep => row.room = q.room
          /\ q.toSlot = Keep => row.start = q.slot.start /\ row.end = q.slot.end
      BY <1>1, <2>3 DEF Race, KeptInv, Kept
    <3>2. new.room = q.room /\ new.start = q.slot.start /\ new.end = q.slot.end
      BY <1>2, <1>3, <3>1
    <3>3. Covered(r, claim, bookings, revived, together)
      BY <1>1 DEF Race, FoundInv, Found
    <3>4. claim.except = w /\ claim.room = q.room /\ claim.slot = q.slot
      OBVIOUS
    <3> HIDE DEF claim
    <3>5. InTheWay(bookings[b], claim)
      BY <1>11, <2>1, <3>2, <3>4 DEF Doubled, InTheWay, Disjoint
    <3>6. Raced(r, bookings[b], together)
      BY <1>11, <2>1, <3>3, <3>4, <3>5 DEF Covered
    <3> QED BY <1>1, <1>3, <2>1, <3>6 DEF Raced, RacedRows
  <2> QED BY <2>2, <2>3
<1>12. DoubleBookingNeedsRace'
  BY <1>5, <1>6, <1>11, DoubleAfter DEF Race, new
<1> QED BY <1>7, <1>9, <1>10, <1>12 DEF Race

(* The room written back is the one the booking still has, unless somebody  *)
(* wrote the booking since it was read.                                     *)
LEMMA ResendRace ==
  ASSUME TypeOK, ReqInv, Race, NEW r \in Requests, ResendWrite(r)
  PROVE  Race'
<1> DEFINE q == req[r]
           w == q.booking
           row == bookings[w]
           new == bookings'[w]
<1>1. q.pc = "resend" /\ UNCHANGED <<steps, revived, together>>
  BY DEF ResendWrite
<1>2. /\ Others(r) /\ req'[r] = [pc |-> "done"]
      /\ w \in DOMAIN bookings /\ DOMAIN bookings' = DOMAIN bookings
      /\ \A b \in DOMAIN bookings : b # w => bookings'[b] = bookings[b]
      /\ new.room = q.room /\ new.start = row.start /\ new.end = row.end
      /\ new.status = row.status /\ new.writers = row.writers \cup {r}
  BY ResendEffect
<1> HIDE DEF new
<1>3. Writing(q)
  BY <1>1, WritingCreate
<1>4. \A b \in DOMAIN bookings' : b # w => Stays(b)
  BY <1>2 DEF Stays, SameSlot
<1>5. RowsAfter(r)
  <2>1. Wrote(r, w)
    BY <1>2, <1>3 DEF Wrote, new
  <2> QED BY <1>1, <1>2, <1>4, <2>1 DEF RowsAfter
<1>6. Found(req'[r]) = {} /\ ~Writing(req'[r])
  BY <1>2, FindsNothing DEF Writing
<1>7. TogetherInv'
  BY <1>1, <1>2, <1>6, TogetherAfter DEF Race
<1>8. FoundInv'
  BY <1>2, <1>5, <1>6, FoundAfter DEF Race
<1>9. KeptInv'
  BY <1>2, <1>5, KeptAfter DEF Race
<1>10. ASSUME NEW b \in DOMAIN bookings' \ revived', b # w, Doubled(new, bookings'[b]),
              w \notin revived'
       PROVE  RacedRows(new, bookings'[b], together')
  <2>1. b \in DOMAIN bookings \ revived /\ bookings'[b] = bookings[b] /\ w \notin revived
    BY <1>1, <1>2, <1>10
  <2>2. CASE Raced(r, row, together)
    BY <1>1, <1>2, <2>2 DEF Raced, RacedRows
  <2>3. CASE ~Raced(r, row, together)
    <3>1. row.room = q.room
      BY <1>1, <2>3 DEF Race, KeptInv, Kept
    <3>2. Doubled(row, bookings[b])
      BY <1>2, <1>10, <2>1, <3>1 DEF Doubled, Disjoint, Active
    <3>3. RacedRows(row, bookings[b], together)
      BY <1>2, <1>10, <2>1, <3>2, NeedsRace DEF Race
    <3> QED BY <1>1, <1>2, <2>1, <3>3 DEF RacedRows
  <2> QED BY <2>2, <2>3
<1>11. DoubleBookingNeedsRace'
  BY <1>4, <1>5, <1>10, DoubleAfter DEF Race, new
<1> QED BY <1>7, <1>8, <1>9, <1>11 DEF Race

(* A cancellation or a decision moves no row; what it brings back to life   *)
(* is revived.                                                              *)
LEMMA StatusRace ==
  ASSUME TypeOK, ReqInv, Race, NEW r \in Requests, CancelWrite(r) \/ DecideSettle(r)
  PROVE  Race'
<1> DEFINE w == req[r].booking
<1>1. /\ Others(r) /\ req'[r] = [pc |-> "done"]
      /\ w \in DOMAIN bookings /\ DOMAIN bookings' = DOMAIN bookings
      /\ \A c \in DOMAIN bookings : c # w => bookings'[c] = bookings[c]
      /\ SameSlot(bookings[w], bookings'[w])
      /\ Active(bookings'[w]) => Active(bookings[w]) \/ w \in revived'
      /\ revived \subseteq revived' /\ together' = together
  BY StatusEffect DEF SameSlot
<1>2. \A b \in DOMAIN bookings' : Stays(b)
  BY <1>1 DEF Stays, SameSlot
<1>3. RowsAfter(r)
  BY <1>1, <1>2 DEF RowsAfter
<1>4. ~Writing(req'[r]) /\ Found(req'[r]) = {}
  BY <1>1, FindsNothing DEF Writing
<1>5. TogetherInv'
  BY <1>1, <1>4, TogetherAfter DEF Race
<1>6. FoundInv'
  BY <1>1, <1>3, <1>4, FoundAfter DEF Race
<1>7. KeptInv'
  BY <1>1, <1>3, KeptAfter DEF Race
<1>8. 0 \notin DOMAIN bookings'
  BY <1>1, RaceTypes
<1>9. DoubleBookingNeedsRace'
  BY <1>2, <1>3, <1>8, DoubleAfter DEF Race
<1> QED BY <1>5, <1>6, <1>7, <1>9 DEF Race

LEMMA BeginRace ==
  ASSUME TypeOK, ReqInv, Race, NEW r \in Requests, Begin(r)
  PROVE  Race'
<1>1. ASSUME NEW room \in Rooms, NEW series \in Serieses, CreateStart(r, room, series)
      PROVE  Race'
  <2>1. /\ Others(r) /\ req'[r].pc = "check" /\ req'[r].k = 1
        /\ UNCHANGED <<bookings, revived>> /\ Overlaps(r)
    BY <1>1, StartEffect DEF CreateStart
  <2>2. Found(req'[r]) = {}
    BY <2>1 DEF Found, Slots
  <2> QED BY <2>1, <2>2, QuietRace
<1>2. ASSUME NEW b \in DOMAIN bookings, NEW toRoom \in Rooms \cup {Keep},
             NEW toSlot \in Ranges \cup {Keep}, UpdateRead(r, b, toRoom, toSlot)
      PROVE  Race'
  <2> DEFINE q == req'[r]
  <2>1. /\ Others(r) /\ q.pc = "recheck" /\ q.booking = b /\ q.toRoom = toRoom
        /\ q.toSlot = toSlot
        /\ toRoom = Keep => q.room = bookings[b].room
        /\ toSlot = Keep => q.slot.start = bookings[b].start /\ q.slot.end = bookings[b].end
    BY <1>2, ReadEffect
  <2>2. UNCHANGED <<bookings, revived>> /\ Overlaps(r)
    BY <1>2 DEF UpdateRead
  <2>3. Found(q) = {}
    BY <2>1, FindsNothing
  <2>4. Kept(r, q, bookings'[q.booking], together')
    BY <2>1, <2>2 DEF Kept
  <2> QED BY <2>1, <2>2, <2>3, <2>4, QuietRace
<1>3. ASSUME NEW b \in DOMAIN bookings, CancelRead(r, b)
      PROVE  Race'
  BY <1>3, CancelReadEffect, OffRace DEF CancelRead
<1>4. ASSUME NEW s \in DOMAIN steps, NEW user \in Users,
             NEW decision \in {"APPROVED", "REJECTED"}, DecideRead(r, user, s, decision)
      PROVE  Race'
  BY <1>4, DecideReadEffect, OffRace DEF DecideRead
<1>5. ASSUME NEW b \in DOMAIN bookings, ResendRead(r, b)
      PROVE  Race'
  <2> DEFINE q == req'[r]
  <2>1. /\ Others(r) /\ q.pc = "resend" /\ q.booking = b /\ q.room = bookings[b].room
    BY <1>5, ResendReadEffect
  <2>2. UNCHANGED <<bookings, revived>> /\ Overlaps(r)
    BY <1>5 DEF ResendRead
  <2>3. Found(q) = {}
    BY <2>1, FindsNothing
  <2>4. Kept(r, q, bookings'[q.booking], together')
    BY <2>1, <2>2 DEF Kept
  <2> QED BY <2>1, <2>2, <2>3, <2>4, QuietRace
<1> QED BY <1>1, <1>2, <1>3, <1>4, <1>5 DEF Begin

LEMMA RaceStep ==
  ASSUME TypeOK, ReqInv, Race, [Next]_vars
  PROVE  Race'
<1>1. ASSUME NEW r \in Requests, Continue(r)
      PROVE  Race'
  <2>1. CASE UpdateRevoke(r)
    <3> DEFINE q == req'[r]
    <3>1. /\ Others(r) /\ q.pc = "issue" /\ q.series = <<>> /\ q.k = 0
          /\ UNCHANGED <<bookings, revived, together>>
      BY <2>1, RevokeEffect DEF UpdateRevoke
    <3>2. Found(q) = {}
      BY <3>1 DEF Found, Slots
    <3>3. Writing(req[r])
      BY <2>1, WritingCreate DEF UpdateRevoke
    <3> QED BY <3>1, <3>2, <3>3, QuietRace
  <2>2. CASE DecideWrite(r)
    <3>1. UNCHANGED <<bookings, revived, together>>
      BY <2>2 DEF DecideWrite
    <3> QED BY <2>2, <3>1, DecideWriteEffect, OffRace
  <2>3. CASE DecideTally(r)
    BY <2>3, TallyEffect, OffRace DEF DecideTally
  <2> QED BY <1>1, <2>1, <2>2, <2>3, CheckRace, InsertRace, IssueRace, RecheckRace, RewriteRace,
             ResendRace, StatusRace DEF Continue
<1>2. CASE Restart
  <2>1. UNCHANGED <<bookings, steps, together, revived>>
    BY <1>2 DEF Restart
  <2>2. \A r \in Requests :
          \/ req'[r] = req[r] /\ req[r].pc \in {"idle", "done", "dead"}
          \/ req'[r].pc = "dead"
    BY <1>2, RestartEffect
  <2>3. \A r \in Requests : ~Writing(req'[r]) /\ Found(req'[r]) = {}
                            /\ req'[r].pc \notin {"recheck", "rewrite", "resend"}
    BY <2>2, FindsNothing DEF Writing
  <2>4. TogetherInv' /\ FoundInv' /\ KeptInv'
    BY <2>3 DEF TogetherInv, FoundInv, KeptInv
  <2>5. DoubleBookingNeedsRace'
    BY <2>1, NeedsRace DEF Race
  <2> QED BY <2>4, <2>5 DEF Race
<1>3. CASE UNCHANGED vars
  <2>1. UNCHANGED <<bookings, req, together, revived>>
    BY <1>3 DEF vars
  <2>2. TogetherInv' /\ FoundInv'
    BY <2>1 DEF Race, TogetherInv, FoundInv
  <2>3. KeptInv'
    BY <2>1 DEF Race, KeptInv
  <2>4. DoubleBookingNeedsRace'
    BY <2>1, NeedsRace DEF Race
  <2> QED BY <2>2, <2>3, <2>4 DEF Race
<1> QED BY <1>1, <1>2, <1>3, BeginRace DEF Next

-----------------------------------------------------------------------------
(* The theorems *)

Inv == TypeOK /\ ReqInv /\ PendingInv /\ Race

LEMMA InitInv == Init => Inv
<1> SUFFICES ASSUME Init PROVE Inv
  OBVIOUS
<1>1. /\ bookings \in Seq(RowType) /\ DOMAIN bookings = 1..Len(bookings) /\ Len(bookings) \in Nat
      /\ DOMAIN steps \subseteq {"seed"} \X (DOMAIN bookings) \X (Nat \ {0})
      /\ \A s \in DOMAIN steps : steps[s] \in StepType
  BY SeedAssumption DEF Init
<1>2. \A r \in Requests : req[r] = [pc |-> "idle"]
  BY DEF Init
<1>3. TypeOK
  <2>1. \A s \in DOMAIN steps : s \in StepIds /\ s[2] \in DOMAIN bookings
    BY <1>1 DEF StepIds
  <2> QED BY <1>1, <1>2, <2>1 DEF Init, TypeOK, Stages
<1>4. ReqInv
  BY DEF Init, ReqInv, ReqType, ReqOK
<1>5. PendingInv
  BY SeedAssumption DEF Init, PendingInv, Open
<1>6. Race
  <2>1. TogetherInv /\ FoundInv /\ KeptInv
    BY <1>2, FindsNothing DEF TogetherInv, FoundInv, KeptInv, Writing
  <2>2. DoubleBookingNeedsRace
    BY SeedAssumption DEF Init, DoubleBookingNeedsRace, DoubleBooked, Active
  <2> QED BY <2>1, <2>2 DEF Race
<1> QED BY <1>3, <1>4, <1>5, <1>6 DEF Inv

(* The inductive invariant: the requests carry what their stage says, those *)
(* on slots know of each other, and what they found free is free or taken   *)
(* by one of them.                                                          *)
THEOREM RaceInvariant == Spec => []Inv
<1>1. Init => Inv
  BY InitInv
<1>2. Inv /\ [Next]_vars => Inv'
  BY TypesStep, PendingStep, RaceStep DEF Inv
<1> QED BY <1>1, <1>2, PTL DEF Spec

(* However the database calls of the handlers interleave, and wherever the  *)
(* process restarts: two active bookings of a room overlap only if two of   *)
(* the requests that wrote them were in flight together.                    *)
THEOREM RaceSafe == Spec => []RaceInv
<1>1. Inv => RaceInv
  BY DEF Inv, Race, RaceInv
<1> QED BY <1>1, RaceInvariant, PTL

(* However deciders, moves and cancellations interleave: once the requests  *)
(* on a booking have returned, it is not PENDING without an open step.      *)
THEOREM StuckNever == Spec => []NeverStuck
<1>1. Inv => NeverStuck
  <2> SUFFICES ASSUME Inv, NEW b \in DOMAIN bookings, bookings[b].status = "PENDING",
                      ~Unfinished(b)
               PROVE  \E s \in StepsOf(b) : steps[s].decision = "PENDING"
    BY DEF NeverStuck
  <2>1. ~Working(b)
    BY DEF Working, WorkingOn, Unfinished
  <2> QED BY <2>1 DEF Inv, PendingInv, Open, StepsOf
<1> QED BY <1>1, RaceInvariant, PTL
=============================================================================
