----------------------------- MODULE Jobs_proofs -----------------------------
(***************************************************************************)
(* Theorems about what repeats itself, for every value of the constants.    *)
(* The interval jobs: what is typed, what a pass still knows of the rows it *)
(* read, and that warnings and reminders are not repeated.  The calls of a  *)
(* browser, which are replayed after a renewal: in whose name they ask.     *)
(***************************************************************************)
EXTENDS Jobs, Session, TLAPS

-----------------------------------------------------------------------------
(* The invariant, in parts. *)

(* The rows a pass of the dispatcher may hold *)
SeenType == UNION { [D -> RowType] : D \in SUBSET Bookings }

DispatchType ==
  [ at : {"idle", "deliver", "record"}, time : Nat, seen : SeenType,
    cur : Bookings \cup {None}, already : SUBSET Offsets ]

(* No other writer touches remindersSent, so what the dispatcher read of it *)
(* stays true until it records.                                             *)
DispatchInv ==
  /\ dispatch \in DispatchType
  /\ \A b \in DOMAIN dispatch.seen : dispatch.seen[b].sent = rows[b].sent
  /\ dispatch.cur # None => dispatch.cur \in DOMAIN dispatch.seen
  /\ dispatch.at = "record" => dispatch.cur # None
  /\ dispatch.at = "idle" => dispatch.cur = None

(* The booking about to be warned of is stamped, and nobody was told yet. *)
WarnInv ==
  /\ sweep.at = "warn" =>
       /\ sweep.cur \in Bookings \ lost
       /\ rows[sweep.cur].stamped /\ warned[sweep.cur] = 0
  /\ \A b \in Bookings :
       /\ warned[b] \in {0, 1}
       /\ warned[b] = 1 => rows[b].stamped
       /\ b \in lost => rows[b].stamped /\ warned[b] = 0

(* A booking listed without a request in flight gets none while it is over. *)
RaceInv ==
  \A b \in Bookings \ raced :
    b \in sweep.todo \/ rows[b].stamped =>
      /\ request[b] = None /\ rows[b].slot.end < now
      /\ rows[b].stamped => ~rows[b].used

(* A reminder not on record, nor delivered by the pass under way, was       *)
(* delivered before a failure, if at all.                                   *)
Counted(b, o) == o \in rows[b].sent \/ (dispatch.cur = b /\ o \in dispatch.already)

RepeatInv ==
  \A b \in Bookings, o \in Offsets :
    reminded[<<b, o>>] <= cuts + (IF Counted(b, o) THEN 1 ELSE 0)

-----------------------------------------------------------------------------
(* Types *)

LEMMA SeenElement ==
  ASSUME NEW seen \in SeenType
  PROVE  /\ DOMAIN seen \subseteq Bookings
         /\ seen \in [DOMAIN seen -> RowType]
         /\ \A b \in DOMAIN seen : seen[b] \in RowType
<1>1. PICK D \in SUBSET Bookings : seen \in [D -> RowType]
  BY DEF SeenType
<1> QED BY <1>1

LEMMA SeenIntro ==
  ASSUME NEW D \in SUBSET Bookings, NEW seen \in [D -> RowType]
  PROVE  seen \in SeenType
BY DEF SeenType

LEMMA IdleTypes ==
  /\ NoSweep \in [ at : {"idle", "claim", "warn"}, todo : SUBSET Bookings,
                   cur : Bookings \cup {None} ]
  /\ NoDispatch \in DispatchType
  /\ DOMAIN NoDispatch.seen = {}
<1>1. <<>> \in [{} -> RowType] /\ DOMAIN <<>> = {}
  OBVIOUS
<1>2. <<>> \in SeenType
  BY <1>1, SeenIntro
<1> QED BY <1>1, <1>2 DEF NoSweep, NoDispatch, DispatchType

LEMMA SweepPastType ==
  ASSUME TypeOK, NEW b \in Bookings
  PROVE  /\ SweepPast(b) \in [ at : {"idle", "claim"}, todo : SUBSET Bookings,
                               cur : Bookings \cup {None} ]
         /\ SweepPast(b).todo \subseteq sweep.todo
BY DEF SweepPast, NoSweep, TypeOK

(* What a request writes is a row, and leaves to the jobs what is theirs. *)
LEMMA WrittenRow ==
  ASSUME NEW row \in RowType, NEW what \in {CheckIn} \cup Slots
  PROVE  /\ Written(row, what) \in RowType
         /\ Written(row, what).sent = row.sent
         /\ Written(row, what).stamped = row.stamped
BY DEF Written, RowType

LEMMA StampedRow ==
  ASSUME NEW row \in RowType
  PROVE  /\ Stamped(row) \in RowType
         /\ Stamped(row).stamped
         /\ Stamped(row).sent = row.sent
         /\ Stamped(row).slot = row.slot
         /\ Stamped(row).used = row.used
BY DEF Stamped, RowType

LEMMA SentRow ==
  ASSUME NEW row \in RowType, NEW S \in SUBSET Offsets
  PROVE  /\ [row EXCEPT !.sent = S] \in RowType
         /\ [row EXCEPT !.sent = S].sent = S
         /\ [row EXCEPT !.sent = S].slot = row.slot
         /\ [row EXCEPT !.sent = S].used = row.used
         /\ [row EXCEPT !.sent = S].stamped = row.stamped
BY DEF RowType

LEMMA StatusRow ==
  ASSUME NEW row \in RowType, NEW status \in ActiveStates \cup {"CANCELLED"}
  PROVE  /\ [row EXCEPT !.status = status] \in RowType
         /\ [row EXCEPT !.status = status].sent = row.sent
         /\ [row EXCEPT !.status = status].slot = row.slot
         /\ [row EXCEPT !.status = status].used = row.used
         /\ [row EXCEPT !.status = status].stamped = row.stamped
BY DEF RowType, ActiveStates

(* A decision or a cancellation *)
Settles(b) == Cancel(b) \/ \E outcome \in {"APPROVED", "CANCELLED"} : Decide(b, outcome)

LEMMA SettlesRow ==
  ASSUME NEW b \in Bookings, Settles(b)
  PROVE  /\ \E status \in ActiveStates \cup {"CANCELLED"} :
              rows' = [rows EXCEPT ![b] = [rows[b] EXCEPT !.status = status]]
         /\ UNCHANGED <<now, request, jobs, told, history>>
BY DEF Settles, Cancel, Decide, ActiveStates

(* The types in one conjunct, the dispatcher's pass in full. *)
TypeInv == TypeOK /\ dispatch \in DispatchType

LEMMA InitTypes == Init => TypeInv
<1> SUFFICES ASSUME Init PROVE TypeInv
  OBVIOUS
<1> USE JobsAssumption
<1>1. rows \in [Bookings -> RowType]
  BY DEF Init, RowType, ActiveStates
<1>2. NoDispatch.at = "idle" /\ NoDispatch.already = {} /\ DOMAIN NoDispatch.seen = {}
  BY IdleTypes DEF NoDispatch
<1> QED BY <1>1, <1>2, IdleTypes DEF Init, TypeInv, TypeOK

(* From a well-typed pass the dispatcher's conjuncts of TypeOK follow. *)
LEMMA DispatchTypes ==
  ASSUME NEW d \in DispatchType
  PROVE  /\ d.at \in {"idle", "deliver", "record"}
         /\ d.already \subseteq Offsets
         /\ DOMAIN d.seen \subseteq Bookings
BY SeenElement DEF DispatchType

LEMMA DispatchStepTypes ==
  ASSUME TypeInv, DispatchInv, DispatchStep
  PROVE  TypeInv'
<1> USE JobsAssumption
<1>1. CASE DispatchStart
  <2> DEFINE due == { b \in Bookings : Upcoming(rows[b], now) /\ Firing(rows[b], now) # {} }
  <2> HIDE DEF due
  <2>1. [b \in due |-> rows[b]] \in SeenType
    <3>1. due \in SUBSET Bookings
      BY DEF due
    <3>2. [b \in due |-> rows[b]] \in [due -> RowType]
      BY <3>1 DEF TypeInv, TypeOK
    <3> QED BY <3>1, <3>2, SeenIntro
  <2>2. dispatch' = [NoDispatch EXCEPT !.at = "deliver", !.time = now,
                                       !.seen = [b \in due |-> rows[b]]]
    BY <1>1 DEF DispatchStart, due
  <2>3. now \in Nat
    BY DEF TypeInv, TypeOK
  <2>4. dispatch' \in DispatchType
    BY <2>1, <2>2, <2>3, IdleTypes DEF DispatchType
  <2> QED BY <1>1, <2>4, DispatchTypes DEF DispatchStart, TypeInv, TypeOK, told, history
<1>2. CASE DispatchRecord
  <2> DEFINE b == dispatch.cur
             rest == [c \in DOMAIN dispatch.seen \ {b} |-> dispatch.seen[c]]
  <2>1. /\ dispatch.seen \in SeenType /\ dispatch.time \in Nat
        /\ b \in DOMAIN dispatch.seen /\ b \in Bookings
    BY <1>2, SeenElement DEF DispatchRecord, DispatchInv, DispatchType
  <2>2. rest \in SeenType
    BY <2>1, SeenElement, SeenIntro
  <2>3. dispatch' \in DispatchType
    BY <1>2, <2>1, <2>2, IdleTypes DEF DispatchRecord, DispatchType
  <2>4. Recorded(dispatch.seen[b], dispatch.already) \subseteq Offsets
    BY <2>1, SeenElement DEF Recorded, TypeInv, DispatchType, RowType
  <2>5. rows' \in [Bookings -> RowType]
    <3> DEFINE S == Recorded(dispatch.seen[b], dispatch.already)
    <3>1. rows' = [rows EXCEPT ![b] = [@ EXCEPT !.sent = S]]
      BY <1>2 DEF DispatchRecord
    <3>2. rows[b] \in RowType
      BY <2>1 DEF TypeInv, TypeOK
    <3> HIDE DEF S
    <3>3. [rows[b] EXCEPT !.sent = S] \in RowType
      BY <2>4, <3>2, SentRow DEF S
    <3> QED BY <2>1, <3>1, <3>3 DEF TypeInv, TypeOK
  <2> QED BY <1>2, <2>3, <2>5, DispatchTypes DEF DispatchRecord, TypeInv, TypeOK, told, history
<1>3. ASSUME NEW b \in DOMAIN dispatch.seen, NEW o \in Offsets, DispatchDeliver(b, o)
      PROVE  TypeInv'
  <2>1. b \in Bookings /\ dispatch.seen[b] \in RowType
    BY SeenElement DEF TypeInv, DispatchType
  <2>2. (IF dispatch.cur = b THEN dispatch.already ELSE dispatch.seen[b].sent) \cup {o}
          \subseteq Offsets
    BY <2>1 DEF TypeInv, DispatchType, RowType
  <2>3. dispatch' \in DispatchType
    BY <1>3, <2>1, <2>2 DEF DispatchDeliver, TypeInv, DispatchType
  <2>4. reminded' \in [Bookings \X Offsets -> Nat]
    BY <1>3, <2>1 DEF DispatchDeliver, TypeInv, TypeOK
  <2> QED BY <1>3, <2>3, <2>4, DispatchTypes DEF DispatchDeliver, TypeInv, TypeOK, history
<1> QED BY <1>1, <1>2, <1>3 DEF DispatchStep

(* What a step leaves as it is, in every row *)
KeepsSent == \A b \in Bookings : rows'[b].sent = rows[b].sent
KeepsStamped == \A b \in Bookings : rows'[b].stamped = rows[b].stamped
KeepsUse ==
  \A b \in Bookings : rows'[b].slot = rows[b].slot /\ rows'[b].used = rows[b].used

(* What a step of a request does to the rows: one row changes, to a row     *)
(* that says the same of what the jobs recorded.                            *)
LEMMA RowSteps ==
  ASSUME TypeInv, NEW b \in Bookings, RequestWrite(b) \/ Settles(b)
  PROVE  /\ rows' \in [Bookings -> RowType]
         /\ KeepsSent /\ KeepsStamped
         /\ \A c \in Bookings \ {b} : rows'[c] = rows[c]
<1>0. rows \in [Bookings -> RowType] /\ request[b] \in {None, CheckIn} \cup Slots
  BY DEF TypeInv, TypeOK
<1>1. CASE RequestWrite(b)
  <2> DEFINE row == Written(rows[b], request[b])
  <2>1. row \in RowType /\ row.sent = rows[b].sent /\ row.stamped = rows[b].stamped
    BY <1>0, <1>1, WrittenRow DEF RequestWrite
  <2>2. rows' = [rows EXCEPT ![b] = row]
    BY <1>1 DEF RequestWrite
  <2> HIDE DEF row
  <2> QED BY <1>0, <2>1, <2>2 DEF KeepsSent, KeepsStamped
<1>2. CASE Settles(b)
  <2>1. PICK status \in ActiveStates \cup {"CANCELLED"} :
          rows' = [rows EXCEPT ![b] = [rows[b] EXCEPT !.status = status]]
    BY <1>2, SettlesRow
  <2> DEFINE row == [rows[b] EXCEPT !.status = status]
  <2>2. row \in RowType /\ row.sent = rows[b].sent /\ row.stamped = rows[b].stamped
    BY <1>0, StatusRow
  <2>3. rows' = [rows EXCEPT ![b] = row]
    BY <2>1
  <2> HIDE DEF row
  <2> QED BY <1>0, <2>2, <2>3 DEF KeepsSent, KeepsStamped
<1> QED BY <1>1, <1>2

LEMMA SettlesKeepsUse ==
  ASSUME TypeInv, NEW b \in Bookings, Settles(b)
  PROVE  KeepsUse
<1>1. PICK status \in ActiveStates \cup {"CANCELLED"} :
        rows' = [rows EXCEPT ![b] = [rows[b] EXCEPT !.status = status]]
  BY SettlesRow
<1> DEFINE row == [rows[b] EXCEPT !.status = status]
<1>2. rows \in [Bookings -> RowType]
  BY DEF TypeInv, TypeOK
<1>3. row.slot = rows[b].slot /\ row.used = rows[b].used
  BY <1>2, StatusRow
<1>4. rows' = [rows EXCEPT ![b] = row]
  BY <1>1
<1> HIDE DEF row
<1> QED BY <1>2, <1>3, <1>4 DEF KeepsUse

(* The record of a row touches nothing but remindersSent. *)
LEMMA RecordRows ==
  ASSUME TypeInv, DispatchInv, DispatchRecord
  PROVE  /\ dispatch.cur \in Bookings
         /\ KeepsUse /\ KeepsStamped
         /\ rows'[dispatch.cur].sent = rows[dispatch.cur].sent \cup dispatch.already
         /\ \A c \in Bookings \ {dispatch.cur} : rows'[c] = rows[c]
<1> DEFINE b == dispatch.cur
           S == Recorded(dispatch.seen[b], dispatch.already)
<1>1. rows \in [Bookings -> RowType]
  BY DEF TypeInv, TypeOK
<1>2. b \in DOMAIN dispatch.seen /\ b \in Bookings /\ dispatch.seen[b] \in RowType
  BY SeenElement DEF DispatchRecord, DispatchInv, DispatchType
<1>3. S = rows[b].sent \cup dispatch.already
  BY <1>2 DEF Recorded, DispatchInv
<1>4. S \in SUBSET Offsets
  BY <1>1, <1>2, <1>3 DEF TypeInv, DispatchType, RowType
<1>5. rows' = [rows EXCEPT ![b] = [@ EXCEPT !.sent = S]]
  BY DEF DispatchRecord
<1> HIDE DEF S
<1> DEFINE row == [rows[b] EXCEPT !.sent = S]
<1>6. /\ row.sent = S /\ row.slot = rows[b].slot /\ row.used = rows[b].used
      /\ row.stamped = rows[b].stamped
  BY <1>1, <1>2, <1>4, SentRow
<1>7. rows' = [rows EXCEPT ![b] = row]
  BY <1>5
<1> HIDE DEF row
<1> QED BY <1>1, <1>2, <1>3, <1>6, <1>7 DEF KeepsUse, KeepsStamped

LEMMA ClaimRows ==
  ASSUME TypeInv, NEW b \in Bookings, SweepClaim(b)
  PROVE  /\ rows' \in [Bookings -> RowType]
         /\ KeepsSent /\ KeepsUse
         /\ \A c \in Bookings \ {b} : rows'[c] = rows[c]
         /\ \/ /\ ~rows[b].stamped /\ ~rows[b].used
               /\ rows'[b].stamped
               /\ sweep' = [sweep EXCEPT !.at = "warn", !.cur = b]
            \/ rows' = rows /\ sweep' = SweepPast(b)
<1>0. rows \in [Bookings -> RowType]
  BY DEF TypeInv, TypeOK
<1>1. CASE ~rows[b].stamped /\ ~rows[b].used
  <2>1. /\ rows' = [rows EXCEPT ![b] = Stamped(rows[b])]
        /\ sweep' = [sweep EXCEPT !.at = "warn", !.cur = b]
    BY <1>1 DEF SweepClaim
  <2> QED BY <1>0, <1>1, <2>1, StampedRow DEF KeepsSent, KeepsUse
<1>2. CASE ~(~rows[b].stamped /\ ~rows[b].used)
  BY <1>0, <1>2 DEF SweepClaim, KeepsSent, KeepsUse
<1> QED BY <1>1, <1>2

LEMMA SweepStepTypes ==
  ASSUME TypeInv, SweepStep
  PROVE  TypeInv'
<1> USE JobsAssumption
<1>1. CASE SweepStart
  <2>1. sweep' \in [ at : {"idle", "claim", "warn"}, todo : SUBSET Bookings,
                     cur : Bookings \cup {None} ]
    BY <1>1, IdleTypes DEF SweepStart
  <2> QED BY <1>1, <2>1 DEF SweepStart, TypeInv, TypeOK, told
<1>2. CASE SweepWarn
  <2>1. CASE sweep.cur \in Bookings
    BY <1>2, <2>1, SweepPastType DEF SweepWarn, TypeInv, TypeOK, history
  <2>2. CASE sweep.cur = None
    <3>1. warned' = warned
      BY <1>2, <2>2 DEF SweepWarn, TypeInv, TypeOK
    <3>2. SweepPast(None) \in [ at : {"idle", "claim", "warn"}, todo : SUBSET Bookings,
                                cur : Bookings \cup {None} ]
      BY DEF SweepPast, NoSweep, TypeInv, TypeOK
    <3> QED BY <1>2, <2>2, <3>1, <3>2 DEF SweepWarn, TypeInv, TypeOK, history
  <2> QED BY <2>1, <2>2 DEF TypeInv, TypeOK
<1>3. ASSUME NEW b \in Bookings, SweepClaim(b)
      PROVE  TypeInv'
  <2>1. sweep' \in [ at : {"idle", "claim", "warn"}, todo : SUBSET Bookings,
                     cur : Bookings \cup {None} ]
    <3> DEFINE claimed == [sweep EXCEPT !.at = "warn", !.cur = b]
    <3>1. claimed \in [ at : {"idle", "claim", "warn"}, todo : SUBSET Bookings,
                        cur : Bookings \cup {None} ]
      BY DEF TypeInv, TypeOK
    <3>2. sweep' = claimed \/ sweep' = SweepPast(b)
      BY <1>3, ClaimRows
    <3> HIDE DEF claimed
    <3> QED BY <3>1, <3>2, SweepPastType DEF TypeInv
  <2> QED BY <1>3, <2>1, ClaimRows DEF SweepClaim, TypeInv, TypeOK, told, history
<1> QED BY <1>1, <1>2, <1>3 DEF SweepStep

(* What a cut loses is the warning in hand. *)
LEMMA LostIsBooking ==
  ASSUME WarnInv
  PROVE  LostNow \subseteq Bookings
BY DEF LostNow, WarnInv

LEMMA CutTypes ==
  ASSUME TypeInv, WarnInv, SweepFails \/ DispatchFails \/ Restart
  PROVE  TypeInv'
<1>1. cuts' \in 0..MaxCuts
  BY JobsAssumption DEF SweepFails, DispatchFails, Restart, TypeInv, TypeOK
<1>2. CASE SweepFails
  BY <1>1, <1>2, IdleTypes, LostIsBooking DEF SweepFails, TypeInv, TypeOK, told
<1>3. CASE DispatchFails
  BY <1>1, <1>3, IdleTypes, DispatchTypes DEF DispatchFails, TypeInv, TypeOK, told
<1>4. CASE Restart
  <2>1. dispatch' \in DispatchType
    BY <1>4, IdleTypes DEF Restart
  <2>2. request' \in [Bookings -> {None, CheckIn} \cup Slots]
    BY <1>4 DEF Restart
  <2>3. sweep' \in [ at : {"idle", "claim", "warn"}, todo : SUBSET Bookings,
                     cur : Bookings \cup {None} ]
    BY <1>4, IdleTypes DEF Restart
  <2> QED BY <1>1, <1>4, <2>1, <2>2, <2>3, DispatchTypes, LostIsBooking
       DEF Restart, TypeInv, TypeOK, told
<1> QED BY <1>2, <1>3, <1>4

LEMMA RequestTypes ==
  ASSUME TypeInv, NEW b \in Bookings,
         \/ CheckInRead(b) \/ RequestWrite(b) \/ Settles(b)
         \/ \E slot \in Slots : MoveRead(b, slot)
  PROVE  TypeInv'
<1>1. CASE CheckInRead(b)
  BY <1>1 DEF CheckInRead, TypeInv, TypeOK, jobs, told, history
<1>2. ASSUME NEW slot \in Slots, MoveRead(b, slot)
      PROVE  TypeInv'
  BY <1>2 DEF MoveRead, TypeInv, TypeOK, jobs, told, history
<1>3. CASE RequestWrite(b)
  BY <1>3, RowSteps DEF RequestWrite, TypeInv, TypeOK, jobs, told, history
<1>4. CASE Settles(b)
  BY <1>4, RowSteps, SettlesRow DEF TypeInv, TypeOK, jobs, told, history
<1> QED BY <1>1, <1>2, <1>3, <1>4

LEMMA StepTypes ==
  ASSUME TypeInv, DispatchInv, WarnInv, [Next]_vars
  PROVE  TypeInv'
<1>1. CASE Tick
  BY <1>1, JobsAssumption DEF Tick, TypeInv, TypeOK, jobs, told, history
<1>2. CASE UNCHANGED vars
  BY <1>2 DEF vars, TypeInv, TypeOK
<1> QED BY <1>1, <1>2, SweepStepTypes, DispatchStepTypes, CutTypes, RequestTypes DEF Next, Settles

-----------------------------------------------------------------------------
(* What the dispatcher knows *)

LEMMA InitDispatch == Init => DispatchInv
BY IdleTypes DEF Init, DispatchInv, NoDispatch

LEMMA DispatchKnows ==
  ASSUME TypeInv, TypeInv', DispatchInv, [Next]_vars
  PROVE  DispatchInv'
<1>0. /\ rows \in [Bookings -> RowType]
      /\ dispatch \in DispatchType /\ dispatch' \in DispatchType
      /\ DOMAIN dispatch.seen \subseteq Bookings
  BY DispatchTypes DEF TypeInv, TypeOK
<1>1. ASSUME dispatch' = dispatch, rows' = rows \/ KeepsSent
      PROVE  DispatchInv'
  BY <1>0, <1>1 DEF DispatchInv, KeepsSent
<1>2. ASSUME dispatch' = NoDispatch
      PROVE  DispatchInv'
  BY <1>0, <1>2, IdleTypes DEF DispatchInv, NoDispatch
<1>3. CASE DispatchStart
  <2> DEFINE due == { b \in Bookings : Upcoming(rows[b], now) /\ Firing(rows[b], now) # {} }
  <2>1. dispatch' = [NoDispatch EXCEPT !.at = "deliver", !.time = now,
                                       !.seen = [b \in due |-> rows[b]]]
    BY <1>3 DEF DispatchStart
  <2> HIDE DEF due
  <2>2. dispatch'.seen = [b \in due |-> rows[b]] /\ dispatch'.cur = None
        /\ dispatch'.at = "deliver"
    BY <2>1, IdleTypes DEF NoDispatch
  <2>3. rows' = rows
    BY <1>3 DEF DispatchStart
  <2> QED BY <1>0, <2>2, <2>3 DEF DispatchInv
<1>4. CASE DispatchRecord
  <2> DEFINE b == dispatch.cur
             rest == [c \in DOMAIN dispatch.seen \ {b} |-> dispatch.seen[c]]
             S == Recorded(dispatch.seen[b], dispatch.already)
  <2>1. CASE dispatch' = NoDispatch
    BY <1>2, <2>1
  <2>2. CASE dispatch' = [NoDispatch EXCEPT !.at = "deliver", !.time = dispatch.time,
                                            !.seen = rest]
    <3> HIDE DEF rest
    <3>1. dispatch'.seen = rest /\ dispatch'.cur = None /\ dispatch'.at = "deliver"
      BY <2>2, IdleTypes DEF NoDispatch
    <3>2. \A c \in DOMAIN rest : c \in DOMAIN dispatch.seen /\ c # b
                                /\ rest[c] = dispatch.seen[c]
      BY DEF rest
    <3>3. rows' = [rows EXCEPT ![b].sent = S]
      BY <1>4 DEF DispatchRecord
    <3>4. \A c \in Bookings \ {b} : rows'[c] = rows[c]
      BY <1>0, <3>3
    <3> QED BY <1>0, <3>1, <3>2, <3>4 DEF DispatchInv
  <2> QED BY <1>4, <2>1, <2>2 DEF DispatchRecord
<1>5. ASSUME NEW b \in DOMAIN dispatch.seen, NEW o \in Offsets, DispatchDeliver(b, o)
      PROVE  DispatchInv'
  <2>1. dispatch'.seen = dispatch.seen /\ dispatch'.cur = b /\ dispatch'.at # "idle"
    BY <1>0, <1>5 DEF DispatchDeliver, DispatchType
  <2>2. rows' = rows
    BY <1>5 DEF DispatchDeliver
  <2>3. b # None
    BY <1>0, JobsAssumption
  <2> QED BY <1>0, <2>1, <2>2, <2>3 DEF DispatchInv
<1>6. CASE SweepStep
  <2>1. CASE SweepStart
    BY <1>1, <2>1 DEF SweepStart
  <2>2. CASE SweepWarn
    BY <1>1, <2>2 DEF SweepWarn
  <2>3. ASSUME NEW b \in Bookings, SweepClaim(b)
        PROVE  DispatchInv'
    <3>1. dispatch' = dispatch
      BY <2>3 DEF SweepClaim
    <3> QED BY <1>1, <2>3, <3>1, ClaimRows
  <2> QED BY <1>6, <2>1, <2>2, <2>3 DEF SweepStep
<1>7. CASE SweepFails \/ DispatchFails \/ Restart
  BY <1>1, <1>2, <1>7 DEF SweepFails, DispatchFails, Restart
<1>8. ASSUME NEW b \in Bookings,
             \/ CheckInRead(b) \/ RequestWrite(b) \/ Settles(b)
             \/ \E slot \in Slots : MoveRead(b, slot)
      PROVE  DispatchInv'
  <2>1. dispatch' = dispatch
    BY <1>8, SettlesRow DEF CheckInRead, MoveRead, RequestWrite, jobs
  <2>2. CASE RequestWrite(b) \/ Settles(b)
    BY <1>1, <2>1, <2>2, RowSteps
  <2>3. CASE rows' = rows
    BY <1>1, <2>1, <2>3
  <2> QED BY <1>8, <2>2, <2>3 DEF CheckInRead, MoveRead
<1>9. CASE Tick \/ UNCHANGED vars
  BY <1>1, <1>9 DEF Tick, vars, jobs
<1> QED BY <1>3, <1>4, <1>5, <1>6, <1>7, <1>8, <1>9 DEF Next, Settles, DispatchStep

-----------------------------------------------------------------------------
(* Warnings *)

LEMMA InitWarn == Init => WarnInv
BY DEF Init, WarnInv, NoSweep

LEMMA WarningsKept ==
  ASSUME TypeInv, TypeInv', DispatchInv, WarnInv, [Next]_vars
  PROVE  WarnInv'
<1>0. /\ rows \in [Bookings -> RowType]
      /\ warned \in [Bookings -> Nat]
      /\ sweep \in [ at : {"idle", "claim", "warn"}, todo : SUBSET Bookings,
                     cur : Bookings \cup {None} ]
  BY DEF TypeInv, TypeOK
<1>1. ASSUME warned' = warned, lost' = lost, rows' = rows \/ KeepsStamped,
             sweep' = sweep \/ sweep'.at # "warn"
      PROVE  WarnInv'
  BY <1>0, <1>1 DEF WarnInv, KeepsStamped
<1>2. CASE SweepStart
  BY <1>1, <1>2 DEF SweepStart, NoSweep, told
<1>3. CASE SweepWarn
  <2>1. sweep.cur \in Bookings
    BY <1>3 DEF SweepWarn, WarnInv
  <2>2. SweepPast(sweep.cur).at # "warn"
    BY <2>1, SweepPastType DEF TypeInv
  <2> QED BY <1>0, <1>3, <2>1, <2>2 DEF SweepWarn, WarnInv, history
<1>4. ASSUME NEW b \in Bookings, SweepClaim(b)
      PROVE  WarnInv'
  <2>0. warned' = warned /\ lost' = lost
    BY <1>4 DEF SweepClaim, told, history
  <2>1. CASE /\ ~rows[b].stamped /\ rows'[b].stamped
             /\ sweep' = [sweep EXCEPT !.at = "warn", !.cur = b]
    <3>1. \A c \in Bookings \ {b} : rows'[c] = rows[c]
      BY <1>4, ClaimRows
    <3>2. sweep'.at = "warn" /\ sweep'.cur = b
      BY <1>0, <2>1
    <3>3. warned[b] = 0 /\ b \notin lost
      BY <2>1 DEF WarnInv
    <3>4. sweep'.at = "warn" =>
            /\ sweep'.cur \in Bookings \ lost'
            /\ rows'[sweep'.cur].stamped /\ warned'[sweep'.cur] = 0
      BY <2>0, <2>1, <3>2, <3>3
    <3>5. ASSUME NEW c \in Bookings
          PROVE  /\ warned'[c] \in {0, 1}
                 /\ warned'[c] = 1 => rows'[c].stamped
                 /\ c \in lost' => rows'[c].stamped /\ warned'[c] = 0
      <4>1. CASE c = b
        BY <2>0, <2>1, <3>3, <4>1
      <4>2. CASE c # b
        BY <2>0, <3>1, <4>2 DEF WarnInv
      <4> QED BY <4>1, <4>2
    <3> QED BY <3>4, <3>5 DEF WarnInv
  <2>2. CASE rows' = rows /\ sweep' = SweepPast(b)
    <3>1. SweepPast(b).at # "warn"
      BY SweepPastType DEF TypeInv
    <3> QED BY <1>1, <2>0, <2>2, <3>1
  <2> QED BY <1>4, <2>1, <2>2, ClaimRows
<1>5. CASE SweepFails \/ Restart
  <2>1. warned' = warned /\ rows' = rows /\ lost' = lost \cup LostNow /\ sweep'.at # "warn"
    BY <1>5 DEF SweepFails, Restart, NoSweep, told
  <2> QED BY <2>1 DEF WarnInv, LostNow
<1>6. CASE DispatchFails
  BY <1>1, <1>6 DEF DispatchFails, told
<1>7. CASE DispatchStep
  <2>1. CASE DispatchRecord
    BY <1>1, <2>1, RecordRows DEF DispatchRecord, told, history
  <2>2. CASE DispatchStart
    BY <1>1, <2>2 DEF DispatchStart, told, history
  <2>3. ASSUME NEW b, NEW o, DispatchDeliver(b, o)
        PROVE  WarnInv'
    BY <1>1, <2>3 DEF DispatchDeliver, history
  <2> QED BY <1>7, <2>1, <2>2, <2>3 DEF DispatchStep
<1>8. ASSUME NEW b \in Bookings,
             \/ CheckInRead(b) \/ RequestWrite(b) \/ Settles(b)
             \/ \E slot \in Slots : MoveRead(b, slot)
      PROVE  WarnInv'
  <2>1. warned' = warned /\ lost' = lost /\ sweep' = sweep
    BY <1>8, SettlesRow DEF CheckInRead, MoveRead, RequestWrite, told, jobs, history
  <2>2. rows' = rows \/ KeepsStamped
    BY <1>8, RowSteps DEF CheckInRead, MoveRead
  <2> QED BY <1>1, <2>1, <2>2
<1>9. CASE Tick \/ UNCHANGED vars
  BY <1>1, <1>9 DEF Tick, vars, jobs, told, history
<1> QED BY <1>2, <1>3, <1>4, <1>5, <1>6, <1>7, <1>8, <1>9 DEF Next, Settles, SweepStep

-----------------------------------------------------------------------------
(* Check-in and sweep *)

LEMMA InitRace == Init => RaceInv
<1> SUFFICES ASSUME Init PROVE RaceInv
  OBVIOUS
<1>1. sweep.todo = {} /\ \A b \in Bookings : ~rows[b].stamped
  BY DEF Init, NoSweep
<1> QED BY <1>1 DEF RaceInv

(* Times are numbers. *)
LEMMA Instants ==
  ASSUME TypeOK
  PROVE  /\ now \in Int
         /\ \A b \in Bookings : rows[b].slot.start \in Int /\ rows[b].slot.end \in Int
  BY JobsAssumption DEF TypeOK, RowType

LEMMA RacesKept ==
  ASSUME TypeInv, TypeInv', DispatchInv, RaceInv, [Next]_vars
  PROVE  RaceInv'
<1>0. /\ rows \in [Bookings -> RowType]
      /\ request \in [Bookings -> {None, CheckIn} \cup Slots]
      /\ sweep \in [ at : {"idle", "claim", "warn"}, todo : SUBSET Bookings,
                     cur : Bookings \cup {None} ]
      /\ TypeOK
  BY DEF TypeInv, TypeOK
<1>1. ASSUME request' = request, raced' = raced, now' = now,
             rows' = rows \/ (KeepsUse /\ KeepsStamped),
             sweep'.todo \subseteq sweep.todo
      PROVE  RaceInv'
  BY <1>0, <1>1 DEF RaceInv, KeepsUse, KeepsStamped
<1>2. CASE SweepStart
  <2> DEFINE found == { b \in Bookings : Unused(rows[b]) }
  <2>1. sweep' = [NoSweep EXCEPT !.at = "claim", !.todo = found]
    BY <1>2 DEF SweepStart
  <2>2. sweep'.todo = found
    BY <2>1 DEF NoSweep
  <2>3. raced' = raced \cup { b \in found : request[b] # None }
    BY <1>2 DEF SweepStart
  <2>4. rows' = rows /\ request' = request /\ now' = now
    BY <1>2 DEF SweepStart
  <2>5. \A b \in found : rows[b].slot.end < now /\ ~rows[b].stamped
    BY DEF Unused
  <2> HIDE DEF found
  <2> QED BY <2>2, <2>3, <2>4, <2>5 DEF RaceInv
<1>3. CASE SweepWarn
  <2>1. sweep'.todo \subseteq sweep.todo
    BY <1>0, <1>3 DEF SweepWarn, SweepPast, NoSweep
  <2> QED BY <1>1, <1>3, <2>1 DEF SweepWarn, history
<1>4. ASSUME NEW b \in Bookings, SweepClaim(b)
      PROVE  RaceInv'
  <2>1. request' = request /\ raced' = raced /\ now' = now /\ b \in sweep.todo
    BY <1>4 DEF SweepClaim, history
  <2>2. CASE /\ ~rows[b].used
             /\ sweep' = [sweep EXCEPT !.at = "warn", !.cur = b]
    <3>1. KeepsUse /\ \A c \in Bookings \ {b} : rows'[c] = rows[c]
      BY <1>4, ClaimRows
    <3>2. sweep'.todo = sweep.todo
      BY <1>0, <2>2
    <3>3. ASSUME NEW c \in Bookings \ raced', c \in sweep'.todo \/ rows'[c].stamped
          PROVE  /\ request'[c] = None /\ rows'[c].slot.end < now'
                 /\ rows'[c].stamped => ~rows'[c].used
      <4>1. CASE c = b
        BY <2>1, <2>2, <3>1, <4>1, <3>3 DEF RaceInv, KeepsUse
      <4>2. CASE c # b
        BY <2>1, <3>1, <3>2, <3>3, <4>2 DEF RaceInv
      <4> QED BY <4>1, <4>2
    <3> QED BY <3>3 DEF RaceInv
  <2>3. CASE rows' = rows /\ sweep' = SweepPast(b)
    <3>1. SweepPast(b).todo \subseteq sweep.todo
      BY SweepPastType DEF TypeInv
    <3> QED BY <1>1, <2>1, <2>3, <3>1
  <2> QED BY <1>4, <2>2, <2>3, ClaimRows
<1>5. CASE SweepFails
  BY <1>1, <1>5 DEF SweepFails, NoSweep
<1>6. CASE DispatchFails
  BY <1>1, <1>6 DEF DispatchFails
<1>7. CASE Restart
  <2>1. /\ rows' = rows /\ now' = now /\ raced' = raced /\ sweep'.todo = {}
        /\ request' = [b \in Bookings |-> None]
    BY <1>7 DEF Restart, NoSweep
  <2> QED BY <2>1 DEF RaceInv
<1>8. CASE DispatchStep
  <2>1. CASE DispatchRecord
    BY <1>1, <2>1, RecordRows DEF DispatchRecord, history
  <2>2. CASE DispatchStart
    BY <1>1, <2>2 DEF DispatchStart, history
  <2>3. ASSUME NEW b, NEW o, DispatchDeliver(b, o)
        PROVE  RaceInv'
    BY <1>1, <2>3 DEF DispatchDeliver, history
  <2> QED BY <1>8, <2>1, <2>2, <2>3 DEF DispatchStep
<1>9. ASSUME NEW b \in Bookings,
             CheckInRead(b) \/ \E slot \in Slots : MoveRead(b, slot)
      PROVE  RaceInv'
  <2>1. /\ rows' = rows /\ now' = now /\ raced' = raced /\ sweep' = sweep
        /\ \A c \in Bookings \ {b} : request'[c] = request[c]
    BY <1>0, <1>9 DEF CheckInRead, MoveRead, jobs, history
  <2>2. ~(rows[b].slot.end < now)
    BY <1>0, <1>9, Instants DEF CheckInRead, MoveRead
  <2> QED BY <2>1, <2>2 DEF RaceInv
<1>10. ASSUME NEW b \in Bookings, RequestWrite(b)
       PROVE  RaceInv'
  <2>1. /\ now' = now /\ raced' = raced /\ sweep' = sweep /\ request[b] # None
        /\ \A c \in Bookings \ {b} : request'[c] = request[c]
    BY <1>0, <1>10 DEF RequestWrite, jobs, history
  <2>2. KeepsStamped /\ \A c \in Bookings \ {b} : rows'[c] = rows[c]
    BY <1>10, RowSteps
  <2>3. b \in raced \/ (b \notin sweep.todo /\ ~rows[b].stamped)
    BY <2>1 DEF RaceInv
  <2>4. rows'[b].stamped = rows[b].stamped
    BY <2>2 DEF KeepsStamped
  <2> QED BY <2>1, <2>2, <2>3, <2>4 DEF RaceInv
<1>11. ASSUME NEW b \in Bookings, Settles(b)
       PROVE  RaceInv'
  <2>1. KeepsUse /\ KeepsStamped
    BY <1>11, SettlesKeepsUse, RowSteps
  <2> QED BY <1>1, <1>11, <2>1, SettlesRow DEF jobs, history
<1>12. CASE Tick
  <2>1. /\ rows' = rows /\ request' = request /\ raced' = raced /\ sweep' = sweep
        /\ now' = now + 1
    BY <1>12 DEF Tick, jobs, history
  <2> QED BY <1>0, <2>1, Instants DEF RaceInv
<1>13. CASE UNCHANGED vars
  BY <1>1, <1>13 DEF vars
<1> QED BY <1>2, <1>3, <1>4, <1>5, <1>6, <1>7, <1>8, <1>9, <1>10, <1>11, <1>12, <1>13
     DEF Next, Settles, SweepStep

-----------------------------------------------------------------------------
(* Reminders *)

LEMMA InitRepeat == Init => RepeatInv
<1> SUFFICES ASSUME Init PROVE RepeatInv
  OBVIOUS
<1>1. /\ reminded = [n \in Bookings \X Offsets |-> 0] /\ cuts = 0
      /\ dispatch.cur = None
      /\ \A b \in Bookings : rows[b].sent = {}
  BY DEF Init, NoDispatch
<1>2. \A b \in Bookings : b # None
  BY JobsAssumption
<1> QED BY <1>1, <1>2 DEF RepeatInv, Counted

LEMMA RemindersKept ==
  ASSUME TypeInv, TypeInv', DispatchInv, RepeatInv, [Next]_vars
  PROVE  RepeatInv'
<1>0. /\ cuts \in Nat
      /\ reminded \in [Bookings \X Offsets -> Nat]
      /\ rows \in [Bookings -> RowType]
      /\ dispatch \in DispatchType
      /\ DOMAIN dispatch.seen \subseteq Bookings
      /\ None \notin Bookings
  BY JobsAssumption, DispatchTypes DEF TypeInv, TypeOK
<1>1. ASSUME reminded' = reminded, cuts' = cuts,
             \A b \in Bookings, o \in Offsets : Counted(b, o) => Counted(b, o)'
      PROVE  RepeatInv'
  <2>1. ASSUME NEW b \in Bookings, NEW o \in Offsets
        PROVE  reminded[<<b, o>>] <= cuts + (IF Counted(b, o)' THEN 1 ELSE 0)
    <3>1. reminded[<<b, o>>] <= cuts + (IF Counted(b, o) THEN 1 ELSE 0)
      BY DEF RepeatInv
    <3>2. reminded[<<b, o>>] \in Nat
      BY <1>0
    <3>3. CASE Counted(b, o)
      BY <1>0, <1>1, <3>1, <3>3
    <3>4. CASE ~Counted(b, o)
      BY <1>0, <3>1, <3>2, <3>4
    <3> QED BY <3>3, <3>4
  <2> QED BY <1>1, <2>1 DEF RepeatInv
<1>2. ASSUME reminded' = reminded, cuts' = cuts, dispatch' = dispatch,
             rows' = rows \/ KeepsSent
      PROVE  RepeatInv'
  BY <1>1, <1>2 DEF Counted, KeepsSent
<1>3. ASSUME reminded' = reminded, cuts' = cuts + 1
      PROVE  RepeatInv'
  <2>1. ASSUME NEW b \in Bookings, NEW o \in Offsets
        PROVE  reminded[<<b, o>>] <= cuts + 1
    <3>1. reminded[<<b, o>>] <= cuts + (IF Counted(b, o) THEN 1 ELSE 0)
      BY DEF RepeatInv
    <3>2. reminded[<<b, o>>] \in Nat
      BY <1>0
    <3> QED BY <1>0, <3>1, <3>2
  <2>2. ASSUME NEW b \in Bookings, NEW o \in Offsets
        PROVE  reminded[<<b, o>>] <= cuts + 1 + (IF Counted(b, o)' THEN 1 ELSE 0)
    BY <1>0, <2>1
  <2> QED BY <1>3, <2>2 DEF RepeatInv
<1>4. CASE DispatchStart
  <2>1. reminded' = reminded /\ cuts' = cuts /\ rows' = rows /\ dispatch.cur = None
    BY <1>4 DEF DispatchStart, told, history, DispatchInv
  <2> QED BY <1>0, <1>1, <2>1 DEF Counted
<1>5. CASE DispatchRecord
  <2>1. reminded' = reminded /\ cuts' = cuts
    BY <1>5 DEF DispatchRecord, told, history
  <2>2. ASSUME NEW b \in Bookings, NEW o \in Offsets, Counted(b, o)
        PROVE  o \in rows'[b].sent
    <3>1. CASE b = dispatch.cur
      BY <1>5, <2>2, <3>1, RecordRows DEF Counted
    <3>2. CASE b # dispatch.cur
      BY <1>5, <2>2, <3>2, RecordRows DEF Counted
    <3> QED BY <3>1, <3>2
  <2> QED BY <1>1, <2>1, <2>2 DEF Counted
<1>6. ASSUME NEW b \in DOMAIN dispatch.seen, NEW o \in Offsets, DispatchDeliver(b, o)
      PROVE  RepeatInv'
  <2> DEFINE row == dispatch.seen[b]
  <2>1. /\ rows' = rows /\ cuts' = cuts /\ dispatch.cur \in {b, None} /\ b \in Bookings
        /\ reminded' = [reminded EXCEPT ![<<b, o>>] = @ + 1]
    BY <1>0, <1>6 DEF DispatchDeliver, history
  <2>2. /\ dispatch'.cur = b
        /\ dispatch'.already =
             (IF dispatch.cur = b THEN dispatch.already ELSE row.sent) \cup {o}
    BY <1>0, <1>6 DEF DispatchDeliver, DispatchType
  <2>3. ~Counted(b, o)
    <3>1. o \notin row.sent /\ o \notin dispatch.already
      BY <1>6 DEF DispatchDeliver, Firing
    <3>2. row.sent = rows[b].sent
      BY DEF DispatchInv
    <3> QED BY <3>1, <3>2 DEF Counted
  <2>4. Counted(b, o)'
    BY <2>2 DEF Counted
  <2>5. \A c \in Bookings, p \in Offsets : Counted(c, p) => Counted(c, p)'
    BY <1>0, <2>1, <2>2 DEF Counted
  <2>6. reminded[<<b, o>>] \in Nat /\ reminded[<<b, o>>] <= cuts
    <3>1. reminded[<<b, o>>] <= cuts + (IF Counted(b, o) THEN 1 ELSE 0)
      BY <2>1 DEF RepeatInv
    <3> QED BY <1>0, <2>1, <2>3, <3>1
  <2>7. ASSUME NEW c \in Bookings, NEW p \in Offsets
        PROVE  reminded'[<<c, p>>] <= cuts + (IF Counted(c, p)' THEN 1 ELSE 0)
    <3>1. CASE c = b /\ p = o
      <4>1. reminded'[<<c, p>>] = reminded[<<b, o>>] + 1
        BY <1>0, <2>1, <3>1
      <4>2. Counted(c, p)'
        BY <2>4, <3>1
      <4> QED BY <1>0, <2>6, <4>1, <4>2
    <3>2. CASE ~(c = b /\ p = o)
      <4>1. reminded'[<<c, p>>] = reminded[<<c, p>>] /\ reminded[<<c, p>>] \in Nat
        BY <1>0, <2>1, <3>2
      <4>2. reminded[<<c, p>>] <= cuts + (IF Counted(c, p) THEN 1 ELSE 0)
        BY DEF RepeatInv
      <4>3. CASE Counted(c, p)'
        BY <1>0, <4>1, <4>2, <4>3
      <4>4. CASE ~Counted(c, p)'
        BY <1>0, <2>5, <4>1, <4>2, <4>4
      <4> QED BY <4>3, <4>4
    <3> QED BY <3>1, <3>2
  <2> QED BY <2>1, <2>7 DEF RepeatInv
<1>7. CASE SweepFails \/ DispatchFails \/ Restart
  BY <1>3, <1>7 DEF SweepFails, DispatchFails, Restart, told
<1>8. CASE SweepStart \/ SweepWarn
  BY <1>2, <1>8 DEF SweepStart, SweepWarn, told, history
<1>9. ASSUME NEW b \in Bookings, SweepClaim(b)
      PROVE  RepeatInv'
  <2>1. KeepsSent
    BY <1>9, ClaimRows
  <2> QED BY <1>2, <1>9, <2>1 DEF SweepClaim, told, history
<1>10. ASSUME NEW b \in Bookings,
              \/ CheckInRead(b) \/ RequestWrite(b) \/ Settles(b)
              \/ \E slot \in Slots : MoveRead(b, slot)
       PROVE  RepeatInv'
  <2>1. reminded' = reminded /\ cuts' = cuts /\ dispatch' = dispatch
    BY <1>10, SettlesRow DEF CheckInRead, MoveRead, RequestWrite, told, jobs, history
  <2>2. rows' = rows \/ KeepsSent
    BY <1>10, RowSteps DEF CheckInRead, MoveRead
  <2> QED BY <1>2, <2>1, <2>2
<1>11. CASE Tick \/ UNCHANGED vars
  BY <1>2, <1>11 DEF Tick, vars, jobs, told, history
<1> QED BY <1>4, <1>5, <1>6, <1>7, <1>8, <1>9, <1>10, <1>11 DEF Next, Settles, SweepStep, DispatchStep

-----------------------------------------------------------------------------
(* The theorems *)

JobsInv == TypeInv /\ DispatchInv /\ WarnInv /\ RaceInv /\ RepeatInv

LEMMA JobsInvariant == Spec => []JobsInv
<1>1. Init => JobsInv
  BY InitTypes, InitDispatch, InitWarn, InitRace, InitRepeat DEF JobsInv
<1>2. JobsInv /\ [Next]_vars => JobsInv'
  <2> SUFFICES ASSUME JobsInv, [Next]_vars PROVE JobsInv'
    OBVIOUS
  <2>1. TypeInv'
    BY StepTypes DEF JobsInv
  <2> QED BY <2>1, DispatchKnows, WarningsKept, RacesKept, RemindersKept DEF JobsInv
<1> QED BY <1>1, <1>2, PTL DEF Spec

(* The tables of the jobs are well typed in every state. *)
THEOREM JobsTypeCorrect == Spec => []TypeOK
<1>1. JobsInv => TypeOK
  BY DEF JobsInv, TypeInv
<1> QED BY <1>1, JobsInvariant, PTL

(* However often a pass fails or the process restarts, no owner is warned   *)
(* twice of one booking.                                                    *)
THEOREM NoSecondWarning == Spec => []WarnedAtMostOnce
<1>1. JobsInv => WarnedAtMostOnce
  BY DEF JobsInv, WarnInv, WarnedAtMostOnce
<1> QED BY <1>1, JobsInvariant, PTL

(* A booking both used and stamped as unused had a request in flight when   *)
(* the sweep listed it.                                                     *)
THEOREM UsedAndStampedRaced == Spec => []UsedAndStampedNeedsRace
<1>1. JobsInv => UsedAndStampedNeedsRace
  BY DEF JobsInv, RaceInv, UsedAndStampedNeedsRace
<1> QED BY <1>1, JobsInvariant, PTL

(* A reminder is delivered at most once more than there were failures and   *)
(* restarts.                                                                *)
THEOREM RepeatsAreCuts == Spec => []RemindedOnceUnlessCut
<1>1. JobsInv => RemindedOnceUnlessCut
  <2> SUFFICES ASSUME JobsInv, NEW n \in DOMAIN reminded
               PROVE  reminded[n] <= 1 + cuts
    BY DEF RemindedOnceUnlessCut
  <2>1. /\ cuts \in Nat /\ reminded \in [Bookings \X Offsets -> Nat]
    BY JobsAssumption DEF JobsInv, TypeInv, TypeOK
  <2>2. PICK b \in Bookings, o \in Offsets : n = <<b, o>>
    BY <2>1
  <2>3. reminded[n] <= cuts + (IF Counted(b, o) THEN 1 ELSE 0)
    BY <2>2 DEF JobsInv, RepeatInv
  <2>4. reminded[n] \in Nat
    BY <2>1
  <2> QED BY <2>1, <2>3, <2>4
<1> QED BY <1>1, JobsInvariant, PTL

-----------------------------------------------------------------------------
(* The sweep implements OneWarning. *)

Claimed == { b \in Bookings : rows[b].stamped }

(* A step that stamps nothing, warns nobody and loses nothing. *)
LEMMA Unnoticed ==
  ASSUME rows' = rows \/ KeepsStamped, warned' = warned, lost' = lost
  PROVE  UNCHANGED Warning!vars
<1>1. Claimed' = Claimed
  BY DEF Claimed, KeepsStamped
<1> QED BY <1>1 DEF Claimed, Warning!vars

LEMMA StepWarns ==
  ASSUME TypeInv, DispatchInv, WarnInv, [Next]_vars
  PROVE  [Warning!Next]_(Warning!vars)
<1>0. rows \in [Bookings -> RowType] /\ warned \in [Bookings -> Nat]
  BY DEF TypeInv, TypeOK
<1>1. CASE SweepStart
  BY <1>1, Unnoticed DEF SweepStart, told
<1>2. CASE SweepWarn
  <2>1. /\ rows' = rows /\ lost' = lost
        /\ warned' = [warned EXCEPT ![sweep.cur] = @ + 1]
    BY <1>2 DEF SweepWarn, history
  <2>2. /\ sweep.cur \in Bookings \ lost /\ rows[sweep.cur].stamped
        /\ warned[sweep.cur] = 0
    BY <1>2 DEF SweepWarn, WarnInv
  <2>3. warned' = [warned EXCEPT ![sweep.cur] = 1]
    BY <1>0, <2>1, <2>2
  <2>4. Warning!Tell(sweep.cur)
    BY <2>1, <2>2, <2>3 DEF Warning!Tell, Warning!Open
  <2> QED BY <2>2, <2>4 DEF Warning!Next
<1>3. ASSUME NEW b \in Bookings, SweepClaim(b)
      PROVE  [Warning!Next]_(Warning!vars)
  <2>1. warned' = warned /\ lost' = lost
    BY <1>3 DEF SweepClaim, told, history
  <2>2. CASE ~rows[b].stamped /\ rows'[b].stamped
    <3>1. \A c \in Bookings \ {b} : rows'[c] = rows[c]
      BY <1>3, ClaimRows
    <3>2. b \notin Claimed /\ Claimed' = Claimed \cup {b}
      BY <2>2, <3>1 DEF Claimed
    <3>3. Warning!Claim(b)
      BY <2>1, <3>2 DEF Claimed, Warning!Claim
    <3> QED BY <3>3 DEF Warning!Next
  <2>3. CASE rows' = rows
    BY <2>1, <2>3, Unnoticed
  <2> QED BY <1>3, <2>2, <2>3, ClaimRows
<1>4. CASE SweepFails \/ Restart
  <2>1. rows' = rows /\ warned' = warned /\ lost' = lost \cup LostNow
    BY <1>4 DEF SweepFails, Restart, told
  <2>2. CASE sweep.at = "warn"
    <3>1. lost' = lost \cup {sweep.cur}
      BY <2>1, <2>2 DEF LostNow
    <3>2. /\ sweep.cur \in Bookings \ lost /\ rows[sweep.cur].stamped
          /\ warned[sweep.cur] = 0
      BY <2>2 DEF WarnInv
    <3>3. Warning!Lose(sweep.cur)
      BY <2>1, <3>1, <3>2 DEF Warning!Lose, Warning!Open
    <3> QED BY <3>2, <3>3 DEF Warning!Next
  <2>3. CASE sweep.at # "warn"
    <3>1. lost' = lost
      BY <2>1, <2>3 DEF LostNow
    <3> QED BY <2>1, <3>1, Unnoticed
  <2> QED BY <2>2, <2>3
<1>5. CASE DispatchFails
  BY <1>5, Unnoticed DEF DispatchFails, told
<1>6. CASE DispatchStep
  <2>1. CASE DispatchRecord
    BY <2>1, RecordRows, Unnoticed DEF DispatchRecord, told, history
  <2>2. CASE DispatchStart
    BY <2>2, Unnoticed DEF DispatchStart, told, history
  <2>3. ASSUME NEW b, NEW o, DispatchDeliver(b, o)
        PROVE  [Warning!Next]_(Warning!vars)
    BY <2>3, Unnoticed DEF DispatchDeliver, history
  <2> QED BY <1>6, <2>1, <2>2, <2>3 DEF DispatchStep
<1>7. ASSUME NEW b \in Bookings,
             \/ CheckInRead(b) \/ RequestWrite(b) \/ Settles(b)
             \/ \E slot \in Slots : MoveRead(b, slot)
      PROVE  [Warning!Next]_(Warning!vars)
  <2>1. warned' = warned /\ lost' = lost
    BY <1>7, SettlesRow DEF CheckInRead, MoveRead, RequestWrite, told, jobs, history
  <2>2. rows' = rows \/ KeepsStamped
    BY <1>7, RowSteps DEF CheckInRead, MoveRead
  <2> QED BY <2>1, <2>2, Unnoticed
<1>8. CASE Tick \/ UNCHANGED vars
  BY <1>8, Unnoticed DEF Tick, vars, jobs, told, history
<1> QED BY <1>1, <1>2, <1>3, <1>4, <1>5, <1>6, <1>7, <1>8 DEF Next, Settles, SweepStep

(* The sweep, with its failures and the requests beside it, is a OneWarning: *)
(* no owner is warned who was not claimed for it, none of them twice.        *)
(* (That every claim is resolved is liveness, which the run jobs checks.)    *)
THEOREM SweepWarnsOnce == Spec => Warning!Safety
<1>1. Init => Warning!Init
  BY DEF Init, Warning!Init
<1>2. JobsInv /\ [Next]_vars => [Warning!Next]_(Warning!vars)
  BY StepWarns DEF JobsInv
<1> QED BY <1>1, <1>2, JobsInvariant, PTL DEF Spec, Warning!Safety

-----------------------------------------------------------------------------
(* Sessions: what a tab and its calls have in common with the storage, as   *)
(* long as the storage has not changed under a tab that held a session.     *)

CallOf(t, slot) == calls[<<t, slot>>]

StoreOK ==
  /\ store.access = NoOne <=> store.refresh = NoOne
  /\ store.access # NoOne => store.access.who = store.refresh

(* A renewal is waited for by a call.                                       *)
Waited(t) == renewal[t] # NoOne => \E slot \in Lanes : CallOf(t, slot).at = "renewing"

RenewOK(t) == renewal[t] \in {NoOne, last} \/ crossed

(* A call asks in the name the storage holds.                               *)
InName(t, call) ==
  call # NoCall =>
    /\ call.token # NoOne => call.token.who = store.refresh
    /\ call.kind = "login" => call.as = store.refresh
    /\ call.kind = "work" => tab[t].user # NoOne

Own(t) ==
  /\ tab[t].user \in {NoOne, store.refresh}
  /\ renewal[t] \in {NoOne, store.refresh}
  /\ \A slot \in Lanes : InName(t, CallOf(t, slot))

TabInv(t) == Waited(t) /\ RenewOK(t) /\ (t \notin foreign => Own(t))

TabsInv == \A t \in Tabs : TabInv(t)

BrowserInv == SessionTypeOK /\ StoreOK /\ SessionIsLast /\ TabsInv

CallsType == [Tabs \X Lanes -> {NoCall} \cup CallType]

(* What Become and Dropped write.                                           *)
SessionTyped ==
  /\ store \in [access : TokenSet, refresh : Accounts \cup {NoOne}]
  /\ last \in Accounts \cup {NoOne} /\ crossed \in BOOLEAN /\ foreign \subseteq Tabs
  /\ signIns \in 0..MaxSignIns

LEMMA Types ==
  SessionTypeOK <=>
    /\ renews \in BOOLEAN /\ SessionTyped
    /\ tab \in [Tabs -> TabType] /\ calls \in CallsType
    /\ renewal \in [Tabs -> Accounts \cup {NoOne}]
BY DEF SessionTypeOK, SessionTyped, CallsType

LEMMA TypesNext ==
  SessionTypeOK' <=>
    /\ renews' \in BOOLEAN /\ SessionTyped'
    /\ tab' \in [Tabs -> TabType] /\ calls' \in CallsType
    /\ renewal' \in [Tabs -> Accounts \cup {NoOne}]
BY DEF SessionTypeOK, SessionTyped, CallsType

(* The tokens of a session, or none.                                        *)
LEMMA Tokens ==
  ASSUME NEW who \in Accounts \cup {NoOne}, NEW next,
         next = IF who = NoOne THEN SignedOut ELSE Signed(who)
  PROVE  /\ next \in [access : TokenSet, refresh : Accounts \cup {NoOne}]
         /\ next.refresh = who
         /\ next.access = NoOne <=> who = NoOne
         /\ who # NoOne => next.access.who = who
<1>1. CASE who = NoOne
  BY <1>1 DEF SignedOut, TokenSet
<1>2. CASE who # NoOne
  <2>1. /\ next.access = [who |-> who, fresh |-> TRUE] /\ next.refresh = who
        /\ next = [access |-> next.access, refresh |-> next.refresh]
    BY <1>2 DEF Signed
  <2>2. next.access \in [who : Accounts, fresh : BOOLEAN]
    <3>1. [who |-> who, fresh |-> TRUE] \in [who : Accounts, fresh : BOOLEAN]
      BY <1>2
    <3> QED BY <2>1, <3>1
  <2> QED BY <1>2, <2>1, <2>2, SessionAssumption DEF TokenSet
<1> QED BY <1>1, <1>2

LEMMA BrowserInit == SessionInit => BrowserInv
<1> SUFFICES ASSUME SessionInit
             PROVE  BrowserInv
  OBVIOUS
<1>1. /\ last \in Accounts \cup {NoOne}
      /\ store \in [access : TokenSet, refresh : Accounts \cup {NoOne}]
      /\ StoreOK /\ store.refresh = last
  BY Tokens DEF SessionInit, StoreOK
<1>2. SessionTypeOK
  <2>1. /\ tab \in [Tabs -> TabType]
        /\ calls \in [Tabs \X Lanes -> {NoCall} \cup CallType]
    BY DEF SessionInit, NewTab, TabType
  <2>2. signIns \in 0..MaxSignIns
    BY SessionAssumption DEF SessionInit
  <2> QED BY <1>1, <2>1, <2>2 DEF SessionInit, SessionTypeOK
<1>3. ASSUME NEW t \in Tabs
      PROVE  TabInv(t)
  BY <1>1 DEF SessionInit, TabInv, Waited, RenewOK, Own, InName, CallOf, NoCall, NewTab
<1> QED BY <1>1, <1>2, <1>3 DEF BrowserInv, TabsInv, SessionIsLast

LEMMA BrowserGives == BrowserInv => SessionInv
<1> SUFFICES ASSUME BrowserInv
             PROVE  AskedAsShown
  BY DEF BrowserInv, SessionInv
<1> SUFFICES ASSUME NEW t \in Tabs \ foreign, NEW slot \in Lanes,
                    CallOf(t, slot) # NoCall, CallOf(t, slot).kind = "work",
                    CallOf(t, slot).token # NoOne
             PROVE  CallOf(t, slot).token.who = tab[t].user
  BY DEF AskedAsShown, CallOf
<1>1. Own(t)
  BY DEF BrowserInv, TabsInv, TabInv
<1> QED BY <1>1 DEF Own, InName

-----------------------------------------------------------------------------
(* A tab that holds nothing agrees with any session.                        *)

Idles(t) ==
  /\ tab[t].user = NoOne /\ renewal[t] = NoOne
  /\ \A slot \in Lanes : CallOf(t, slot) = NoCall

LEMMA NothingHeld ==
  ASSUME NEW t \in Tabs, Waited(t), ~Holding(t)
  PROVE  Idles(t)
BY DEF Waited, Holding, Idles, CallOf, NoCall

LEMMA IdleOwns == ASSUME NEW t \in Tabs, Idles(t) PROVE Own(t)
BY DEF Idles, Own, InName

LEMMA IdleOwnsNext == ASSUME NEW t \in Tabs, Idles(t)' PROVE Own(t)'
BY DEF Idles, Own, InName

(* Of one tab's step it is enough to say what becomes of that tab.          *)
Apart(t) ==
  \A u \in Tabs \ {t} :
    /\ tab'[u] = tab[u] /\ renewal'[u] = renewal[u]
    /\ \A slot \in Lanes : calls'[<<u, slot>>] = calls[<<u, slot>>]

LEMMA OneTab ==
  ASSUME BrowserInv, NEW t \in Tabs, SessionTypeOK', StoreOK', SessionIsLast', Apart(t),
         TabInv(t)',
         \/ /\ store'.refresh = store.refresh
            /\ \A u \in Tabs \ {t} : u \notin foreign' => u \notin foreign
         \/ foreign' = { u \in Tabs : Holding(u) },
         \/ last' = last /\ crossed' = crossed
         \/ \A u \in Tabs : renewal[u] \in {NoOne, last'} \/ crossed'
  PROVE  BrowserInv'
<1>1. ASSUME NEW u \in Tabs \ {t}
      PROVE  TabInv(u)'
  <2>1. Waited(u) /\ RenewOK(u) /\ (u \notin foreign => Own(u))
    BY DEF BrowserInv, TabsInv, TabInv
  <2>2. /\ \A slot \in Lanes : CallOf(u, slot)' = CallOf(u, slot)
        /\ tab'[u] = tab[u] /\ renewal'[u] = renewal[u]
    BY DEF CallOf, Apart
  <2>3. Waited(u)' /\ RenewOK(u)'
    BY <2>1, <2>2 DEF Waited, RenewOK
  <2>4. ASSUME u \notin foreign'
        PROVE  Own(u)'
    <3>1. CASE foreign' = { v \in Tabs : Holding(v) }
      <4>1. Idles(u)
        BY <2>1, <2>4, <3>1, NothingHeld
      <4>2. Idles(u)'
        BY <2>2, <4>1 DEF Idles, NoCall
      <4> QED BY <4>2, IdleOwnsNext
    <3>2. CASE store'.refresh = store.refresh /\ u \notin foreign
      BY <2>1, <2>2, <3>2 DEF Own, InName, NoCall
    <3> QED BY <2>4, <3>1, <3>2
  <2> QED BY <2>3, <2>4 DEF TabInv
<1> QED BY <1>1 DEF BrowserInv, TabsInv

LEMMA Took ==
  ASSUME BrowserInv, NEW who \in Accounts \cup {NoOne}, NEW next,
         next = IF who = NoOne THEN SignedOut ELSE Signed(who),
         Become(next, who)
  PROVE  /\ SessionTyped' /\ StoreOK' /\ SessionIsLast'
         /\ store' = next /\ store'.refresh = who /\ last' = who
         /\ foreign' = { u \in Tabs : Holding(u) }
         /\ \A u \in Tabs : renewal[u] \in {NoOne, last'} \/ crossed'
<1>1. store' = next /\ last' = who /\ foreign' = { u \in Tabs : Holding(u) }
  BY DEF Become
<1>2. crossed' \in BOOLEAN /\ (\A u \in Tabs : renewal[u] \in {NoOne, last'} \/ crossed')
  BY DEF Become
<1>3. signIns' \in 0..MaxSignIns
  <2>1. signIns \in 0..MaxSignIns /\ MaxSignIns \in Nat
    BY SessionAssumption DEF BrowserInv, SessionTypeOK
  <2> QED BY <2>1 DEF Become
<1>4. /\ next \in [access : TokenSet, refresh : Accounts \cup {NoOne}]
      /\ next.refresh = who
      /\ next.access = NoOne <=> who = NoOne
      /\ who # NoOne => next.access.who = who
  BY Tokens
<1>5. foreign' \subseteq Tabs
  BY <1>1
<1> QED
  BY <1>1, <1>2, <1>3, <1>4, <1>5 DEF SessionTyped, StoreOK, SessionIsLast

LEMMA Lost ==
  ASSUME BrowserInv, Dropped
  PROVE  /\ SessionTyped' /\ StoreOK' /\ SessionIsLast'
         /\ foreign' = { u \in Tabs : Holding(u) }
         /\ last' = last /\ crossed' = crossed
<1>1. /\ store' = SignedOut /\ foreign' = { u \in Tabs : Holding(u) }
      /\ last' = last /\ crossed' = crossed /\ signIns' = signIns
  BY DEF Dropped
<1>2. /\ store' \in [access : TokenSet, refresh : Accounts \cup {NoOne}]
      /\ store'.refresh = NoOne /\ store'.access = NoOne
  BY <1>1 DEF SignedOut, TokenSet
<1>3. SessionTyped
  BY Types DEF BrowserInv
<1> QED BY <1>1, <1>2, <1>3 DEF SessionTyped, StoreOK, SessionIsLast

LEMMA Stays ==
  ASSUME BrowserInv, UNCHANGED <<store, last, crossed, foreign, signIns>>
  PROVE  SessionTyped' /\ StoreOK' /\ SessionIsLast'
BY Types DEF BrowserInv, SessionTyped, StoreOK, SessionIsLast

LEMMA LoadsKeep ==
  ASSUME BrowserInv, NEW t \in Tabs, LoadDocument(t)
  PROVE  BrowserInv'
<1> USE DEF LoadDocument, Wiped
<1>0. /\ tab \in [Tabs -> TabType] /\ calls \in CallsType /\ renews \in BOOLEAN
      /\ renewal \in [Tabs -> Accounts \cup {NoOne}]
      /\ SessionTyped /\ StoreOK /\ SessionIsLast
  BY Types DEF BrowserInv
<1>1. tab' \in [Tabs -> TabType] /\ tab'[t] = NewTab
  BY <1>0 DEF TabType, NewTab
<1>2. /\ renewal' \in [Tabs -> Accounts \cup {NoOne}]
      /\ renewal'[t] = NoOne
  BY <1>0
<1>3. calls' = [k \in Tabs \X Lanes |-> IF k[1] = t THEN NoCall ELSE calls[k]]
  BY <1>0 DEF CallsType
<1>4. calls' \in CallsType
  BY <1>0, <1>3 DEF CallsType
<1>5. \A slot \in Lanes : CallOf(t, slot)' = NoCall
  BY <1>3 DEF CallOf
<1>6. Apart(t)
  <2>1. ASSUME NEW u \in Tabs \ {t}
        PROVE  tab'[u] = tab[u] /\ renewal'[u] = renewal[u]
    BY <1>0
  <2>2. ASSUME NEW u \in Tabs \ {t}, NEW slot \in Lanes
        PROVE  calls'[<<u, slot>>] = calls[<<u, slot>>]
    BY <1>3
  <2> QED BY <2>1, <2>2 DEF Apart
<1>7. Idles(t)'
  BY <1>1, <1>2, <1>5 DEF Idles, NewTab, NoCall
<1>8. TabInv(t)'
  BY <1>2, <1>7, IdleOwnsNext DEF TabInv, Waited, RenewOK
<1>9. SessionTyped' /\ StoreOK' /\ SessionIsLast'
  BY <1>0 DEF SessionTyped, StoreOK, SessionIsLast
<1>10. SessionTypeOK'
  BY <1>0, <1>1, <1>2, <1>4, <1>9, TypesNext
<1> QED BY <1>6, <1>8, <1>9, <1>10, OneTab

LEMMA EntersKeep ==
  ASSUME BrowserInv, NEW t \in Tabs, NEW who \in Accounts, EnterAnew(t, who)
  PROVE  BrowserInv'
<1>1. Become(Signed(who), who) /\ UNCHANGED <<renews, tab, calls, renewal>>
  BY DEF EnterAnew
<1>2. /\ SessionTyped' /\ StoreOK' /\ SessionIsLast'
      /\ foreign' = { u \in Tabs : Holding(u) }
      /\ \A u \in Tabs : renewal[u] \in {NoOne, last'} \/ crossed'
  BY <1>1, Took, SessionAssumption
<1>3. SessionTypeOK' /\ Apart(t)
  BY <1>1, <1>2, Types, TypesNext DEF BrowserInv, Apart, CallsType
<1>4. Waited(t)
  BY DEF BrowserInv, TabsInv, TabInv
<1>5. Waited(t)' /\ RenewOK(t)'
  BY <1>1, <1>2, <1>4 DEF Waited, RenewOK, CallOf
<1>6. ASSUME t \notin foreign'
      PROVE  Own(t)'
  <2>1. Idles(t)
    BY <1>2, <1>4, <1>6, NothingHeld
  <2>2. Idles(t)'
    BY <1>1, <2>1 DEF Idles, CallOf, NoCall
  <2> QED BY <2>2, IdleOwnsNext
<1>7. TabInv(t)'
  BY <1>5, <1>6 DEF TabInv
<1> QED BY <1>2, <1>3, <1>7, OneTab

LEMMA LogoutKeeps ==
  ASSUME BrowserInv, NEW t \in Tabs, Logout(t)
  PROVE  BrowserInv'
<1>0. tab \in [Tabs -> TabType] /\ calls \in CallsType /\ renews \in BOOLEAN
  BY Types DEF BrowserInv
<1>1. /\ Become(SignedOut, NoOne) /\ UNCHANGED <<renews, calls, renewal>>
      /\ tab' = [tab EXCEPT ![t].user = NoOne, ![t].form = TRUE]
  BY DEF Logout
<1>2. /\ SessionTyped' /\ StoreOK' /\ SessionIsLast'
      /\ foreign' = { u \in Tabs : Holding(u) }
      /\ \A u \in Tabs : renewal[u] \in {NoOne, last'} \/ crossed'
  BY <1>1, Took
<1>3. tab' \in [Tabs -> TabType]
  BY <1>0, <1>1 DEF TabType
<1>4. SessionTypeOK' /\ Apart(t)
  BY <1>0, <1>1, <1>2, <1>3, Types, TypesNext DEF BrowserInv, Apart, CallsType
<1>5. Waited(t)
  BY DEF BrowserInv, TabsInv, TabInv
<1>6. Waited(t)' /\ RenewOK(t)'
  BY <1>1, <1>2, <1>5 DEF Waited, RenewOK, CallOf
<1>7. t \in foreign'
  BY <1>2 DEF Logout, Holding
<1>8. TabInv(t)'
  BY <1>6, <1>7 DEF TabInv
<1> QED BY <1>2, <1>4, <1>8, OneTab

-----------------------------------------------------------------------------
(* A call is made on a lane that is free.                                   *)

LEMMA NotIdle == ASSUME NEW call \in CallType PROVE call # NoCall
BY DEF CallType, NoCall

LEMMA Asked ==
  ASSUME BrowserInv, NEW t \in Tabs, NEW asked \in CallType, Ask(t, asked)
  PROVE  /\ calls' \in CallsType
         /\ \A u \in Tabs \ {t}, slot \in Lanes : calls'[<<u, slot>>] = calls[<<u, slot>>]
         /\ \E lane \in Lanes :
              /\ CallOf(t, lane) = NoCall /\ CallOf(t, lane)' = asked
              /\ \A slot \in Lanes \ {lane} : CallOf(t, slot)' = CallOf(t, slot)
<1>0. calls \in CallsType
  BY Types DEF BrowserInv
<1>1. /\ \E slot \in Lanes : calls[<<t, slot>>] = NoCall
      /\ calls' = [calls EXCEPT ![<<t, FreeLane(t)>>] = asked]
  BY DEF Ask
<1>2. FreeLane(t) \in Lanes /\ calls[<<t, FreeLane(t)>>] = NoCall
  BY <1>1 DEF FreeLane
<1>3. PICK lane \in Lanes : lane = FreeLane(t)
  BY <1>2
<1>4. calls' = [calls EXCEPT ![<<t, lane>>] = asked] /\ calls[<<t, lane>>] = NoCall
  BY <1>1, <1>2, <1>3
<1>5. calls' \in CallsType
  BY <1>0, <1>4 DEF CallsType
<1>6. /\ CallOf(t, lane) = NoCall /\ CallOf(t, lane)' = asked
      /\ \A slot \in Lanes \ {lane} : CallOf(t, slot)' = CallOf(t, slot)
  BY <1>0, <1>4 DEF CallsType, CallOf
<1>7. \A u \in Tabs \ {t}, slot \in Lanes : calls'[<<u, slot>>] = calls[<<u, slot>>]
  BY <1>0, <1>4 DEF CallsType
<1> QED BY <1>5, <1>6, <1>7

(* A call more leaves a renewal waited for.                                 *)
LEMMA StillWaited ==
  ASSUME NEW t \in Tabs, Waited(t), renewal' = renewal, NEW lane \in Lanes,
         CallOf(t, lane) = NoCall,
         \A slot \in Lanes \ {lane} : CallOf(t, slot)' = CallOf(t, slot)
  PROVE  Waited(t)'
BY DEF Waited, NoCall

LEMMA Requested ==
  ASSUME SessionTypeOK, NEW kind \in {"boot", "login", "reread", "work"},
         NEW retry \in BOOLEAN, NEW as \in Accounts \cup {NoOne}
  PROVE  /\ Request(kind, retry, as) \in CallType
         /\ Request(kind, retry, as).kind = kind
         /\ Request(kind, retry, as).token = store.access
BY DEF Request, CallType, SessionTypeOK

LEMMA BootKeeps ==
  ASSUME BrowserInv, NEW t \in Tabs, Boot(t)
  PROVE  BrowserInv'
<1>0. /\ tab \in [Tabs -> TabType] /\ calls \in CallsType /\ renews \in BOOLEAN
      /\ renewal \in [Tabs -> Accounts \cup {NoOne}] /\ StoreOK
      /\ Waited(t) /\ RenewOK(t) /\ (t \notin foreign => Own(t))
  BY Types DEF BrowserInv, TabsInv, TabInv
<1>1. UNCHANGED <<renews, store, renewal, last, crossed, foreign, signIns>>
  BY DEF Boot
<1>2. SessionTyped' /\ StoreOK' /\ SessionIsLast'
  BY <1>1, Stays
<1>3. RenewOK(t)'
  BY <1>0, <1>1 DEF RenewOK
<1>4. CASE store.access = NoOne
  <2>1. tab' = [tab EXCEPT ![t].at = "ready"] /\ calls' = calls
    BY <1>4 DEF Boot
  <2>2. tab' \in [Tabs -> TabType] /\ tab'[t].user = tab[t].user
    BY <1>0, <2>1 DEF TabType
  <2>3. Apart(t) /\ SessionTypeOK'
    BY <1>0, <1>1, <1>2, <2>1, <2>2, TypesNext DEF Apart, CallsType
  <2>4. TabInv(t)'
    BY <1>0, <1>1, <1>3, <2>1, <2>2 DEF TabInv, Waited, Own, InName, CallOf, NoCall
  <2> QED BY <1>1, <1>2, <2>3, <2>4, OneTab
<1>5. CASE store.access # NoOne
  <2> DEFINE asked == Request("boot", TRUE, NoOne)
  <2>1. tab' = [tab EXCEPT ![t].at = "asking"] /\ Ask(t, asked)
    BY <1>5 DEF Boot
  <2>2. tab' \in [Tabs -> TabType] /\ tab'[t].user = tab[t].user
    BY <1>0, <2>1 DEF TabType
  <2>3. asked \in CallType /\ asked.kind = "boot" /\ asked.token = store.access
    BY Requested DEF BrowserInv
  <2> HIDE DEF asked
  <2>4. PICK lane \in Lanes :
          /\ CallOf(t, lane) = NoCall /\ CallOf(t, lane)' = asked
          /\ \A slot \in Lanes \ {lane} : CallOf(t, slot)' = CallOf(t, slot)
    BY <2>1, <2>3, Asked
  <2>5. /\ calls' \in CallsType
        /\ \A u \in Tabs \ {t}, slot \in Lanes : calls'[<<u, slot>>] = calls[<<u, slot>>]
    BY <2>1, <2>3, Asked
  <2>6. Apart(t) /\ SessionTypeOK'
    BY <1>0, <1>1, <1>2, <2>1, <2>2, <2>5, TypesNext DEF Apart
  <2>7. Waited(t)'
    BY <1>0, <1>1, <2>4, StillWaited
  <2>8. ASSUME t \notin foreign'
        PROVE  Own(t)'
    <3>1. Own(t)
      BY <1>0, <1>1, <2>8
    <3>2. InName(t, CallOf(t, lane))'
      BY <1>0, <1>1, <2>3, <2>4 DEF InName, StoreOK
    <3>3. ASSUME NEW slot \in Lanes \ {lane}
          PROVE  InName(t, CallOf(t, slot))'
      BY <1>1, <2>2, <2>4, <3>1 DEF Own, InName, NoCall
    <3> QED BY <1>1, <2>2, <3>1, <3>2, <3>3 DEF Own
  <2>9. TabInv(t)'
    BY <1>3, <2>7, <2>8 DEF TabInv
  <2> QED BY <1>1, <1>2, <2>6, <2>9, OneTab
<1> QED BY <1>4, <1>5

LEMMA SignsInKeeps ==
  ASSUME BrowserInv, NEW t \in Tabs, NEW who \in Accounts, SignsIn(t, who)
  PROVE  BrowserInv'
<1> DEFINE call == [ at |-> "sent", kind |-> "login", retry |-> TRUE,
                     token |-> Signed(who).access, as |-> who ]
<1>0. /\ tab \in [Tabs -> TabType] /\ renews \in BOOLEAN /\ who # NoOne
      /\ renewal \in [Tabs -> Accounts \cup {NoOne}] /\ Waited(t)
  BY Types, SessionAssumption DEF BrowserInv, TabsInv, TabInv
<1>1. /\ Become(Signed(who), who) /\ UNCHANGED <<renews, renewal>>
      /\ tab' = [tab EXCEPT ![t].form = FALSE] /\ Ask(t, call)
  BY DEF SignsIn
<1>2. /\ SessionTyped' /\ StoreOK' /\ SessionIsLast' /\ store'.refresh = who
      /\ foreign' = { u \in Tabs : Holding(u) }
      /\ \A u \in Tabs : renewal[u] \in {NoOne, last'} \/ crossed'
  BY <1>0, <1>1, Took
<1>3. /\ call \in CallType /\ call.token.who = who /\ call.kind = "login"
      /\ call.as = who
  <2>1. [who |-> who, fresh |-> TRUE] \in [who : Accounts, fresh : BOOLEAN]
    OBVIOUS
  <2>2. Signed(who).access = [who |-> who, fresh |-> TRUE]
    BY DEF Signed
  <2> QED BY <2>1, <2>2 DEF CallType, TokenSet
<1> HIDE DEF call
<1>4. PICK lane \in Lanes :
        /\ CallOf(t, lane) = NoCall /\ CallOf(t, lane)' = call
        /\ \A slot \in Lanes \ {lane} : CallOf(t, slot)' = CallOf(t, slot)
  BY <1>1, <1>3, Asked
<1>5. /\ calls' \in CallsType
      /\ \A u \in Tabs \ {t}, slot \in Lanes : calls'[<<u, slot>>] = calls[<<u, slot>>]
  BY <1>1, <1>3, Asked
<1>6. tab' \in [Tabs -> TabType] /\ tab'[t].user = tab[t].user
  BY <1>0, <1>1 DEF TabType
<1>7. Apart(t) /\ SessionTypeOK'
  BY <1>0, <1>1, <1>2, <1>5, <1>6, TypesNext DEF Apart
<1>8. Waited(t)' /\ RenewOK(t)'
  BY <1>0, <1>1, <1>2, <1>4, StillWaited DEF RenewOK
<1>9. ASSUME t \notin foreign'
      PROVE  Own(t)'
  <2>1. Idles(t)
    BY <1>0, <1>2, <1>9, NothingHeld
  <2>2. tab'[t].user = NoOne /\ renewal'[t] = NoOne
    BY <1>1, <1>6, <2>1 DEF Idles
  <2>3. InName(t, CallOf(t, lane))'
    BY <1>2, <1>3, <1>4 DEF InName
  <2>4. \A slot \in Lanes \ {lane} : InName(t, CallOf(t, slot))'
    BY <1>4, <2>1 DEF Idles, InName, NoCall
  <2> QED BY <2>2, <2>3, <2>4 DEF Own
<1>10. TabInv(t)'
  BY <1>8, <1>9 DEF TabInv
<1> QED BY <1>2, <1>7, <1>10, OneTab

LEMMA CallsKeep ==
  ASSUME BrowserInv, NEW t \in Tabs, NEW kind \in {"reread", "work"},
         NEW retry \in BOOLEAN, Calls(t, Request(kind, retry, NoOne))
  PROVE  BrowserInv'
<1> DEFINE asked == Request(kind, retry, NoOne)
<1>0. /\ StoreOK /\ Waited(t) /\ RenewOK(t) /\ (t \notin foreign => Own(t))
  BY DEF BrowserInv, TabsInv, TabInv
<1>1. /\ tab[t].user # NoOne /\ Ask(t, asked)
      /\ UNCHANGED <<renews, store, tab, renewal, last, crossed, foreign, signIns>>
  BY DEF Calls
<1>2. asked \in CallType /\ asked.kind = kind /\ asked.token = store.access
  BY Requested DEF BrowserInv
<1> HIDE DEF asked
<1>3. PICK lane \in Lanes :
        /\ CallOf(t, lane) = NoCall /\ CallOf(t, lane)' = asked
        /\ \A slot \in Lanes \ {lane} : CallOf(t, slot)' = CallOf(t, slot)
  BY <1>1, <1>2, Asked
<1>4. /\ calls' \in CallsType
      /\ \A u \in Tabs \ {t}, slot \in Lanes : calls'[<<u, slot>>] = calls[<<u, slot>>]
  BY <1>1, <1>2, Asked
<1>5. SessionTyped' /\ StoreOK' /\ SessionIsLast'
  BY <1>1, Stays
<1>6. Apart(t) /\ SessionTypeOK'
  BY <1>1, <1>4, <1>5, Types, TypesNext DEF Apart, BrowserInv
<1>7. Waited(t)' /\ RenewOK(t)'
  BY <1>0, <1>1, <1>3, StillWaited DEF RenewOK
<1>8. ASSUME t \notin foreign'
      PROVE  Own(t)'
  <2>1. Own(t)
    BY <1>0, <1>1, <1>8
  <2>2. InName(t, CallOf(t, lane))'
    BY <1>0, <1>1, <1>2, <1>3 DEF InName, StoreOK
  <2>3. ASSUME NEW slot \in Lanes \ {lane}
        PROVE  InName(t, CallOf(t, slot))'
    BY <1>1, <1>3, <2>1 DEF Own, InName, NoCall
  <2> QED BY <1>1, <2>1, <2>2, <2>3 DEF Own
<1>9. TabInv(t)'
  BY <1>7, <1>8 DEF TabInv
<1> QED BY <1>1, <1>5, <1>6, <1>9, OneTab

-----------------------------------------------------------------------------
(* A call's end *)

LEMMA SettledKeeps ==
  ASSUME BrowserInv, NEW t \in Tabs, NEW slot \in Lanes, NEW ok \in BOOLEAN,
         CallOf(t, slot).at = "sent", ok => CallOf(t, slot).token # NoOne,
         TabSettled(t, slot, ok), UNCHANGED <<renews, renewal>>
  PROVE  BrowserInv'
<1> DEFINE call == CallOf(t, slot)
           user == IF call.kind # "work" /\ ok THEN call.token.who
                   ELSE IF call.kind = "login" THEN call.as ELSE tab[t].user
<1>0. /\ tab \in [Tabs -> TabType] /\ calls \in CallsType /\ renews \in BOOLEAN
      /\ renewal \in [Tabs -> Accounts \cup {NoOne}]
      /\ Waited(t) /\ RenewOK(t) /\ (t \notin foreign => Own(t))
  BY Types DEF BrowserInv, TabsInv, TabInv
<1>1. call \in CallType /\ call # NoCall
  BY <1>0 DEF CallsType, CallOf, NoCall
<1>2. /\ calls' = [calls EXCEPT ![<<t, slot>>] = NoCall]
      /\ tab' = [tab EXCEPT ![t].at = IF call.kind = "boot" THEN "ready" ELSE tab[t].at,
                            ![t].user = user]
      /\ IF call.kind = "boot" /\ ~ok
         THEN Dropped ELSE UNCHANGED <<store, last, crossed, foreign, signIns>>
  <2>1. tab[t] \in TabType
    BY <1>0
  <2> QED BY <1>0, <2>1 DEF TabSettled, CallOf, TabType
<1>3. user \in Accounts \cup {NoOne}
  <2>1. tab[t].user \in Accounts \cup {NoOne}
    BY <1>0 DEF TabType
  <2> QED BY <1>1, <2>1 DEF CallType, TokenSet
<1>4. /\ calls' \in CallsType /\ CallOf(t, slot)' = NoCall
      /\ \A s \in Lanes \ {slot} : CallOf(t, s)' = CallOf(t, s)
      /\ \A u \in Tabs \ {t}, s \in Lanes : calls'[<<u, s>>] = calls[<<u, s>>]
  BY <1>0, <1>2 DEF CallsType, CallOf
<1> HIDE DEF user
<1>5. /\ tab' \in [Tabs -> TabType] /\ tab'[t].user = user
      /\ \A u \in Tabs \ {t} : tab'[u] = tab[u]
  BY <1>0, <1>2, <1>3 DEF TabType
<1>6. Apart(t)
  BY <1>4, <1>5 DEF Apart
<1>7. Waited(t)'
  BY <1>0, <1>4 DEF Waited
<1>8. CASE call.kind = "boot" /\ ~ok
  <2>1. Dropped
    BY <1>2, <1>8
  <2>2. /\ SessionTyped' /\ StoreOK' /\ SessionIsLast'
        /\ foreign' = { u \in Tabs : Holding(u) }
        /\ last' = last /\ crossed' = crossed
    BY <2>1, Lost
  <2>3. t \in foreign'
    BY <1>1, <2>2 DEF Holding, CallOf
  <2>4. TabInv(t)'
    BY <1>0, <1>7, <2>2, <2>3 DEF TabInv, RenewOK
  <2>5. SessionTypeOK'
    BY <1>0, <1>4, <1>5, <2>2, TypesNext
  <2> QED BY <1>6, <2>2, <2>4, <2>5, OneTab
<1>9. CASE ~(call.kind = "boot" /\ ~ok)
  <2>1. UNCHANGED <<store, last, crossed, foreign, signIns>>
    BY <1>2, <1>9
  <2>2. SessionTyped' /\ StoreOK' /\ SessionIsLast'
    BY <2>1, Stays
  <2>3. SessionTypeOK'
    BY <1>0, <1>4, <1>5, <2>2, TypesNext
  <2>4. ASSUME t \notin foreign'
        PROVE  Own(t)'
    <3>1. Own(t) /\ InName(t, call)
      BY <1>0, <2>1, <2>4 DEF Own
    <3>2. user \in {tab[t].user, store.refresh}
      BY <1>1, <3>1 DEF InName, user
    <3>3. tab'[t].user \in {NoOne, store'.refresh}
      BY <1>5, <2>1, <3>1, <3>2 DEF Own
    <3>4. tab[t].user # NoOne => tab'[t].user # NoOne
      BY <1>5, <3>1, <3>2 DEF Own
    <3>5. \A s \in Lanes \ {slot} : InName(t, CallOf(t, s))'
      BY <1>4, <2>1, <3>1, <3>4 DEF Own, InName, NoCall
    <3>6. InName(t, CallOf(t, slot))'
      BY <1>4 DEF InName, NoCall
    <3> QED BY <2>1, <3>1, <3>3, <3>5, <3>6 DEF Own
  <2>5. TabInv(t)'
    BY <1>0, <1>7, <2>1, <2>4 DEF TabInv, RenewOK
  <2> QED BY <1>6, <2>1, <2>2, <2>3, <2>5, OneTab
<1> QED BY <1>8, <1>9

LEMMA RefusedKeeps ==
  ASSUME BrowserInv, NEW t \in Tabs, NEW slot \in Lanes, Refused(t, slot)
  PROVE  BrowserInv'
<1>0. /\ tab \in [Tabs -> TabType] /\ calls \in CallsType /\ renews \in BOOLEAN
      /\ renewal \in [Tabs -> Accounts \cup {NoOne}] /\ SessionTyped
      /\ Waited(t) /\ RenewOK(t) /\ SessionIsLast /\ (t \notin foreign => Own(t))
  BY Types DEF BrowserInv, TabsInv, TabInv
<1>1. /\ CallOf(t, slot).at = "sent" /\ store.refresh # NoOne
      /\ renewal' = [renewal EXCEPT ![t] = IF @ = NoOne THEN store.refresh ELSE @]
      /\ calls' = [calls EXCEPT ![<<t, slot>>].at = "renewing"]
      /\ UNCHANGED <<renews, store, tab, last, crossed, foreign, signIns>>
  BY DEF Refused, MayRenew, CallOf
<1>2. CallOf(t, slot) \in CallType
  BY <1>0, <1>1 DEF CallsType, CallOf, NoCall
<1>3. /\ CallOf(t, slot)' = [CallOf(t, slot) EXCEPT !.at = "renewing"]
      /\ \A s \in Lanes \ {slot} : CallOf(t, s)' = CallOf(t, s)
      /\ \A u \in Tabs \ {t}, s \in Lanes : calls'[<<u, s>>] = calls[<<u, s>>]
  BY <1>0, <1>1 DEF CallsType, CallOf
<1>4. /\ CallOf(t, slot)' \in CallType /\ CallOf(t, slot)'.at = "renewing"
      /\ CallOf(t, slot)'.kind = CallOf(t, slot).kind
      /\ CallOf(t, slot)'.as = CallOf(t, slot).as
      /\ CallOf(t, slot)'.token = CallOf(t, slot).token
  BY <1>2, <1>3 DEF CallType
<1>5. calls' \in CallsType
  BY <1>0, <1>1, <1>4 DEF CallsType, CallOf
<1>6. /\ renewal' \in [Tabs -> Accounts \cup {NoOne}]
      /\ renewal'[t] \in {renewal[t], store.refresh}
      /\ \A u \in Tabs \ {t} : renewal'[u] = renewal[u]
  BY <1>0, <1>1 DEF SessionTyped
<1>7. SessionTyped' /\ StoreOK' /\ SessionIsLast'
  BY <1>1, Stays
<1>8. SessionTypeOK' /\ Apart(t)
  BY <1>0, <1>1, <1>3, <1>5, <1>6, <1>7, TypesNext DEF Apart
<1>9. Waited(t)' /\ RenewOK(t)'
  BY <1>0, <1>1, <1>4, <1>6 DEF Waited, RenewOK, SessionIsLast
<1>10. ASSUME t \notin foreign'
       PROVE  Own(t)'
  <2>1. Own(t) /\ InName(t, CallOf(t, slot))
    BY <1>0, <1>1, <1>10 DEF Own
  <2>2. InName(t, CallOf(t, slot))'
    BY <1>1, <1>2, <1>4, <2>1, NotIdle DEF InName
  <2>3. \A s \in Lanes \ {slot} : InName(t, CallOf(t, s))'
    BY <1>1, <1>3, <2>1 DEF Own, InName, NoCall
  <2> QED BY <1>1, <1>6, <2>1, <2>2, <2>3 DEF Own
<1>11. TabInv(t)'
  BY <1>9, <1>10 DEF TabInv
<1> QED BY <1>1, <1>7, <1>8, <1>11, OneTab

LEMMA GrantedKeeps ==
  ASSUME BrowserInv, NEW t \in Tabs, RenewalGranted(t)
  PROVE  BrowserInv'
<1> DEFINE next == Signed(renewal[t])
<1>0. /\ calls \in CallsType /\ SessionTyped /\ tab \in [Tabs -> TabType]
      /\ renewal \in [Tabs -> Accounts \cup {NoOne}] /\ renews \in BOOLEAN
      /\ Waited(t) /\ RenewOK(t) /\ StoreOK /\ SessionIsLast
      /\ t \notin foreign => Own(t)
  BY Types DEF BrowserInv, TabsInv, TabInv
<1>1. /\ renewal[t] # NoOne /\ store' = next
      /\ renewal' = [renewal EXCEPT ![t] = NoOne]
      /\ foreign' = IF store.refresh = renewal[t] THEN foreign
                    ELSE { u \in Tabs : Holding(u) }
      /\ UNCHANGED <<renews, tab, last, crossed, signIns>>
      /\ calls' = [ k \in Tabs \X Lanes |->
                      IF k[1] = t /\ calls[k].at = "renewing"
                      THEN Replayed(calls[k], next.access) ELSE calls[k] ]
  <2>1. DOMAIN calls = Tabs \X Lanes
    BY <1>0 DEF CallsType
  <2> QED BY <2>1 DEF RenewalGranted
<1>2. renewal[t] \in Accounts
  BY <1>0, <1>1
<1>3. /\ next \in [access : TokenSet, refresh : Accounts \cup {NoOne}]
      /\ next.refresh = renewal[t] /\ next.access # NoOne
      /\ next.access.who = renewal[t] /\ next.access \in TokenSet
  <2>1. /\ next \in [access : TokenSet, refresh : Accounts \cup {NoOne}]
        /\ next.refresh = renewal[t] /\ next.access # NoOne
        /\ next.access.who = renewal[t]
    BY <1>1, <1>2, Tokens
  <2> HIDE DEF next
  <2> QED BY <2>1
<1> HIDE DEF next
<1>4. SessionTyped' /\ StoreOK' /\ SessionIsLast'
  <2>1. foreign' \subseteq Tabs
    BY <1>0, <1>1 DEF SessionTyped
  <2> QED BY <1>0, <1>1, <1>2, <1>3, <2>1, SessionAssumption
        DEF SessionTyped, StoreOK, SessionIsLast, RenewOK
<1>5. ASSUME NEW slot \in Lanes
      PROVE  /\ calls'[<<t, slot>>] \in {NoCall} \cup CallType
             /\ CallOf(t, slot)' = NoCall <=> CallOf(t, slot) = NoCall
             /\ CallOf(t, slot) # NoCall =>
                  /\ CallOf(t, slot)'.kind = CallOf(t, slot).kind
                  /\ CallOf(t, slot)'.as = CallOf(t, slot).as
                  /\ CallOf(t, slot)'.token \in {CallOf(t, slot).token, next.access}
  <2>1. CASE CallOf(t, slot).at = "renewing"
    <3>1. CallOf(t, slot)' = Replayed(CallOf(t, slot), next.access)
      BY <1>1, <2>1 DEF CallOf
    <3>2. CallOf(t, slot) \in CallType /\ CallOf(t, slot) # NoCall
      BY <1>0, <2>1 DEF CallsType, CallOf, NoCall
    <3>3. /\ CallOf(t, slot)'.kind = CallOf(t, slot).kind
          /\ CallOf(t, slot)'.as = CallOf(t, slot).as
          /\ CallOf(t, slot)'.token = next.access
          /\ CallOf(t, slot)' \in CallType
      BY <1>3, <3>1, <3>2 DEF Replayed, CallType
    <3>4. CallOf(t, slot)' # NoCall
      BY <3>3 DEF CallType, NoCall
    <3> QED BY <3>2, <3>3, <3>4 DEF CallOf
  <2>2. CASE CallOf(t, slot).at # "renewing"
    <3>1. CallOf(t, slot)' = CallOf(t, slot)
      BY <1>1, <2>2 DEF CallOf
    <3>2. CallOf(t, slot) \in {NoCall} \cup CallType
      BY <1>0 DEF CallsType, CallOf
    <3> QED BY <3>1, <3>2 DEF CallOf
  <2> QED BY <2>1, <2>2
<1>6. \A u \in Tabs \ {t}, slot \in Lanes : calls'[<<u, slot>>] = calls[<<u, slot>>]
  BY <1>1
<1>7. calls' \in CallsType
  <2>1. ASSUME NEW u \in Tabs, NEW slot \in Lanes
        PROVE  calls'[<<u, slot>>] \in {NoCall} \cup CallType
    BY <1>0, <1>5, <1>6 DEF CallsType
  <2>2. \A k \in Tabs \X Lanes : calls'[k] \in {NoCall} \cup CallType
    BY <2>1
  <2>3. calls' = [k \in Tabs \X Lanes |-> calls'[k]]
    BY <1>1
  <2> QED BY <2>2, <2>3 DEF CallsType
<1>8. /\ renewal' \in [Tabs -> Accounts \cup {NoOne}] /\ renewal'[t] = NoOne
      /\ \A u \in Tabs \ {t} : renewal'[u] = renewal[u]
  BY <1>0, <1>1
<1>9. Apart(t) /\ SessionTypeOK'
  BY <1>0, <1>1, <1>4, <1>6, <1>7, <1>8, TypesNext DEF Apart
<1>10. Waited(t)' /\ RenewOK(t)'
  BY <1>8 DEF Waited, RenewOK
<1>11. \E slot \in Lanes : CallOf(t, slot) # NoCall
  BY <1>0, <1>1 DEF Waited, NoCall
<1>12. ASSUME t \notin foreign'
       PROVE  Own(t)'
  <2>1. store.refresh = renewal[t] /\ t \notin foreign
    <3>1. Holding(t)
      BY <1>11 DEF Holding, CallOf
    <3> QED BY <1>1, <1>12, <3>1
  <2>2. Own(t) /\ store'.refresh = store.refresh
    BY <1>0, <1>1, <1>3, <2>1
  <2>3. \A slot \in Lanes : InName(t, CallOf(t, slot))'
    BY <1>1, <1>3, <1>5, <2>1, <2>2 DEF Own, InName
  <2> QED BY <1>1, <1>8, <2>2, <2>3 DEF Own
<1>13. TabInv(t)'
  BY <1>10, <1>12 DEF TabInv
<1>14. \/ /\ store'.refresh = store.refresh
          /\ \A u \in Tabs \ {t} : u \notin foreign' => u \notin foreign
       \/ foreign' = { u \in Tabs : Holding(u) }
  BY <1>1, <1>3
<1> QED BY <1>1, <1>4, <1>9, <1>13, <1>14, OneTab

LEMMA UnrenewedKeeps ==
  ASSUME BrowserInv, NEW t \in Tabs, RenewalRefused(t)
  PROVE  BrowserInv'
<1> DEFINE waiting == { slot \in Lanes : CallOf(t, slot).at = "renewing" }
           asking  == \E slot \in waiting : CallOf(t, slot).kind = "boot"
           as      == { CallOf(t, slot).as :
                          slot \in { s \in waiting : CallOf(t, s).kind = "login" } }
           user    == IF as # {} THEN CHOOSE who \in as : TRUE ELSE tab[t].user
<1>0. /\ tab \in [Tabs -> TabType] /\ calls \in CallsType /\ renews \in BOOLEAN
      /\ renewal \in [Tabs -> Accounts \cup {NoOne}]
      /\ Waited(t) /\ RenewOK(t) /\ (t \notin foreign => Own(t))
  BY Types DEF BrowserInv, TabsInv, TabInv
<1>1. /\ renewal[t] # NoOne /\ renews' = renews
      /\ renewal' = [renewal EXCEPT ![t] = NoOne]
      /\ calls' = [ k \in Tabs \X Lanes |->
                      IF k[1] = t /\ k[2] \in waiting THEN NoCall ELSE calls[k] ]
      /\ tab' = [tab EXCEPT ![t].at = IF asking THEN "ready" ELSE tab[t].at,
                            ![t].user = user]
      /\ IF asking THEN Dropped ELSE UNCHANGED <<store, last, crossed, foreign, signIns>>
  <2>1. DOMAIN calls = Tabs \X Lanes
    BY <1>0 DEF CallsType
  <2>2. tab[t] \in TabType
    BY <1>0
  <2> QED BY <1>0, <2>1, <2>2 DEF RenewalRefused, CallOf, TabType
<1>2. /\ renewal' \in [Tabs -> Accounts \cup {NoOne}] /\ renewal'[t] = NoOne
      /\ \A u \in Tabs \ {t} : renewal'[u] = renewal[u]
  BY <1>0, <1>1
<1>3. /\ calls' \in CallsType
      /\ \A u \in Tabs \ {t}, slot \in Lanes : calls'[<<u, slot>>] = calls[<<u, slot>>]
      /\ \A slot \in waiting : CallOf(t, slot)' = NoCall
      /\ \A slot \in Lanes \ waiting : CallOf(t, slot)' = CallOf(t, slot)
  BY <1>0, <1>1 DEF CallsType, CallOf
<1>4. \A slot \in waiting : CallOf(t, slot) # NoCall /\ CallOf(t, slot) \in CallType
  BY <1>0 DEF CallsType, CallOf, NoCall
<1>5. user \in as \cup {tab[t].user}
  OBVIOUS
<1>6. as \subseteq Accounts \cup {NoOne}
  BY <1>4 DEF CallType
<1>7. user \in Accounts \cup {NoOne}
  <2>1. tab[t].user \in Accounts \cup {NoOne}
    BY <1>0 DEF TabType
  <2> HIDE DEF user, as
  <2> QED BY <1>5, <1>6, <2>1
<1> HIDE DEF user
<1>8. /\ tab' \in [Tabs -> TabType] /\ tab'[t].user = user
      /\ \A u \in Tabs \ {t} : tab'[u] = tab[u]
  BY <1>0, <1>1, <1>7 DEF TabType
<1>9. Apart(t) /\ Waited(t)'
  BY <1>2, <1>3, <1>8 DEF Apart, Waited
<1>10. CASE asking
  <2>1. /\ SessionTyped' /\ StoreOK' /\ SessionIsLast'
        /\ foreign' = { u \in Tabs : Holding(u) }
        /\ last' = last /\ crossed' = crossed
    BY <1>1, <1>10, Lost
  <2>2. t \in foreign'
    BY <1>4, <1>10, <2>1 DEF Holding, CallOf
  <2>3. TabInv(t)'
    BY <1>2, <1>9, <2>2 DEF TabInv, RenewOK
  <2>4. SessionTypeOK'
    BY <1>0, <1>1, <1>2, <1>3, <1>8, <2>1, TypesNext
  <2> QED BY <1>9, <2>1, <2>3, <2>4, OneTab
<1>11. CASE ~asking
  <2>1. UNCHANGED <<store, last, crossed, foreign, signIns>>
    BY <1>1, <1>11
  <2>2. SessionTyped' /\ StoreOK' /\ SessionIsLast'
    BY <2>1, Stays
  <2>3. SessionTypeOK'
    BY <1>0, <1>1, <1>2, <1>3, <1>8, <2>2, TypesNext
  <2>4. ASSUME t \notin foreign'
        PROVE  Own(t)'
    <3>1. Own(t)
      BY <1>0, <2>1, <2>4
    <3>2. \A who \in as : who = store.refresh
      BY <1>4, <3>1 DEF Own, InName
    <3> HIDE DEF as, waiting
    <3>3. user \in {tab[t].user, store.refresh}
      BY <1>5, <3>2
    <3>4. tab'[t].user \in {NoOne, store'.refresh}
      BY <1>8, <2>1, <3>1, <3>3 DEF Own
    <3>5. tab[t].user # NoOne => tab'[t].user # NoOne
      BY <1>8, <3>1, <3>3 DEF Own
    <3>6. ASSUME NEW slot \in Lanes
          PROVE  InName(t, CallOf(t, slot))'
      BY <1>3, <2>1, <3>1, <3>5 DEF Own, InName, NoCall
    <3> QED BY <1>2, <3>4, <3>6 DEF Own
  <2>5. TabInv(t)'
    BY <1>2, <1>9, <2>4 DEF TabInv, RenewOK
  <2> QED BY <1>9, <2>1, <2>2, <2>3, <2>5, OneTab
<1> QED BY <1>10, <1>11

LEMMA AgedToken ==
  ASSUME NEW token \in TokenSet
  PROVE  /\ Aged(token) \in TokenSet
         /\ Aged(token) = NoOne <=> token = NoOne
         /\ token # NoOne => Aged(token).who = token.who
<1>1. CASE token = NoOne
  BY <1>1 DEF Aged
<1>2. CASE token # NoOne
  <2>1. token \in [who : Accounts, fresh : BOOLEAN] /\ Aged(token) = [token EXCEPT !.fresh = FALSE]
    BY <1>2 DEF TokenSet, Aged
  <2>2. Aged(token) \in [who : Accounts, fresh : BOOLEAN] /\ Aged(token).who = token.who
    BY <2>1
  <2> QED BY <1>2, <2>2, SessionAssumption DEF TokenSet
<1> QED BY <1>1, <1>2

LEMMA ExpireKeeps ==
  ASSUME BrowserInv, Expire
  PROVE  BrowserInv'
<1>0. /\ calls \in CallsType /\ SessionTyped /\ StoreOK /\ SessionIsLast
      /\ store.access \in TokenSet
  BY Types DEF BrowserInv, SessionTyped
<1>1. /\ store.access # NoOne
      /\ store' = [store EXCEPT !.access = Aged(store.access)]
      /\ UNCHANGED <<renews, tab, renewal, last, crossed, foreign, signIns>>
      /\ calls' = [ k \in Tabs \X Lanes |->
                      IF calls[k] = NoCall THEN NoCall
                      ELSE [calls[k] EXCEPT !.token = Aged(calls[k].token)] ]
  <2>1. DOMAIN calls = Tabs \X Lanes
    BY <1>0 DEF CallsType
  <2> QED BY <2>1 DEF Expire
<1>2. /\ store' \in [access : TokenSet, refresh : Accounts \cup {NoOne}]
      /\ store'.refresh = store.refresh /\ store'.access = Aged(store.access)
  BY <1>0, <1>1, AgedToken DEF SessionTyped
<1>3. StoreOK'
  BY <1>0, <1>1, <1>2, AgedToken DEF StoreOK
<1>4. ASSUME NEW t \in Tabs, NEW slot \in Lanes
      PROVE  /\ CallOf(t, slot)' \in {NoCall} \cup CallType
             /\ CallOf(t, slot)' = NoCall <=> CallOf(t, slot) = NoCall
             /\ CallOf(t, slot)'.at = CallOf(t, slot).at
             /\ CallOf(t, slot) # NoCall =>
                  /\ CallOf(t, slot)'.kind = CallOf(t, slot).kind
                  /\ CallOf(t, slot)'.as = CallOf(t, slot).as
                  /\ CallOf(t, slot).token \in TokenSet
                  /\ CallOf(t, slot)'.token = Aged(CallOf(t, slot).token)
  <2>1. CASE CallOf(t, slot) = NoCall
    BY <1>1, <2>1 DEF CallOf
  <2>2. CASE CallOf(t, slot) # NoCall
    <3>1. CallOf(t, slot) \in CallType
      BY <1>0, <2>2 DEF CallsType, CallOf
    <3>2. CallOf(t, slot)' =
            [CallOf(t, slot) EXCEPT !.token = Aged(CallOf(t, slot).token)]
      BY <1>1, <2>2 DEF CallOf
    <3>3. CallOf(t, slot).token \in TokenSet
      BY <3>1 DEF CallType
    <3>4. Aged(CallOf(t, slot).token) \in TokenSet
      BY <3>3, AgedToken
    <3>5. /\ CallOf(t, slot)' \in CallType
          /\ CallOf(t, slot)'.at = CallOf(t, slot).at
          /\ CallOf(t, slot)'.kind = CallOf(t, slot).kind
          /\ CallOf(t, slot)'.as = CallOf(t, slot).as
          /\ CallOf(t, slot)'.token = Aged(CallOf(t, slot).token)
      BY <3>1, <3>2, <3>4 DEF CallType
    <3>6. CallOf(t, slot)' # NoCall
      BY <3>5 DEF CallType, NoCall
    <3> QED BY <2>2, <3>3, <3>5, <3>6
  <2> QED BY <2>1, <2>2
<1>5. calls' \in CallsType
  <2>1. \A k \in Tabs \X Lanes : calls'[k] \in {NoCall} \cup CallType
    BY <1>4 DEF CallOf
  <2>2. calls' = [k \in Tabs \X Lanes |-> calls'[k]]
    BY <1>1
  <2> QED BY <2>1, <2>2 DEF CallsType
<1>6. ASSUME NEW t \in Tabs
      PROVE  TabInv(t)'
  <2>1. Waited(t) /\ RenewOK(t) /\ (t \notin foreign => Own(t))
    BY DEF BrowserInv, TabsInv, TabInv
  <2>2. Waited(t)' /\ RenewOK(t)'
    BY <1>1, <1>4, <2>1 DEF Waited, RenewOK
  <2>3. ASSUME t \notin foreign'
        PROVE  Own(t)'
    <3>1. Own(t)
      BY <1>1, <2>1, <2>3
    <3>2. ASSUME NEW slot \in Lanes
          PROVE  InName(t, CallOf(t, slot))'
      <4>1. InName(t, CallOf(t, slot))
        BY <3>1 DEF Own
      <4> QED BY <1>1, <1>2, <1>4, <4>1, AgedToken DEF InName
    <3> QED BY <1>1, <1>2, <3>1, <3>2 DEF Own
  <2> QED BY <2>2, <2>3 DEF TabInv
<1>7. SessionTyped' /\ SessionIsLast'
  BY <1>0, <1>1, <1>2 DEF SessionTyped, SessionIsLast
<1>8. SessionTypeOK'
  BY <1>1, <1>5, <1>7, Types, TypesNext DEF BrowserInv
<1> QED BY <1>3, <1>6, <1>7, <1>8 DEF BrowserInv, TabsInv

LEMMA BrowserStep == BrowserInv /\ [SessionNext]_sessionVars => BrowserInv'
<1> SUFFICES ASSUME BrowserInv, [SessionNext]_sessionVars
             PROVE  BrowserInv'
  OBVIOUS
<1>1. ASSUME NEW t \in Tabs, LoadDocument(t) \/ Boot(t) \/ Logout(t)
      PROVE  BrowserInv'
  BY <1>1, LoadsKeep, BootKeeps, LogoutKeeps
<1>2. ASSUME NEW t \in Tabs, NEW who \in Accounts,
             \/ Login(t, who) \/ ConsoleLogin(t, who)
             \/ SsoSignIn(t, who) \/ ActivateInner(t, who) \/ ResetInner(t, who)
      PROVE  BrowserInv'
  BY <1>2, SignsInKeeps, EntersKeep
    DEF Login, ConsoleLogin, SsoSignIn, ActivateInner, ResetInner
<1>3. ASSUME NEW t \in Tabs, Send(t) \/ Upload(t) \/ Reread(t)
      PROVE  BrowserInv'
  BY <1>3, CallsKeep DEF Send, Upload, Reread
<1>4. ASSUME NEW t \in Tabs, NEW slot \in Lanes, CallReplies(t, slot)
      PROVE  BrowserInv'
  <2>1. CASE CallAnswered(t, slot)
    <3>1. /\ CallOf(t, slot).at = "sent" /\ CallOf(t, slot).token # NoOne
          /\ TabSettled(t, slot, TRUE) /\ UNCHANGED <<renews, renewal>>
      BY <2>1 DEF CallAnswered, Accepted, CallOf
    <3> QED BY <3>1, SettledKeeps
  <2>2. CASE CallFails(t, slot)
    <3>1. /\ CallOf(t, slot).at = "sent"
          /\ TabSettled(t, slot, FALSE) /\ UNCHANGED <<renews, renewal>>
      BY <2>2 DEF CallFails, CallOf
    <3> QED BY <3>1, SettledKeeps
  <2>3. CASE Refused(t, slot)
    BY <2>3, RefusedKeeps
  <2> QED BY <1>4, <2>1, <2>2, <2>3 DEF CallReplies
<1>5. ASSUME NEW t \in Tabs, RenewalReplies(t)
      PROVE  BrowserInv'
  BY <1>5, GrantedKeeps, UnrenewedKeeps DEF RenewalReplies
<1>6. CASE Expire
  BY <1>6, ExpireKeeps
<1>7. CASE UNCHANGED sessionVars
  <2> USE <1>7 DEF sessionVars
  <2>1. SessionTypeOK' /\ StoreOK' /\ SessionIsLast'
    BY DEF BrowserInv, SessionTypeOK, StoreOK, SessionIsLast
  <2>2. ASSUME NEW t \in Tabs
        PROVE  TabInv(t)'
    <3>1. TabInv(t)
      BY DEF BrowserInv, TabsInv
    <3> QED BY <3>1 DEF TabInv, Waited, RenewOK, Own, InName, CallOf, NoCall
  <2> QED BY <2>1, <2>2 DEF BrowserInv, TabsInv
<1> QED BY <1>1, <1>2, <1>3, <1>4, <1>5, <1>6, <1>7 DEF SessionNext

(* The inductive invariant of a browser's tabs, calls and storage: as long  *)
(* as the storage has not changed under a tab that held a session, the user *)
(* it shows, its calls and its renewal are of the session that is stored.   *)
THEOREM BrowserInvariant == SessionSpec => []BrowserInv
BY BrowserInit, BrowserStep, PTL DEF SessionSpec

(* The storage holds the session signed in to last or none, unless another  *)
(* one was being renewed when it began or ended; and a tab asks in the name *)
(* it shows, unless the stored session changed while it showed someone or   *)
(* had a call under way (SessionInv): with any number of tabs, calls and    *)
(* accounts, and with sign-ins, boots, renewals and sign-outs of one tab    *)
(* under way together.                                                      *)
THEOREM SessionsSafe == SessionSpec => []SessionInv
<1>1. BrowserInv => SessionInv
  BY BrowserGives
<1> QED BY <1>1, BrowserInvariant, PTL
=============================================================================
