---------------------------- MODULE BookingRace ----------------------------
(***************************************************************************)
(* The handlers of the booking core at the granularity at which they really*)
(* interleave: every `await` on the database lets other requests run.  No  *)
(* handler uses a transaction, so what it read may be stale when it writes.*)
(*                                                                         *)
(* Modelled: create, update, cancel (booking.service.ts) and decide        *)
(* (approval.service.ts), one database call per step, and the restart of   *)
(* the API process in the middle of them.  The clock stands still, all     *)
(* meetings lie ahead, rooms and policies do not change, no policy sets a  *)
(* daily quota, and the checks that read only the request are taken to have*)
(* passed: Booking covers them.  Each member of Requests serves one request*)
(* of a caller who may make it.                                            *)
(***************************************************************************)
EXTENDS BookingRules

CONSTANTS
  Requests,     \* the requests of the behaviour
  Rooms,        \* bookable resources
  GatedRooms,   \* rooms whose policy requires approval
  Users,        \* those who may decide a step that names nobody
  Levels,       \* approverIds of each room's policy
  NoUser,       \* the approver of an unassigned step
  Keep,         \* a field the update request does not send
  Ranges,       \* the slots requests ask for
  Serieses,     \* the occurrences create requests ask for
  Buffer,       \* bufferMinutes of every room
  SeedBookings, \* the Booking table at the start ...
  SeedSteps,    \* ... and its ApprovalSteps
  MayRestart    \* does the process restart?

ASSUME ActorAssumption ==
  /\ GatedRooms \subseteq Rooms
  /\ Levels \in [Rooms -> Seq(Users)]
  /\ NoUser \notin Users
  /\ Keep \notin Rooms \cup Ranges
  /\ Buffer \in Nat

VARIABLES
  bookings, \* the Booking table, in creation order
  steps,    \* the ApprovalStep table: id -> step
  req,      \* where each request stands, and what it has read
  together, \* history: pairs of creates and updates that were in flight at once
  revived   \* history: bookings an approval brought back from a final state

vars == <<bookings, steps, req, together, revived>>

(* A step is identified by who issued it, for which booking, at which level. *)
StepIds == (Requests \cup {"seed"}) \X (Nat \ {0}) \X (Nat \ {0})

RowType == [ status : BookingStates, room : Rooms, start : Nat, end : Nat,
             writers : SUBSET Requests ]

StepType == [approver : Users \cup {NoUser}, decision : Decisions]

(* The occurrences of a series lie on different days (generateOccurrences), *)
(* each within one, unless a policy lets a meeting last for days (Booking's *)
(* Crowded).                                                                *)
ASSUME SlotAssumption ==
  /\ Ranges \subseteq [start : Nat, end : Nat]
  /\ \A series \in Serieses :
       /\ series \in Seq([start : Nat, end : Nat])
       /\ series # <<>>
       /\ \A i, j \in DOMAIN series : i # j => Disjoint(series[i], series[j])

(* The requests start from a table on which the earlier ones have returned  *)
(* and did not race.                                                        *)
ASSUME SeedAssumption ==
  /\ SeedBookings \in Seq(RowType)
  /\ \A a, b \in DOMAIN SeedBookings :
       /\ a # b
       /\ SeedBookings[a].status \in ActiveStates
       /\ SeedBookings[b].status \in ActiveStates
       /\ SeedBookings[a].room = SeedBookings[b].room
       => Disjoint(SeedBookings[a], SeedBookings[b])
  /\ DOMAIN SeedSteps \subseteq {"seed"} \X (DOMAIN SeedBookings) \X (Nat \ {0})
  /\ \A s \in DOMAIN SeedSteps : SeedSteps[s] \in StepType
  /\ \A b \in DOMAIN SeedBookings :
       SeedBookings[b].status = "PENDING" =>
         \E s \in DOMAIN SeedSteps : s[2] = b /\ SeedSteps[s].decision = "PENDING"

Stages == {"idle", "check", "insert", "issue", "recheck", "rewrite", "revoke",
           "resend", "cancel", "decide", "tally", "settle", "done", "dead"}

Live(r) == req[r].pc \notin {"idle", "done", "dead"}

TypeOK ==
  /\ bookings \in Seq(RowType)
  /\ DOMAIN steps \subseteq StepIds
  /\ \A s \in DOMAIN steps : steps[s] \in StepType /\ s[2] \in DOMAIN bookings
  /\ DOMAIN req = Requests
  /\ \A r \in Requests : req[r].pc \in Stages
  /\ together \subseteq SUBSET Requests
  /\ revived \subseteq DOMAIN bookings

Init ==
  /\ bookings = SeedBookings
  /\ steps = SeedSteps
  /\ req = [r \in Requests |-> [pc |-> "idle"]]
  /\ together = {}
  /\ revived = {}

-----------------------------------------------------------------------------

Active(row) == row.status \in ActiveStates

ConflictWithApproved(room, slot, exclude) ==
  \E b \in DOMAIN bookings \ {exclude} :
    /\ bookings[b].status = "APPROVED"
    /\ bookings[b].room = room
    /\ OverlapsBuffered(slot, bookings[b], Buffer)

(* hasConflict, as of now. *)
Conflict(room, slot, exclude) ==
  \E b \in DOMAIN bookings \ {exclude} :
    /\ Active(bookings[b])
    /\ bookings[b].room = room
    /\ OverlapsBuffered(slot, bookings[b], Buffer)

StepsOf(b) == { s \in DOMAIN steps : s[2] = b }

Goes(r, state) == req' = [req EXCEPT ![r] = state]

Stops(r) == Goes(r, [pc |-> "done"])

(* A create or an update begins: it now overlaps with those in flight. *)
WritesSlots(r) == Live(r) /\ req[r].slots

Overlaps(r) == together' = together \cup { {r, s} : s \in { q \in Requests : WritesSlots(q) } }

(* One step for whoever may approve, or one level per named approver. *)
Issued(room) == IF Levels[room] = <<>> THEN <<NoUser>> ELSE Levels[room]

-----------------------------------------------------------------------------
(* POST /bookings *)

CreateStart(r, room, series) ==
  /\ req[r].pc = "idle"
  /\ Goes(r, [pc |-> "check", slots |-> TRUE, room |-> room, series |-> series, k |-> 1])
  /\ Overlaps(r)
  /\ UNCHANGED <<bookings, steps, revived>>

(* The occurrences are checked one query at a time ... *)
CreateCheck(r) ==
  /\ req[r].pc = "check"
  /\ LET q == req[r]
     IN  IF Conflict(q.room, q.series[q.k], 0) THEN Stops(r)
         ELSE IF q.k < Len(q.series) THEN Goes(r, [q EXCEPT !.k = q.k + 1])
         ELSE Goes(r, [q EXCEPT !.pc = "insert", !.k = 1])
  /\ UNCHANGED <<bookings, steps, together, revived>>

(* What a create does once an occurrence and its steps are stored. *)
NextOccurrence(r) ==
  IF req[r].k < Len(req[r].series)
  THEN [pc |-> "insert", slots |-> TRUE, room |-> req[r].room,
        series |-> req[r].series, k |-> req[r].k + 1]
  ELSE [pc |-> "done"]

(* ... and persisted one row at a time. *)
CreateInsert(r) ==
  /\ req[r].pc = "insert"
  /\ LET room == req[r].room
         slot == req[r].series[req[r].k]
         gated == room \in GatedRooms
     IN  /\ bookings' = Append(bookings,
                          [ status |-> IF gated THEN "PENDING" ELSE "APPROVED",
                            room |-> room, start |-> slot.start, end |-> slot.end,
                            writers |-> {r} ])
         /\ IF gated
            THEN Goes(r, [ pc |-> "issue", slots |-> TRUE, booking |-> Len(bookings) + 1,
                           level |-> 1, room |-> room, series |-> req[r].series,
                           k |-> req[r].k ])
            ELSE Goes(r, NextOccurrence(r))
  /\ UNCHANGED <<steps, together, revived>>

(* createApprovalSteps, for create() and update(): one insert per level. *)
IssueStep(r) ==
  /\ req[r].pc = "issue"
  /\ LET approvers == Issued(req[r].room)
         level == req[r].level
         id == <<r, req[r].booking, level>>
     IN  /\ steps' = [ s \in DOMAIN steps \cup {id} |->
                         IF s = id
                         THEN [approver |-> approvers[level], decision |-> "PENDING"]
                         ELSE steps[s] ]
         /\ Goes(r, IF level < Len(approvers)
                    THEN [req[r] EXCEPT !.level = level + 1]
                    ELSE NextOccurrence(r))
  /\ UNCHANGED <<bookings, together, revived>>

-----------------------------------------------------------------------------
(* PATCH /bookings/:id, moving the booking. *)

UpdateRead(r, b, toRoom, toSlot) ==
  LET row == bookings[b]
      room == IF toRoom = Keep THEN row.room ELSE toRoom
  IN  /\ req[r].pc = "idle"
      /\ Active(row)
      /\ toSlot # Keep \/ room # row.room
      /\ Goes(r, [ pc |-> "recheck", slots |-> TRUE, booking |-> b,
                   toRoom |-> toRoom, toSlot |-> toSlot, room |-> room,
                   slot |-> IF toSlot = Keep
                            THEN [start |-> row.start, end |-> row.end] ELSE toSlot,
                   again |-> room \in GatedRooms /\ row.status = "APPROVED" ])
      /\ Overlaps(r)
      /\ UNCHANGED <<bookings, steps, revived>>

UpdateCheck(r) ==
  /\ req[r].pc = "recheck"
  /\ IF Conflict(req[r].room, req[r].slot, req[r].booking)
     THEN Stops(r)
     ELSE Goes(r, [req[r] EXCEPT !.pc = "rewrite"])
  /\ UNCHANGED <<bookings, steps, together, revived>>

(* Only the fields the request sent are written. *)
UpdateWrite(r) ==
  /\ req[r].pc = "rewrite"
  /\ LET q == req[r]
     IN  /\ bookings' =
              [bookings EXCEPT
                 ![q.booking].room    = IF q.toRoom = Keep THEN @ ELSE q.toRoom,
                 ![q.booking].start   = IF q.toSlot = Keep THEN @ ELSE q.toSlot.start,
                 ![q.booking].end     = IF q.toSlot = Keep THEN @ ELSE q.toSlot.end,
                 ![q.booking].status  = IF q.again THEN "PENDING" ELSE @,
                 ![q.booking].writers = @ \cup {r}]
         /\ IF q.again THEN Goes(r, [q EXCEPT !.pc = "revoke"]) ELSE Stops(r)
  /\ UNCHANGED <<steps, together, revived>>

(* Forgets to reissue the steps. *)
UpdateRevokeOnly(r) ==
  /\ req[r].pc = "revoke"
  /\ steps' = [s \in DOMAIN steps \ StepsOf(req[r].booking) |-> steps[s]]
  /\ Stops(r)
  /\ UNCHANGED <<bookings, together, revived>>

(* approvalStep.deleteMany *)
UpdateRevoke(r) ==
  /\ req[r].pc = "revoke"
  /\ steps' = [s \in DOMAIN steps \ StepsOf(req[r].booking) |-> steps[s]]
  /\ Goes(r, [ pc |-> "issue", slots |-> TRUE, booking |-> req[r].booking, level |-> 1,
               room |-> req[r].room, series |-> <<>>, k |-> 0 ])
  /\ UNCHANGED <<bookings, together, revived>>

(* An edit that names the room its booking is in moves nothing: it checks  *)
(* nothing, asks for no approval, and still writes that room back.  (One   *)
(* that names neither room nor time writes nothing modelled here.)         *)
ResendRead(r, b) ==
  /\ req[r].pc = "idle"
  /\ Active(bookings[b])
  /\ Goes(r, [pc |-> "resend", slots |-> TRUE, booking |-> b, room |-> bookings[b].room])
  /\ Overlaps(r)
  /\ UNCHANGED <<bookings, steps, revived>>

ResendWrite(r) ==
  /\ req[r].pc = "resend"
  /\ bookings' = [bookings EXCEPT ![req[r].booking].room = req[r].room,
                                  ![req[r].booking].writers = @ \cup {r}]
  /\ Stops(r)
  /\ UNCHANGED <<steps, together, revived>>

-----------------------------------------------------------------------------
(* POST /bookings/:id/cancel *)

CancelRead(r, b) ==
  /\ req[r].pc = "idle"
  /\ Active(bookings[b])
  /\ Goes(r, [pc |-> "cancel", slots |-> FALSE, booking |-> b])
  /\ UNCHANGED <<bookings, steps, together, revived>>

CancelWrite(r) ==
  /\ req[r].pc = "cancel"
  /\ bookings' = [bookings EXCEPT ![req[r].booking].status = "CANCELLED"]
  /\ Stops(r)
  /\ UNCHANGED <<steps, together, revived>>

-----------------------------------------------------------------------------
(* POST /approvals/:stepId/decide *)

DecideRead(r, user, s, decision) ==
  /\ req[r].pc = "idle"
  /\ steps[s].decision = "PENDING"
  /\ steps[s].approver \in {user, NoUser}
  /\ Goes(r, [ pc |-> "decide", slots |-> FALSE, booking |-> s[2], step |-> s,
               user |-> user, decision |-> decision ])
  /\ UNCHANGED <<bookings, steps, together, revived>>

(* A step that was deleted meanwhile fails the update, and the request. *)
DecideWrite(r) ==
  /\ req[r].pc = "decide"
  /\ LET s == req[r].step
     IN  IF s \in DOMAIN steps
         THEN /\ steps' = [steps EXCEPT ![s] = [approver |-> req[r].user,
                                                decision |-> req[r].decision]]
              /\ Goes(r, [req[r] EXCEPT !.pc = "tally"])
         ELSE UNCHANGED steps /\ Stops(r)
  /\ UNCHANGED <<bookings, together, revived>>

(* The status recomputed from the steps a query finds. *)
Outcome(found) ==
  IF \E s \in DOMAIN found : found[s].decision = "REJECTED" THEN "REJECTED"
  ELSE IF \A s \in DOMAIN found : found[s].decision = "APPROVED" THEN "APPROVED"
  ELSE "PENDING"

DecideTally(r) ==
  /\ req[r].pc = "tally"
  /\ LET outcome == Outcome([s \in StepsOf(req[r].booking) |-> steps[s]])
     IN  IF outcome = "PENDING"
         THEN Stops(r)
         ELSE Goes(r, [ pc |-> "settle", slots |-> FALSE, booking |-> req[r].booking,
                        outcome |-> outcome ])
  /\ UNCHANGED <<bookings, steps, together, revived>>

DecideSettle(r) ==
  /\ req[r].pc = "settle"
  /\ LET b == req[r].booking
     IN  /\ bookings' = [bookings EXCEPT ![b].status = req[r].outcome]
         /\ revived' = IF req[r].outcome = "APPROVED" /\ ~Active(bookings[b])
                       THEN revived \cup {b} ELSE revived
  /\ Stops(r)
  /\ UNCHANGED <<steps, together>>

-----------------------------------------------------------------------------

(* The process restarts: the requests in flight are lost where they stood. *)
Restart ==
  /\ MayRestart
  /\ \E r \in Requests : Live(r)
  /\ req' = [r \in Requests |-> IF Live(r) THEN [req[r] EXCEPT !.pc = "dead"] ELSE req[r]]
  /\ UNCHANGED <<bookings, steps, together, revived>>

Begin(r) ==
  \/ \E room \in Rooms, series \in Serieses : CreateStart(r, room, series)
  \/ \E b \in DOMAIN bookings :
       \/ \E toRoom \in Rooms \cup {Keep}, toSlot \in Ranges \cup {Keep} :
            UpdateRead(r, b, toRoom, toSlot)
       \/ ResendRead(r, b)
       \/ CancelRead(r, b)
  \/ \E s \in DOMAIN steps, user \in Users, decision \in {"APPROVED", "REJECTED"} :
       DecideRead(r, user, s, decision)

Continue(r) ==
  \/ CreateCheck(r)
  \/ CreateInsert(r)
  \/ IssueStep(r)
  \/ UpdateCheck(r)
  \/ UpdateWrite(r)
  \/ UpdateRevoke(r)
  \/ ResendWrite(r)
  \/ CancelWrite(r)
  \/ DecideWrite(r)
  \/ DecideTally(r)
  \/ DecideSettle(r)

Next ==
  \/ \E r \in Requests : Begin(r) \/ Continue(r)
  \/ Restart

Spec == Init /\ [][Next]_vars

-----------------------------------------------------------------------------
(* Properties. *)

DoubleBooked(a, b) ==
  /\ a # b
  /\ Active(bookings[a]) /\ Active(bookings[b])
  /\ bookings[a].room = bookings[b].room
  /\ ~Disjoint(bookings[a], bookings[b])

(* "Conflict detection" of create() and update(): no two active bookings   *)
(* of a room overlap, late approvals apart.  The code does not keep this:  *)
(* two requests may both find the slot free before either writes.          *)
NoDoubleBooking ==
  \A a, b \in DOMAIN bookings \ revived : ~DoubleBooked(a, b)

(* How far the check-then-write of create() and update() does go: for a    *)
(* double booking two of the requests that wrote these very bookings must  *)
(* have been in flight together.  A request that has returned is seen by   *)
(* every later one, also after a restart in the middle of a series.        *)
DoubleBookingNeedsRace ==
  \A a, b \in DOMAIN bookings \ revived :
    DoubleBooked(a, b) =>
      \E r, s \in bookings[a].writers \cup bookings[b].writers :
        r # s /\ {r, s} \in together

(* What holds of the rows at every step of every request.                  *)
RaceInv == TypeOK /\ DoubleBookingNeedsRace

(* Somebody is at work on the booking, or died at it. *)
Unfinished(b) ==
  \E r \in Requests : /\ req[r].pc \notin {"idle", "done"}
                      /\ "booking" \in DOMAIN req[r]
                      /\ req[r].booking = b

(* Whatever deciders, moves and cancellations interleave: once the requests *)
(* on a booking have returned it is not left PENDING, blocking its slot,    *)
(* with no step anyone could still decide.  The last decider to read the    *)
(* steps sees all decisions, and a move issues its own steps last.          *)
NeverStuck ==
  \A b \in DOMAIN bookings :
    bookings[b].status = "PENDING" /\ ~Unfinished(b) =>
      \E s \in StepsOf(b) : steps[s].decision = "PENDING"

(* "Booking status recomputed (REJECTED if any / APPROVED if all)": once    *)
(* the requests on a booking have returned, an APPROVED one has no step     *)
(* that is open or rejected.  The code does not keep this: a decision may   *)
(* be tallied while the steps are still being issued, and two deciders of   *)
(* an unassigned step overwrite each other.                                 *)
ApprovedByAll ==
  \A b \in DOMAIN bookings :
    bookings[b].status = "APPROVED" /\ ~Unfinished(b) =>
      \A s \in StepsOf(b) : steps[s].decision = "APPROVED"
=============================================================================
