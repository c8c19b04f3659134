----------------------------- MODULE Chat_proofs -----------------------------
(***************************************************************************)
(* Theorems about the chat, for every value of the constants: what is       *)
(* unread came after the last reading, nobody is nudged twice within the    *)
(* quiet time, and two conversations of a pair were made at once.           *)
(***************************************************************************)
EXTENDS Chat, SequenceTheorems, TLAPS

-----------------------------------------------------------------------------
(* The invariant *)

ConvType == [group : BOOLEAN, members : SUBSET Users]
RowType == [read : Times \cup {Never}, notified : Times \cup {Never}, muted : BOOLEAN]

(* Every message was sent by time t or since, where it stands by the count. *)
Parts(count, t) ==
  \A i \in DOMAIN messages :
    IF i =< count THEN messages[i].at =< t ELSE messages[i].at >= t

(* A conversation that is being made has no members yet, and no other       *)
(* request is at it.  A send goes to members of a thread.  The time a send  *)
(* compares with has been, and so has the time of a reading.                *)
CallType ==
  {NoCall}
  \cup [at : {"open"}, who : SUBSET Users, group : BOOLEAN]
  \cup [at : {"members"}, who : SUBSET Users, group : BOOLEAN, conv : Nat]
  \cup [at : {"sent"}, conv : Threads, from : Users]
  \cup [at : {"notify"}, conv : Threads, to : SUBSET Users]
  \cup [at : {"nudge"}, conv : Threads, time : Times, todo : SUBSET Users]
  \cup [at : {"read"}, conv : Threads, user : Users, time : Times, count : Nat]

CallOK(f) ==
  /\ f.at = "members" => f.conv \in DOMAIN convs /\ convs[f.conv].members = {}
                         /\ convs[f.conv].group = f.group
  /\ f.at \in {"sent", "notify", "nudge", "read"} => f.conv \in DOMAIN convs
  /\ f.at = "notify" => f.to \subseteq convs[f.conv].members
  /\ f.at = "nudge" => f.todo \subseteq convs[f.conv].members /\ f.time =< now
  /\ f.at = "read" =>
       /\ f.user \in convs[f.conv].members /\ f.time =< now
       /\ f.count =< Len(messages) /\ Parts(f.count, f.time)

CallsInv ==
  /\ call \in [Calls -> CallType]
  /\ \A f \in Calls : CallOK(call[f])
  /\ \A f, g \in Calls :
       f # g /\ call[f].at = "members" /\ call[g].at = "members" => call[f].conv # call[g].conv

(* Whoever is making a conversation for a pair found none; if there is one  *)
(* by now, the two creations overlapped.                                    *)
Making(f) == f.at \in {"open", "members"} /\ ~f.group
RaceInv ==
  \A f \in Calls :
    Making(call[f]) =>
      /\ call[f].who # {}
      /\ (\E c \in DOMAIN convs : Direct(c, call[f].who)) => call[f].who \in raced

(* What was sent before a member's last reading was sent until then, and    *)
(* what was sent after it, since.                                           *)
MarkInv ==
  \A c \in Threads, u \in Users :
    LET read == member[<<c, u>>].read
    IN  IF read = Never THEN mark[<<c, u>>] = 0
        ELSE read =< now /\ Parts(mark[<<c, u>>], read)

ThreadsInv == ChatTypeOK /\ CallsInv /\ RaceInv /\ OneDirectUnlessRaced /\ MarkInv

-----------------------------------------------------------------------------
(* Conversations and messages *)

LEMMA ChatTypes ==
  ASSUME ChatTypeOK
  PROVE  /\ now \in Nat /\ now =< MaxTime /\ MaxTime \in Nat /\ Never \notin Int
         /\ convs \in Seq(ConvType) /\ Len(convs) \in Nat /\ DOMAIN convs = 1..Len(convs)
         /\ \A c \in DOMAIN convs : convs[c] \in ConvType
         /\ messages \in Seq([conv : DOMAIN convs, from : Users, at : 0..now])
         /\ Len(messages) \in Nat /\ DOMAIN messages = 1..Len(messages)
         /\ \A i \in DOMAIN messages : messages[i].at \in 0..now
         /\ member \in [Threads \X Users -> RowType]
<1>1. /\ now \in Times
      /\ convs \in Seq([group : BOOLEAN, members : SUBSET Users])
      /\ messages \in Seq([conv : DOMAIN convs, from : Users, at : 0..now])
      /\ member \in [ Threads \X Users ->
                      [read : Times \cup {Never}, notified : Times \cup {Never}, muted : BOOLEAN] ]
  BY Zenon DEF ChatTypeOK
<1>2. now \in Nat /\ now =< MaxTime /\ MaxTime \in Nat /\ Never \notin Int
  <2>1. MaxTime \in Nat /\ Never \notin Int
    BY ChatAssumption
  <2> QED BY <1>1, <2>1 DEF Times
<1>3. /\ convs \in Seq(ConvType) /\ Len(convs) \in Nat /\ DOMAIN convs = 1..Len(convs)
      /\ \A c \in DOMAIN convs : convs[c] \in ConvType
  <2>1. convs \in Seq(ConvType)
    BY <1>1, Zenon DEF ConvType
  <2> QED BY <2>1
<1>4. /\ Len(messages) \in Nat /\ DOMAIN messages = 1..Len(messages)
      /\ \A i \in DOMAIN messages : messages[i].at \in 0..now
  <2> DEFINE M == [conv : DOMAIN convs, from : Users, at : 0..now]
  <2>1. messages \in Seq(M) /\ \A m \in M : m.at \in 0..now
    BY <1>1
  <2> HIDE DEF M
  <2> QED BY <2>1
<1>5. member \in [Threads \X Users -> RowType]
  BY <1>1, Zenon DEF RowType
<1> QED BY <1>1, <1>2, <1>3, <1>4, <1>5

LEMMA ClockType ==
  ASSUME ChatTypeOK
  PROVE  now \in Times /\ now \in Nat /\ Times \subseteq Nat /\ Never \notin Int
<1>1. now \in Times
  BY Zenon DEF ChatTypeOK
<1>2. MaxTime \in Nat /\ Never \notin Int
  BY ChatAssumption
<1> QED BY <1>1, <1>2 DEF Times

LEMMA MemberTypes ==
  ASSUME ChatTypeOK, NEW c \in Threads, NEW u \in Users
  PROVE  /\ member[<<c, u>>] \in RowType /\ member[<<c, u>>].read \in Times \cup {Never}
         /\ member[<<c, u>>].notified \in Times \cup {Never}
         /\ mark[<<c, u>>] \in 0..Len(messages) /\ Len(messages) \in Nat
<1>1. /\ member \in [Threads \X Users -> RowType]
      /\ mark \in [Threads \X Users -> 0..Len(messages)]
  BY Zenon DEF ChatTypeOK, RowType
<1>2. member[<<c, u>>] \in RowType /\ mark[<<c, u>>] \in 0..Len(messages)
  BY <1>1
<1>3. Len(messages) \in Nat
  BY ChatTypes
<1> QED BY <1>2, <1>3 DEF RowType

LEMMA CallKinds ==
  ASSUME NEW f \in CallType
  PROVE  /\ f.at = "open" => f.who \subseteq Users /\ f.group \in BOOLEAN
         /\ f.at = "members" => f.who \subseteq Users /\ f.group \in BOOLEAN /\ f.conv \in Nat
         /\ f.at = "sent" => f.conv \in Threads /\ f.from \in Users
         /\ f.at = "notify" => f.conv \in Threads /\ f.to \subseteq Users
         /\ f.at = "nudge" =>
              /\ f.conv \in Threads /\ f.time \in Times /\ f.todo \subseteq Users
              /\ f \in [at : {"nudge"}, conv : Threads, time : Times, todo : SUBSET Users]
         /\ f.at = "read" =>
              f.conv \in Threads /\ f.user \in Users /\ f.time \in Times /\ f.count \in Nat
         /\ f = NoCall => f.at = "idle"
BY DEF CallType, NoCall

(* One request goes on; the others stay where they are. *)
LEMMA CallMoves ==
  ASSUME CallsInv, NEW f \in Calls, NEW step \in CallType, Goes(f, step)
  PROVE  /\ call' \in [Calls -> CallType] /\ call'[f] = step
         /\ \A g \in Calls \ {f} : call'[g] = call[g]
BY DEF CallsInv, Goes

(* A request goes on that is not adding members, nothing else changes.      *)
LEMMA CallStepKeeps ==
  ASSUME ThreadsInv, NEW f \in Calls, NEW step \in CallType, Goes(f, step),
         UNCHANGED <<now, convs, messages, member, raced, mark>>,
         CallOK(step), step.at # "members",
         Making(step) =>
           step.who # {} /\ ((\E c \in DOMAIN convs : Direct(c, step.who)) => step.who \in raced)
  PROVE  ThreadsInv'
<1>1. /\ call' \in [Calls -> CallType] /\ call'[f] = step
      /\ \A g \in Calls \ {f} : call'[g] = call[g]
  BY CallMoves DEF ThreadsInv
<1>2. ChatTypeOK' /\ OneDirectUnlessRaced' /\ MarkInv'
  BY DEF ThreadsInv, ChatTypeOK, OneDirectUnlessRaced, MarkInv, Parts
<1>3. CallsInv'
  <2>1. \A g \in Calls : CallOK(call'[g])
    BY <1>1 DEF ThreadsInv, CallsInv
  <2>2. \A g \in Calls : CallOK(call[g])'
    BY <2>1 DEF CallOK, Parts
  <2> QED BY <1>1, <2>2 DEF ThreadsInv, CallsInv
<1>4. RaceInv'
  <2>1. ASSUME NEW g \in Calls, Making(call'[g])
        PROVE  /\ call'[g].who # {}
               /\ (\E c \in DOMAIN convs : Direct(c, call'[g].who)) => call'[g].who \in raced
    BY <1>1, <2>1 DEF ThreadsInv, RaceInv
  <2> QED BY <2>1 DEF RaceInv, Making, Direct
<1> QED BY <1>2, <1>3, <1>4 DEF ThreadsInv

LEMMA EndKeeps ==
  ASSUME ThreadsInv, NEW f \in Calls, Goes(f, NoCall),
         UNCHANGED <<now, convs, messages, member, raced, mark>>
  PROVE  ThreadsInv'
<1>1. NoCall \in CallType /\ CallOK(NoCall) /\ NoCall.at # "members" /\ ~Making(NoCall)
  BY DEF CallType, NoCall, CallOK, Making
<1> QED BY <1>1, CallStepKeeps

LEMMA OpenBeginKeeps ==
  ASSUME ThreadsInv, NEW f \in Calls, NEW who \in SUBSET Users, NEW group \in BOOLEAN,
         OpenBegin(f, who, group), group \/ who # {}
  PROVE  ThreadsInv'
<1> DEFINE step == [at |-> "open", who |-> who, group |-> group]
<1>1. step \in CallType /\ CallOK(step) /\ step.at # "members"
      /\ step.who = who /\ step.group = group
  BY DEF CallType, CallOK
<1>2. Goes(f, step) /\ UNCHANGED <<now, convs, messages, member, raced, mark>>
      /\ (group \/ ~\E c \in DOMAIN convs : Direct(c, who))
  BY DEF OpenBegin
<1> HIDE DEF step
<1>3. Making(step) =>
        step.who # {} /\ ((\E c \in DOMAIN convs : Direct(c, step.who)) => step.who \in raced)
  BY <1>1, <1>2 DEF Making
<1> QED BY <1>1, <1>2, <1>3, CallStepKeeps

LEMMA SendReadKeeps ==
  ASSUME ThreadsInv, NEW f \in Calls, SendRead(f)
  PROVE  ThreadsInv'
<1> DEFINE c == call[f].conv
           others == { r \in convs[c].members \ {call[f].from} : ~member[<<c, r>>].muted }
           step == [at |-> "notify", conv |-> c, to |-> others]
<1>1. call[f] \in CallType /\ CallOK(call[f]) /\ call[f].at = "sent"
  BY DEF ThreadsInv, CallsInv, SendRead
<1>2. c \in Threads /\ c \in DOMAIN convs
  BY <1>1, CallKinds DEF CallOK
<1>3. convs[c].members \subseteq Users
  BY <1>2, ChatTypes DEF ThreadsInv, ConvType
<1>4. others \subseteq Users /\ others \subseteq convs[c].members
  BY <1>3
<1> HIDE DEF others, c
<1>5. step \in CallType /\ step.at = "notify" /\ step.conv = c /\ step.to = others
  BY <1>2, <1>4 DEF CallType
<1> HIDE DEF step
<1>6. CallOK(step) /\ ~Making(step)
  BY <1>2, <1>4, <1>5 DEF CallOK, Making
<1>7. Goes(f, IF others = {} THEN NoCall ELSE step)
      /\ UNCHANGED <<now, convs, messages, member, raced, mark>>
  BY DEF SendRead, step, others, c
<1> QED BY <1>5, <1>6, <1>7, CallStepKeeps, EndKeeps

LEMMA NudgeStartKeeps ==
  ASSUME ThreadsInv, NEW f \in Calls, call[f].at = "notify",
         NEW read \in [call[f].to -> PersonRows(now)], NudgeStart(f, read)
  PROVE  ThreadsInv'
<1> DEFINE absent == { r \in DOMAIN read : Away(read[r], now) }
           step == [at |-> "nudge", conv |-> call[f].conv, time |-> now, todo |-> absent]
<1>1. call[f] \in CallType /\ CallOK(call[f])
  BY DEF ThreadsInv, CallsInv
<1>2. /\ call[f].conv \in Threads /\ call[f].conv \in DOMAIN convs /\ call[f].to \subseteq Users
      /\ call[f].to \subseteq convs[call[f].conv].members
  BY <1>1, CallKinds DEF CallOK
<1>3. absent \subseteq call[f].to
  OBVIOUS
<1> HIDE DEF absent
<1>4. now \in Times /\ now =< now
  BY ChatTypes DEF ThreadsInv, Times
<1>5. step \in CallType /\ step.at = "nudge" /\ step.conv = call[f].conv /\ step.time = now
      /\ step.todo = absent
  BY <1>2, <1>3, <1>4 DEF CallType
<1> HIDE DEF step
<1>6. CallOK(step) /\ ~Making(step)
  BY <1>2, <1>3, <1>4, <1>5 DEF CallOK, Making
<1>7. Goes(f, IF absent = {} THEN NoCall ELSE step)
      /\ UNCHANGED <<now, convs, messages, member, raced, mark>>
  BY DEF NudgeStart, step, absent
<1> QED BY <1>5, <1>6, <1>7, CallStepKeeps, EndKeeps

-----------------------------------------------------------------------------
(* Making a conversation *)

LEMMA OpenCreateKeeps ==
  ASSUME ThreadsInv, NEW f \in Calls, OpenCreate(f)
  PROVE  ThreadsInv'
<1> DEFINE new == [group |-> call[f].group, members |-> {}]
           n == Len(convs) + 1
           step == [ at |-> "members", who |-> call[f].who, group |-> call[f].group, conv |-> n ]
<1> USE DEF ThreadsInv
<1>1. call[f] \in CallType /\ call[f].at = "open"
      /\ call[f].who \subseteq Users /\ call[f].group \in BOOLEAN
  BY CallKinds DEF CallsInv, OpenCreate
<1>2. new \in ConvType /\ new.members = {} /\ new.group = call[f].group
  BY <1>1 DEF ConvType
<1>3. /\ step \in CallType /\ step.at = "members" /\ step.who = call[f].who
      /\ step.group = call[f].group /\ step.conv = n
  BY <1>1, ChatTypes DEF CallType
<1>4. convs' = Append(convs, new) /\ Goes(f, step)
      /\ UNCHANGED <<now, messages, member, raced, mark>>
  BY DEF OpenCreate
<1> HIDE DEF new, step
<1>5. /\ convs' \in Seq(ConvType) /\ DOMAIN convs' = 1..n /\ convs'[n] = new
      /\ n \notin DOMAIN convs /\ n \in DOMAIN convs' /\ DOMAIN convs \subseteq DOMAIN convs'
      /\ \A c \in DOMAIN convs : convs'[c] = convs[c]
  BY <1>2, <1>4, ChatTypes, AppendProperties
<1> HIDE DEF n
<1>6. \A c \in DOMAIN convs' : c \in DOMAIN convs \/ c = n
  BY <1>5, ChatTypes DEF n
<1>7. /\ call' \in [Calls -> CallType] /\ call'[f] = step
      /\ \A g \in Calls \ {f} : call'[g] = call[g]
  BY <1>3, <1>4, CallMoves
<1>8. ChatTypeOK'
  <2>1. now' \in Times /\ raced' \subseteq SUBSET Users
        /\ mark' \in [Threads \X Users -> 0..Len(messages')]
        /\ member' \in [Threads \X Users -> RowType]
    BY <1>4, ChatTypes DEF ChatTypeOK
  <2>2. messages' \in Seq([conv : DOMAIN convs', from : Users, at : 0..now'])
    <3> DEFINE M == [conv : DOMAIN convs, from : Users, at : 0..now]
               N == [conv : DOMAIN convs', from : Users, at : 0..now]
    <3>1. messages \in Seq(M) /\ M \subseteq N
      BY <1>5, ChatTypes
    <3> HIDE DEF M, N
    <3>2. messages \in Seq(N)
      BY <3>1
    <3> QED BY <1>4, <3>2 DEF N
  <2>3. \A c \in Threads, u \in Users :
          c \notin DOMAIN convs' \/ u \notin convs'[c].members => member'[<<c, u>>] = Fresh
    <3>1. ASSUME NEW c \in Threads, NEW u \in Users,
                 c \notin DOMAIN convs' \/ u \notin convs'[c].members
          PROVE  c \notin DOMAIN convs \/ u \notin convs[c].members
      BY <1>5, <3>1
    <3> QED BY <1>4, <3>1, Zenon DEF ChatTypeOK
  <2> QED BY <1>5, <2>1, <2>2, <2>3, Zenon DEF ChatTypeOK, ConvType, RowType
<1>9. CallsInv'
  <2>1. ASSUME NEW g \in Calls
        PROVE  CallOK(call[g])'
    <3>1. CASE g = f
      BY <1>2, <1>3, <1>5, <1>7, <3>1 DEF CallOK
    <3>2. CASE g # f
      <4>1. CallOK(call[g]) /\ call'[g] = call[g]
        BY <1>7, <3>2 DEF CallsInv
      <4> QED BY <1>4, <1>5, <4>1 DEF CallOK, Parts
    <3> QED BY <3>1, <3>2
  <2>2. ASSUME NEW g \in Calls, NEW h \in Calls, g # h,
               call'[g].at = "members", call'[h].at = "members"
        PROVE  call'[g].conv # call'[h].conv
    <3>1. \A e \in Calls : call[e].at = "members" => call[e].conv # n
      BY <1>5 DEF CallsInv, CallOK
    <3> QED BY <1>3, <1>7, <2>2, <3>1 DEF CallsInv
  <2> QED BY <1>7, <2>1, <2>2 DEF CallsInv
<1>10. RaceInv'
  <2>1. ASSUME NEW g \in Calls, Making(call'[g])
        PROVE  /\ call'[g].who # {}
               /\ (\E c \in DOMAIN convs' : ~convs'[c].group /\ convs'[c].members = call'[g].who)
                     => call'[g].who \in raced
    <3>1. Making(call[g]) /\ call'[g].who = call[g].who
      BY <1>1, <1>3, <1>7, <2>1 DEF Making
    <3>2. /\ call[g].who # {}
          /\ (\E c \in DOMAIN convs : Direct(c, call[g].who)) => call[g].who \in raced
      BY <3>1 DEF RaceInv
    <3>3. ASSUME NEW c \in DOMAIN convs', ~convs'[c].group /\ convs'[c].members = call'[g].who
          PROVE  Direct(c, call[g].who) /\ c \in DOMAIN convs
      BY <1>2, <1>5, <1>6, <3>1, <3>2, <3>3 DEF Direct
    <3> QED BY <3>1, <3>2, <3>3
  <2> QED BY <1>4, <2>1 DEF RaceInv, Making, Direct
<1>11. OneDirectUnlessRaced'
  BY <1>2, <1>4, <1>5, <1>6 DEF OneDirectUnlessRaced
<1>12. MarkInv'
  BY <1>4 DEF MarkInv, Parts
<1> QED BY <1>8, <1>9, <1>10, <1>11, <1>12

LEMMA OpenMembersKeeps ==
  ASSUME ThreadsInv, NEW f \in Calls, OpenMembers(f)
  PROVE  ThreadsInv'
<1> DEFINE c == call[f].conv
           who == call[f].who
           new == [convs[c] EXCEPT !.members = who]
<1> USE DEF ThreadsInv
<1>1. /\ call[f] \in CallType /\ call[f].at = "members" /\ who \subseteq Users
      /\ call[f].group \in BOOLEAN /\ c \in DOMAIN convs /\ convs[c].members = {}
      /\ convs[c].group = call[f].group
  BY CallKinds DEF CallsInv, OpenMembers, CallOK
<1>2. new \in ConvType /\ new.members = who /\ new.group = call[f].group
  BY <1>1, ChatTypes DEF ConvType
<1>3. /\ convs' = [convs EXCEPT ![c] = new] /\ Goes(f, NoCall)
      /\ raced' = IF Overlaps(f) /\ ~call[f].group THEN raced \cup {who} ELSE raced
      /\ UNCHANGED <<now, messages, member, mark>>
  BY DEF OpenMembers
<1> HIDE DEF new
<1>4. /\ convs' \in Seq(ConvType) /\ DOMAIN convs' = DOMAIN convs /\ convs'[c] = new
      /\ \A d \in DOMAIN convs \ {c} : convs'[d] = convs[d]
  BY <1>1, <1>2, <1>3, ChatTypes, ExceptSeq
<1>5. NoCall \in CallType /\ NoCall.at = "idle"
  BY DEF CallType, NoCall
<1>6. /\ call' \in [Calls -> CallType] /\ call'[f] = NoCall
      /\ \A g \in Calls \ {f} : call'[g] = call[g]
  BY <1>3, <1>5, CallMoves
<1>7. raced \subseteq raced' /\ raced' \subseteq SUBSET Users
  BY <1>1, <1>3, Zenon DEF ChatTypeOK
<1>8. ChatTypeOK'
  <2>1. now' \in Times /\ mark' \in [Threads \X Users -> 0..Len(messages')]
        /\ member' \in [Threads \X Users -> RowType]
        /\ messages' \in Seq([conv : DOMAIN convs', from : Users, at : 0..now'])
    BY <1>3, <1>4, ChatTypes, Zenon DEF ChatTypeOK
  <2>2. \A d \in Threads, u \in Users :
          d \notin DOMAIN convs' \/ u \notin convs'[d].members => member'[<<d, u>>] = Fresh
    <3>1. ASSUME NEW d \in Threads, NEW u \in Users,
                 d \notin DOMAIN convs' \/ u \notin convs'[d].members
          PROVE  d \notin DOMAIN convs \/ u \notin convs[d].members
      BY <1>1, <1>4, <3>1
    <3> QED BY <1>3, <3>1, Zenon DEF ChatTypeOK
  <2> QED BY <1>4, <1>7, <2>1, <2>2, Zenon DEF ChatTypeOK, ConvType, RowType
<1>9. CallsInv'
  <2>1. ASSUME NEW g \in Calls
        PROVE  CallOK(call[g])'
    <3>1. CASE g = f
      BY <1>5, <1>6, <3>1 DEF CallOK
    <3>2. CASE g # f
      <4>1. CallOK(call[g]) /\ call'[g] = call[g]
        BY <1>6, <3>2 DEF CallsInv
      <4>2. call[g].at = "members" => call[g].conv # c
        BY <1>1, <3>2 DEF CallsInv
      <4>3. call[g].at = "read" => call[g].conv # c
        BY <1>1, <4>1 DEF CallOK
      <4> QED BY <1>1, <1>3, <1>4, <4>1, <4>2, <4>3 DEF CallOK, Parts
    <3> QED BY <3>1, <3>2
  <2> QED BY <1>5, <1>6, <2>1 DEF CallsInv
<1>10. ASSUME NEW pair, pair # {}, NEW d \in DOMAIN convs',
              ~convs'[d].group /\ convs'[d].members = pair
       PROVE  Direct(d, pair) \/ (d = c /\ pair = who /\ ~call[f].group)
  BY <1>2, <1>4, <1>10 DEF Direct
<1>11. RaceInv'
  <2>1. ASSUME NEW g \in Calls, Making(call'[g])
        PROVE  /\ call'[g].who # {}
               /\ (\E d \in DOMAIN convs' : ~convs'[d].group /\ convs'[d].members = call'[g].who)
                     => call'[g].who \in raced'
    <3>1. g # f /\ call'[g] = call[g] /\ Making(call[g])
      BY <1>5, <1>6, <2>1 DEF Making
    <3>2. /\ call[g].who # {}
          /\ (\E d \in DOMAIN convs : Direct(d, call[g].who)) => call[g].who \in raced
      BY <3>1 DEF RaceInv
    <3>3. ASSUME call[g].who = who, ~call[f].group
          PROVE  who \in raced'
      <4>1. Overlaps(f)
        BY <3>1, <3>3 DEF Overlaps, Making
      <4> QED BY <1>3, <3>3, <4>1
    <3> QED BY <1>4, <1>7, <1>10, <3>1, <3>2, <3>3
  <2> QED BY <2>1 DEF RaceInv, Making, Direct
<1>12. OneDirectUnlessRaced'
  <2>1. ASSUME NEW d \in DOMAIN convs', NEW e \in DOMAIN convs', d # e,
               ~convs'[d].group, ~convs'[e].group,
               convs'[d].members = convs'[e].members, convs'[d].members # {}
        PROVE  convs'[d].members \in raced'
    <3> DEFINE pair == convs'[d].members
    <3>1. Direct(d, pair) \/ (d = c /\ pair = who /\ ~call[f].group)
      BY <1>10, <2>1
    <3>2. Direct(e, pair) \/ (e = c /\ pair = who /\ ~call[f].group)
      BY <1>10, <2>1
    <3>3. CASE Direct(d, pair) /\ Direct(e, pair)
      BY <1>4, <1>7, <2>1, <3>3 DEF OneDirectUnlessRaced, Direct
    <3>4. CASE pair = who /\ ~call[f].group /\ (Direct(d, pair) \/ Direct(e, pair))
      <4>1. Making(call[f])
        BY <1>1, <3>4 DEF Making
      <4>2. who \in raced
        BY <1>4, <3>4, <4>1 DEF RaceInv
      <4> QED BY <1>7, <3>4, <4>2
    <3> QED BY <2>1, <3>1, <3>2, <3>3, <3>4
  <2> QED BY <2>1 DEF OneDirectUnlessRaced
<1>13. MarkInv'
  BY <1>3 DEF MarkInv, Parts
<1> QED BY <1>8, <1>9, <1>11, <1>12, <1>13

-----------------------------------------------------------------------------
(* Sending, reading and muting *)

LEMMA SendInsertKeeps ==
  ASSUME ThreadsInv, NEW f \in Calls, NEW u \in Users, NEW c \in DOMAIN convs \cap Threads,
         SendInsert(f, u, c)
  PROVE  ThreadsInv'
<1> DEFINE new == [conv |-> c, from |-> u, at |-> now]
           step == [at |-> "sent", conv |-> c, from |-> u]
           n == Len(messages) + 1
           M == [conv : DOMAIN convs, from : Users, at : 0..now]
<1> USE DEF ThreadsInv
<1>1. now \in Nat /\ messages \in Seq(M) /\ Len(messages) \in Nat
      /\ DOMAIN messages = 1..Len(messages) /\ Never \notin Int
      /\ member \in [Threads \X Users -> RowType]
  BY ChatTypes
<1>2. new \in M /\ new.at = now
  BY <1>1
<1>3. messages' = Append(messages, new) /\ Goes(f, step)
      /\ UNCHANGED <<now, convs, member, raced, mark>>
  BY DEF SendInsert
<1>4. step \in CallType /\ step.at = "sent" /\ step.conv = c
  BY DEF CallType
<1> HIDE DEF new, step, M
<1>5. /\ messages' \in Seq(M) /\ Len(messages') = n /\ messages'[n] = new
      /\ \A i \in DOMAIN messages : messages'[i] = messages[i]
  BY <1>1, <1>2, <1>3, AppendProperties
<1>6. DOMAIN messages' = 1..n
  BY <1>1, <1>5
<1>7. /\ call' \in [Calls -> CallType] /\ call'[f] = step
      /\ \A g \in Calls \ {f} : call'[g] = call[g]
  BY <1>3, <1>4, CallMoves
<1>8. ChatTypeOK'
  <2>1. now' \in Times /\ raced' \subseteq SUBSET Users /\ member' \in [Threads \X Users -> RowType]
        /\ convs' \in Seq(ConvType)
    BY <1>3, ChatTypes, Zenon DEF ChatTypeOK
  <2>2. messages' \in Seq([conv : DOMAIN convs', from : Users, at : 0..now'])
    BY <1>3, <1>5, Zenon DEF M
  <2>3. mark' \in [Threads \X Users -> 0..Len(messages')]
    <3>1. mark \in [Threads \X Users -> 0..Len(messages)]
      BY Zenon DEF ChatTypeOK
    <3>2. 0..Len(messages) \subseteq 0..Len(messages')
      BY <1>1, <1>5
    <3> QED BY <1>3, <3>1, <3>2
  <2>4. \A d \in Threads, v \in Users :
          d \notin DOMAIN convs' \/ v \notin convs'[d].members => member'[<<d, v>>] = Fresh
    BY <1>3, Zenon DEF ChatTypeOK
  <2> QED BY <2>1, <2>2, <2>3, <2>4, Zenon DEF ChatTypeOK, ConvType, RowType
<1> HIDE DEF n
<1>13. ASSUME NEW m \in Nat, m =< Len(messages), NEW t \in Nat, t =< now, Parts(m, t)
       PROVE  Parts(m, t)' /\ m =< Len(messages')
  <2>1. n \in Nat /\ n > m /\ n = Len(messages) + 1
    BY <1>1, <1>13 DEF n
  <2>2. messages'[n].at >= t
    BY <1>2, <1>5, <1>13
  <2>3. \A i \in DOMAIN messages' :
          IF i =< m THEN messages'[i].at =< t ELSE messages'[i].at >= t
    <3> SUFFICES ASSUME NEW i \in DOMAIN messages'
                 PROVE  IF i =< m THEN messages'[i].at =< t ELSE messages'[i].at >= t
      OBVIOUS
    <3>1. CASE i \in DOMAIN messages
      BY <1>5, <1>13, <3>1 DEF Parts
    <3>2. CASE i = n
      BY <2>1, <2>2, <3>2
    <3> QED BY <1>1, <1>6, <2>1, <3>1, <3>2
  <2> QED BY <1>1, <1>5, <1>13, <2>1, <2>3 DEF Parts
<1>9. CallsInv'
  <2>1. ASSUME NEW g \in Calls
        PROVE  CallOK(call[g])'
    <3>1. CASE g = f
      BY <1>3, <1>4, <1>7, <3>1 DEF CallOK
    <3>2. CASE g # f
      <4>1. CallOK(call[g]) /\ call'[g] = call[g] /\ call[g] \in CallType
        BY <1>7, <3>2 DEF CallsInv
      <4>2. CASE call[g].at = "read"
        <5>1. call[g].count \in Nat /\ call[g].time \in Nat
          BY <4>1, <4>2, CallKinds, ClockType
        <5>2. /\ call[g].count =< Len(messages) /\ call[g].time =< now
              /\ Parts(call[g].count, call[g].time)
          BY <4>1, <4>2 DEF CallOK
        <5>3. Parts(call[g].count, call[g].time)' /\ call[g].count =< Len(messages')
          <6> DEFINE m == call[g].count
                     t == call[g].time
          <6>1. m \in Nat /\ t \in Nat /\ m =< Len(messages) /\ t =< now /\ Parts(m, t)
            BY <5>1, <5>2
          <6>2. /\ \A i \in DOMAIN messages' :
                     IF i =< m THEN messages'[i].at =< t ELSE messages'[i].at >= t
                /\ m =< Len(messages')
            <7> HIDE DEF m, t
            <7> QED BY <6>1, <1>13 DEF Parts
          <6> QED BY <4>1, <6>2 DEF Parts
        <5> QED BY <1>3, <4>1, <4>2, <5>3 DEF CallOK
      <4>3. CASE call[g].at # "read"
        BY <1>3, <4>1, <4>3 DEF CallOK
      <4> QED BY <4>2, <4>3
    <3> QED BY <3>1, <3>2
  <2> QED BY <1>4, <1>7, <2>1 DEF CallsInv
<1>10. RaceInv'
  <2>1. ASSUME NEW g \in Calls, Making(call'[g])
        PROVE  g # f /\ call'[g] = call[g] /\ Making(call[g])
    BY <1>4, <1>7, <2>1 DEF Making
  <2> QED BY <1>3, <2>1 DEF RaceInv, Making, Direct
<1>11. OneDirectUnlessRaced'
  BY <1>3 DEF OneDirectUnlessRaced
<1>12. MarkInv'
  <2> SUFFICES ASSUME NEW d \in Threads, NEW v \in Users, member[<<d, v>>].read # Never
               PROVE  Parts(mark[<<d, v>>], member[<<d, v>>].read)'
    BY <1>3 DEF MarkInv
  <2> DEFINE m == mark[<<d, v>>]
             t == member[<<d, v>>].read
  <2>1. t =< now /\ Parts(m, t)
    BY DEF MarkInv
  <2>2. m \in 0..Len(messages) /\ t \in Nat
    BY ClockType, MemberTypes
  <2>3. \A i \in DOMAIN messages' :
          IF i =< m THEN messages'[i].at =< t ELSE messages'[i].at >= t
    <3> HIDE DEF m, t
    <3>1. m \in Nat /\ m =< Len(messages)
      BY <1>1, <2>2
    <3> QED BY <2>1, <2>2, <3>1, <1>13 DEF Parts
  <2> QED BY <1>3, <2>3 DEF Parts
<1> QED BY <1>8, <1>9, <1>10, <1>11, <1>12

(* A member's row changes, of a thread they are a member of.                *)
LEMMA RowKeeps ==
  ASSUME ThreadsInv, NEW c \in DOMAIN convs \cap Threads, NEW u \in convs[c].members,
         NEW row \in RowType, NEW m \in 0..Len(messages), NEW t \in Times,
         member' = [member EXCEPT ![<<c, u>>] = row],
         mark' = [mark EXCEPT ![<<c, u>>] = m],
         UNCHANGED <<now, convs, messages, raced>>,
         \/ row.read = member[<<c, u>>].read /\ m = mark[<<c, u>>]
         \/ row.read = t /\ t =< now /\ Parts(m, t)
  PROVE  ChatTypeOK' /\ OneDirectUnlessRaced' /\ MarkInv'
<1> USE DEF ThreadsInv
<1>1. /\ member \in [Threads \X Users -> RowType] /\ now \in Nat /\ Never \notin Int
      /\ Len(messages) \in Nat /\ DOMAIN messages = 1..Len(messages)
      /\ \A i \in DOMAIN messages : messages[i].at \in 0..now
      /\ convs[c].members \subseteq Users
  BY ChatTypes DEF ConvType
<1>2. mark \in [Threads \X Users -> 0..Len(messages)]
  BY Zenon DEF ChatTypeOK
<1>3. /\ member' \in [Threads \X Users -> RowType] /\ member'[<<c, u>>] = row
      /\ mark' \in [Threads \X Users -> 0..Len(messages)] /\ mark'[<<c, u>>] = m
      /\ \A d \in Threads, v \in Users :
           <<d, v>> # <<c, u>> => member'[<<d, v>>] = member[<<d, v>>] /\ mark'[<<d, v>>] = mark[<<d, v>>]
  BY <1>1, <1>2
<1>4. ChatTypeOK'
  <2>1. \A d \in Threads, v \in Users :
          d \notin DOMAIN convs' \/ v \notin convs'[d].members => member'[<<d, v>>] = Fresh
    <3>1. ASSUME NEW d \in Threads, NEW v \in Users,
                 d \notin DOMAIN convs \/ v \notin convs[d].members
          PROVE  member'[<<d, v>>] = Fresh
      <4>1. member[<<d, v>>] = Fresh
        BY <3>1, Zenon DEF ChatTypeOK
      <4>2. <<d, v>> # <<c, u>>
        BY <3>1
      <4> QED BY <1>3, <4>1, <4>2
    <3> QED BY <3>1
  <2>2. convs' \in Seq(ConvType) /\ now' \in Times /\ raced' \subseteq SUBSET Users
        /\ messages' \in Seq([conv : DOMAIN convs', from : Users, at : 0..now'])
    BY ChatTypes, Zenon DEF ChatTypeOK
  <2> QED BY <1>3, <2>1, <2>2, Zenon DEF ChatTypeOK, ConvType, RowType
<1>5. OneDirectUnlessRaced'
  BY DEF OneDirectUnlessRaced
<1>6. MarkInv'
  <2> SUFFICES ASSUME NEW d \in Threads, NEW v \in Users
               PROVE  IF member'[<<d, v>>].read = Never THEN mark'[<<d, v>>] = 0
                      ELSE /\ member'[<<d, v>>].read =< now
                           /\ Parts(mark'[<<d, v>>], member'[<<d, v>>].read)
    BY DEF MarkInv, Parts
  <2>1. CASE member'[<<d, v>>].read = member[<<d, v>>].read /\ mark'[<<d, v>>] = mark[<<d, v>>]
    BY <2>1 DEF MarkInv
  <2>2. CASE /\ member'[<<d, v>>].read = t /\ mark'[<<d, v>>] = m
             /\ t =< now /\ Parts(m, t)
    <3>1. t # Never
      BY ClockType
    <3> QED BY <2>2, <3>1
  <2>3. \/ member'[<<d, v>>].read = member[<<d, v>>].read /\ mark'[<<d, v>>] = mark[<<d, v>>]
        \/ /\ member'[<<d, v>>].read = t /\ mark'[<<d, v>>] = m
           /\ t =< now /\ Parts(m, t)
    BY <1>3
  <2> QED BY <2>1, <2>2, <2>3
<1> QED BY <1>4, <1>5, <1>6

LEMMA CallsKept ==
  ASSUME ThreadsInv, UNCHANGED <<convs, messages, raced>>, now' \in Nat, now =< now',
         call' \in [Calls -> CallType],
         \A g \in Calls :
           \/ call'[g] = call[g]
           \/ call'[g] = NoCall
           \/ /\ call[g].at = "nudge" /\ call'[g].at = "nudge"
              /\ call'[g].conv = call[g].conv /\ call'[g].time = call[g].time
              /\ call'[g].todo \subseteq call[g].todo
  PROVE  CallsInv' /\ RaceInv'
<1> USE DEF ThreadsInv
<1>1. NoCall.at = "idle"
  BY DEF NoCall
<1>2. ASSUME NEW g \in Calls
      PROVE  CallOK(call[g])'
  <2>1. CallOK(call[g])
    BY DEF CallsInv
  <2>2. CASE call'[g] = call[g]
    <3>1. call[g].at = "nudge" => call[g].time =< now'
      <4>1. call[g].at = "nudge" => call[g].time \in Nat
        BY CallKinds DEF CallsInv, Times
      <4> QED BY <2>1, <4>1, ChatTypes DEF CallOK
    <3>2. call[g].at = "read" => call[g].time =< now'
      <4>1. call[g].at = "read" => call[g].time \in Nat
        BY CallKinds DEF CallsInv, Times
      <4> QED BY <2>1, <4>1, ChatTypes DEF CallOK
    <3> QED BY <2>1, <2>2, <3>1, <3>2 DEF CallOK, Parts
  <2>3. CASE call'[g] = NoCall
    BY <1>1, <2>3 DEF CallOK
  <2>4. CASE /\ call[g].at = "nudge" /\ call'[g].at = "nudge"
             /\ call'[g].conv = call[g].conv /\ call'[g].time = call[g].time
             /\ call'[g].todo \subseteq call[g].todo
    <3>1. call[g].time \in Nat
      BY <2>4, CallKinds DEF CallsInv, Times
    <3>2. call[g].time =< now'
      BY <2>1, <2>4, <3>1, ChatTypes DEF CallOK
    <3> QED BY <2>1, <2>4, <3>2 DEF CallOK
  <2> QED BY <2>2, <2>3, <2>4
<1>3. \A g \in Calls : call'[g].at \in {"members", "open"} => call'[g] = call[g]
  BY <1>1
<1>4. CallsInv'
  BY <1>2, <1>3 DEF CallsInv
<1>5. RaceInv'
  BY <1>3 DEF RaceInv, Making, Direct
<1> QED BY <1>4, <1>5

LEMMA SetMutedKeeps ==
  ASSUME ThreadsInv, NEW u \in Users, NEW c \in DOMAIN convs \cap Threads,
         NEW muted \in BOOLEAN, SetMuted(u, c, muted)
  PROVE  ThreadsInv'
<1> USE DEF ThreadsInv
<1> DEFINE row == [member[<<c, u>>] EXCEPT !.muted = muted]
<1>1. member[<<c, u>>] \in RowType /\ now \in Times /\ Len(messages) \in Nat
  BY ClockType, MemberTypes
<1>2. /\ mark \in [Threads \X Users -> 0..Len(messages)]
      /\ UNCHANGED <<now, convs, messages, call, raced>> /\ u \in convs[c].members
  BY Zenon DEF ChatTypeOK, SetMuted
<1>3. row \in RowType /\ row.read = member[<<c, u>>].read
  BY <1>1 DEF RowType
<1>4. member' = [member EXCEPT ![<<c, u>>] = row] /\ mark' = mark
  BY DEF SetMuted
<1>5. mark' = [mark EXCEPT ![<<c, u>>] = mark[<<c, u>>]] /\ mark[<<c, u>>] \in 0..Len(messages)
  BY <1>2, <1>4, MemberTypes
<1> HIDE DEF row
<1>6. ChatTypeOK' /\ OneDirectUnlessRaced' /\ MarkInv'
  BY <1>1, <1>2, <1>3, <1>4, <1>5, RowKeeps
<1>7. CallsInv' /\ RaceInv'
  <2>1. now' \in Nat /\ now =< now'
    BY <1>2, ClockType
  <2> QED BY <1>2, <2>1, CallsKept DEF CallsInv
<1> QED BY <1>6, <1>7

LEMMA ReadBeginKeeps ==
  ASSUME ThreadsInv, NEW f \in Calls, NEW u \in Users, NEW c \in DOMAIN convs \cap Threads,
         ReadBegin(f, u, c)
  PROVE  ThreadsInv'
<1> DEFINE step == [at |-> "read", conv |-> c, user |-> u, time |-> now, count |-> Len(messages)]
<1>1. now \in Times /\ now \in Nat /\ Len(messages) \in Nat /\ DOMAIN messages = 1..Len(messages)
      /\ \A i \in DOMAIN messages : messages[i].at \in 0..now
  BY ClockType, ChatTypes DEF ThreadsInv
<1>2. /\ step \in CallType /\ step.at = "read" /\ step.conv = c /\ step.user = u
      /\ step.time = now /\ step.count = Len(messages)
  BY <1>1 DEF CallType
<1>3. Parts(Len(messages), now)
  <2>1. ASSUME NEW i \in DOMAIN messages
        PROVE  i =< Len(messages) /\ messages[i].at =< now
    <3>1. messages[i].at \in 0..now /\ now \in Nat /\ i \in 1..Len(messages)
      BY <1>1
    <3> QED BY <1>1, <3>1
  <2> QED BY <2>1 DEF Parts
<1>4. /\ Goes(f, step) /\ u \in convs[c].members
      /\ UNCHANGED <<now, convs, messages, member, raced, mark>>
  BY DEF ReadBegin
<1> HIDE DEF step
<1>5. CallOK(step) /\ ~Making(step)
  BY <1>1, <1>2, <1>3, <1>4 DEF CallOK, Making
<1> QED BY <1>2, <1>4, <1>5, CallStepKeeps

LEMMA ReadWriteKeeps ==
  ASSUME ThreadsInv, NEW f \in Calls, ReadWrite(f)
  PROVE  ThreadsInv'
<1> USE DEF ThreadsInv
<1> DEFINE c == call[f].conv
           u == call[f].user
           t == call[f].time
           m == call[f].count
           row == Marked(member[<<c, u>>], t)
<1>1. call[f] \in CallType /\ CallOK(call[f]) /\ call[f].at = "read"
  BY DEF CallsInv, ReadWrite
<1>2. /\ c \in DOMAIN convs \cap Threads /\ u \in convs[c].members /\ u \in Users
      /\ t \in Times /\ t =< now /\ Parts(m, t) /\ m \in Nat /\ m =< Len(messages)
  BY <1>1, CallKinds DEF CallOK
<1>3. /\ member' = [member EXCEPT ![<<c, u>>] = row] /\ mark' = [mark EXCEPT ![<<c, u>>] = m]
      /\ Goes(f, NoCall) /\ UNCHANGED <<now, convs, messages, raced>>
  BY DEF ReadWrite
<1>4. /\ call' \in [Calls -> CallType] /\ call'[f] = NoCall
      /\ \A g \in Calls \ {f} : call'[g] = call[g]
  <2>1. NoCall \in CallType
    BY DEF CallType
  <2> QED BY <1>3, <2>1, CallMoves
<1> HIDE DEF c, u, t, m
<1>5. member[<<c, u>>] \in RowType /\ Len(messages) \in Nat
  BY <1>2, MemberTypes
<1>6. row \in RowType /\ row.read = t
  BY <1>2, <1>5 DEF Marked, RowType
<1>7. m \in 0..Len(messages)
  BY <1>2, <1>5
<1> HIDE DEF row
<1>8. ChatTypeOK' /\ OneDirectUnlessRaced' /\ MarkInv'
  BY <1>2, <1>3, <1>6, <1>7, RowKeeps
<1>9. CallsInv' /\ RaceInv'
  <2>1. now' \in Nat /\ now =< now'
    BY <1>3, ClockType
  <2> QED BY <1>3, <1>4, <2>1, CallsKept
<1> QED BY <1>8, <1>9

LEMMA ClaimKeeps ==
  ASSUME ThreadsInv, NEW f \in Calls, NEW r \in Users, Claim(f, r)
  PROVE  ThreadsInv'
<1> DEFINE c == call[f].conv
           rest == call[f].todo \ {r}
           step == [call[f] EXCEPT !.todo = rest]
<1> USE DEF ThreadsInv
<1>1. call[f] \in CallType /\ CallOK(call[f]) /\ call[f].at = "nudge" /\ r \in call[f].todo
  BY DEF CallsInv, Claim
<1>2. /\ c \in Threads /\ c \in DOMAIN convs /\ r \in convs[c].members
      /\ call[f] \in [at : {"nudge"}, conv : Threads, time : Times, todo : SUBSET Users]
  BY <1>1, CallKinds DEF CallOK
<1>3. /\ step \in CallType /\ step.at = "nudge" /\ step.conv = c /\ step.time = call[f].time
      /\ step.todo = rest
  BY <1>2 DEF CallType
<1>4. /\ Goes(f, IF rest = {} THEN NoCall ELSE step)
      /\ UNCHANGED <<now, convs, messages, raced, mark>>
      /\ member' = IF MayClaim(member[<<c, r>>], call[f].time)
                   THEN [member EXCEPT ![<<c, r>>] = [member[<<c, r>>] EXCEPT !.notified = now]]
                   ELSE member
  BY DEF Claim
<1> HIDE DEF step
<1>5. /\ call' \in [Calls -> CallType] /\ call'[f] = IF rest = {} THEN NoCall ELSE step
      /\ \A g \in Calls \ {f} : call'[g] = call[g]
  <2>1. NoCall \in CallType
    BY DEF CallType
  <2> QED BY <1>3, <1>4, <2>1, CallMoves
<1>6. CallsInv' /\ RaceInv'
  <2>1. now' \in Nat /\ now =< now'
    BY <1>4, ClockType
  <2> QED BY <1>1, <1>3, <1>4, <1>5, <2>1, CallsKept
<1>7. ChatTypeOK' /\ OneDirectUnlessRaced' /\ MarkInv'
  <2>1. member \in [Threads \X Users -> RowType] /\ member[<<c, r>>] \in RowType /\ now \in Times
    <3>1. member \in [Threads \X Users -> RowType]
      BY Zenon DEF ChatTypeOK, RowType
    <3> QED BY <1>1, <1>2, <3>1, ClockType, MemberTypes
  <2>2. mark[<<c, r>>] \in 0..Len(messages) /\ mark' = [mark EXCEPT ![<<c, r>>] = mark[<<c, r>>]]
    <3>1. mark \in [Threads \X Users -> 0..Len(messages)]
      BY Zenon DEF ChatTypeOK
    <3> QED BY <1>2, <1>4, <3>1, MemberTypes
  <2>3. PICK row \in RowType :
          row.read = member[<<c, r>>].read /\ member' = [member EXCEPT ![<<c, r>>] = row]
    <3>1. CASE MayClaim(member[<<c, r>>], call[f].time)
      <4>1. [member[<<c, r>>] EXCEPT !.notified = now] \in RowType
            /\ [member[<<c, r>>] EXCEPT !.notified = now].read = member[<<c, r>>].read
        BY <2>1 DEF RowType
      <4> QED BY <1>4, <3>1, <4>1
    <3>2. CASE ~MayClaim(member[<<c, r>>], call[f].time)
      BY <1>4, <2>1, <3>2
    <3> QED BY <3>1, <3>2
  <2>4. UNCHANGED <<now, convs, messages, raced>>
    BY <1>4
  <2> DEFINE m == mark[<<c, r>>]
  <2>5. m \in 0..Len(messages) /\ mark' = [mark EXCEPT ![<<c, r>>] = m] /\ m = mark[<<c, r>>]
    BY <2>2
  <2> HIDE DEF c, m
  <2>6. c \in DOMAIN convs \cap Threads /\ r \in convs[c].members
    BY <1>2 DEF c
  <2>7. row \in RowType /\ row.read = member[<<c, r>>].read
        /\ member' = [member EXCEPT ![<<c, r>>] = row]
    BY <2>3
  <2>8. now \in Times
    BY <2>1
  <2> QED BY <2>4, <2>5, <2>6, <2>7, <2>8, RowKeeps
<1> QED BY <1>6, <1>7

LEMMA TickKeeps ==
  ASSUME ThreadsInv, Tick
  PROVE  ThreadsInv'
<1> USE DEF ThreadsInv
<1>1. now \in Nat /\ MaxTime \in Nat /\ now' = now + 1 /\ now' \in Times
  BY ChatTypes DEF Tick, Times
<1>2. UNCHANGED <<convs, messages, member, call, raced, mark>>
  BY DEF Tick
<1>3. ChatTypeOK'
  <2>1. messages' \in Seq([conv : DOMAIN convs', from : Users, at : 0..now'])
    <3> DEFINE M == [conv : DOMAIN convs, from : Users, at : 0..now]
               N == [conv : DOMAIN convs, from : Users, at : 0..now']
    <3>1. messages \in Seq(M)
      BY ChatTypes
    <3>2. M \subseteq N
      BY <1>1
    <3> HIDE DEF M, N
    <3>3. messages \in Seq(N)
      BY <3>1, <3>2
    <3> QED BY <1>2, <3>3 DEF N
  <2> QED BY <1>1, <1>2, <2>1, Zenon DEF ChatTypeOK
<1>4. CallsInv' /\ RaceInv'
  <2>1. now' \in Nat /\ now =< now'
    BY <1>1
  <2> QED BY <1>2, <2>1, CallsKept DEF CallsInv
<1>5. OneDirectUnlessRaced'
  BY <1>2 DEF OneDirectUnlessRaced
<1>6. MarkInv'
  <2>1. ASSUME NEW c \in Threads, NEW u \in Users, member[<<c, u>>].read # Never,
               member[<<c, u>>].read =< now
        PROVE  member[<<c, u>>].read =< now'
    <3>1. member[<<c, u>>].read \in Nat
      BY <2>1, ClockType, MemberTypes
    <3> QED BY <1>1, <2>1, <3>1
  <2> QED BY <1>2, <2>1 DEF MarkInv, Parts
<1> QED BY <1>3, <1>4, <1>5, <1>6

LEMMA DiesKeeps ==
  ASSUME ThreadsInv, NEW f \in Calls, CallDies(f)
  PROVE  ThreadsInv'
BY EndKeeps DEF CallDies

-----------------------------------------------------------------------------
(* Every step *)

LEMMA ThreadsStart == ChatInit => ThreadsInv
<1> SUFFICES ASSUME ChatInit PROVE ThreadsInv
  OBVIOUS
<1>1. /\ now = 0 /\ convs = <<>> /\ messages = <<>> /\ raced = {}
      /\ member = [k \in Threads \X Users |-> Fresh]
      /\ mark = [k \in Threads \X Users |-> 0]
      /\ call = [f \in Calls |-> NoCall]
  BY DEF ChatInit
<1>2. 0 \in Times
  BY ChatAssumption DEF Times
<1>3. Fresh \in RowType
  BY DEF Fresh, RowType
<1>4. ChatTypeOK
  <2>1. convs \in Seq(ConvType)
    BY <1>1
  <2>2. messages \in Seq([conv : DOMAIN convs, from : Users, at : 0..now])
    BY <1>1
  <2>3. 0 \in 0..Len(messages)
    BY <1>1
  <2>4. mark \in [Threads \X Users -> 0..Len(messages)]
    BY <1>1, <2>3
  <2>5. member \in [Threads \X Users -> RowType]
    BY <1>1, <1>3
  <2>6. \A c \in Threads, u \in Users : member[<<c, u>>] = Fresh
    BY <1>1
  <2> QED BY <1>1, <1>2, <2>1, <2>2, <2>4, <2>5, <2>6, Zenon DEF ChatTypeOK, ConvType, RowType
<1>5. CallsInv /\ RaceInv
  <2>1. NoCall \in CallType /\ NoCall.at = "idle"
    BY DEF CallType, NoCall
  <2>2. \A f \in Calls : call[f] = NoCall
    BY <1>1
  <2>3. call \in [Calls -> CallType]
    BY <1>1, <2>1
  <2>4. CallsInv
    BY <2>1, <2>2, <2>3 DEF CallsInv, CallOK
  <2>5. RaceInv
    BY <2>1, <2>2 DEF RaceInv, Making
  <2> QED BY <2>4, <2>5
<1>6. OneDirectUnlessRaced
  BY <1>1 DEF OneDirectUnlessRaced
<1>7. MarkInv
  <2>1. \A c \in Threads, u \in Users : member[<<c, u>>].read = Never /\ mark[<<c, u>>] = 0
    BY <1>1 DEF Fresh
  <2> QED BY <2>1 DEF MarkInv
<1> QED BY <1>4, <1>5, <1>6, <1>7 DEF ThreadsInv

LEMMA ThreadsStep == ThreadsInv /\ [ChatNext]_chatVars => ThreadsInv'
<1> SUFFICES ASSUME ThreadsInv, [ChatNext]_chatVars PROVE ThreadsInv'
  OBVIOUS
<1>1. ASSUME NEW f \in Calls, NEW u \in Users, NEW v \in Users, u # v,
             OpenBegin(f, {u, v}, FALSE)
      PROVE  ThreadsInv'
  <2>1. {u, v} \in SUBSET Users /\ {u, v} # {}
    OBVIOUS
  <2> QED BY <1>1, <2>1, OpenBeginKeeps
<1>2. ASSUME NEW f \in Calls, NEW who \in Circles, OpenBegin(f, who, TRUE)
      PROVE  ThreadsInv'
  <2>1. who \in SUBSET Users
    BY ChatAssumption
  <2> QED BY <1>2, <2>1, OpenBeginKeeps
<1>3. ASSUME NEW f \in Calls,
             \/ OpenCreate(f) \/ OpenMembers(f) \/ SendRead(f) \/ CallDies(f)
             \/ ReadWrite(f)
             \/ \E u \in Users, c \in DOMAIN convs \cap Threads :
                  SendInsert(f, u, c) \/ ReadBegin(f, u, c)
             \/ \E r \in Users : Claim(f, r)
             \/ /\ call[f].at = "notify"
                /\ \E read \in [call[f].to -> PersonRows(now)] : NudgeStart(f, read)
      PROVE  ThreadsInv'
  BY <1>3, OpenCreateKeeps, OpenMembersKeeps, SendReadKeeps, DiesKeeps, SendInsertKeeps,
     ClaimKeeps, NudgeStartKeeps, ReadBeginKeeps, ReadWriteKeeps
<1>4. ASSUME NEW u \in Users, NEW c \in DOMAIN convs \cap Threads, NEW muted \in BOOLEAN,
             SetMuted(u, c, muted)
      PROVE  ThreadsInv'
  BY <1>4, SetMutedKeeps
<1>5. CASE Tick
  BY <1>5, TickKeeps
<1>6. CASE UNCHANGED chatVars
  <2>1. UNCHANGED <<now, convs, messages, member, call, raced, mark>>
    BY <1>6 DEF chatVars
  <2> QED BY <2>1, Zenon DEF ThreadsInv, ChatTypeOK, CallsInv, CallOK, RaceInv, Making, Direct,
                             OneDirectUnlessRaced, MarkInv, Parts
<1> QED BY <1>1, <1>2, <1>3, <1>4, <1>5, <1>6 DEF ChatNext

(* The chat is always in a state of the invariant. *)
THEOREM ThreadsInvariant == ChatSpec => []ThreadsInv
BY ThreadsStart, ThreadsStep, PTL DEF ChatSpec

(* Conversations and messages are well-formed, and two people have two      *)
(* direct conversations only if requests that overlapped created them: the  *)
(* look-up of createDirect (chat.service.ts) misses only what is under way. *)
THEOREM ChatSafe == ChatSpec => []ChatInv
<1>1. ThreadsInv => ChatInv
  BY DEF ThreadsInv, ChatInv
<1> QED BY <1>1, ThreadsInvariant, PTL

-----------------------------------------------------------------------------
(* What is unread *)

LEMMA UnreadFromMark == ThreadsInv => UnreadIsWhatCameAfter
<1> SUFFICES ASSUME ThreadsInv, NEW c \in Threads, NEW u \in Users
             PROVE  LET came == { i \in DOMAIN messages :
                                    /\ messages[i].conv = c /\ messages[i].from # u
                                    /\ i > mark[<<c, u>>] }
                    IN  /\ Unread(c, u) \subseteq came
                        /\ \A i \in came \ Unread(c, u) :
                             messages[i].at = member[<<c, u>>].read
  BY Zenon DEF UnreadIsWhatCameAfter
<1> USE DEF ThreadsInv
<1> DEFINE read == member[<<c, u>>].read
           m == mark[<<c, u>>]
<1>1. read \in Times \cup {Never} /\ m \in 0..Len(messages) /\ Len(messages) \in Nat
  BY MemberTypes
<1>2. Times \subseteq Nat
  BY ClockType
<1>3. IF read = Never THEN m = 0
      ELSE /\ read =< now
           /\ \A i \in DOMAIN messages :
                IF i =< m THEN messages[i].at =< read ELSE messages[i].at >= read
  BY DEF MarkInv, Parts
<1>4. ASSUME NEW i \in DOMAIN messages
      PROVE  messages[i].at \in Nat /\ i \in Nat /\ i >= 1
  <2>1. messages[i].at \in 0..now /\ now \in Nat
    BY ChatTypes
  <2>2. DOMAIN messages = 1..Len(messages)
    BY ChatTypes
  <2> QED BY <1>1, <2>1, <2>2
<1> HIDE DEF read, m
<1>5. ASSUME NEW i \in DOMAIN messages, read = Never \/ messages[i].at > read
      PROVE  i > m
  <2>1. CASE read = Never
    BY <1>3, <1>4, <2>1
  <2>2. CASE read # Never
    BY <1>1, <1>2, <1>3, <1>4, <1>5, <2>2
  <2> QED BY <2>1, <2>2
<1>6. ASSUME NEW i \in DOMAIN messages, i > m, ~(read = Never \/ messages[i].at > read)
      PROVE  messages[i].at = read
  BY <1>1, <1>2, <1>3, <1>4, <1>6
<1> QED BY <1>5, <1>6 DEF Unread, read, m

(* What a member has unread came after the time of their last markRead to   *)
(* be written, and everything that came after is unread but what was sent   *)
(* at that very instant, however readings overlap                           *)
(* (unreadCount and listConversations of chat.service.ts).                  *)
THEOREM UnreadHolds == ChatSpec => []UnreadIsWhatCameAfter
BY ThreadsInvariant, UnreadFromMark, PTL

-----------------------------------------------------------------------------
(* Nudges *)

Nudged ==
  \A k \in DOMAIN member :
    LET before == member[k].notified
        after == member'[k].notified
    IN  after \notin {before, Never} => before = Never \/ after - before > Quiet

LEMMA ClaimIsQuiet ==
  ASSUME ThreadsInv, NEW f \in Calls, NEW r \in Users, Claim(f, r)
  PROVE  Nudged
<1> DEFINE c == call[f].conv
           t == call[f].time
           row == [member[<<c, r>>] EXCEPT !.notified = now]
<1> USE DEF ThreadsInv
<1>1. call[f] \in CallType /\ CallOK(call[f]) /\ call[f].at = "nudge"
  BY DEF CallsInv, Claim
<1>2. c \in Threads /\ t \in Times /\ t =< now
  BY <1>1, CallKinds DEF CallOK
<1>3. now \in Nat /\ Times \subseteq Nat /\ Never \notin Int
  BY ClockType
<1>4. Quiet \in Nat
  BY ChatAssumption
<1>5. member \in [Threads \X Users -> RowType]
  BY Zenon DEF ChatTypeOK, RowType
<1>6. member[<<c, r>>] \in RowType /\ member[<<c, r>>].notified \in Times \cup {Never}
  BY <1>2, MemberTypes
<1>7. row.notified = now
  BY <1>6 DEF RowType
<1>8. member' = IF MayClaim(member[<<c, r>>], t)
                THEN [member EXCEPT ![<<c, r>>] = row] ELSE member
  BY DEF Claim
<1> HIDE DEF row, c, t
<1>9. MayClaim(member[<<c, r>>], t) =>
        \/ member[<<c, r>>].notified = Never
        \/ now - member[<<c, r>>].notified > Quiet
  <2>1. ASSUME NEW before \in Nat, before < t - Quiet
        PROVE  now - before > Quiet
    BY <1>2, <1>3, <1>4, <2>1
  <2> QED BY <1>3, <1>6, <2>1 DEF MayClaim
<1>10. ASSUME NEW k \in DOMAIN member, member'[k].notified # member[k].notified
       PROVE  /\ k = <<c, r>> /\ MayClaim(member[<<c, r>>], t)
              /\ member'[k].notified = now
  BY <1>5, <1>7, <1>8, <1>10
<1> QED BY <1>9, <1>10 DEF Nudged

LEMMA OthersDoNotNudge ==
  ASSUME ThreadsInv, NEW c \in Threads, NEW u \in Users, NEW row,
         member' = [member EXCEPT ![<<c, u>>] = row],
         row.notified \in {Never, member[<<c, u>>].notified}
  PROVE  Nudged
<1>1. member \in [Threads \X Users -> RowType]
  BY Zenon DEF ThreadsInv, ChatTypeOK, RowType
<1>2. ASSUME NEW k \in DOMAIN member
      PROVE  member'[k].notified \in {Never, member[k].notified}
  BY <1>1
<1> QED BY <1>2 DEF Nudged

(* At most one e-mail for a conversation within QUIET_MIN, until it is      *)
(* read: the claim compares the row with a time that has been, so that      *)
(* whichever send wins finds the row as the last one left it.               *)
THEOREM QuietHolds == ChatSpec => QuietBetweenNudges
<1>1. ThreadsInv /\ [ChatNext]_chatVars => [Nudged]_chatVars
  <2> SUFFICES ASSUME ThreadsInv, ChatNext PROVE Nudged
    OBVIOUS
  <2>1. CASE UNCHANGED member
    BY <2>1 DEF Nudged
  <2>2. ASSUME NEW f \in Calls, NEW r \in Users, Claim(f, r)
        PROVE  Nudged
    BY <2>2, ClaimIsQuiet
  <2>3. ASSUME NEW u \in Users, NEW c \in DOMAIN convs \cap Threads, NEW muted \in BOOLEAN,
               SetMuted(u, c, muted)
        PROVE  Nudged
    <3>1. member[<<c, u>>] \in RowType
      BY MemberTypes DEF ThreadsInv
    <3>2. [member[<<c, u>>] EXCEPT !.muted = muted].notified = member[<<c, u>>].notified
      BY <3>1 DEF RowType
    <3> QED BY <2>3, <3>2, OthersDoNotNudge DEF SetMuted
  <2>4. ASSUME NEW f \in Calls, ReadWrite(f)
        PROVE  Nudged
    <3> DEFINE c == call[f].conv
               u == call[f].user
               row == Marked(member[<<c, u>>], call[f].time)
    <3>1. call[f] \in CallType /\ call[f].at = "read"
      BY <2>4 DEF ThreadsInv, CallsInv, ReadWrite
    <3>2. c \in Threads /\ u \in Users
      BY <3>1, CallKinds
    <3>3. member' = [member EXCEPT ![<<c, u>>] = row]
      BY <2>4 DEF ReadWrite
    <3> HIDE DEF c, u
    <3>4. member[<<c, u>>] \in RowType
      BY <3>2, MemberTypes DEF ThreadsInv
    <3>5. row.notified = Never
      BY <3>4 DEF Marked, RowType
    <3> HIDE DEF row
    <3> QED BY <3>2, <3>3, <3>5, OthersDoNotNudge
  <2> QED BY <2>1, <2>2, <2>3, <2>4 DEF ChatNext, OpenBegin, OpenCreate, OpenMembers, SendInsert,
                                       SendRead, NudgeStart, ReadBegin, CallDies, Tick
<1>2. [][Nudged]_chatVars => QuietBetweenNudges
  BY PTL DEF QuietBetweenNudges, Nudged
<1> QED BY <1>1, <1>2, ThreadsInvariant, PTL DEF ChatSpec
=============================================================================
