-------------------------------- MODULE Chat --------------------------------
(***************************************************************************)
(* Internal chat (chat.service.ts) with the presence it depends on          *)
(* (presence.service.ts, presence.util.ts): opening conversations, sending, *)
(* reading, muting, and the e-mail that nudges an absent recipient.         *)
(*                                                                          *)
(* Creating a conversation and sending a message are split where they await *)
(* the database, and reading where the time is taken; muting is a single    *)
(* write.  What a user's status says is not a state of the chat: a send     *)
(* finds each recipient's row as any sequence of heartbeats and choices may *)
(* have left it.  Message bodies, names and the in-app notification are     *)
(* left out.                                                                *)
(***************************************************************************)
EXTENDS Integers, Sequences, FiniteSets

CONSTANTS
  Users,
  Circles,     \* the people groups are made for
  Calls,       \* sends, creations and readings served at the same time
  ByHand,      \* the statuses a user may set by hand
  Never,       \* no time
  AwayAfter,   \* AWAY_AFTER_MIN
  Quiet,       \* QUIET_MIN
  MaxConvs,    \* bound: conversations
  MaxThreads,  \* bound: conversations that are written in and read
  MaxMessages, \* bound: messages
  MaxTime      \* bound: the last instant of the clock

ASSUME ChatAssumption ==
  /\ {AwayAfter, Quiet, MaxConvs, MaxThreads, MaxMessages, MaxTime} \subseteq Nat
  /\ Circles \subseteq SUBSET Users
  /\ ByHand \subseteq {"AVAILABLE", "BUSY", "DND", "AWAY", "OFFLINE"}
  /\ Never \notin Int

VARIABLES
  now,      \* the server's clock
  convs,    \* the conversations: direct or group, and who is a member
  messages, \* the messages, in order of creation
  member,   \* lastReadAt, lastNotifiedAt and muted of each membership
  call,     \* the requests in flight
  raced,    \* history: pairs whose creations overlapped
  mark      \* history: number of messages when the last markRead written took its time

chatVars == <<now, convs, messages, member, call, raced, mark>>

Threads == 1..MaxThreads
Times == 0..MaxTime

Fresh == [read |-> Never, notified |-> Never, muted |-> FALSE]

ChatTypeOK ==
  /\ now \in Times
  /\ convs \in Seq([group : BOOLEAN, members : SUBSET Users])
  /\ messages \in Seq([conv : DOMAIN convs, from : Users, at : 0..now])
  /\ member \in [ Threads \X Users ->
                  [read : Times \cup {Never}, notified : Times \cup {Never}, muted : BOOLEAN] ]
  /\ \A c \in Threads, u \in Users :
       c \notin DOMAIN convs \/ u \notin convs[c].members => member[<<c, u>>] = Fresh
  /\ raced \subseteq SUBSET Users
  /\ mark \in [Threads \X Users -> 0..Len(messages)]

NoCall == [at |-> "idle"]

ChatInit ==
  /\ now = 0
  /\ convs = <<>> /\ messages = <<>>
  /\ member = [k \in Threads \X Users |-> Fresh]
  /\ call = [f \in Calls |-> NoCall]
  /\ raced = {}
  /\ mark = [k \in Threads \X Users |-> 0]

Goes(f, step) == call' = [call EXCEPT ![f] = step]

-----------------------------------------------------------------------------
(* Presence *)

(* The rows there may be at that time: never seen; seen by a heartbeat or a *)
(* return to automatic, which leave the status as it was; or set by hand.   *)
PersonRows(time) ==
  {[presence |-> "OFFLINE", manual |-> FALSE, seen |-> Never]}
  \cup [presence : ByHand \cup {"OFFLINE"}, manual : {FALSE}, seen : 0..time]
  \cup [presence : ByHand, manual : {TRUE}, seen : 0..time]

-----------------------------------------------------------------------------
(* Opening a conversation *)

DirectOfOne(c, pair) ==
  ~convs[c].group /\ convs[c].members = pair /\ Cardinality(convs[c].members) = 1

Direct(c, pair) == ~convs[c].group /\ convs[c].members = pair

(* createDirect, when the two have no conversation yet; createGroup always. *)
OpenBegin(f, who, group) ==
  /\ call[f] = NoCall
  /\ group \/ ~\E c \in DOMAIN convs : Direct(c, who)
  /\ Goes(f, [at |-> "open", who |-> who, group |-> group])
  /\ UNCHANGED <<now, convs, messages, member, raced, mark>>

(* Do f and another request open a conversation for the same pair? *)
Overlaps(f) ==
  \E g \in Calls \ {f} :
    call[g].at \in {"open", "members"} /\ call[g].who = call[f].who /\ ~call[g].group

OpenCreate(f) ==
  /\ call[f].at = "open" /\ Len(convs) < MaxConvs
  /\ convs' = Append(convs, [group |-> call[f].group, members |-> {}])
  /\ Goes(f, [ at |-> "members", who |-> call[f].who, group |-> call[f].group,
               conv |-> Len(convs) + 1 ])
  /\ UNCHANGED <<now, messages, member, raced, mark>>

OpenMembers(f) ==
  /\ call[f].at = "members"
  /\ LET c == call[f].conv
     IN  convs' = [convs EXCEPT ![c] = [convs[c] EXCEPT !.members = call[f].who]]
  /\ raced' = IF Overlaps(f) /\ ~call[f].group THEN raced \cup {call[f].who} ELSE raced
  /\ Goes(f, NoCall)
  /\ UNCHANGED <<now, messages, member, mark>>

-----------------------------------------------------------------------------
(* Sending *)

SendInsert(f, u, c) ==
  /\ call[f] = NoCall
  /\ u \in convs[c].members
  /\ Len(messages) < MaxMessages
  /\ messages' = Append(messages, [conv |-> c, from |-> u, at |-> now])
  /\ Goes(f, [at |-> "sent", conv |-> c, from |-> u])
  /\ UNCHANGED <<now, convs, member, raced, mark>>

(* The recipients who did not mute the thread *)
SendRead(f) ==
  LET c == call[f].conv
      others == { r \in convs[c].members \ {call[f].from} : ~member[<<c, r>>].muted }
  IN  /\ call[f].at = "sent"
      /\ Goes(f, IF others = {} THEN NoCall ELSE [at |-> "notify", conv |-> c, to |-> others])
      /\ UNCHANGED <<now, convs, messages, member, raced, mark>>

(* Away to emailAbsentRecipients: the status on the row, or a long silence. *)
Away(p, time) ==
  p.presence = "OFFLINE" \/ (p.seen = Never \/ time - p.seen > AwayAfter)

(* Whom to nudge, by their rows, and the time all of them compare with *)
NudgeStart(f, read) ==
  LET absent == { r \in DOMAIN read : Away(read[r], now) }
  IN  /\ Goes(f, IF absent = {} THEN NoCall
                 ELSE [at |-> "nudge", conv |-> call[f].conv, time |-> now, todo |-> absent])
      /\ UNCHANGED <<now, convs, messages, member, raced, mark>>

MayClaimAlways(row, time) == TRUE

(* The condition of the updateMany that claims a nudge *)
MayClaim(row, time) == row.notified = Never \/ row.notified < time - Quiet

Claim(f, r) ==
  LET c == call[f].conv
      rest == call[f].todo \ {r}
  IN  /\ call[f].at = "nudge" /\ r \in call[f].todo
      /\ IF MayClaim(member[<<c, r>>], call[f].time)
         THEN member' = [member EXCEPT ![<<c, r>>] = [member[<<c, r>>] EXCEPT !.notified = now]]
         ELSE UNCHANGED member
      /\ Goes(f, IF rest = {} THEN NoCall ELSE [call[f] EXCEPT !.todo = rest])
      /\ UNCHANGED <<now, convs, messages, raced, mark>>

-----------------------------------------------------------------------------
(* Reading and muting *)

Marked(row, time) == [row EXCEPT !.read = time, !.notified = Never]

(* markRead takes the time ... *)
ReadBegin(f, u, c) ==
  /\ call[f] = NoCall
  /\ u \in convs[c].members
  /\ Goes(f, [at |-> "read", conv |-> c, user |-> u, time |-> now, count |-> Len(messages)])
  /\ UNCHANGED <<now, convs, messages, member, raced, mark>>

(* ... and writes it once the database gets to it. *)
ReadWrite(f) ==
  /\ call[f].at = "read"
  /\ LET k == <<call[f].conv, call[f].user>>
     IN  /\ member' = [member EXCEPT ![k] = Marked(member[k], call[f].time)]
         /\ mark' = [mark EXCEPT ![k] = call[f].count]
  /\ Goes(f, NoCall)
  /\ UNCHANGED <<now, convs, messages, raced>>

SetMuted(u, c, muted) ==
  /\ u \in convs[c].members
  /\ member' = [member EXCEPT ![<<c, u>>] = [member[<<c, u>>] EXCEPT !.muted = muted]]
  /\ UNCHANGED <<now, convs, messages, call, raced, mark>>

UnreadInclusive(c, u) ==
  { i \in DOMAIN messages :
      /\ messages[i].conv = c /\ messages[i].from # u
      /\ member[<<c, u>>].read = Never \/ messages[i].at >= member[<<c, u>>].read }

(* What unreadCount and listConversations count for u in c *)
Unread(c, u) ==
  { i \in DOMAIN messages :
      /\ messages[i].conv = c /\ messages[i].from # u
      /\ member[<<c, u>>].read = Never \/ messages[i].at > member[<<c, u>>].read }

-----------------------------------------------------------------------------

(* A request fails, or its process stops. *)
CallDies(f) ==
  /\ call[f] # NoCall
  /\ Goes(f, NoCall)
  /\ UNCHANGED <<now, convs, messages, member, raced, mark>>

Tick ==
  /\ now < MaxTime
  /\ now' = now + 1
  /\ UNCHANGED <<convs, messages, member, call, raced, mark>>

ChatNext ==
  \/ \E f \in Calls :
       \/ \E u, v \in Users : u # v /\ OpenBegin(f, {u, v}, FALSE)
       \/ \E who \in Circles : OpenBegin(f, who, TRUE)
       \/ OpenCreate(f) \/ OpenMembers(f)
       \/ \E u \in Users, c \in DOMAIN convs \cap Threads :
            SendInsert(f, u, c) \/ ReadBegin(f, u, c)
       \/ SendRead(f) \/ ReadWrite(f)
       \/ /\ call[f].at = "notify"
          /\ \E read \in [call[f].to -> PersonRows(now)] : NudgeStart(f, read)
       \/ \E r \in Users : Claim(f, r)
       \/ CallDies(f)
  \/ \E u \in Users, c \in DOMAIN convs \cap Threads, muted \in BOOLEAN : SetMuted(u, c, muted)
  \/ Tick

ChatSpec == ChatInit /\ [][ChatNext]_chatVars

-----------------------------------------------------------------------------
(* Properties. *)

(* "At most one email per conversation per QUIET_MIN", until the thread is  *)
(* read: however many sends run at once, and however long ago they took the *)
(* time they compare with.                                                  *)
QuietBetweenNudges ==
  [][ \A k \in DOMAIN member :
        LET before == member[k].notified
            after == member'[k].notified
        IN  after \notin {before, Never} => before = Never \/ after - before > Quiet ]_chatVars

(* Two people have two direct conversations only if both were created by    *)
(* requests that overlapped; a creation that died on the way does not count. *)
OneDirectUnlessRaced ==
  \A c, d \in DOMAIN convs :
    ( /\ c # d /\ ~convs[c].group /\ ~convs[d].group
      /\ convs[c].members = convs[d].members /\ convs[c].members # {} )
    => convs[c].members \in raced

(* What any client sees of the conversations is well-formed and unique.     *)
ChatInv == ChatTypeOK /\ OneDirectUnlessRaced

(* "Mark everything up to now as read": what is unread came after the last  *)
(* markRead to be written took its time, and everything that came after is  *)
(* unread but what was sent at that very instant.                           *)
UnreadIsWhatCameAfter ==
  \A c \in Threads, u \in Users :
    LET came == { i \in DOMAIN messages : /\ messages[i].conv = c /\ messages[i].from # u
                                          /\ i > mark[<<c, u>>] }
    IN  /\ Unread(c, u) \subseteq came
        /\ \A i \in came \ Unread(c, u) : messages[i].at = member[<<c, u>>].read
=============================================================================
