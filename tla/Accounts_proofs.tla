--------------------------- MODULE Accounts_proofs ---------------------------
(***************************************************************************)
(* Theorems about the accounts of a workspace and about mailing their       *)
(* owners, for every value of the constants.  The argument behind all of    *)
(* them: until another write overtakes a request, what it read when it      *)
(* began still holds; and until the accounts change, what the page shows.   *)
(***************************************************************************)
EXTENDS Accounts, Broadcast, FiniteSetTheorems, TLAPS

FlowType == [at : Stages, email : Emails \cup {None}, user : 0..MaxUsers]

(* What TypeOK says of one request in flight *)
FlowOK(r, table) ==
  /\ r.email = None <=> r.at \in {"idle", "remove"}
  /\ IF r.at = "remove" THEN r.user \in DOMAIN table ELSE r.user = 0

(* What it says of the users *)
UsersOK == users \in Seq(UserType) /\ Len(users) <= MaxUsers /\ OneEach

FlowsOK ==
  /\ flow \in [Flows -> FlowType]
  /\ \A f \in Flows : FlowOK(flow[f], users)
  /\ overtaken \subseteq Flows
  /\ \A f \in overtaken : flow[f] # Idle

RestOK ==
  /\ registration \in [Emails -> {"NONE", "PENDING", "APPROVED", "REJECTED"}]
  /\ booked \subseteq DOMAIN users
  /\ limit \in Limits
  /\ had \subseteq Emails

TypeInv == UsersOK /\ FlowsOK /\ RestOK

(* A request in flight that no write overtook sees what it read. *)
Sees(f) ==
  LET email == flow[f].email
      at(stages) == flow[f].at \in stages
  IN  /\ at({"approveCheck", "approveCreate", "approveMark", "reject"}) =>
           registration[email] = "PENDING"
      /\ at({"park", "queue", "reopen"}) => ~HasAccount(email)
      /\ at({"queue"}) => registration[email] = "NONE"
      /\ at({"reopen"}) => registration[email] = "APPROVED"
      /\ at({"create", "approveCreate"}) => UnderLimit
      /\ at({"remove"}) => flow[f].user \notin booked

FreshInv == \A f \in Flows \ overtaken : Sees(f)

(* An approval marks the registration of an account it made. *)
MarkInv ==
  /\ \A f \in Flows : flow[f].at = "approveMark" => flow[f].email \in had
  /\ \A email \in Emails : registration[email] = "APPROVED" => email \in had

-----------------------------------------------------------------------------
(* Requests in flight *)

LEMMA IdleRecord ==
  /\ Idle \in FlowType
  /\ \A table : FlowOK(Idle, table)
  /\ \A table : \A r \in FlowType : FlowOK(r, table) /\ r.at = "idle" => r = Idle
BY AccountsAssumption DEF Idle, FlowType, FlowOK, Stages

(* Only f moves. *)
Alone(f) == \A g \in Flows \ {f} : flow'[g] = flow[g]

LEMMA GotoFlow ==
  ASSUME FlowsOK, NEW f \in Flows, NEW stage \in Stages \ {"idle", "remove"},
         flow[f].at \notin {"idle", "remove"}, Goto(f, stage)
  PROVE  /\ flow' \in [Flows -> FlowType]
         /\ flow'[f].at = stage /\ flow'[f].email = flow[f].email
         /\ flow'[f].user = 0 /\ flow'[f].email \in Emails
         /\ Alone(f)
<1> DEFINE r == [flow[f] EXCEPT !.at = stage]
<1>1. flow[f] \in FlowType /\ FlowOK(flow[f], users)
  BY DEF FlowsOK
<1>2. r \in FlowType /\ r.at = stage /\ r.email = flow[f].email /\ r.user = flow[f].user
  BY <1>1 DEF FlowType
<1>3. flow[f].user = 0 /\ flow[f].email \in Emails
  BY <1>1 DEF FlowOK, FlowType
<1>4. flow' = [flow EXCEPT ![f] = r] /\ flow \in [Flows -> FlowType]
  BY DEF Goto, FlowsOK
<1> HIDE DEF r
<1> QED BY <1>2, <1>3, <1>4 DEF Alone

LEMMA FinishFlow ==
  ASSUME FlowsOK, NEW f \in Flows, Finish(f)
  PROVE  flow' \in [Flows -> FlowType] /\ flow'[f] = Idle /\ Alone(f)
BY IdleRecord DEF Finish, FlowsOK, Alone

LEMMA BeginFlow ==
  ASSUME FlowsOK, NEW f \in Flows, NEW stage \in Stages, NEW email \in Emails \cup {None},
         NEW u \in 0..MaxUsers, BeginOn(f, stage, email, u)
  PROVE  /\ flow' \in [Flows -> FlowType]
         /\ flow'[f] = [at |-> stage, email |-> email, user |-> u]
         /\ flow[f] = Idle
         /\ Alone(f)
         /\ UNCHANGED <<users, registration, booked, limit, had, overtaken>>
<1> DEFINE r == [at |-> stage, email |-> email, user |-> u]
<1>1. r \in FlowType
  BY DEF FlowType
<1>2. flow' = [flow EXCEPT ![f] = r] /\ flow \in [Flows -> FlowType]
  BY DEF BeginOn, FlowsOK
<1> HIDE DEF r
<1>3. flow' \in [Flows -> FlowType] /\ flow'[f] = r /\ Alone(f)
  BY <1>1, <1>2 DEF Alone
<1> QED BY <1>3 DEF BeginOn, r

LEMMA OvertakeAll ==
  ASSUME NEW fs \in SUBSET Flows, overtaken \subseteq Flows, Overtake(fs)
  PROVE  /\ overtaken' \subseteq Flows
         /\ \A g \in overtaken' : flow'[g] # Idle
         /\ \A g \in Flows : g \notin overtaken' /\ g \notin fs => flow'[g] = Idle
         /\ \A g \in fs : g \in overtaken /\ flow'[g] # Idle => g \in overtaken'
BY DEF Overtake

(* The table only grows. *)
LEMMA FlowOKGrows ==
  ASSUME NEW r, NEW s, NEW t, DOMAIN s \subseteq DOMAIN t, FlowOK(r, s)
  PROVE  FlowOK(r, t)
BY DEF FlowOK

-----------------------------------------------------------------------------
(* The table of users *)

LEMMA NewAccountRow ==
  ASSUME UsersOK, NEW email \in Emails, NewAccount(email)
  PROVE  /\ UsersOK'
         /\ DOMAIN users \subseteq DOMAIN users'
         /\ had' = had \cup {email}
<1> DEFINE row == [email |-> email, present |-> TRUE, active |-> TRUE]
<1>1. /\ users' = Append(users, row) /\ Len(users) < MaxUsers
      /\ ~HasAccount(email) /\ had' = had \cup {email}
  BY DEF NewAccount
<1>2. row \in UserType /\ row.email = email
  BY DEF UserType
<1> HIDE DEF row
<1>3. users \in Seq(UserType) /\ MaxUsers \in Nat
  BY AccountsAssumption DEF UsersOK
<1>4. /\ users' \in Seq(UserType) /\ Len(users') = Len(users) + 1 /\ Len(users') <= MaxUsers
      /\ \A u \in 1..Len(users) : users'[u] = users[u]
      /\ users'[Len(users) + 1] = row
  BY <1>1, <1>2, <1>3
<1>5. ASSUME NEW u \in DOMAIN users', NEW v \in DOMAIN users',
             users'[u].present, users'[v].present, users'[u].email = users'[v].email
      PROVE  u = v
  <2>1. \A w \in DOMAIN users : users[w].present => users[w].email # email
    BY <1>1 DEF HasAccount, Present
  <2>2. \A w \in DOMAIN users' : w \in DOMAIN users \/ w = Len(users) + 1
    BY <1>3, <1>4
  <2>3. \A w \in DOMAIN users : users'[w] = users[w]
    BY <1>3, <1>4
  <2>4. CASE u \in DOMAIN users /\ v \in DOMAIN users
    BY <1>5, <2>3, <2>4 DEF UsersOK, OneEach
  <2>5. CASE u \notin DOMAIN users \/ v \notin DOMAIN users
    BY <1>2, <1>4, <1>5, <2>1, <2>2, <2>3, <2>5
  <2> QED BY <2>4, <2>5
<1>6. DOMAIN users \subseteq DOMAIN users'
  BY <1>3, <1>4
<1> QED BY <1>1, <1>4, <1>5, <1>6 DEF UsersOK, OneEach

(* What SetActive and RemoveWrite do to the row of an account *)
LEMMA ChangedRow ==
  ASSUME UsersOK, NEW u \in DOMAIN users, users[u].present,
         NEW row \in UserType, row.email = users[u].email,
         users' = [users EXCEPT ![u] = row]
  PROVE  /\ UsersOK'
         /\ DOMAIN users' = DOMAIN users
         /\ users'[u] = row
         /\ \A v \in DOMAIN users \ {u} : users'[v] = users[v]
<1>1. users \in Seq(UserType)
  BY DEF UsersOK
<1>2. /\ users' \in Seq(UserType) /\ Len(users') = Len(users)
      /\ DOMAIN users' = DOMAIN users
      /\ users'[u] = row /\ \A v \in DOMAIN users \ {u} : users'[v] = users[v]
  BY <1>1
<1>3. \A v \in DOMAIN users : /\ users'[v].email = users[v].email
                              /\ users'[v].present => users[v].present
  BY <1>2
<1>4. OneEach'
  BY <1>2, <1>3 DEF UsersOK, OneEach
<1> QED BY <1>2, <1>4 DEF UsersOK

LEMMA ActiveRow ==
  ASSUME UsersOK, NEW u \in DOMAIN users, NEW active \in BOOLEAN, SetActive(u, active)
  PROVE  /\ UsersOK'
         /\ DOMAIN users' = DOMAIN users
         /\ \A v \in DOMAIN users : users'[v].present = users[v].present
<1> DEFINE row == [users[u] EXCEPT !.active = active]
<1>1. users[u] \in UserType
  BY DEF UsersOK
<1>2. row \in UserType /\ row.email = users[u].email /\ row.present = users[u].present
  BY <1>1 DEF UserType
<1>3. users' = [users EXCEPT ![u] = row] /\ users[u].present
  BY DEF SetActive, Present
<1> HIDE DEF row
<1> QED BY <1>2, <1>3, ChangedRow

LEMMA RemovedRow ==
  ASSUME UsersOK, NEW f \in Flows, flow[f].user \in DOMAIN users, RemoveWrite(f)
  PROVE  /\ UsersOK'
         /\ DOMAIN users' = DOMAIN users
         /\ \A v \in DOMAIN users \ {flow[f].user} : users'[v] = users[v]
<1> DEFINE u == flow[f].user
           row == [users[u] EXCEPT !.present = FALSE, !.active = FALSE]
<1>1. users[u] \in UserType
  BY DEF UsersOK
<1>2. row \in UserType /\ row.email = users[u].email
  BY <1>1 DEF UserType
<1>3. users' = [users EXCEPT ![u] = row] /\ users[u].present
  BY DEF RemoveWrite, Present
<1> HIDE DEF row
<1> QED BY <1>2, <1>3, ChangedRow

-----------------------------------------------------------------------------
(* Kinds of steps *)

(* A step that only one request notices: it reads, and moves on. *)
Reads(f) ==
  /\ UNCHANGED <<users, registration, booked, limit, had, overtaken>>
  /\ flow' \in [Flows -> FlowType]
  /\ flow'[f] # Idle /\ FlowOK(flow'[f], users)
  /\ Alone(f)

(* A write by the requests fs (one, or none when it is a single write) *)
Writes(fs) ==
  /\ flow' \in [Flows -> FlowType]
  /\ \A g \in fs : FlowOK(flow'[g], users')
  /\ \A g \in Flows \ fs : flow'[g] = flow[g]
  /\ DOMAIN users \subseteq DOMAIN users'
  /\ Overtake(fs)

LEMMA ReadsTypes ==
  ASSUME TypeInv, NEW f \in Flows, Reads(f)
  PROVE  TypeInv'
<1>1. FlowsOK'
  BY DEF Reads, TypeInv, FlowsOK, Alone
<1> QED BY <1>1 DEF Reads, TypeInv, UsersOK, RestOK, OneEach

LEMMA WritesTypes ==
  ASSUME TypeInv, NEW fs \in SUBSET Flows, Writes(fs)
  PROVE  FlowsOK'
<1>1. overtaken' \subseteq Flows /\ \A g \in overtaken' : flow'[g] # Idle
  BY OvertakeAll DEF Writes, TypeInv, FlowsOK
<1>2. \A g \in Flows : FlowOK(flow'[g], users')
  BY FlowOKGrows DEF Writes, TypeInv, FlowsOK
<1> QED BY <1>1, <1>2 DEF Writes, FlowsOK

Inv == TypeInv /\ FreshInv /\ MarkInv

LEMMA IdleSees ==
  ASSUME NEW f, flow[f] = Idle
  PROVE  Sees(f)
BY DEF Sees, Idle

LEMMA IdleSeesNext ==
  ASSUME NEW f, flow'[f] = Idle
  PROVE  Sees(f)' /\ flow'[f].at = "idle"
BY DEF Sees, Idle

LEMMA AfterRead ==
  ASSUME Inv, NEW f \in Flows, Reads(f), flow'[f].at # "approveMark",
         f \notin overtaken => Sees(f)'
  PROVE  Inv'
<1>1. TypeInv'
  BY ReadsTypes DEF Inv
<1>2. ASSUME NEW g \in Flows \ {f}, Sees(g)
      PROVE  Sees(g)'
  BY <1>2 DEF Reads, Alone, Sees, HasAccount, Present, UnderLimit, ActiveUsers
<1>3. overtaken' = overtaken
  BY DEF Reads
<1>4. FreshInv'
  BY <1>2, <1>3 DEF Inv, FreshInv
<1>5. MarkInv'
  BY DEF Inv, MarkInv, Reads, Alone
<1> QED BY <1>1, <1>4, <1>5 DEF Inv

LEMMA AfterWrite ==
  ASSUME Inv, NEW fs \in SUBSET Flows, Writes(fs), UsersOK', RestOK',
         had \subseteq had',
         \A email \in Emails : registration'[email] = "APPROVED" => email \in had',
         \A g \in fs : /\ g \notin overtaken' => Sees(g)'
                       /\ flow'[g].at = "approveMark" => flow'[g].email \in had'
  PROVE  Inv'
<1>1. TypeInv'
  BY WritesTypes DEF Inv, TypeInv
<1>2. \A g \in Flows : g \notin overtaken' /\ g \notin fs => Sees(g)'
  BY OvertakeAll, IdleSeesNext DEF Inv, TypeInv, FlowsOK, Writes
<1>3. FreshInv'
  BY <1>2 DEF FreshInv
<1>4. MarkInv'
  BY DEF Inv, MarkInv, Writes
<1> QED BY <1>1, <1>3, <1>4 DEF Inv

(* The first step of a request *)
LEMMA BeginReads ==
  ASSUME TypeInv, NEW f \in Flows, NEW stage \in Stages, NEW email \in Emails \cup {None},
         NEW u \in 0..MaxUsers, BeginOn(f, stage, email, u),
         stage # "idle", FlowOK([at |-> stage, email |-> email, user |-> u], users)
  PROVE  /\ Reads(f)
         /\ flow'[f] = [at |-> stage, email |-> email, user |-> u]
         /\ f \notin overtaken
<1>1. FlowsOK
  BY DEF TypeInv
<1> QED BY <1>1, BeginFlow DEF Reads, FlowsOK, Idle

LEMMA BeginSteps ==
  ASSUME Inv, NEW f \in Flows, NEW email \in Emails,
         \/ CreateBegin(f, email) \/ ProvisionBegin(f, email) \/ ParkBegin(f, email)
         \/ \E stage \in {"approveCheck", "reject"} : DecisionBegin(f, email, stage)
  PROVE  Inv'
<1>1. PICK stage \in {"create", "provision", "park", "approveCheck", "reject"} :
        /\ BeginOn(f, stage, email, 0)
        /\ stage = "create" => UnderLimit
        /\ stage = "park" => ~HasAccount(email)
        /\ stage \in {"approveCheck", "reject"} => registration[email] = "PENDING"
  BY DEF CreateBegin, ProvisionBegin, ParkBegin, DecisionBegin, Begin
<1>2. /\ FlowOK([at |-> stage, email |-> email, user |-> 0], users)
      /\ stage \in Stages /\ stage # "idle" /\ 0 \in 0..MaxUsers
  BY AccountsAssumption DEF FlowOK, Stages
<1>3. /\ Reads(f) /\ f \notin overtaken
      /\ flow'[f] = [at |-> stage, email |-> email, user |-> 0]
  BY <1>1, <1>2, BeginReads DEF Inv
<1>4. Sees(f)'
  BY <1>1, <1>3 DEF Sees, Reads, HasAccount, Present, UnderLimit, ActiveUsers
<1> QED BY <1>3, <1>4, AfterRead

LEMMA RemoveBegins ==
  ASSUME Inv, NEW f \in Flows, NEW u \in DOMAIN users, RemoveBegin(f, u)
  PROVE  Inv'
<1>1. BeginOn(f, "remove", None, u) /\ u \notin booked
  BY DEF RemoveBegin
<1>2. u \in 0..MaxUsers
  BY AccountsAssumption DEF Inv, TypeInv, UsersOK
<1>3. FlowOK([at |-> "remove", email |-> None, user |-> u], users) /\ "remove" \in Stages
  BY DEF FlowOK, Stages
<1>4. /\ Reads(f)
      /\ flow'[f] = [at |-> "remove", email |-> None, user |-> u]
  BY <1>1, <1>2, <1>3, BeginReads DEF Inv
<1>5. Sees(f)'
  BY <1>1, <1>4 DEF Sees, Reads
<1> QED BY <1>4, <1>5, AfterRead

(* The later reads of a request *)
LEMMA GotoReads ==
  ASSUME TypeInv, NEW f \in Flows, NEW stage \in Stages \ {"idle", "remove"},
         flow[f].at \notin {"idle", "remove"}, Goto(f, stage),
         UNCHANGED <<users, registration, booked, limit, had, overtaken>>
  PROVE  /\ Reads(f)
         /\ flow'[f].at = stage /\ flow'[f].email = flow[f].email
<1>1. FlowsOK
  BY DEF TypeInv
<1>2. /\ flow' \in [Flows -> FlowType]
      /\ flow'[f].at = stage /\ flow'[f].email = flow[f].email
      /\ flow'[f].user = 0 /\ flow'[f].email \in Emails
      /\ Alone(f)
  BY <1>1, GotoFlow
<1>3. flow'[f] # Idle /\ FlowOK(flow'[f], users)
  BY <1>2, AccountsAssumption DEF Idle, FlowOK
<1> QED BY <1>2, <1>3 DEF Reads

LEMMA LookupSteps ==
  ASSUME Inv, NEW f \in Flows, ParkLookup(f) \/ ApproveCheck(f)
  PROVE  Inv'
<1> DEFINE email == flow[f].email
<1>0. registration[email] \in {"NONE", "PENDING", "APPROVED", "REJECTED"} \/ email = None
  BY DEF Inv, TypeInv, FlowsOK, RestOK, FlowType
<1>1. CASE ParkLookup(f)
  <2>1. PICK stage \in {"queue", "reopen"} :
          /\ Goto(f, stage)
          /\ stage = "queue" => registration[email] = "NONE"
          /\ stage = "reopen" => registration[email] = "APPROVED"
    BY <1>1 DEF ParkLookup, Requeueable
  <2>2. Reads(f) /\ flow'[f].at = stage /\ flow'[f].email = email
    BY <1>1, <2>1, GotoReads DEF ParkLookup, Stages, Inv
  <2>3. f \notin overtaken => Sees(f)'
    BY <1>1, <2>1, <2>2
       DEF ParkLookup, Inv, FreshInv, Sees, Reads, HasAccount, Present, UnderLimit, ActiveUsers
  <2> QED BY <2>1, <2>2, <2>3, AfterRead
<1>2. CASE ApproveCheck(f)
  <2>1. Reads(f) /\ flow'[f].at = "approveCreate" /\ flow'[f].email = email
    BY <1>2, GotoReads DEF ApproveCheck, Stages, Inv
  <2>2. f \notin overtaken => Sees(f)'
    BY <1>2, <2>1
       DEF ApproveCheck, Inv, FreshInv, Sees, Reads, HasAccount, Present, UnderLimit, ActiveUsers
  <2> QED BY <2>1, <2>2, AfterRead
<1> QED BY <1>1, <1>2

(* A request that ends with its write *)
LEMMA LastWrite ==
  ASSUME TypeInv, NEW f \in Flows, Finish(f), Overtake({f}),
         DOMAIN users \subseteq DOMAIN users'
  PROVE  Writes({f}) /\ flow'[f] = Idle
BY FinishFlow, IdleRecord DEF Writes, TypeInv, Alone

(* What is asked of the request itself, when it has ended *)
LEMMA EndedSees ==
  ASSUME NEW f, flow'[f] = Idle
  PROVE  \A g \in {f} : /\ g \notin overtaken' => Sees(g)'
                        /\ flow'[g].at = "approveMark" => flow'[g].email \in had'
BY IdleSeesNext

LEMMA InsertStep ==
  ASSUME Inv, NEW f \in Flows, Insert(f)
  PROVE  Inv'
<1>1. flow[f].email \in Emails
  BY DEF Insert, Inv, TypeInv, FlowsOK, FlowOK, FlowType
<1>2. UsersOK' /\ DOMAIN users \subseteq DOMAIN users' /\ had' = had \cup {flow[f].email}
  BY <1>1, NewAccountRow DEF Insert, Inv, TypeInv
<1>3. Writes({f}) /\ flow'[f] = Idle
  BY <1>2, LastWrite DEF Insert, Inv
<1>4. RestOK' /\ UNCHANGED registration
  BY <1>1, <1>2 DEF Insert, Inv, TypeInv, RestOK
<1>5. \A email \in Emails : registration'[email] = "APPROVED" => email \in had'
  BY <1>2, <1>4 DEF Inv, MarkInv
<1> QED BY <1>2, <1>3, <1>4, <1>5, AfterWrite, EndedSees

(* The three writes to a registration *)
LEMMA RegistrationStep ==
  ASSUME Inv, NEW f \in Flows, ParkWrite(f) \/ ApproveMark(f) \/ RejectWrite(f)
  PROVE  Inv'
<1> DEFINE email == flow[f].email
<1>1. PICK status \in {"PENDING", "APPROVED", "REJECTED"} :
        /\ registration' = [registration EXCEPT ![email] = status]
        /\ status = "APPROVED" => flow[f].at = "approveMark"
  BY DEF ParkWrite, ApproveMark, RejectWrite
<1>2. /\ Finish(f) /\ Overtake({f})
      /\ users' = users /\ booked' = booked /\ limit' = limit /\ had' = had
      /\ flow[f].at \notin {"idle", "remove"}
  BY DEF ParkWrite, ApproveMark, RejectWrite
<1>3. email \in Emails
  BY <1>2 DEF Inv, TypeInv, FlowsOK, FlowOK, FlowType
<1>4. Writes({f}) /\ flow'[f] = Idle
  BY <1>2, LastWrite DEF Inv
<1>5. UsersOK'
  BY <1>2 DEF Inv, TypeInv, UsersOK, OneEach
<1>6. RestOK'
  BY <1>1, <1>2, <1>3 DEF Inv, TypeInv, RestOK
<1>7. \A e \in Emails : registration'[e] = "APPROVED" => e \in had'
  BY <1>1, <1>2, <1>3 DEF Inv, MarkInv, TypeInv, RestOK
<1> QED BY <1>2, <1>4, <1>5, <1>6, <1>7, AfterWrite, EndedSees

LEMMA ApproveCreateStep ==
  ASSUME Inv, NEW f \in Flows, ApproveCreate(f)
  PROVE  Inv'
<1> DEFINE email == flow[f].email
<1>1. email \in Emails
  BY DEF ApproveCreate, Inv, TypeInv, FlowsOK, FlowOK, FlowType
<1>2. UsersOK' /\ DOMAIN users \subseteq DOMAIN users' /\ had' = had \cup {email}
  BY <1>1, NewAccountRow DEF ApproveCreate, Inv, TypeInv
<1>3. /\ flow' \in [Flows -> FlowType] /\ Alone(f)
      /\ flow'[f].at = "approveMark" /\ flow'[f].email = email /\ flow'[f].user = 0
  BY GotoFlow DEF ApproveCreate, Inv, TypeInv, Stages
<1>4. FlowOK(flow'[f], users')
  BY <1>1, <1>3, AccountsAssumption DEF FlowOK
<1>5. Writes({f})
  BY <1>2, <1>3, <1>4 DEF ApproveCreate, Writes, Alone
<1>6. RestOK' /\ UNCHANGED registration
  BY <1>1, <1>2 DEF ApproveCreate, Inv, TypeInv, RestOK
<1>7. \A e \in Emails : registration'[e] = "APPROVED" => e \in had'
  BY <1>2, <1>6 DEF Inv, MarkInv
<1>8. f \notin overtaken' => Sees(f)'
  <2>1. SUFFICES ASSUME f \notin overtaken' PROVE Sees(f)'
    OBVIOUS
  <2>2. f \notin overtaken
    BY <1>3, <2>1 DEF ApproveCreate, Overtake, Idle
  <2>3. registration[email] = "PENDING"
    BY <2>2 DEF ApproveCreate, Inv, FreshInv, Sees
  <2> QED BY <1>3, <1>6, <2>3 DEF Sees
<1> QED BY <1>2, <1>3, <1>5, <1>6, <1>7, <1>8, AfterWrite

LEMMA RemoveStep ==
  ASSUME Inv, NEW f \in Flows, RemoveWrite(f)
  PROVE  Inv'
<1>1. flow[f].user \in DOMAIN users
  BY DEF RemoveWrite, Inv, TypeInv, FlowsOK, FlowOK
<1>2. UsersOK' /\ DOMAIN users' = DOMAIN users
  BY <1>1, RemovedRow DEF Inv, TypeInv
<1>3. Writes({f}) /\ flow'[f] = Idle
  BY <1>2, LastWrite DEF RemoveWrite, Inv
<1>4. RestOK' /\ UNCHANGED <<registration, had>>
  BY <1>2 DEF RemoveWrite, Inv, TypeInv, RestOK
<1>5. \A email \in Emails : registration'[email] = "APPROVED" => email \in had'
  BY <1>4 DEF Inv, MarkInv
<1> QED BY <1>2, <1>3, <1>4, <1>5, AfterWrite, EndedSees

(* A write in one step, of no request in flight *)
LEMMA SingleWrite ==
  ASSUME Inv, UNCHANGED <<flow, registration, had>>, Overtake({}),
         UsersOK', DOMAIN users' = DOMAIN users, booked' \subseteq DOMAIN users,
         limit' \in Limits
  PROVE  Inv'
<1>1. Writes({})
  BY DEF Writes, Inv, TypeInv, FlowsOK
<1>2. RestOK'
  BY DEF Inv, TypeInv, RestOK
<1>3. \A email \in Emails : registration'[email] = "APPROVED" => email \in had'
  BY DEF Inv, MarkInv
<1> QED BY <1>1, <1>2, <1>3, AfterWrite

LEMMA SingleSteps ==
  ASSUME Inv,
         \/ \E u \in DOMAIN users : Book(u) \/ \E active \in BOOLEAN : SetActive(u, active)
         \/ \E max \in Limits : SetPlan(max)
  PROVE  Inv'
<1>0. UsersOK /\ booked \subseteq DOMAIN users /\ limit \in Limits
  BY DEF Inv, TypeInv, RestOK
<1>1. ASSUME NEW u \in DOMAIN users, Book(u) PROVE Inv'
  <2>1. UsersOK' /\ DOMAIN users' = DOMAIN users
    BY <1>0, <1>1 DEF Book, UsersOK, OneEach
  <2> QED BY <1>0, <1>1, <2>1, SingleWrite DEF Book
<1>2. ASSUME NEW u \in DOMAIN users, NEW active \in BOOLEAN, SetActive(u, active)
      PROVE  Inv'
  <2>1. UsersOK' /\ DOMAIN users' = DOMAIN users
    BY <1>0, <1>2, ActiveRow
  <2> QED BY <1>0, <1>2, <2>1, SingleWrite DEF SetActive
<1>3. ASSUME NEW max \in Limits, SetPlan(max) PROVE Inv'
  <2>1. UsersOK' /\ DOMAIN users' = DOMAIN users
    BY <1>0, <1>3 DEF SetPlan, UsersOK, OneEach
  <2> QED BY <1>0, <1>3, <2>1, SingleWrite DEF SetPlan
<1> QED BY <1>1, <1>2, <1>3

LEMMA AbandonStep ==
  ASSUME Inv, NEW f \in Flows, Abandon(f)
  PROVE  Inv'
<1>1. /\ flow' \in [Flows -> FlowType] /\ flow'[f] = Idle /\ Alone(f)
      /\ overtaken' = overtaken \ {f}
      /\ UNCHANGED <<users, registration, booked, limit, had>>
  BY FinishFlow DEF Abandon, Inv, TypeInv
<1>2. FlowsOK'
  BY <1>1, IdleRecord DEF Inv, TypeInv, FlowsOK, Alone
<1>3. TypeInv'
  BY <1>1, <1>2 DEF Inv, TypeInv, UsersOK, OneEach, RestOK
<1>4. ASSUME NEW g \in Flows \ {f}, Sees(g)
      PROVE  Sees(g)'
  BY <1>1, <1>4 DEF Alone, Sees, HasAccount, Present, UnderLimit, ActiveUsers
<1>5. FreshInv'
  BY <1>1, <1>4, IdleSeesNext DEF Inv, FreshInv
<1>6. MarkInv'
  BY <1>1, IdleSeesNext DEF Inv, MarkInv, Alone
<1> QED BY <1>3, <1>5, <1>6 DEF Inv

LEMMA InitInv == Init => Inv
<1> SUFFICES ASSUME Init PROVE Inv
  OBVIOUS
<1>1. users \in Seq(UserType) /\ Len(users) = 0 /\ DOMAIN users = {}
  BY DEF Init
<1>2. UsersOK
  BY <1>1, AccountsAssumption DEF UsersOK, OneEach
<1>3. FlowsOK /\ \A f \in Flows : flow[f] = Idle
  BY IdleRecord DEF Init, FlowsOK
<1>4. RestOK
  BY <1>1, AccountsAssumption DEF Init, RestOK
<1>5. FreshInv
  BY <1>3, IdleSees DEF FreshInv
<1>6. MarkInv
  BY <1>3 DEF Init, MarkInv, Idle
<1> QED BY <1>2, <1>3, <1>4, <1>5, <1>6 DEF Inv, TypeInv

LEMMA StepInv ==
  ASSUME Inv, [Next]_vars
  PROVE  Inv'
<1>1. CASE UNCHANGED vars
  BY <1>1 DEF vars, Inv, TypeInv, UsersOK, OneEach, FlowsOK, RestOK, FreshInv, MarkInv,
              Sees, HasAccount, Present, UnderLimit, ActiveUsers
<1> QED BY <1>1, BeginSteps, RemoveBegins, LookupSteps, InsertStep, RegistrationStep,
           ApproveCreateStep, RemoveStep, SingleSteps, AbandonStep DEF Next

LEMMA AccountsInvariant == Spec => []Inv
BY InitInv, StepInv, PTL DEF Spec

-----------------------------------------------------------------------------
(* The theorems *)

(* The tables are well typed, and no address ever has two accounts.         *)
THEOREM AccountsTypeCorrect == Spec => []TypeOK
<1>1. Inv => TypeOK
  <2> SUFFICES ASSUME Inv PROVE TypeOK
    OBVIOUS
  <2>1. \A f \in overtaken : f \in Flows /\ flow[f].at # "idle"
    BY IdleRecord DEF Inv, TypeInv, FlowsOK
  <2>2. overtaken \subseteq { f \in Flows : flow[f].at # "idle" }
    BY <2>1
  <2> QED BY <2>2 DEF Inv, TypeInv, UsersOK, FlowsOK, RestOK, FlowOK, FlowType, TypeOK
<1> QED BY <1>1, AccountsInvariant, PTL

(* Whatever fails on the way, no registration is marked approved whose      *)
(* address never had an account.                                            *)
THEOREM ApprovalMakesAccount == Spec => []ApprovedHadAccount
<1>1. Inv => ApprovedHadAccount
  BY DEF Inv, MarkInv, ApprovedHadAccount
<1> QED BY <1>1, AccountsInvariant, PTL

-----------------------------------------------------------------------------
(* What a single step may do *)

(* Which steps write a registration: the three that are meant to. *)
LEMMA RegistrationWriters ==
  ASSUME Inv, [Next]_vars, NEW email \in Emails, registration'[email] # registration[email]
  PROVE  \E f \in Flows :
           /\ flow[f].email = email /\ flow'[f] # flow[f]
           /\ ParkWrite(f) \/ ApproveMark(f) \/ RejectWrite(f)
<1>0. registration \in [Emails -> {"NONE", "PENDING", "APPROVED", "REJECTED"}]
  BY DEF Inv, TypeInv, RestOK
<1>1. registration' # registration
  OBVIOUS
<1>2. PICK f \in Flows : ParkWrite(f) \/ ApproveMark(f) \/ RejectWrite(f)
  BY <1>1 DEF Next, vars, CreateBegin, ProvisionBegin, ParkBegin, DecisionBegin, Begin, BeginOn,
              Insert, ParkLookup, ApproveCheck, ApproveCreate, RemoveBegin, RemoveWrite, Abandon,
              Book, SetActive, SetPlan
<1>3. PICK status : registration' = [registration EXCEPT ![flow[f].email] = status]
  BY <1>2 DEF ParkWrite, ApproveMark, RejectWrite
<1>4. flow[f].email = email
  BY <1>0, <1>3
<1>5. flow[f].at # "idle" /\ Finish(f)
  BY <1>2 DEF ParkWrite, ApproveMark, RejectWrite
<1>6. flow'[f] = Idle
  BY <1>5, FinishFlow DEF Inv, TypeInv
<1> QED BY <1>2, <1>4, <1>5, <1>6 DEF Idle

(* A decision on a registration is undone only by a request another write   *)
(* overtook, or by an approved address that lost its account and asks again. *)
THEOREM DecisionsStand == Spec => DecisionStands
<1> DEFINE undone(email) == /\ registration[email] \in {"APPROVED", "REJECTED"}
                            /\ registration'[email] # registration[email]
           late(email) == \E f \in overtaken : flow[f].email = email /\ flow'[f] # flow[f]
           again(email) == /\ registration[email] = "APPROVED"
                           /\ registration'[email] = "PENDING"
                           /\ ~HasAccount(email)
<1>1. ASSUME Inv, [Next]_vars, NEW email \in Emails, undone(email)
      PROVE  late(email) \/ again(email)
  <2>1. PICK f \in Flows : /\ flow[f].email = email /\ flow'[f] # flow[f]
                           /\ ParkWrite(f) \/ ApproveMark(f) \/ RejectWrite(f)
    BY <1>1, RegistrationWriters
  <2>2. CASE f \in overtaken
    BY <2>1, <2>2
  <2>3. CASE f \notin overtaken
    <3>1. Sees(f)
      BY <1>1, <2>3 DEF Inv, FreshInv
    <3>2. ParkWrite(f)
      BY <1>1, <2>1, <3>1 DEF ApproveMark, RejectWrite, Sees
    <3>3. flow[f].at = "reopen" /\ ~HasAccount(email) /\ registration[email] = "APPROVED"
      BY <1>1, <2>1, <3>1, <3>2 DEF ParkWrite, Sees
    <3>4. registration'[email] = "PENDING"
      BY <1>1, <2>1, <3>2 DEF ParkWrite, Inv, TypeInv, RestOK
    <3> QED BY <3>3, <3>4
  <2> QED BY <2>2, <2>3
<1>2. Inv /\ [Next]_vars =>
        [ \A email \in Emails :
            registration[email] \in {"APPROVED", "REJECTED"}
              /\ registration'[email] # registration[email]
            => \/ \E f \in overtaken : flow[f].email = email /\ flow'[f] # flow[f]
               \/ /\ registration[email] = "APPROVED" /\ registration'[email] = "PENDING"
                  /\ ~HasAccount(email) ]_vars
  BY <1>1
<1> QED BY <1>2, AccountsInvariant, PTL DEF Spec, DecisionStands

(* An account is deleted with its bookings only by a removal some write     *)
(* overtook after the bookings were counted.                                *)
THEOREM HistoryStays == Spec => HistoryKept
<1> DEFINE lost(u) == Present(u) /\ ~Present(u)'
           late(u) == \E f \in overtaken : flow[f].user = u /\ flow'[f] # flow[f]
<1>1. ASSUME Inv, [Next]_vars, NEW u \in booked, lost(u)
      PROVE  late(u)
  <2>0. u \in DOMAIN users /\ UsersOK /\ FlowsOK
    BY <1>1 DEF Inv, TypeInv, RestOK
  <2>1. users'[u].present # users[u].present
    BY <1>1 DEF Present
  <2>2. users' # users
    BY <2>1
  <2>3. ASSUME NEW f \in Flows, flow[f].email \in Emails, NewAccount(flow[f].email)
        PROVE  FALSE
    <3> DEFINE row == [email |-> flow[f].email, present |-> TRUE, active |-> TRUE]
    <3>1. users' = Append(users, row)
      BY <2>3 DEF NewAccount
    <3> HIDE DEF row
    <3>2. users'[u] = users[u]
      BY <2>0, <3>1 DEF UsersOK
    <3> QED BY <2>1, <3>2
  <2>4. \A f \in Flows : ~Insert(f) /\ ~ApproveCreate(f)
    BY <2>0, <2>3 DEF Insert, ApproveCreate, FlowsOK, FlowOK, FlowType
  <2>5. \A v \in DOMAIN users, active \in BOOLEAN : ~SetActive(v, active)
    BY <2>0, <2>1, ActiveRow
  <2>6. PICK f \in Flows : RemoveWrite(f)
    BY <1>1, <2>2, <2>4, <2>5
       DEF Next, vars, CreateBegin, ProvisionBegin, ParkBegin, DecisionBegin, Begin, BeginOn,
           ParkLookup, ParkWrite, ApproveCheck, ApproveMark, RejectWrite, RemoveBegin, Abandon,
           Book, SetPlan
  <2>7. flow[f].user \in DOMAIN users
    BY <2>0, <2>6 DEF RemoveWrite, FlowsOK, FlowOK
  <2>8. flow[f].user = u
    BY <2>0, <2>1, <2>6, <2>7, RemovedRow
  <2>9. f \in overtaken
    BY <1>1, <2>6, <2>8 DEF RemoveWrite, Inv, FreshInv, Sees
  <2>10. flow'[f] # flow[f]
    <3>1. flow'[f] = Idle
      BY <2>0, <2>6, FinishFlow DEF RemoveWrite
    <3> QED BY <2>6, <3>1 DEF RemoveWrite, Idle
  <2> QED BY <2>8, <2>9, <2>10
<1>2. Inv /\ [Next]_vars => [ \A u \in booked : lost(u) => late(u) ]_vars
  BY <1>1
<1> QED BY <1>2, AccountsInvariant, PTL DEF Spec, HistoryKept

(* One account more is one active account more. *)
LEMMA OneMore ==
  ASSUME UsersOK, limit \in Nat, NEW email \in Emails, NewAccount(email), UnderLimit
  PROVE  Cardinality(ActiveUsers(users')) <= limit
<1> DEFINE row == [email |-> email, present |-> TRUE, active |-> TRUE]
           old == ActiveUsers(users)
           n == Len(users) + 1
<1>1. users \in Seq(UserType) /\ users' = Append(users, row)
  BY DEF UsersOK, NewAccount
<1>2. /\ DOMAIN users' = DOMAIN users \cup {n}
      /\ \A u \in DOMAIN users : users'[u] = users[u]
      /\ users'[n] = row /\ n \notin DOMAIN users
  BY <1>1
<1>3. ActiveUsers(users') = old \cup {n} /\ n \notin old
  BY <1>2 DEF ActiveUsers
<1>4. IsFiniteSet(old)
  <2>1. DOMAIN users = 1..Len(users) /\ Len(users) \in Nat
    BY <1>1
  <2>2. IsFiniteSet(1..Len(users))
    BY <2>1, FS_Interval
  <2>3. old \subseteq 1..Len(users)
    BY <2>1 DEF ActiveUsers
  <2> QED BY <2>2, <2>3, FS_Subset
<1>5. Cardinality(old) \in Nat /\ Cardinality(old \cup {n}) = Cardinality(old) + 1
  BY <1>3, <1>4, FS_CardinalityType, FS_AddElement
<1>6. Cardinality(old) < limit
  BY DEF UnderLimit
<1> QED BY <1>3, <1>5, <1>6

(* An account created, imported or approved is within the plan, unless      *)
(* another write overtook its request after the count.                      *)
THEOREM PlanHolds == Spec => WithinPlan
<1> DEFINE made(f) == /\ flow[f].at \in {"create", "approveCreate"}
                      /\ flow'[f] # flow[f]
                      /\ Len(users') > Len(users)
<1>1. ASSUME Inv, [Next]_vars, NEW f \in Flows \ overtaken, made(f)
      PROVE  Cardinality(ActiveUsers(users')) <= limit
  <2>0. UsersOK /\ FlowsOK /\ limit \in Nat
    BY <1>1, AccountsAssumption DEF Inv, TypeInv, RestOK
  <2>1. Len(users) \in Nat /\ users' # users
    BY <1>1, <2>0 DEF UsersOK
  <2>2. \A v \in DOMAIN users, active \in BOOLEAN : ~SetActive(v, active)
    BY <1>1 DEF SetActive
  <2>3. \A g \in Flows : ~RemoveWrite(g)
    BY <1>1, <2>0 DEF RemoveWrite, UsersOK
  <2>4. PICK g \in Flows : Insert(g) \/ ApproveCreate(g)
    BY <1>1, <2>1, <2>2, <2>3
       DEF Next, vars, CreateBegin, ProvisionBegin, ParkBegin, DecisionBegin, Begin, BeginOn,
           ParkLookup, ParkWrite, ApproveCheck, ApproveMark, RejectWrite, RemoveBegin, Abandon,
           Book, SetPlan
  <2>5. g = f
    BY <1>1, <2>0, <2>4 DEF Insert, ApproveCreate, Finish, Goto, FlowsOK
  <2>6. NewAccount(flow[f].email)
    BY <2>4, <2>5 DEF Insert, ApproveCreate
  <2>7. flow[f].email \in Emails
    BY <1>1, <2>0 DEF FlowsOK, FlowOK, FlowType
  <2>8. UnderLimit
    BY <1>1 DEF Inv, FreshInv, Sees
  <2> QED BY <2>0, <2>6, <2>7, <2>8, OneMore
<1>2. Inv /\ [Next]_vars =>
        [ \A f \in Flows \ overtaken :
            made(f) => Cardinality(ActiveUsers(users')) <= limit ]_vars
  BY <1>1
<1> QED BY <1>2, AccountsInvariant, PTL DEF Spec, WithinPlan

-----------------------------------------------------------------------------
(* Broadcasts: what the list, the ticks and a send under way still say of   *)
(* the accounts.                                                            *)

Modes == {"ACTIVATION", "ANNOUNCEMENT"}

PeopleOK == people \in [People -> AccountStates] /\ turns \in 0..MaxTurns

(* A list that is not old has the rows it should have.                      *)
ListOK ==
  /\ list \in ListType \cup {Nothing}
  /\ list # Nothing =>
       /\ list.at <= turns
       /\ list.at = turns => list.rows = WhereFor(list.filter)

AskOK == reads \in Seq(FilterType) /\ listErr \in BOOLEAN /\ breaks \in 0..MaxBreaks

(* Neither old nor astray, a tick is on someone who may be written to.      *)
Eligible == IF mode = "ACTIVATION" THEN "false" ELSE "any"

ChoiceOK ==
  /\ mode \in Modes /\ filter \in FilterType
  /\ mode = "ACTIVATION" => filter.hasPassword = "false"
  /\ allMatching \in BOOLEAN /\ confirming \in BOOLEAN
  /\ allMatching => list # Nothing
  /\ selected \subseteq TickType
  /\ \A t, u \in selected : t.who = u.who => t = u
  /\ \A t \in selected :
       /\ t.at <= turns
       /\ t.at = turns /\ ~t.astray => Fits(t.who, Eligible)

(* What was promised before the targets are found is so: of all who match   *)
(* as many do, and the ticked may all be written to.                        *)
AskedFor == [sending.filter EXCEPT !.hasPassword = Forced(@)]

PromiseOK ==
  Awaited /\ sending.promised # Nothing =>
    IF sending.all THEN sending.promised = Cardinality(WhereFor(AskedFor))
    ELSE /\ sending.promised = Cardinality(sending.userIds)
         /\ \A p \in sending.userIds : Fits(p, Forced("any"))

SendOK ==
  /\ sending \in SendType \cup {NoSend} /\ since \subseteq People
  /\ PromiseOK /\ SentAsConfirmed /\ OnlyTheNotActivated

PageInv == PeopleOK /\ ListOK /\ AskOK /\ ChoiceOK /\ SendOK

LEMMA PageGives == PageInv => BroadcastInv
BY DEF PageInv, PeopleOK, ListOK, AskOK, ChoiceOK, SendOK, Modes, BroadcastInv, BroadcastTypeOK

(* What each part is about.                                                 *)
LEMMA PeopleFrame ==
  ASSUME PeopleOK, UNCHANGED <<people, turns>> PROVE PeopleOK'
BY DEF PeopleOK

LEMMA ListFrame ==
  ASSUME ListOK, UNCHANGED <<people, turns, list>> PROVE ListOK'
BY DEF ListOK, WhereFor, Fits, NotActivated

LEMMA AskFrame ==
  ASSUME AskOK, UNCHANGED <<reads, listErr, breaks>> PROVE AskOK'
BY DEF AskOK

LEMMA ChoiceFrame ==
  ASSUME ChoiceOK,
         UNCHANGED <<people, turns, mode, filter, list, selected, allMatching, confirming>>
  PROVE  ChoiceOK'
BY DEF ChoiceOK, Fits, NotActivated, Eligible

LEMMA SendFrame ==
  ASSUME SendOK, UNCHANGED <<people, sending, since>> PROVE SendOK'
BY DEF SendOK, PromiseOK, Awaited, AskedFor, Forced, WhereFor, Fits, NotActivated,
       SentAsConfirmed, OnlyTheNotActivated, Mailing

(* Helpers                                                                  *)
LEMMA FiniteWhere ==
  ASSUME NEW f \in FilterType
  PROVE  /\ WhereFor(f) \subseteq People /\ IsFiniteSet(WhereFor(f))
         /\ Cardinality(WhereFor(f)) \in Nat
<1>1. WhereFor(f) \subseteq People
  BY BroadcastAssumption DEF WhereFor, FilterType
<1> QED BY <1>1, BroadcastAssumption, FS_Subset, FS_CardinalityType

LEMMA PickedAreTicks ==
  ASSUME ChoiceOK
  PROVE  /\ Picked \subseteq People
         /\ Cardinality(Picked) = Cardinality(selected) /\ Cardinality(selected) \in Nat
<1>1. Picked \subseteq People
  BY DEF Picked, ChoiceOK, TickType
<1>2. IsFiniteSet(Picked)
  BY <1>1, BroadcastAssumption, FS_Subset
<1> DEFINE who == [t \in selected |-> t.who]
<1>3. who \in [selected -> Picked] /\ \A t \in selected : who[t] = t.who
  BY DEF Picked
<1>4. \A t, u \in selected : t.who = u.who => t = u
  BY DEF ChoiceOK
<1>5. DOMAIN who = selected
  OBVIOUS
<1>6. \A p \in Picked : \E t \in selected : who[t] = p
  BY DEF Picked
<1> HIDE DEF who
<1>7. who \in Injection(selected, Picked)
  BY <1>3, <1>4, <1>5 DEF Injection, IsInjective
<1>8. who \in Surjection(selected, Picked)
  BY <1>3, <1>6 DEF Surjection
<1> QED BY <1>1, <1>2, <1>7, <1>8, FS_Injection, FS_CardinalityType

LEMMA AskKeeps ==
  ASSUME AskOK, NEW f \in FilterType, Ask(f), breaks' = breaks
  PROVE  AskOK'
<1>1. reads' = Append(reads, f) /\ listErr' = FALSE
  BY DEF Ask
<1>2. Append(reads, f) \in Seq(FilterType)
  BY DEF AskOK
<1> QED BY <1>1, <1>2 DEF AskOK


LEMMA WithoutRead ==
  ASSUME NEW i \in DOMAIN reads, AskOK
  PROVE  RemoveAt(reads, i) \in Seq(FilterType) /\ reads[i] \in FilterType
BY DEF RemoveAt, AskOK

LEMMA PageInit == BroadcastInit => PageInv
<1> SUFFICES ASSUME BroadcastInit
             PROVE  PageInv
  OBVIOUS
<1>1. filter \in FilterType
  BY BroadcastAssumption DEF BroadcastInit, FilterType
<1>2. PeopleOK
  BY BroadcastAssumption DEF BroadcastInit, PeopleOK
<1>3. ListOK
  BY DEF BroadcastInit, ListOK
<1>4. AskOK
  <2>1. <<filter>> \in Seq(FilterType)
    BY <1>1
  <2>2. 0 \in 0..MaxBreaks
    BY BroadcastAssumption
  <2> QED BY <2>1, <2>2 DEF BroadcastInit, AskOK
<1>5. ChoiceOK
  BY <1>1 DEF BroadcastInit, ChoiceOK, Modes
<1>6. SendOK
  BY DEF BroadcastInit, SendOK, PromiseOK, Awaited, SentAsConfirmed, OnlyTheNotActivated, Mailing
<1> QED BY <1>2, <1>3, <1>4, <1>5, <1>6 DEF PageInv

-----------------------------------------------------------------------------
(* The accounts                                                             *)

LEMMA TurnsKeep ==
  ASSUME PageInv, NEW p \in People, NEW to \in AccountStates, AccountTurns(p, to)
  PROVE  PageInv'
<1>0. PeopleOK /\ ListOK /\ AskOK /\ ChoiceOK /\ SendOK
  BY DEF PageInv
<1>1. /\ turns' = turns + 1 /\ people' = [people EXCEPT ![p] = to]
      /\ turns < MaxTurns /\ (to = "activated" => people[p] = "pending")
      /\ UNCHANGED <<mode, filter, list, reads, listErr, selected, allMatching, confirming, breaks>>
  BY DEF AccountTurns
<1>2. turns \in Int /\ MaxTurns \in Int
  BY <1>0, BroadcastAssumption DEF PeopleOK
<1>3. PeopleOK'
  BY <1>0, <1>1, <1>2, BroadcastAssumption DEF PeopleOK
<1>4. ListOK'
  <2> SUFFICES ASSUME list # Nothing
               PROVE  list.at <= turns' /\ list.at # turns'
    BY <1>0, <1>1 DEF ListOK
  <2>1. list.at \in Int /\ list.at <= turns
    BY <1>0, BroadcastAssumption DEF ListOK, ListType
  <2> QED BY <1>1, <1>2, <2>1
<1>5. AskOK'
  BY <1>0, <1>1, AskFrame
<1>6. ChoiceOK'
  <2>1. ASSUME NEW t \in selected
        PROVE  t.at <= turns' /\ t.at # turns'
    <3>1. t.at \in Int /\ t.at <= turns
      BY <1>0, BroadcastAssumption DEF ChoiceOK, TickType
    <3> QED BY <1>1, <1>2, <3>1
  <2> QED BY <1>0, <1>1, <2>1 DEF ChoiceOK
<1>7. SendOK'
  <2>1. CASE Awaited
    <3>1. sending \in SendType /\ sending.stage = "sent"
      BY <1>0, <2>1 DEF SendOK, Awaited
    <3>2. sending' = [sending EXCEPT !.promised = Nothing]
      BY <2>1 DEF AccountTurns
    <3>3. sending' \in SendType /\ sending'.promised = Nothing /\ sending'.stage = "sent"
      BY <3>1, <3>2 DEF SendType
    <3>4. since' \subseteq People
      BY <1>0 DEF AccountTurns, SendOK
    <3> QED BY <3>3, <3>4 DEF SendOK, PromiseOK, SentAsConfirmed, OnlyTheNotActivated, Mailing
  <2>2. CASE ~Awaited
    <3>1. sending' = sending /\ since' \subseteq People
      BY <1>0, <2>2 DEF AccountTurns, SendOK
    <3>2. PromiseOK' /\ SentAsConfirmed'
      BY <1>0, <2>2, <3>1 DEF PromiseOK, Awaited, SendOK, SentAsConfirmed, Mailing
    <3>3. OnlyTheNotActivated'
      <4> SUFFICES ASSUME Mailing, sending.mode = "ACTIVATION", NEW q \in sending.left,
                          people'[q] = "activated"
                   PROVE  q \in since'
        BY <3>1 DEF OnlyTheNotActivated, Mailing
      <4>1. q \in People
        BY <1>0 DEF SendOK, SendType, Mailing
      <4>2. CASE people[q] = "activated"
        BY <1>0, <4>2 DEF SendOK, OnlyTheNotActivated, AccountTurns
      <4>3. CASE people[q] # "activated"
        <5>1. q = p /\ to = "activated"
          BY <1>0, <1>1, <4>1, <4>3 DEF PeopleOK
        <5>2. since' = since \cup {p}
          BY <5>1 DEF AccountTurns, Mailing
        <5> QED BY <5>1, <5>2
      <4> QED BY <4>2, <4>3
    <3> QED BY <1>0, <3>1, <3>2, <3>3 DEF SendOK
  <2> QED BY <2>1, <2>2
<1> QED BY <1>3, <1>4, <1>5, <1>6, <1>7 DEF PageInv

-----------------------------------------------------------------------------
(* The page                                                                 *)

LEMMA SwitchKeeps ==
  ASSUME PageInv, NEW m \in Modes, SwitchMode(m)
  PROVE  PageInv'
<1>0. PeopleOK /\ ListOK /\ AskOK /\ ChoiceOK /\ SendOK
  BY DEF PageInv
<1>1. /\ mode' = m /\ selected' = {} /\ allMatching' = FALSE
      /\ filter' = [filter EXCEPT !.hasPassword = IF m = "ACTIVATION" THEN "false" ELSE "any"]
      /\ reads' = Append(reads, filter') /\ listErr' = FALSE
      /\ UNCHANGED <<people, turns, list, confirming, sending, since, breaks>>
  BY DEF SwitchMode, Ask
<1>2. filter' \in FilterType /\ (m = "ACTIVATION" => filter'.hasPassword = "false")
  BY <1>0, <1>1, BroadcastAssumption DEF ChoiceOK, FilterType
<1>3. Append(reads, filter') \in Seq(FilterType)
  BY <1>0, <1>2 DEF AskOK
<1>4. AskOK'
  BY <1>0, <1>1, <1>3 DEF AskOK
<1>5. ChoiceOK'
  BY <1>0, <1>1, <1>2 DEF ChoiceOK
<1> QED BY <1>0, <1>1, <1>4, <1>5, PeopleFrame, ListFrame, SendFrame DEF PageInv

LEMMA SetFilterKeeps ==
  ASSUME PageInv, NEW f \in FilterType, SetFilter(f)
  PROVE  PageInv'
<1>0. PeopleOK /\ ListOK /\ AskOK /\ ChoiceOK /\ SendOK
  BY DEF PageInv
<1>1. /\ filter' = f /\ (mode = "ACTIVATION" => f.hasPassword = "false") /\ Ask(f)
      /\ UNCHANGED <<people, turns, mode, list, selected, allMatching, confirming, sending, since,
                     breaks>>
  BY DEF SetFilter
<1>2. AskOK'
  BY <1>0, <1>1, AskKeeps
<1>3. ChoiceOK'
  BY <1>0, <1>1 DEF ChoiceOK, Fits, NotActivated, Eligible
<1> QED BY <1>0, <1>1, <1>2, <1>3, PeopleFrame, ListFrame, SendFrame DEF PageInv

LEMMA RetryKeeps ==
  ASSUME PageInv, Retry
  PROVE  PageInv'
<1>0. PeopleOK /\ ListOK /\ AskOK /\ ChoiceOK /\ SendOK /\ filter \in FilterType
  BY DEF PageInv, ChoiceOK
<1>1. /\ reads' = Append(reads, filter) /\ listErr' = FALSE
      /\ UNCHANGED <<people, turns, mode, filter, list, selected, allMatching, confirming,
                     sending, since, breaks>>
  BY DEF Retry, Ask
<1>2. Append(reads, filter) \in Seq(FilterType)
  BY <1>0 DEF AskOK
<1>3. AskOK'
  BY <1>0, <1>1, <1>2 DEF AskOK
<1> QED BY <1>0, <1>1, <1>3, PeopleFrame, ListFrame, ChoiceFrame, SendFrame DEF PageInv

LEMMA ToggleKeeps ==
  ASSUME PageInv, ToggleOne \/ TogglePage
  PROVE  PageInv'
<1>0. PeopleOK /\ ListOK /\ AskOK /\ ChoiceOK /\ SendOK
  BY DEF PageInv
<1>1. PICK ps : ps \subseteq list.rows /\ Toggle(ps)
  BY DEF ToggleOne, TogglePage, Toggle
<1>2. /\ list \in ListType /\ list # Nothing /\ list.at <= turns
      /\ list.at = turns => list.rows = WhereFor(list.filter)
      /\ UNCHANGED <<people, turns, mode, filter, list, reads, listErr, allMatching, confirming,
                     sending, since, breaks>>
  BY <1>0, <1>1 DEF Toggle, TableShown, ListOK
<1>3. list.rows \subseteq People /\ list.at \in 0..MaxTurns
  BY <1>2 DEF ListType
<1>4. ASSUME NEW t \in Ticks(ps \ Picked)
      PROVE  /\ t \in TickType /\ t.who \in ps \ Picked /\ t.at <= turns
             /\ t.at = turns /\ ~t.astray => Fits(t.who, Eligible)
  <2>1. PICK p \in ps \ Picked :
          t = [who |-> p, at |-> list.at,
               astray |-> mode = "ACTIVATION" /\ list.filter.hasPassword # "false"]
    BY DEF Ticks
  <2>2. /\ t.who = p /\ t.at = list.at
        /\ t.astray = (mode = "ACTIVATION" /\ list.filter.hasPassword # "false")
    BY <2>1
  <2>3. t \in TickType
    BY <1>1, <1>3, <2>1 DEF TickType
  <2>4. ASSUME t.at = turns, ~t.astray
        PROVE  Fits(t.who, Eligible)
    <3>1. Fits(p, list.filter.hasPassword)
      BY <1>1, <1>2, <2>2, <2>4 DEF WhereFor
    <3>2. mode = "ACTIVATION" => list.filter.hasPassword = "false"
      BY <2>2, <2>4
    <3> QED BY <2>2, <3>1, <3>2 DEF Fits, Eligible
  <2> QED BY <1>2, <2>2, <2>3, <2>4
<1>5. \A t, u \in Ticks(ps \ Picked) : t.who = u.who => t = u
  BY DEF Ticks
<1>6. \A t \in selected : t.who \in Picked
  BY DEF Picked
<1>7. selected' \subseteq selected \cup Ticks(ps \ Picked)
  BY <1>1 DEF Toggle
<1>8. ChoiceOK'
  <2>1. selected' \subseteq TickType
    BY <1>0, <1>4, <1>7 DEF ChoiceOK
  <2>2. \A t, u \in selected' : t.who = u.who => t = u
    <3>1. \A t, u \in selected \cup Ticks(ps \ Picked) : t.who = u.who => t = u
      BY <1>0, <1>4, <1>5, <1>6 DEF ChoiceOK
    <3> QED BY <1>7, <3>1
  <2>3. ASSUME NEW t \in selected'
        PROVE  (t.at <= turns /\ (t.at = turns /\ ~t.astray => Fits(t.who, Eligible)))'
    <3>1. t.at <= turns /\ (t.at = turns /\ ~t.astray => Fits(t.who, Eligible))
      BY <1>0, <1>4, <1>7 DEF ChoiceOK
    <3> QED BY <1>2, <3>1 DEF Fits, NotActivated, Eligible
  <2> QED BY <1>0, <1>2, <2>1, <2>2, <2>3 DEF ChoiceOK
<1> QED BY <1>0, <1>2, <1>8, PeopleFrame, ListFrame, AskFrame, SendFrame DEF PageInv

LEMMA DialogKeeps ==
  ASSUME PageInv, ToggleAllMatching \/ OpenConfirm \/ CloseConfirm
  PROVE  PageInv'
<1>0. PeopleOK /\ ListOK /\ AskOK /\ ChoiceOK /\ SendOK
  BY DEF PageInv
<1>1. /\ UNCHANGED <<people, turns, mode, filter, list, reads, listErr, selected, sending, since,
                     breaks>>
      /\ allMatching' \in BOOLEAN /\ confirming' \in BOOLEAN
      /\ allMatching' => allMatching \/ list # Nothing
  <2>1. allMatching \in BOOLEAN /\ confirming \in BOOLEAN
    BY <1>0 DEF ChoiceOK
  <2>2. CASE ToggleAllMatching
    BY <2>1, <2>2 DEF ToggleAllMatching, TableShown
  <2>3. CASE OpenConfirm
    BY <2>1, <2>3 DEF OpenConfirm
  <2>4. CASE CloseConfirm
    BY <2>1, <2>4 DEF CloseConfirm
  <2> QED BY <2>2, <2>3, <2>4
<1>2. ChoiceOK'
  BY <1>0, <1>1 DEF ChoiceOK, Fits, NotActivated, Eligible
<1> QED BY <1>0, <1>1, <1>2, PeopleFrame, ListFrame, AskFrame, SendFrame DEF PageInv

LEMMA SendKeeps ==
  ASSUME PageInv, Send
  PROVE  PageInv'
<1> DEFINE ids == IF allMatching THEN {} ELSE Picked
           number == IF Sound THEN RecipientCount ELSE Nothing
<1>0. PeopleOK /\ ListOK /\ AskOK /\ ChoiceOK /\ SendOK
  BY DEF PageInv
<1>1. /\ sending' = [ mode |-> mode, filter |-> filter, all |-> allMatching, userIds |-> ids,
                      promised |-> number, stage |-> "sent", left |-> {} ]
      /\ since' = {}
      /\ UNCHANGED <<people, turns, mode, filter, list, reads, listErr, selected, allMatching,
                     confirming, breaks>>
  BY DEF Send
<1>2. /\ Picked \subseteq People
      /\ Cardinality(Picked) = Cardinality(selected) /\ Cardinality(selected) \in Nat
  BY <1>0, PickedAreTicks
<1>3. /\ mode \in Modes /\ filter \in FilterType /\ allMatching \in BOOLEAN
      /\ mode = "ACTIVATION" => filter.hasPassword = "false"
      /\ allMatching => list \in ListType /\ list # Nothing
  BY <1>0 DEF ChoiceOK, ListOK
<1>4. RecipientCount \in Nat
  <2>1. CASE allMatching
    <3>1. list.rows \subseteq People
      BY <1>3, <2>1 DEF ListType
    <3>2. Cardinality(list.rows) \in Nat
      BY <3>1, BroadcastAssumption, FS_Subset, FS_CardinalityType
    <3> QED BY <1>3, <2>1, <3>2 DEF RecipientCount
  <2>2. CASE ~allMatching
    BY <1>2, <2>2 DEF RecipientCount
  <2> QED BY <2>1, <2>2
<1>5. ids \subseteq People /\ number \in Nat \cup {Nothing}
  BY <1>2, <1>4
<1>6. ASSUME number # Nothing, allMatching
      PROVE  number = Cardinality(WhereFor(filter))
  <2>1. list.filter = filter /\ list.at = turns /\ number = RecipientCount
    BY <1>6 DEF Sound
  <2>2. list.rows = WhereFor(filter)
    BY <1>0, <1>3, <1>6, <2>1 DEF ListOK
  <2> QED BY <1>3, <1>6, <2>1, <2>2 DEF RecipientCount
<1>7. ASSUME number # Nothing, ~allMatching
      PROVE  /\ number = Cardinality(ids)
             /\ \A p \in ids : Fits(p, Eligible)
  <2>1. number = Cardinality(selected) /\ \A t \in selected : t.at = turns /\ ~t.astray
    BY <1>7 DEF Sound, RecipientCount
  <2>2. \A t \in selected : Fits(t.who, Eligible)
    BY <1>0, <2>1 DEF ChoiceOK
  <2> QED BY <1>2, <1>7, <2>1, <2>2 DEF Picked
<1> HIDE DEF ids, number
<1>8. sending' \in SendType
  BY <1>1, <1>3, <1>5 DEF SendType, Modes
<1>9. /\ sending'.mode = mode /\ sending'.filter = filter /\ sending'.all = allMatching
      /\ sending'.userIds = ids /\ sending'.promised = number /\ sending'.stage = "sent"
  BY <1>1
<1>10. (PromiseOK)'
  <2> SUFFICES ASSUME number # Nothing
               PROVE  IF allMatching THEN number = Cardinality(WhereFor(AskedFor))'
                      ELSE number = Cardinality(ids) /\ (\A p \in sending.userIds : Fits(p, Forced("any")))'
    BY <1>9 DEF PromiseOK
  <2>1. CASE allMatching
    <3>1. AskedFor' = filter
      BY <1>3, <1>9 DEF AskedFor, Forced, FilterType
    <3>2. WhereFor(AskedFor)' = WhereFor(filter)
      BY <1>1, <3>1 DEF WhereFor, Fits, NotActivated
    <3> QED BY <1>6, <2>1, <3>2
  <2>2. CASE ~allMatching
    <3>1. Forced("any")' = Eligible
      BY <1>9 DEF Forced, Eligible
    <3>2. (\A p \in sending.userIds : Fits(p, Forced("any")))'
      BY <1>1, <1>7, <1>9, <2>2, <3>1 DEF Fits, NotActivated
    <3> QED BY <1>7, <2>2, <3>2
  <2> QED BY <2>1, <2>2
<1>11. SendOK'
  BY <1>1, <1>8, <1>9, <1>10 DEF SendOK, SentAsConfirmed, OnlyTheNotActivated, Mailing
<1> QED BY <1>0, <1>1, <1>11, PeopleFrame, ListFrame, AskFrame, ChoiceFrame DEF PageInv

LEMMA AnsweredKeeps ==
  ASSUME PageInv, Answered
  PROVE  PageInv'
<1>0. PeopleOK /\ ListOK /\ AskOK /\ ChoiceOK /\ SendOK
  BY DEF PageInv
<1>1. /\ sending # NoSend /\ sending.stage \in {"done", "failed"} /\ sending' = NoSend
      /\ UNCHANGED <<people, turns, mode, filter, list, since, breaks>>
  BY DEF Answered
<1>2. SendOK'
  BY <1>0, <1>1 DEF SendOK, PromiseOK, Awaited, SentAsConfirmed, OnlyTheNotActivated, Mailing
<1>3. CASE sending.stage = "done"
  <2>1. /\ selected' = {} /\ allMatching' = FALSE /\ confirming' = FALSE
        /\ reads' = Append(reads, sending.filter) /\ listErr' = FALSE
    BY <1>3 DEF Answered, Ask
  <2>2. sending.filter \in FilterType
    BY <1>0, <1>1 DEF SendOK, SendType
  <2>3. Append(reads, sending.filter) \in Seq(FilterType)
    BY <1>0, <2>2 DEF AskOK
  <2>4. AskOK'
    BY <1>0, <1>1, <2>1, <2>3 DEF AskOK
  <2>5. ChoiceOK'
    BY <1>0, <1>1, <2>1 DEF ChoiceOK
  <2> QED BY <1>0, <1>1, <1>2, <2>4, <2>5, PeopleFrame, ListFrame DEF PageInv
<1>4. CASE sending.stage # "done"
  <2>1. UNCHANGED <<selected, allMatching, confirming, reads, listErr>>
    BY <1>4 DEF Answered
  <2> QED BY <1>0, <1>1, <1>2, <2>1, PeopleFrame, ListFrame, AskFrame, ChoiceFrame DEF PageInv
<1> QED BY <1>3, <1>4

-----------------------------------------------------------------------------
(* The service                                                              *)

LEMMA RecipientsKeep ==
  ASSUME PageInv, NEW i \in DOMAIN reads, Recipients(i) \/ Unlisted(i)
  PROVE  PageInv'
<1>0. PeopleOK /\ ListOK /\ AskOK /\ ChoiceOK /\ SendOK
  BY DEF PageInv
<1>1. /\ reads' = RemoveAt(reads, i)
      /\ UNCHANGED <<people, turns, mode, filter, selected, allMatching, confirming, sending, since>>
  BY DEF Recipients, Unlisted
<1>2. RemoveAt(reads, i) \in Seq(FilterType) /\ reads[i] \in FilterType
  BY <1>0, WithoutRead
<1>3. listErr' \in BOOLEAN /\ breaks' \in 0..MaxBreaks
  <2>1. CASE Recipients(i)
    BY <1>0, <2>1 DEF Recipients, AskOK
  <2>2. CASE Unlisted(i)
    BY <1>0, <2>2, BroadcastAssumption DEF Unlisted, Break, AskOK
  <2> QED BY <2>1, <2>2
<1>4. AskOK'
  BY <1>1, <1>2, <1>3 DEF AskOK
<1>5. ListOK' /\ (list # Nothing => list' # Nothing)
  <2>1. CASE Recipients(i)
    <3>1. list' = [filter |-> reads[i], at |-> turns, rows |-> WhereFor(reads[i])]
      BY <2>1 DEF Recipients
    <3>2. WhereFor(reads[i]) \subseteq People /\ turns \in 0..MaxTurns
      BY <1>0, <1>2, FiniteWhere DEF PeopleOK
    <3>3. list' \in ListType
      BY <1>2, <3>1, <3>2 DEF ListType
    <3>4. list'.at = turns' /\ turns' <= turns'
      BY <1>1, <3>1, <3>2, BroadcastAssumption
    <3>5. list'.rows = WhereFor(list.filter)'
      BY <1>1, <3>1 DEF WhereFor, Fits, NotActivated
    <3> QED BY <3>3, <3>4, <3>5, ListAssumption DEF ListOK
  <2>2. CASE Unlisted(i)
    BY <1>0, <1>1, <2>2, ListFrame DEF Unlisted
  <2> QED BY <2>1, <2>2
<1>6. ChoiceOK'
  BY <1>0, <1>1, <1>5 DEF ChoiceOK, Fits, NotActivated, Eligible
<1> QED BY <1>0, <1>1, <1>4, <1>5, <1>6, PeopleFrame, SendFrame DEF PageInv

(* Each state of a send is typed.                                           *)
LEMMA SendFields ==
  ASSUME SendOK, sending # NoSend
  PROVE  /\ sending \in SendType
         /\ sending.left \subseteq People /\ sending.userIds \subseteq People
         /\ sending.mode \in Modes /\ sending.filter \in FilterType /\ sending.all \in BOOLEAN
         /\ sending.promised \in Nat \cup {Nothing}
BY DEF SendOK, SendType, Modes

LEMMA EndedTyped ==
  ASSUME SendOK, sending # NoSend, NEW how \in {"done", "failed"}
  PROVE  Ended(how) \in SendType /\ Ended(how).stage = how
<1>1. sending \in SendType
  BY DEF SendOK
<1> QED BY <1>1 DEF Ended, SendType

LEMMA CapOf ==
  ASSUME NEW W \in SUBSET People, NEW T \in Capped(W)
  PROVE  T \subseteq W /\ Cardinality(T) = UpToTheCap(Cardinality(W))
BY DEF Capped

LEMMA FindKeeps ==
  ASSUME PageInv, FindTargets
  PROVE  PageInv'
<1>0. PeopleOK /\ ListOK /\ AskOK /\ ChoiceOK /\ SendOK
  BY DEF PageInv
<1>1. PICK T \in ResolveTargets :
        sending' = [sending EXCEPT !.stage = "mailing", !.left = T, !.all = FALSE, !.userIds = {},
                                   !.promised = Promised]
  BY DEF FindTargets
<1>2. /\ Awaited /\ since' = {}
      /\ UNCHANGED <<people, turns, mode, filter, list, reads, listErr, selected, allMatching,
                     confirming, breaks>>
  BY DEF FindTargets
<1>3. /\ sending \in SendType /\ sending # NoSend /\ sending.stage = "sent"
      /\ sending.userIds \subseteq People /\ sending.mode \in Modes
      /\ sending.filter \in FilterType /\ sending.promised \in Nat \cup {Nothing}
      /\ sending.all \in BOOLEAN
  BY <1>0, <1>2, SendFields DEF Awaited
<1>4. AskedFor \in FilterType
  BY <1>3, BroadcastAssumption DEF AskedFor, Forced, FilterType
<1>5. WhereFor(AskedFor) \subseteq People /\ Cardinality(WhereFor(AskedFor)) \in Nat
  BY <1>4, FiniteWhere
<1>6. /\ T \subseteq People
      /\ sending.mode = "ACTIVATION" => \A p \in T : people[p] = "pending"
      /\ Promised # Nothing => Cardinality(T) = Promised
  <2>1. CASE sending.all
    <3>1. T \in Capped(WhereFor(AskedFor))
      BY <1>1, <2>1 DEF ResolveTargets, AskedFor
    <3>2. /\ T \subseteq WhereFor(AskedFor)
          /\ Cardinality(T) = UpToTheCap(Cardinality(WhereFor(AskedFor)))
      BY <1>5, <3>1, CapOf
    <3>3. sending.mode = "ACTIVATION" => AskedFor.hasPassword = "false"
      BY <1>3 DEF AskedFor, Forced, FilterType
    <3>4. sending.mode = "ACTIVATION" => \A p \in T : people[p] = "pending"
      BY <3>2, <3>3 DEF WhereFor, Fits, NotActivated
    <3>5. Promised # Nothing => Cardinality(T) = Promised
      <4> SUFFICES ASSUME Promised # Nothing
                   PROVE  Cardinality(T) = Promised
        OBVIOUS
      <4>1. sending.promised # Nothing /\ Promised = UpToTheCap(sending.promised)
        BY <2>1 DEF Promised
      <4>2. sending.promised = Cardinality(WhereFor(AskedFor))
        BY <1>0, <1>2, <2>1, <4>1 DEF SendOK, PromiseOK
      <4> QED BY <3>2, <4>1, <4>2
    <3> QED BY <1>5, <3>2, <3>4, <3>5
  <2>2. CASE ~sending.all
    <3>1. T = {p \in sending.userIds : Fits(p, Forced("any"))}
      BY <1>1, <2>2 DEF ResolveTargets
    <3>2. sending.mode = "ACTIVATION" => \A p \in T : people[p] = "pending"
      BY <3>1 DEF Forced, Fits, NotActivated
    <3>3. Promised # Nothing => Cardinality(T) = Promised
      <4> SUFFICES ASSUME Promised # Nothing
                   PROVE  Cardinality(T) = Promised
        OBVIOUS
      <4>1. sending.promised # Nothing /\ Promised = sending.promised
        BY <2>2 DEF Promised
      <4>2. /\ sending.promised = Cardinality(sending.userIds)
            /\ \A p \in sending.userIds : Fits(p, Forced("any"))
        BY <1>0, <1>2, <2>2, <4>1 DEF SendOK, PromiseOK
      <4>3. T = sending.userIds
        BY <3>1, <4>2
      <4> QED BY <4>1, <4>2, <4>3
    <3> QED BY <1>3, <3>1, <3>2, <3>3
  <2> QED BY <1>3, <2>1, <2>2
<1>7. Promised \in Nat \cup {Nothing}
  BY <1>3, BroadcastAssumption DEF Promised, UpToTheCap
<1>8. /\ sending' \in SendType /\ sending'.stage = "mailing" /\ sending'.left = T
      /\ sending'.promised = Promised /\ sending'.mode = sending.mode
  BY <1>1, <1>3, <1>6, <1>7 DEF SendType
<1>9. SendOK'
  <2>1. PromiseOK'
    BY <1>8 DEF PromiseOK, Awaited
  <2>2. SentAsConfirmed'
    BY <1>6, <1>8 DEF SentAsConfirmed
  <2>3. OnlyTheNotActivated'
    BY <1>2, <1>6, <1>8 DEF OnlyTheNotActivated
  <2> QED BY <1>2, <1>8, <2>1, <2>2, <2>3 DEF SendOK
<1> QED BY <1>0, <1>2, <1>9, PeopleFrame, ListFrame, AskFrame, ChoiceFrame DEF PageInv

LEMMA MailsKeep ==
  ASSUME PageInv, (\E p \in People : ResendActivation(p)) \/ SendAnnouncement \/ Sent \/ Unsent
  PROVE  PageInv'
<1>0. PeopleOK /\ ListOK /\ AskOK /\ ChoiceOK /\ SendOK
  BY DEF PageInv
<1>1. /\ sending # NoSend
      /\ UNCHANGED <<people, turns, mode, filter, list, reads, listErr, selected, allMatching,
                     confirming, since>>
  BY DEF ResendActivation, SendAnnouncement, Sent, Unsent, Mailing
<1>2. /\ sending \in SendType /\ sending.left \subseteq People /\ since \subseteq People
  BY <1>0, <1>1, SendFields DEF SendOK
<1>3. AskOK'
  <2>1. breaks' \in 0..MaxBreaks
    <3>1. breaks \in 0..MaxBreaks
      BY <1>0 DEF AskOK
    <3>2. CASE Unsent
      BY <3>1, <3>2, BroadcastAssumption DEF Unsent, Break
    <3>3. CASE ~Unsent
      BY <3>1, <3>3 DEF ResendActivation, SendAnnouncement, Sent
    <3> QED BY <3>2, <3>3
  <2> QED BY <1>0, <1>1, <2>1 DEF AskOK
<1>4. SendOK'
  <2>1. ASSUME NEW how \in {"done", "failed"}, sending' = Ended(how)
        PROVE  SendOK'
    <3>1. sending' \in SendType /\ sending'.stage = how
      BY <1>0, <1>1, <2>1, EndedTyped
    <3> QED BY <1>1, <1>2, <3>1
          DEF SendOK, PromiseOK, Awaited, SentAsConfirmed, OnlyTheNotActivated, Mailing
  <2>2. ASSUME NEW left \in SUBSET sending.left, Mailing,
               sending' = [sending EXCEPT !.left = left, !.promised = Nothing]
        PROVE  SendOK'
    <3>1. left \subseteq People
      BY <1>2
    <3>2. /\ sending' \in SendType /\ sending'.stage = "mailing" /\ sending'.left = left
          /\ sending'.promised = Nothing /\ sending'.mode = sending.mode
      BY <1>2, <2>2, <3>1 DEF SendType, Mailing
    <3>3. OnlyTheNotActivated'
      <4>1. OnlyTheNotActivated
        BY <1>0 DEF SendOK
      <4> QED BY <1>1, <2>2, <3>2, <4>1 DEF OnlyTheNotActivated
    <3>4. PromiseOK' /\ SentAsConfirmed'
      BY <3>2 DEF PromiseOK, Awaited, SentAsConfirmed
    <3> QED BY <1>1, <1>2, <3>2, <3>3, <3>4 DEF SendOK
  <2>3. ASSUME NEW p \in People, ResendActivation(p)
        PROVE  SendOK'
    <3>1. CASE people[p] = Missing
      BY <2>1, <2>3, <3>1 DEF ResendActivation
    <3>2. CASE people[p] # Missing
      <4>1. /\ sending' = [sending EXCEPT !.left = sending.left \ {p}, !.promised = Nothing]
            /\ Mailing
        BY <2>3, <3>2 DEF ResendActivation
      <4>2. sending.left \ {p} \in SUBSET sending.left
        OBVIOUS
      <4> QED BY <2>2, <4>1, <4>2
    <3> QED BY <3>1, <3>2
  <2>4. CASE SendAnnouncement
    <3>1. sending' = [sending EXCEPT !.left = {}, !.promised = Nothing] /\ Mailing
      BY <2>4 DEF SendAnnouncement
    <3>2. {} \in SUBSET sending.left
      OBVIOUS
    <3> QED BY <2>2, <3>1, <3>2
  <2>5. CASE Sent
    BY <2>1, <2>5 DEF Sent
  <2>6. CASE Unsent
    BY <2>1, <2>6 DEF Unsent
  <2> QED BY <2>3, <2>4, <2>5, <2>6
<1> QED BY <1>0, <1>1, <1>3, <1>4, PeopleFrame, ListFrame, ChoiceFrame DEF PageInv

LEMMA PageStep == PageInv /\ [BroadcastNext]_broadcastVars => PageInv'
<1> SUFFICES ASSUME PageInv, [BroadcastNext]_broadcastVars
             PROVE  PageInv'
  OBVIOUS
<1>1. ASSUME NEW p \in People, NEW to \in AccountStates, AccountTurns(p, to)
      PROVE  PageInv'
  BY <1>1, TurnsKeep
<1>2. ASSUME NEW m \in {"ACTIVATION", "ANNOUNCEMENT"}, SwitchMode(m)
      PROVE  PageInv'
  BY <1>2, SwitchKeeps DEF Modes
<1>3. ASSUME NEW f \in FilterType, SetFilter(f)
      PROVE  PageInv'
  BY <1>3, SetFilterKeeps
<1>4. CASE Retry \/ ToggleOne \/ TogglePage \/ ToggleAllMatching \/ OpenConfirm \/ CloseConfirm
  BY <1>4, RetryKeeps, ToggleKeeps, DialogKeeps
<1>5. CASE Send \/ Answered
  BY <1>5, SendKeeps, AnsweredKeeps
<1>6. ASSUME NEW i \in DOMAIN reads, Recipients(i) \/ Unlisted(i)
      PROVE  PageInv'
  BY <1>6, RecipientsKeep
<1>7. CASE FindTargets
  BY <1>7, FindKeeps
<1>8. CASE (\E p \in People : ResendActivation(p)) \/ SendAnnouncement \/ Sent \/ Unsent
  BY <1>8, MailsKeep
<1>9. CASE UNCHANGED broadcastVars
  <2>1. PeopleOK /\ ListOK /\ AskOK /\ ChoiceOK /\ SendOK
    BY DEF PageInv
  <2> QED BY <1>9, <2>1, PeopleFrame, ListFrame, AskFrame, ChoiceFrame, SendFrame
        DEF broadcastVars, PageInv
<1> QED BY <1>1, <1>2, <1>3, <1>4, <1>5, <1>6, <1>7, <1>8, <1>9 DEF BroadcastNext

(* The inductive invariant of the page and its service.                     *)
THEOREM BroadcastInvariant == BroadcastSpec => []PageInv
BY PageInit, PageStep, PTL DEF BroadcastSpec

(* As many are written to as the dialog said, and a link is mailed to       *)
(* nobody known to be activated (BroadcastInv), with any number of people.  *)
THEOREM BroadcastSafe == BroadcastSpec => []BroadcastInv
BY PageGives, BroadcastInvariant, PTL
=============================================================================
