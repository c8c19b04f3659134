------------------------------ MODULE Accounts ------------------------------
(***************************************************************************)
(* The accounts of one workspace: administration and import                 *)
(* (user-admin.service.ts), parked registrations (auth.service.ts), single  *)
(* sign-on's provisioning (sso.service.ts) and the plan's limit             *)
(* (plan.service.ts).  How an account is signed in to is SignIn.            *)
(*                                                                          *)
(* The requests that check and later write are split where they await the   *)
(* database; `flow` holds how far each has come and for which address.  The *)
(* unique index on the address is all the database checks by itself.        *)
(***************************************************************************)
EXTENDS Integers, Sequences, FiniteSets

CONSTANTS
  Emails,    \* addresses of the company's verified domain
  Flows,     \* requests served at the same time
  Limits,    \* maxUsers of the plans a workspace may be on
  Free,      \* maxUsers of the plan it starts on
  None,      \* no address
  MaxUsers   \* bound: rows of the User table

ASSUME AccountsAssumption ==
  /\ Limits \subseteq Nat \ {0}
  /\ Free \in Limits
  /\ None \notin Emails
  /\ MaxUsers \in Nat

VARIABLES
  users,        \* the User table in creation order, removed rows included
  registration, \* RegistrationRequest.status of each address, or "NONE"
  booked,       \* rows of users who have bookings on record
  limit,        \* maxUsers of the current plan
  flow,         \* the requests in flight
  had,          \* history: addresses that have had an account
  overtaken     \* history: flows another write happened to since they began

vars == <<users, registration, booked, limit, flow, had, overtaken>>

UserType == [email : Emails, present : BOOLEAN, active : BOOLEAN]

Stages ==
  { "idle", "create", "provision", "approveCheck", "approveCreate", "approveMark",
    "reject", "park", "queue", "reopen", "remove" }

(* No address has two accounts. *)
OneEach ==
  \A u, v \in DOMAIN users :
    users[u].present /\ users[v].present /\ users[u].email = users[v].email => u = v

TypeOK ==
  /\ users \in Seq(UserType) /\ Len(users) <= MaxUsers /\ OneEach
  /\ registration \in [Emails -> {"NONE", "PENDING", "APPROVED", "REJECTED"}]
  /\ booked \subseteq DOMAIN users
  /\ limit \in Limits
  /\ flow \in [Flows -> [at : Stages, email : Emails \cup {None}, user : 0..MaxUsers]]
  /\ \A f \in Flows :
       /\ flow[f].email = None <=> flow[f].at \in {"idle", "remove"}
       /\ IF flow[f].at = "remove" THEN flow[f].user \in DOMAIN users ELSE flow[f].user = 0
  /\ had \subseteq Emails
  /\ overtaken \subseteq { f \in Flows : flow[f].at # "idle" }

Idle == [at |-> "idle", email |-> None, user |-> 0]

Init ==
  /\ users = <<>>
  /\ registration = [e \in Emails |-> "NONE"]
  /\ booked = {}
  /\ limit = Free
  /\ flow = [f \in Flows |-> Idle]
  /\ had = {} /\ overtaken = {}

-----------------------------------------------------------------------------
(* What the requests read. *)

Present(u) == users[u].present

HasAccount(email) == \E u \in DOMAIN users : Present(u) /\ users[u].email = email

ActiveUsers(table) == { u \in DOMAIN table : table[u].present /\ table[u].active }

(* assertCanAddUser *)
UnderLimitOffByOne == Cardinality(ActiveUsers(users)) <= limit

UnderLimit == Cardinality(ActiveUsers(users)) < limit

RequeueableAlways(status) == status # "PENDING"

(* A rejected address does not queue itself again, a pending one need not.  *)
Requeueable(status) == status \in {"NONE", "APPROVED"}

-----------------------------------------------------------------------------
(* Steps of a request. *)

Goto(f, stage) == flow' = [flow EXCEPT ![f].at = stage]

Finish(f) == flow' = [flow EXCEPT ![f] = Idle]

(* A write, which overtakes every flow under way outside fs. *)
Overtake(fs) ==
  overtaken' = { g \in overtaken \cup (Flows \ fs) : flow'[g] # Idle }

BeginOn(f, stage, email, u) ==
  /\ flow[f] = Idle
  /\ flow' = [flow EXCEPT ![f] = [at |-> stage, email |-> email, user |-> u]]
  /\ UNCHANGED <<users, registration, booked, limit, had, overtaken>>

Begin(f, stage, email) == BeginOn(f, stage, email, 0)

(* The insert of an account; the unique index refuses a second one. *)
NewAccount(email) ==
  /\ ~HasAccount(email)
  /\ Len(users) < MaxUsers
  /\ users' = Append(users, [email |-> email, present |-> TRUE, active |-> TRUE])
  /\ had' = had \cup {email}

(* A request may be refused or fail at any step; what it wrote stays. *)
Abandon(f) ==
  /\ flow[f].at # "idle"
  /\ Finish(f)
  /\ overtaken' = overtaken \ {f}
  /\ UNCHANGED <<users, registration, booked, limit, had>>

-----------------------------------------------------------------------------
(* Accounts made by an administrator, and by single sign-on *)

(* create, or one row of importUsers: the address is free and the plan has  *)
(* room, then the insert.                                                   *)
CreateBegin(f, email) ==
  /\ ~HasAccount(email) /\ UnderLimit
  /\ Begin(f, "create", email)

(* findOrProvision: nobody by that address, so one is made; no plan check. *)
ProvisionBegin(f, email) == ~HasAccount(email) /\ Begin(f, "provision", email)

(* The insert of create, of an import and of single sign-on *)
Insert(f) ==
  /\ flow[f].at \in {"create", "provision"}
  /\ NewAccount(flow[f].email)
  /\ Finish(f)
  /\ Overtake({f})
  /\ UNCHANGED <<registration, booked, limit>>

-----------------------------------------------------------------------------
(* Parked registrations *)

(* requestActivation finds nobody by an address of the company, ... *)
ParkBegin(f, email) == ~HasAccount(email) /\ Begin(f, "park", email)

(* ... then looks for the request on record ... *)
ParkLookup(f) ==
  LET status == registration[flow[f].email]
  IN  /\ flow[f].at = "park"
      /\ Requeueable(status)
      /\ Goto(f, IF status = "NONE" THEN "queue" ELSE "reopen")
      /\ UNCHANGED <<users, registration, booked, limit, had, overtaken>>

(* ... and inserts one, which a request made meanwhile refuses, or updates  *)
(* what it found, whatever it has become.                                   *)
ParkWrite(f) ==
  LET email == flow[f].email
  IN  /\ \/ flow[f].at = "queue" /\ registration[email] = "NONE"
         \/ flow[f].at = "reopen"
      /\ registration' = [registration EXCEPT ![email] = "PENDING"]
      /\ Finish(f)
      /\ Overtake({f})
      /\ UNCHANGED <<users, booked, limit, had>>

DecisionBegin(f, email, stage) ==
  /\ stage \in {"approveCheck", "reject"}
  /\ registration[email] = "PENDING"
  /\ Begin(f, stage, email)

ApproveCheckMarking(f) ==
  /\ flow[f].at = "approveCheck"
  /\ ~HasAccount(flow[f].email) /\ UnderLimit
  /\ registration' = [registration EXCEPT ![flow[f].email] = "APPROVED"]
  /\ Goto(f, "approveCreate")
  /\ UNCHANGED <<users, booked, limit, had, overtaken>>

ApproveCheck(f) ==
  /\ flow[f].at = "approveCheck"
  /\ ~HasAccount(flow[f].email) /\ UnderLimit
  /\ Goto(f, "approveCreate")
  /\ UNCHANGED <<users, registration, booked, limit, had, overtaken>>

ApproveCreate(f) ==
  /\ flow[f].at = "approveCreate"
  /\ NewAccount(flow[f].email)
  /\ Goto(f, "approveMark")
  /\ Overtake({f})
  /\ UNCHANGED <<registration, booked, limit>>

ApproveMark(f) ==
  /\ flow[f].at = "approveMark"
  /\ registration' = [registration EXCEPT ![flow[f].email] = "APPROVED"]
  /\ Finish(f)
  /\ Overtake({f})
  /\ UNCHANGED <<users, booked, limit, had>>

RejectWrite(f) ==
  /\ flow[f].at = "reject"
  /\ registration' = [registration EXCEPT ![flow[f].email] = "REJECTED"]
  /\ Finish(f)
  /\ Overtake({f})
  /\ UNCHANGED <<users, booked, limit, had>>

-----------------------------------------------------------------------------
(* Removal and single writes *)

RemoveBeginUncounted(f, u) == Present(u) /\ BeginOn(f, "remove", None, u)

(* remove: the bookings of the account are counted ... *)
RemoveBegin(f, u) == Present(u) /\ u \notin booked /\ BeginOn(f, "remove", None, u)

(* ... and the row is deleted, and with it the bookings that refer to it. *)
RemoveWrite(f) ==
  LET u == flow[f].user
  IN  /\ flow[f].at = "remove"
      /\ Present(u)
      /\ users' = [users EXCEPT ![u].present = FALSE, ![u].active = FALSE]
      /\ booked' = booked \ {u}
      /\ UNCHANGED <<registration, limit, had>>
      /\ Finish(f)
      /\ Overtake({f})

(* No plan check: a deactivated account always comes back. *)
SetActive(u, active) ==
  /\ Present(u)
  /\ users' = [users EXCEPT ![u].active = active]
  /\ UNCHANGED <<registration, booked, limit, flow, had>>
  /\ Overtake({})

(* A booking is made by the user or on the user's behalf. *)
Book(u) ==
  /\ Present(u)
  /\ booked' = booked \cup {u}
  /\ UNCHANGED <<users, registration, limit, flow, had>>
  /\ Overtake({})

SetPlan(max) ==
  /\ limit' = max
  /\ UNCHANGED <<users, registration, booked, flow, had>>
  /\ Overtake({})

Next ==
  \/ \E f \in Flows :
       \/ \E email \in Emails :
            \/ CreateBegin(f, email) \/ ProvisionBegin(f, email) \/ ParkBegin(f, email)
            \/ \E stage \in {"approveCheck", "reject"} : DecisionBegin(f, email, stage)
       \/ Insert(f)
       \/ ParkLookup(f) \/ ParkWrite(f)
       \/ ApproveCheck(f) \/ ApproveCreate(f) \/ ApproveMark(f) \/ RejectWrite(f)
       \/ \E u \in DOMAIN users : RemoveBegin(f, u)
       \/ RemoveWrite(f)
       \/ Abandon(f)
  \/ \E u \in DOMAIN users : Book(u) \/ \E active \in BOOLEAN : SetActive(u, active)
  \/ \E max \in Limits : SetPlan(max)

Spec == Init /\ [][Next]_vars

-----------------------------------------------------------------------------
(* Properties.  Each says of one promise that only a request overtaken by   *)
(* another write can break it: alone, every handler keeps it.               *)

(* "This request has already been decided", and "a rejected address should  *)
(* not be able to re-queue itself": a decision stands, but for an approved  *)
(* address that has lost its account and asks again.                        *)
DecisionStands ==
  [][ \A email \in Emails :
        registration[email] \in {"APPROVED", "REJECTED"}
          /\ registration'[email] # registration[email]
        => \/ \E f \in overtaken : flow[f].email = email /\ flow'[f] # flow[f]
           \/ /\ registration[email] = "APPROVED" /\ registration'[email] = "PENDING"
              /\ ~HasAccount(email) ]_vars

(* A registration is marked approved only after an account was made for it: *)
(* no failure leaves an approved request that never had one.                *)
ApprovedHadAccount ==
  \A email \in Emails : registration[email] = "APPROVED" => email \in had

(* The plan's limit on accounts holds for every account an administrator    *)
(* creates, imports or approves; only provisioning and reactivation exceed  *)
(* it, or two requests that both counted before either inserted.            *)
WithinPlan ==
  [][ \A f \in Flows \ overtaken :
        ( /\ flow[f].at \in {"create", "approveCreate"}
          /\ flow'[f] # flow[f]
          /\ Len(users') > Len(users) )
        => Cardinality(ActiveUsers(users')) <= limit ]_vars

(* "Refused when the person has bookings": an account is deleted with its   *)
(* bookings only if one was made after they were counted.                   *)
HistoryKept ==
  [][ \A u \in booked :
        Present(u) /\ ~Present(u)'
          => \E f \in overtaken : flow[f].user = u /\ flow'[f] # flow[f] ]_vars
=============================================================================
