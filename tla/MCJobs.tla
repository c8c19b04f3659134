------------------------------- MODULE MCJobs -------------------------------
(* What repeats itself: the interval jobs over one booking, with two        *)
(* failures or restarts; and the calls of two tabs of a browser, two at a   *)
(* time and of one account, which are repeated after a renewal.  They share *)
(* no state: a behaviour is of one of them, the other one rests where it    *)
(* begins.                                                                  *)
EXTENDS Jobs, Session

CONSTANTS a, ann, t1, t2, c1, c2

slot(s, e) == [start |-> s, end |-> e]

(* A short meeting, the same extended, and a later time. *)
MCSlots == { slot(1, 2), slot(1, 3), slot(3, 4) }

VARIABLE side

MCInit ==
  /\ side \in {"jobs", "tabs"}
  /\ Init /\ SessionInit
  /\ side = "jobs" => renews /\ last = NoOne
  /\ side = "tabs" => rows[a].slot = slot(3, 4) /\ rows[a].status = "APPROVED"

MCNext ==
  \/ side = "jobs" /\ Next /\ UNCHANGED <<side, sessionVars>>
  \/ side = "tabs" /\ SessionNext /\ UNCHANGED <<side, vars>>

(* The fairness of Spec and of SessionSpec, each where its part moves. *)
MCFairness ==
  /\ WF_vars(side = "jobs" /\ SweepStep) /\ WF_vars(side = "jobs" /\ DispatchStep)
  /\ \A t \in Tabs, c \in Lanes : WF_sessionVars(side = "tabs" /\ CallReplies(t, c))
  /\ \A t \in Tabs : WF_sessionVars(side = "tabs" /\ RenewalReplies(t))

MCSpec == MCInit /\ [][MCNext]_<<side, vars, sessionVars>> /\ MCFairness
=============================================================================
