------------------------------ MODULE TaskGraph ------------------------------
(***************************************************************************)
(* What cartographer's background executor promises its callers            *)
(* (common/task.h, common/thread_pool.h): a work item runs once, only      *)
(* after every task it was made to depend on has completed, and every      *)
(* scheduled work item is eventually run.  No threads, no queue, no lock.  *)
(***************************************************************************)

CONSTANT Tasks

VARIABLES
  phase,   \* per task: "created", "scheduled", "executing" or "completed"
  deps     \* per task: the tasks it was made to depend on

vars == << phase, deps >>

Init ==
  /\ phase = [t \in Tasks |-> "created"]
  /\ deps  = [t \in Tasks |-> {}]

(* A dependency is a handle that an earlier Schedule returned, so the graph *)
(* can only grow backwards in time and has no cycle.                        *)
Depend(t, d) ==
  /\ phase[t] = "created"
  /\ phase[d] # "created"
  /\ deps' = [deps EXCEPT ![t] = @ \cup {d}]
  /\ UNCHANGED phase

Submit(t) ==
  /\ phase[t] = "created"
  /\ phase' = [phase EXCEPT ![t] = "scheduled"]
  /\ UNCHANGED deps

Start(t) ==
  /\ phase[t] = "scheduled"
  /\ \A d \in deps[t] : phase[d] = "completed"
  /\ phase' = [phase EXCEPT ![t] = "executing"]
  /\ UNCHANGED deps

Finish(t) ==
  /\ phase[t] = "executing"
  /\ phase' = [phase EXCEPT ![t] = "completed"]
  /\ UNCHANGED deps

Next ==
  \E t \in Tasks :
    \/ \E d \in Tasks : Depend(t, d)
    \/ Submit(t)
    \/ Start(t)
    \/ Finish(t)

SafeSpec == Init /\ [][Next]_vars

Spec ==
  /\ SafeSpec
  /\ \A t \in Tasks : WF_vars(Start(t)) /\ WF_vars(Finish(t))
=============================================================================
