--------------------------- MODULE ConstraintBuilder ---------------------------
(***************************************************************************)
(* cartographer's loop closure search,                                     *)
(* mapping/internal/constraints/constraint_builder_2d.cc.  A search tries  *)
(* to match one node against one submap in the background; the results of  *)
(* a cycle of searches are handed to the callback of WhenDone.             *)
(*                                                                         *)
(* The thread pool is abstracted to what TaskPool.tla shows it to promise  *)
(* (TaskGraph.tla): a task runs some time after all its dependencies have  *)
(* completed.  The poses and the scores are left out: a search finds a     *)
(* match or does not.  Its slot in constraints_ is written through a raw   *)
(* pointer, its scan matcher is reached through a reference: the model     *)
(* keeps who still holds them apart from what is still there.              *)
(*                                                                         *)
(* This module has the operations; ConstraintCycle.tla calls them as the   *)
(* header asks to, PoseGraph.tla as the pose graph does.                   *)
(***************************************************************************)
EXTENDS Naturals, FiniteSets

CONSTANTS
  Submaps,  \* SubmapId
  Nodes,    \* NodeId
  NoCallback

Searches == Submaps \X Nodes

VARIABLES
  slots,        \* constraints_: the searches that have an entry
  found,        \* those whose entry holds a constraint
  outstanding,  \* constraint tasks that have not completed
  matchers,     \* submap_scan_matchers_
  building,     \* creation tasks that have not completed
  nodeDeps,     \* the dependencies of finish_node_task_
  finishing,    \* the scheduled finish-node tasks that have not completed
  doneDeps,     \* the dependencies of when_done_task_
  callback,     \* when_done_
  doneTasks,    \* the scheduled when-done tasks: what each waits for
  numStarted,   \* num_started_nodes_
  numFinished,  \* num_finished_nodes_
  checkFailed   \* a CHECK of this class failed

searchVars == << slots, found, outstanding, matchers, building >>
nodeVars   == << nodeDeps, finishing, numStarted, numFinished >>
doneVars   == << doneDeps, callback, doneTasks >>
cbVars     == << searchVars, nodeVars, doneVars, checkFailed >>

\* A finish-node task: its place among the calls of NotifyEndOfNode, and the
\* searches it waits for.
FinishTasks == [id : Nat, deps : SUBSET Searches]

CBInit ==
  /\ slots = {} /\ found = {} /\ outstanding = {}
  /\ matchers = {} /\ building = {}
  /\ nodeDeps = {} /\ finishing = {} /\ numStarted = 0 /\ numFinished = 0
  /\ doneDeps = {} /\ callback = NoCallback /\ doneTasks = {}
  /\ checkFailed = FALSE

(***************************************************************************)
(* The calls.                                                              *)
(***************************************************************************)

\* Mutant: the end of the node does not wait for the search.
MaybeAddConstraint_NoDep(p) ==
  /\ slots' = slots \cup {p}
  /\ outstanding' = outstanding \cup {p}
  /\ nodeDeps' = nodeDeps
  /\ matchers' = matchers \cup {p[1]}
  /\ building' = IF p[1] \in matchers THEN building ELSE building \cup {p[1]}
  /\ UNCHANGED << found, finishing, numStarted, numFinished, doneVars, checkFailed >>

\* MaybeAddConstraint and MaybeAddGlobalConstraint, past the distance and the
\* sampler: while when_done_ is set they only log a warning.
MaybeAddConstraint(p) ==
  /\ slots' = slots \cup {p}
  /\ outstanding' = outstanding \cup {p}
  /\ nodeDeps' = nodeDeps \cup {p}
  /\ matchers' = matchers \cup {p[1]}
  /\ building' = IF p[1] \in matchers THEN building ELSE building \cup {p[1]}
  /\ UNCHANGED << found, finishing, numStarted, numFinished, doneVars, checkFailed >>

\* Mutant: WhenDone does not wait for the node.
NotifyEndOfNode_NoDep ==
  /\ finishing' = finishing \cup {[id |-> numStarted, deps |-> nodeDeps]}
  /\ nodeDeps' = {}
  /\ doneDeps' = doneDeps
  /\ numStarted' = numStarted + 1
  /\ UNCHANGED << searchVars, numFinished, callback, doneTasks, checkFailed >>

NotifyEndOfNode ==
  /\ finishing' = finishing \cup {[id |-> numStarted, deps |-> nodeDeps]}
  /\ nodeDeps' = {}
  /\ doneDeps' = doneDeps \cup {numStarted}
  /\ numStarted' = numStarted + 1
  /\ UNCHANGED << searchVars, numFinished, callback, doneTasks, checkFailed >>

\* Mutant: the task is not scheduled.
WhenDone_NoTask(cb) ==
  IF callback # NoCallback
  THEN /\ checkFailed' = TRUE
       /\ UNCHANGED << searchVars, nodeVars, doneVars >>
  ELSE /\ callback' = cb
       /\ doneTasks' = doneTasks
       /\ doneDeps' = {}
       /\ UNCHANGED << searchVars, nodeVars, checkFailed >>

WhenDone(cb) ==
  IF callback # NoCallback
  THEN /\ checkFailed' = TRUE
       /\ UNCHANGED << searchVars, nodeVars, doneVars >>
  ELSE /\ callback' = cb
       /\ doneTasks' = doneTasks \cup {doneDeps}
       /\ doneDeps' = {}
       /\ UNCHANGED << searchVars, nodeVars, checkFailed >>

DeleteScanMatchers(S) ==
  /\ matchers' = matchers \ S
  /\ UNCHANGED << slots, found, outstanding, building, nodeVars, doneVars, checkFailed >>

\* What ~ConstraintBuilder2D CHECKs (the two tasks it holds are always NEW).
DestructorChecks ==
  /\ slots = {}
  /\ numStarted = numFinished
  /\ callback = NoCallback

(***************************************************************************)
(* The tasks.                                                              *)
(***************************************************************************)

\* The work item of a scan matcher's creation task.
BuildMatcher(s) ==
  /\ s \in building
  /\ building' = building \ {s}
  /\ UNCHANGED << slots, found, outstanding, matchers, nodeVars, doneVars, checkFailed >>

\* ComputeConstraint, which starts once the matcher has been built.
Compute(p) ==
  /\ p \in outstanding
  /\ p[1] \notin building
  /\ outstanding' = outstanding \ {p}
  /\ \/ found' = found \cup {p}
     \/ found' = found
  /\ UNCHANGED << slots, matchers, building, nodeVars, doneVars, checkFailed >>

\* The work item of a finish-node task.
FinishNode(t) ==
  /\ t \in finishing
  /\ t.deps \cap outstanding = {}
  /\ finishing' = finishing \ {t}
  /\ numFinished' = numFinished + 1
  /\ UNCHANGED << searchVars, nodeDeps, numStarted, doneVars, checkFailed >>

\* Mutant: the task waits for nothing.
RunWhenDone_Early(d) ==
  /\ d \in doneTasks
  /\ checkFailed' = (callback = NoCallback)
  /\ slots' = {}
  /\ found' = {}
  /\ callback' = NoCallback
  /\ doneTasks' = doneTasks \ {d}
  /\ UNCHANGED << outstanding, matchers, building, nodeVars, doneDeps >>

\* RunWhenDoneCallback, the work item of the when-done task, up to the call of
\* the callback, which gets 'found'.
RunWhenDone(d) ==
  /\ d \in doneTasks
  /\ \A t \in finishing : t.id \notin d
  /\ checkFailed' = (callback = NoCallback)
  /\ slots' = {}
  /\ found' = {}
  /\ callback' = NoCallback
  /\ doneTasks' = doneTasks \ {d}
  /\ UNCHANGED << outstanding, matchers, building, nodeVars, doneDeps >>

CBTask ==
  \/ \E s \in building : BuildMatcher(s)
  \/ \E p \in outstanding : Compute(p)
  \/ \E t \in finishing : FinishNode(t)

(***************************************************************************)
(* Properties of every use of the class.                                   *)
(***************************************************************************)

CBTypeOK ==
  /\ slots \in SUBSET Searches
  /\ found \in SUBSET Searches
  /\ outstanding \in SUBSET Searches
  /\ matchers \in SUBSET Submaps
  /\ building \in SUBSET Submaps
  /\ nodeDeps \in SUBSET Searches
  /\ finishing \in SUBSET FinishTasks
  /\ doneDeps \in SUBSET Nat
  /\ doneTasks \in SUBSET SUBSET Nat
  /\ numStarted \in Nat
  /\ numFinished \in Nat
  /\ checkFailed \in BOOLEAN

\* What a running search reaches through raw pointers is still there: the
\* entry of constraints_ it will write (RunWhenDoneCallback clears the deque)
\* and the scan matcher it reads (DeleteScanMatcher erases it).
PointeesAlive ==
  /\ outstanding \subseteq slots
  /\ \A p \in outstanding : p[1] \in matchers
  /\ building \subseteq matchers
=============================================================================
