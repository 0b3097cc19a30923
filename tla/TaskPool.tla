------------------------------ MODULE TaskPool -------------------------------
(***************************************************************************)
(* cartographer's background executor: common/task.cc, the dependency      *)
(* counting of a Task, and common/thread_pool.cc, the pool whose threads   *)
(* run the tasks whose dependencies have completed.  Every critical        *)
(* section of a mutex is one action; what happens between two of them      *)
(* (AddDependency unlocks the dependant before it locks the dependency,    *)
(* Schedule unlocks the pool before it locks the task, a worker drops its  *)
(* reference after it unlocked the task) is left to interleave.            *)
(*                                                                         *)
(* A work item is opaque: it runs between Start and Finish.  A CHECK of    *)
(* the code that fails aborts the process: it sets crashed, and nothing    *)
(* happens afterwards.                                                     *)
(***************************************************************************)
EXTENDS Naturals, Sequences, FiniteSets

CONSTANTS
  Tasks,    \* the tasks that clients will ever create
  Workers,  \* the threads of the pool
  Clients,  \* the threads that call AddDependency and Schedule
  None

ASSUME TaskPoolAssumption ==
  /\ IsFiniteSet(Tasks)
  /\ Workers # {}
  /\ None \notin Tasks

VARIABLES
  state,        \* Task::state_
  uncompleted,  \* Task::uncompleted_dependencies_
  dependents,   \* Task::dependent_tasks_
  running,      \* ThreadPool::running_
  notReady,     \* ThreadPool::tasks_not_ready_
  queue,        \* ThreadPool::task_queue_
  wpc, wtask,   \* DoWork: where each thread stands, and its local 'task'
  todo,         \* the dependants Task::Execute has still to notify
  cpc, ctask, cdep, \* what each client is in the middle of
  scheduled,    \* the tasks whose unique_ptr has gone to Schedule
  deps,         \* the dependencies asked for: a history, nothing reads it back
  crashed       \* a CHECK failed

taskVars   == << state, uncompleted, dependents >>
poolVars   == << running, notReady, queue >>
workerVars == << wpc, wtask, todo >>
clientVars == << cpc, ctask, cdep >>
vars == << taskVars, poolVars, workerVars, clientVars, scheduled, deps, crashed >>

States == {"NEW", "DISPATCHED", "DEPENDENCIES_COMPLETED", "RUNNING", "COMPLETED"}

TaskTypeOK ==
  /\ state \in [Tasks -> States]
  /\ uncompleted \in [Tasks -> Nat]
  /\ dependents \in [Tasks -> SUBSET Tasks]

PoolTypeOK ==
  /\ running \in BOOLEAN
  /\ notReady \in SUBSET Tasks
  /\ queue \in Seq(Tasks)

WorkerTypeOK ==
  /\ wpc \in [Workers -> {"await", "popped", "running", "notifying", "unlocked", "returned"}]
  /\ wtask \in [Workers -> Tasks \cup {None}]
  /\ todo \in [Workers -> SUBSET Tasks]

ClientTypeOK ==
  /\ cpc \in [Clients -> {"idle", "linking", "dispatching"}]
  /\ ctask \in [Clients -> Tasks \cup {None}]
  /\ cdep \in [Clients -> Tasks \cup {None}]

TypeOK ==
  /\ TaskTypeOK
  /\ PoolTypeOK
  /\ WorkerTypeOK
  /\ ClientTypeOK
  /\ scheduled \in SUBSET Tasks
  /\ deps \in [Tasks -> SUBSET Tasks]
  /\ crashed \in BOOLEAN

Init ==
  /\ state = [t \in Tasks |-> "NEW"]
  /\ uncompleted = [t \in Tasks |-> 0]
  /\ dependents = [t \in Tasks |-> {}]
  /\ running = TRUE
  /\ notReady = {}
  /\ queue = << >>
  /\ wpc = [w \in Workers |-> "await"]
  /\ wtask = [w \in Workers |-> None]
  /\ todo = [w \in Workers |-> {}]
  /\ cpc = [c \in Clients |-> "idle"]
  /\ ctask = [c \in Clients |-> None]
  /\ cdep = [c \in Clients |-> None]
  /\ scheduled = {}
  /\ deps = [t \in Tasks |-> {}]
  /\ crashed = FALSE

-----------------------------------------------------------------------------
(* Ownership.  A scheduled task lives as long as a shared_ptr to it: in the *)
(* pool's map or queue, in a worker's or a client's local variable.         *)
Queued(t) == \E i \in 1..Len(queue) : queue[i] = t

Alive(t) ==
  \/ t \in notReady
  \/ Queued(t)
  \/ \E w \in Workers : wtask[w] = t
  \/ \E c \in Clients : t \in {ctask[c], cdep[c]}

(* A task that no client is working on and that was not yet handed over.    *)
Owned(t) == t \notin scheduled /\ \A c \in Clients : ctask[c] # t

(* Task::Execute keeps the mutex of the task while it notifies dependants.  *)
MutexFree(t) == \A w \in Workers : ~(wtask[w] = t /\ wpc[w] = "notifying")

Check(condition) == crashed' = ~condition

-----------------------------------------------------------------------------
(* Seeded fault: the task leaves the map without entering the queue.        *)
MakeReadyForgets(t) ==
  /\ state' = [state EXCEPT ![t] = "DEPENDENCIES_COMPLETED"]
  /\ notReady' = notReady \ {t}
  /\ UNCHANGED queue

(* ThreadPool::NotifyDependenciesCompleted, entered with the mutex of t     *)
(* held, and the transition of its two callers.                             *)
MakeReady(t) ==
  /\ state' = [state EXCEPT ![t] = "DEPENDENCIES_COMPLETED"]
  /\ queue' = Append(queue, t)
  /\ notReady' = notReady \ {t}

(* Seeded faults: the test of the state, or of the count, is dropped.       *)
ReadiesAnyState(t) == uncompleted[t] = 1
ReadiesEarly(t) == state[t] = "DISPATCHED"

(* The decrement reaches zero, and Schedule already has had the task.       *)
Readies(t) == uncompleted[t] = 1 /\ state[t] = "DISPATCHED"

(* Task::OnDependenyCompleted, called by a completed dependency of t.       *)
OnDependencyCompleted(t) ==
  /\ uncompleted' = [uncompleted EXCEPT ![t] = @ - 1]
  /\ IF Readies(t)
     THEN /\ Check(t \in notReady)
          /\ MakeReady(t)
     ELSE /\ Check(state[t] \in {"NEW", "DISPATCHED"})
          /\ UNCHANGED << state, queue, notReady >>

-----------------------------------------------------------------------------
(* The clients.                                                             *)

CountDependency(t) == uncompleted' = [uncompleted EXCEPT ![t] = @ + 1]

(* Task::AddDependency up to its unlock: if the handle has not expired, it  *)
(* counts one more dependency and keeps it alive.                           *)
AddDependency(c, t, d) ==
  /\ cpc[c] = "idle"
  /\ Owned(t)
  /\ d \in scheduled
  /\ d \notin deps[t]
  /\ Check(state[t] = "NEW")
  /\ deps' = [deps EXCEPT ![t] = @ \cup {d}]
  /\ IF Alive(d)
     THEN /\ CountDependency(t)
          /\ cpc' = [cpc EXCEPT ![c] = "linking"]
          /\ ctask' = [ctask EXCEPT ![c] = t]
          /\ cdep' = [cdep EXCEPT ![c] = d]
     ELSE UNCHANGED << uncompleted, clientVars >>
  /\ UNCHANGED << state, dependents, poolVars, workerVars, scheduled >>

ClientReturns(c) ==
  /\ cpc' = [cpc EXCEPT ![c] = "idle"]
  /\ ctask' = [ctask EXCEPT ![c] = None]
  /\ cdep' = [cdep EXCEPT ![c] = None]

AlreadyCompleted(d) == state[d] = "COMPLETED"

(* Task::AddDependentTask on the dependency, which may have completed since *)
AddDependentTask(c) ==
  /\ cpc[c] = "linking"
  /\ MutexFree(cdep[c])
  /\ IF AlreadyCompleted(cdep[c])
     THEN /\ OnDependencyCompleted(ctask[c])
          /\ UNCHANGED dependents
     ELSE /\ Check(ctask[c] \notin dependents[cdep[c]])
          /\ dependents' = [dependents EXCEPT ![cdep[c]] = @ \cup {ctask[c]}]
          /\ UNCHANGED << uncompleted, state, queue, notReady >>
  /\ ClientReturns(c)
  /\ UNCHANGED << running, workerVars, scheduled, deps >>

(* ThreadPool::Schedule: the pool takes the task ...                        *)
Schedule(c, t) ==
  /\ running
  /\ cpc[c] = "idle"
  /\ Owned(t)
  /\ Check(t \notin notReady)
  /\ notReady' = notReady \cup {t}
  /\ scheduled' = scheduled \cup {t}
  /\ cpc' = [cpc EXCEPT ![c] = "dispatching"]
  /\ ctask' = [ctask EXCEPT ![c] = t]
  /\ UNCHANGED << taskVars, running, queue, workerVars, cdep, deps >>

(* ... and then, in Task::SetThreadPool, the task learns of the pool.       *)
SetThreadPool(c) ==
  LET t == ctask[c] IN
  /\ cpc[c] = "dispatching"
  /\ IF uncompleted[t] = 0
     THEN /\ Check(state[t] = "NEW" /\ t \in notReady)
          /\ MakeReady(t)
     ELSE /\ Check(state[t] = "NEW")
          /\ state' = [state EXCEPT ![t] = "DISPATCHED"]
          /\ UNCHANGED << queue, notReady >>
  /\ ClientReturns(c)
  /\ UNCHANGED << uncompleted, dependents, running, workerVars, scheduled, deps >>

(* ~ThreadPool: its owner has no call in progress any more.                 *)
Shutdown ==
  /\ \A c \in Clients : cpc[c] = "idle"
  /\ running
  /\ running' = FALSE
  /\ UNCHANGED << taskVars, notReady, queue, workerVars, clientVars, scheduled, deps, crashed >>

-----------------------------------------------------------------------------
(* The workers: ThreadPool::DoWork and Task::Execute.                       *)
Pop(w) ==
  /\ wpc[w] = "await"
  /\ queue # << >>
  /\ wtask' = [wtask EXCEPT ![w] = Head(queue)]
  /\ queue' = Tail(queue)
  /\ wpc' = [wpc EXCEPT ![w] = "popped"]
  /\ UNCHANGED << taskVars, running, notReady, todo, clientVars, scheduled, deps, crashed >>

Start(w) ==
  /\ wpc[w] = "popped"
  /\ Check(state[wtask[w]] = "DEPENDENCIES_COMPLETED")
  /\ state' = [state EXCEPT ![wtask[w]] = "RUNNING"]
  /\ wpc' = [wpc EXCEPT ![w] = "running"]
  /\ UNCHANGED << uncompleted, dependents, poolVars, wtask, todo, clientVars, scheduled, deps >>

(* The work item has returned; the worker takes the mutex and keeps it.     *)
Finish(w) ==
  /\ wpc[w] = "running"
  /\ state' = [state EXCEPT ![wtask[w]] = "COMPLETED"]
  /\ todo' = [todo EXCEPT ![w] = dependents[wtask[w]]]
  /\ wpc' = [wpc EXCEPT ![w] = "notifying"]
  /\ UNCHANGED << uncompleted, dependents, poolVars, wtask, clientVars, scheduled, deps, crashed >>

NotifyDependent(w) ==
  /\ wpc[w] = "notifying"
  /\ \E t \in todo[w] :
       /\ OnDependencyCompleted(t)
       /\ todo' = [todo EXCEPT ![w] = @ \ {t}]
  /\ UNCHANGED << dependents, running, wpc, wtask, clientVars, scheduled, deps >>

Unlock(w) ==
  /\ wpc[w] = "notifying"
  /\ todo[w] = {}
  /\ wpc' = [wpc EXCEPT ![w] = "unlocked"]
  /\ UNCHANGED << taskVars, poolVars, wtask, todo, clientVars, scheduled, deps, crashed >>

(* The end of the loop body: the worker's shared_ptr goes.                  *)
Release(w) ==
  /\ wpc[w] = "unlocked"
  /\ wpc' = [wpc EXCEPT ![w] = "await"]
  /\ wtask' = [wtask EXCEPT ![w] = None]
  /\ UNCHANGED << taskVars, poolVars, todo, clientVars, scheduled, deps, crashed >>

(* Seeded fault: a worker leaves as soon as the pool is being destroyed.    *)
MayReturnAtOnce == ~running

(* The exit of the loop: only once the queue is empty.                      *)
MayReturn == queue = << >> /\ ~running

Return(w) ==
  /\ wpc[w] = "await"
  /\ MayReturn
  /\ wpc' = [wpc EXCEPT ![w] = "returned"]
  /\ UNCHANGED << taskVars, poolVars, wtask, todo, clientVars, scheduled, deps, crashed >>

-----------------------------------------------------------------------------
ClientStep(c) ==
  \/ AddDependentTask(c)
  \/ SetThreadPool(c)

WorkerStep(w) ==
  \/ Pop(w)
  \/ Start(w)
  \/ Finish(w)
  \/ NotifyDependent(w)
  \/ Unlock(w)
  \/ Release(w)
  \/ Return(w)

(* The destructor has joined every thread.                                  *)
Joined == \A w \in Workers : wpc[w] = "returned"
Stopped == Joined /\ UNCHANGED vars

Next ==
  \/ /\ ~crashed
     /\ \/ \E c \in Clients, t \in Tasks :
             \/ \E d \in Tasks : AddDependency(c, t, d)
             \/ Schedule(c, t)
        \/ \E c \in Clients : ClientStep(c)
        \/ \E w \in Workers : WorkerStep(w)
        \/ Shutdown
  \/ Stopped

(* The operating system runs every thread that can run, and work items      *)
(* return.  Nothing obliges a client to make another call, nor the owner to *)
(* destroy the pool.                                                        *)
Fairness ==
  /\ \A c \in Clients : WF_vars(~crashed /\ ClientStep(c))
  /\ \A w \in Workers : WF_vars(~crashed /\ WorkerStep(w))

SafeSpec == Init /\ [][Next]_vars
Spec == SafeSpec /\ Fairness

-----------------------------------------------------------------------------
(* Properties.                                                              *)

(* No CHECK of task.cc and thread_pool.cc ever fails, whatever clients do   *)
(* within the API: a notification reaches a task that still waits, a ready  *)
(* task is still in the pool's map, a popped one has not been started.      *)
NoCheckFails == ~crashed

(* A work item never starts before every task it was made to depend on has  *)
(* completed, including those whose handle had already expired and those    *)
(* that completed in the middle of AddDependency.                           *)
RunsAfterDependencies ==
  \A t \in Tasks :
    state[t] \in {"RUNNING", "COMPLETED"} => \A d \in deps[t] : state[d] = "COMPLETED"

(* The dependencies that still owe t a notification.                        *)
Waiting(t) ==
  {d \in Tasks :
     \/ t \in dependents[d] /\ state[d] # "COMPLETED"
     \/ \E w \in Workers : wtask[w] = d /\ t \in todo[w]
     \/ \E c \in Clients : cpc[c] = "linking" /\ ctask[c] = t /\ cdep[c] = d}

(* uncompleted_dependencies_ is never out by one, not even between the      *)
(* increment in AddDependency and the registration in AddDependentTask.     *)
CounterExact == \A t \in Tasks : uncompleted[t] = Cardinality(Waiting(t))

(* thread_pool.h: "When the returned weak pointer is expired, 'task' has    *)
(* certainly completed, so dependants no longer need to add it".            *)
ExpiredMeansCompleted ==
  \A t \in scheduled : ~Alive(t) => state[t] = "COMPLETED"

(* The destructor joins its threads only when everything that was scheduled *)
(* has run: dropping tasks_not_ready_ drops nothing.                        *)
DrainedWhenJoined == Joined => \A t \in scheduled : state[t] = "COMPLETED"
-----------------------------------------------------------------------------
(* The refinement of TaskGraph.                                             *)
phaseOf(t) ==
  IF state[t] = "RUNNING" THEN "executing"
  ELSE IF state[t] = "COMPLETED" THEN "completed"
  ELSE IF t \in scheduled THEN "scheduled" ELSE "created"

phaseBar == [t \in Tasks |-> phaseOf(t)]

Graph == INSTANCE TaskGraph WITH phase <- phaseBar, deps <- deps

(* The pool is a task graph: it starts a task once, after its dependencies, *)
(* and starts every task that it may start.                                 *)
ImplementsTaskGraph == Graph!Spec
=============================================================================
