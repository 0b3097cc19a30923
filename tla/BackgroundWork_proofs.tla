------------------------ MODULE BackgroundWork_proofs -------------------------
(***************************************************************************)
(* Proofs about cartographer's work in the background.  First TaskPool,    *)
(* the executor, for any number of tasks, threads and clients: the         *)
(* inductive invariant says where a task is in each of its states, that no *)
(* two threads hold the same task, and that a dependency owes its          *)
(* dependant a notification for one reason at a time.  Then                *)
(* ConstraintCycle, the loop closure searches that run on it, for any      *)
(* submaps, nodes, callbacks and any number of cycles.                     *)
(***************************************************************************)
EXTENDS TaskPool, ConstraintCycle, FiniteSetTheorems, TLAPS

-----------------------------------------------------------------------------
(* The inductive invariant.                                                 *)

(* The queue holds ready tasks, each of them once.                          *)
QueueInv ==
  /\ \A i \in 1..Len(queue) :
       state[queue[i]] = "DEPENDENCIES_COMPLETED" /\ queue[i] \in scheduled
  /\ \A i, j \in 1..Len(queue) : queue[i] = queue[j] => i = j

(* What the state of a worker says of the task in its hands.                *)
WorkerInv ==
  /\ \A w \in Workers :
       /\ wpc[w] \in {"await", "returned"} <=> wtask[w] = None
       /\ wpc[w] = "popped" =>
            state[wtask[w]] = "DEPENDENCIES_COMPLETED" /\ ~Queued(wtask[w])
       /\ wpc[w] = "running" => state[wtask[w]] = "RUNNING"
       /\ wpc[w] \in {"notifying", "unlocked"} => state[wtask[w]] = "COMPLETED"
       /\ wpc[w] # "notifying" => todo[w] = {}
       /\ wtask[w] # None => wtask[w] \in scheduled
  /\ \A v, w \in Workers : wtask[v] = wtask[w] /\ wtask[v] # None => v = w

(* What a client in the middle of a call knows of its task.                 *)
ClientInv ==
  /\ \A c \in Clients :
       /\ cpc[c] = "idle" <=> ctask[c] = None
       /\ cpc[c] = "linking" <=> cdep[c] # None
       /\ cpc[c] = "linking" =>
            /\ ctask[c] \notin scheduled
            /\ cdep[c] \in deps[ctask[c]]
            /\ ctask[c] \notin dependents[cdep[c]]
       /\ cpc[c] = "dispatching" =>
            /\ ctask[c] \in scheduled
            /\ ctask[c] \in notReady
            /\ state[ctask[c]] = "NEW"
  /\ \A b, c \in Clients : ctask[b] = ctask[c] /\ ctask[b] # None => b = c

(* Where a task is in each of its states.                                   *)
PlaceInv ==
  \A t \in Tasks :
    /\ t \notin scheduled => state[t] = "NEW" /\ t \notin notReady
    /\ state[t] = "NEW" /\ t \in scheduled =>
         \E c \in Clients : cpc[c] = "dispatching" /\ ctask[c] = t
    /\ state[t] = "DISPATCHED" => t \in notReady
    /\ t \in notReady => state[t] \in {"NEW", "DISPATCHED"}
    /\ state[t] = "DEPENDENCIES_COMPLETED" =>
         Queued(t) \/ \E w \in Workers : wtask[w] = t
    /\ state[t] = "RUNNING" => \E w \in Workers : wtask[w] = t

(* A dependency that has not completed still owes a notification, and a     *)
(* task that has left the map is owed none.                                 *)
DependencyInv ==
  /\ \A t \in Tasks : \A d \in deps[t] : d \in Waiting(t) \/ state[d] = "COMPLETED"
  /\ \A t, d \in Tasks : t \in dependents[d] => d \in deps[t]
  /\ \A w \in Workers : \A t \in todo[w] : t \in dependents[wtask[w]]
  /\ \A t \in Tasks : state[t] \notin {"NEW", "DISPATCHED"} => Waiting(t) = {}

IInv ==
  /\ TypeOK
  /\ QueueInv
  /\ WorkerInv
  /\ ClientInv
  /\ PlaceInv
  /\ DependencyInv
  /\ CounterExact
  /\ NoCheckFails

-----------------------------------------------------------------------------
(* Lemmas.                                                                  *)

(* Who waits for whom is a finite question.                                 *)
LEMMA WaitingFinite ==
  \A t : IsFiniteSet(Waiting(t)) /\ Waiting(t) \subseteq Tasks
<1>1. ASSUME NEW t PROVE Waiting(t) \subseteq Tasks
  BY DEF Waiting
<1> QED
  BY <1>1, FS_Subset, TaskPoolAssumption

(* Nobody waits for a task that was not asked for.                          *)
LEMMA WaitingInDeps ==
  ASSUME TypeOK, ClientInv, DependencyInv, WorkerInv
  PROVE  \A t \in Tasks : Waiting(t) \subseteq deps[t]
<1> SUFFICES ASSUME NEW t \in Tasks, NEW d \in Waiting(t) PROVE d \in deps[t]
  OBVIOUS
<1>1. d \in Tasks
  BY DEF Waiting
<1>2. CASE t \in dependents[d]
  BY <1>1, <1>2 DEF DependencyInv
<1>3. CASE \E w \in Workers : wtask[w] = d /\ t \in todo[w]
  BY <1>1, <1>3 DEF DependencyInv
<1>4. CASE \E c \in Clients : cpc[c] = "linking" /\ ctask[c] = t /\ cdep[c] = d
  BY <1>4 DEF ClientInv
<1> QED
  BY <1>2, <1>3, <1>4 DEF Waiting

(* A counter that reads zero means that nothing is owed.                    *)
LEMMA ZeroWaiting ==
  ASSUME CounterExact, NEW t \in Tasks, uncompleted[t] = 0
  PROVE  Waiting(t) = {}
BY WaitingFinite, FS_EmptySet DEF CounterExact

(* One notification pays for one dependency.                                *)
LEMMA OneFewer ==
  ASSUME NEW S, IsFiniteSet(S), NEW d \in S
  PROVE  /\ Cardinality(S) \in Nat
         /\ Cardinality(S) > 0
         /\ Cardinality(S \ {d}) = Cardinality(S) - 1
         /\ Cardinality(S) = 1 => S = {d}
<1>1. Cardinality(S) \in Nat /\ IsFiniteSet(S \ {d}) /\ Cardinality(S \ {d}) \in Nat
  BY FS_CardinalityType, FS_RemoveElement
<1>2. Cardinality(S \ {d}) = Cardinality(S) - 1
  BY FS_RemoveElement
<1>3. Cardinality(S) > 0
  BY <1>1, FS_EmptySet
<1>4. Cardinality(S) = 1 => S \ {d} = {}
  BY <1>1, <1>2, FS_EmptySet
<1> QED
  BY <1>1, <1>2, <1>3, <1>4

(* A task whose handle has expired has completed.                           *)
LEMMA ExpiredLemma ==
  ASSUME TypeOK, PlaceInv
  PROVE  ExpiredMeansCompleted
<1> SUFFICES ASSUME NEW t \in scheduled, ~Alive(t) PROVE state[t] = "COMPLETED"
  BY DEF ExpiredMeansCompleted
<1>1. t \in Tasks /\ state[t] \in States
  BY DEF TypeOK, TaskTypeOK
<1>2. t \notin notReady /\ ~Queued(t) /\ ~(\E w \in Workers : wtask[w] = t)
  BY DEF Alive
<1>3. ~(\E c \in Clients : cpc[c] = "dispatching" /\ ctask[c] = t)
  BY DEF Alive
<1> QED
  BY <1>1, <1>2, <1>3 DEF PlaceInv, States

(* A task that runs is owed nothing, so all it asked for has completed.     *)
LEMMA OrderLemma ==
  ASSUME TypeOK, DependencyInv
  PROVE  RunsAfterDependencies
BY DEF TypeOK, DependencyInv, RunsAfterDependencies

-----------------------------------------------------------------------------
(* The invariant holds initially and no step leaves it.                     *)

LEMMA InitInv == Init => IInv
<1> SUFFICES ASSUME Init PROVE IInv
  OBVIOUS
<1> USE DEF Init
<1>1. TypeOK
  <2>1. TaskTypeOK /\ PoolTypeOK
    BY DEF TaskTypeOK, PoolTypeOK, States
  <2>2. WorkerTypeOK /\ ClientTypeOK
    BY DEF WorkerTypeOK, ClientTypeOK
  <2> QED
    BY <2>1, <2>2 DEF TypeOK
<1>2. QueueInv /\ ClientInv /\ PlaceInv /\ NoCheckFails
  BY DEF QueueInv, ClientInv, PlaceInv, NoCheckFails
<1>3. WorkerInv
  BY DEF WorkerInv
<1>4. \A t \in Tasks : Waiting(t) = {}
  BY DEF Waiting
<1>5. DependencyInv
  BY <1>4 DEF DependencyInv
<1>6. CounterExact
  BY <1>4, FS_EmptySet DEF CounterExact
<1> QED
  BY <1>1, <1>2, <1>3, <1>5, <1>6 DEF IInv

LEMMA AddDependencyInv ==
  ASSUME IInv, NEW c \in Clients, NEW t \in Tasks, NEW d \in Tasks, AddDependency(c, t, d)
  PROVE  IInv'
<1> USE DEF AddDependency
<1>a. TypeOK /\ QueueInv /\ WorkerInv /\ ClientInv /\ PlaceInv /\ DependencyInv /\ CounterExact
  BY DEF IInv
<1>1. state[t] = "NEW"
  BY <1>a DEF Owned, PlaceInv
<1>2. NoCheckFails' /\ crashed' \in BOOLEAN
  BY <1>1 DEF Check, NoCheckFails
<1>3. QueueInv' /\ WorkerInv' /\ PoolTypeOK' /\ WorkerTypeOK'
  BY <1>a DEF QueueInv, WorkerInv, poolVars, workerVars, Queued, TypeOK, PoolTypeOK, WorkerTypeOK
<1>4. deps' \in [Tasks -> SUBSET Tasks] /\ scheduled' \in SUBSET Tasks
  BY <1>a DEF TypeOK
<1>5. deps'[t] = deps[t] \cup {d} /\ \A u \in Tasks \ {t} : deps'[u] = deps[u]
  BY <1>a DEF TypeOK
<1>6. CASE Alive(d)
  <2> USE <1>6 DEF CountDependency
  <2>1. TaskTypeOK' /\ ClientTypeOK'
    BY <1>a DEF TypeOK, TaskTypeOK, ClientTypeOK
  <2>2. t \notin dependents[d]
    BY <1>a DEF DependencyInv
  <2>3. d \notin Waiting(t)
    BY <1>a, WaitingInDeps
  <2>4. /\ cpc'[c] = "linking" /\ ctask'[c] = t /\ cdep'[c] = d
        /\ \A b \in Clients \ {c} : cpc'[b] = cpc[b] /\ ctask'[b] = ctask[b] /\ cdep'[b] = cdep[b]
    BY <1>a DEF TypeOK, ClientTypeOK
  <2>5. /\ t \notin scheduled /\ t # None /\ d # None
        /\ \A b \in Clients : ctask[b] # t
    BY TaskPoolAssumption DEF Owned
  <2>6. ClientInv'
    BY <1>a, <1>5, <2>2, <2>4, <2>5 DEF ClientInv, poolVars
  <2>7. PlaceInv'
    BY <1>a, <2>4, <2>5 DEF PlaceInv, poolVars, workerVars, Queued
  <2>8. Waiting(t)' = Waiting(t) \cup {d}
    BY <1>a, <2>4, <2>5 DEF Waiting, workerVars
  <2>9. \A u \in Tasks \ {t} : Waiting(u)' = Waiting(u)
    BY <1>a, <2>4, <2>5 DEF Waiting, workerVars, ClientInv
  <2>10. DependencyInv'
    BY <1>a, <1>1, <1>5, <2>8, <2>9 DEF DependencyInv, workerVars
  <2>11. CounterExact'
    <3>1. uncompleted'[t] = uncompleted[t] + 1 /\ \A u \in Tasks \ {t} : uncompleted'[u] = uncompleted[u]
      BY <1>a DEF TypeOK, TaskTypeOK
    <3>2. Cardinality(Waiting(t)') = Cardinality(Waiting(t)) + 1
      BY <2>3, <2>8, WaitingFinite, FS_AddElement
    <3> QED
      BY <1>a, <3>1, <3>2, <2>9 DEF CounterExact
  <2> QED
    BY <1>2, <1>3, <1>4, <2>1, <2>6, <2>7, <2>10, <2>11 DEF IInv, TypeOK
<1>7. CASE ~Alive(d)
  <2> USE <1>7 DEF clientVars
  <2>1. TaskTypeOK' /\ ClientTypeOK'
    BY <1>a DEF TypeOK, TaskTypeOK, ClientTypeOK
  <2>2. state[d] = "COMPLETED"
    BY <1>a, ExpiredLemma DEF ExpiredMeansCompleted
  <2>3. ClientInv' /\ PlaceInv'
    BY <1>a, <1>5 DEF ClientInv, PlaceInv, poolVars, workerVars, Queued, TypeOK, ClientTypeOK
  <2>4. \A u \in Tasks : Waiting(u)' = Waiting(u)
    BY DEF Waiting, workerVars
  <2>5. DependencyInv' /\ CounterExact'
    BY <1>a, <1>5, <2>2, <2>4 DEF DependencyInv, CounterExact, workerVars
  <2> QED
    BY <1>2, <1>3, <1>4, <2>1, <2>3, <2>5 DEF IInv, TypeOK
<1> QED
  BY <1>6, <1>7

LEMMA AddDependentTaskInv ==
  ASSUME IInv, NEW c \in Clients, AddDependentTask(c)
  PROVE  IInv'
<1> USE DEF AddDependentTask, ClientReturns
<1>a. TypeOK /\ QueueInv /\ WorkerInv /\ ClientInv /\ PlaceInv /\ DependencyInv /\ CounterExact
  BY DEF IInv
<1>b. PICK t \in Tasks, d \in Tasks : ctask[c] = t /\ cdep[c] = d
  BY <1>a DEF ClientInv, TypeOK, ClientTypeOK
<1> USE <1>b
<1>1. t \in Tasks /\ d \in Tasks /\ t # None /\ d # None
  BY TaskPoolAssumption
<1>2. t \notin scheduled /\ d \in deps[t] /\ t \notin dependents[d]
  BY <1>a DEF ClientInv
<1>3. state[t] = "NEW" /\ t \notin notReady
  BY <1>a, <1>1, <1>2 DEF PlaceInv
<1>4. d \in Waiting(t) /\ uncompleted[t] = Cardinality(Waiting(t)) /\ uncompleted[t] > 0
  <2>1. d \in Waiting(t)
    BY <1>1 DEF Waiting
  <2>2. uncompleted[t] = Cardinality(Waiting(t))
    BY <1>a, <1>1 DEF CounterExact
  <2> QED
    BY <2>1, <2>2, WaitingFinite, OneFewer
<1>5. state' = state /\ queue' = queue /\ notReady' = notReady /\ running' = running
  BY <1>3 DEF OnDependencyCompleted, Readies
<1>6. NoCheckFails' /\ crashed' \in BOOLEAN
  BY <1>2, <1>3 DEF Check, NoCheckFails, OnDependencyCompleted, Readies
<1>7. /\ cpc'[c] = "idle" /\ ctask'[c] = None /\ cdep'[c] = None
      /\ \A b \in Clients \ {c} : cpc'[b] = cpc[b] /\ ctask'[b] = ctask[b] /\ cdep'[b] = cdep[b]
  BY <1>a DEF TypeOK, ClientTypeOK
<1>8. ClientTypeOK' /\ PoolTypeOK' /\ WorkerTypeOK'
  BY <1>a, <1>5 DEF TypeOK, ClientTypeOK, PoolTypeOK, WorkerTypeOK, workerVars
<1>9. QueueInv' /\ PlaceInv'
  BY <1>a, <1>5, <1>7 DEF QueueInv, PlaceInv, workerVars, Queued
<1>10. WorkerInv'
  BY <1>a, <1>5 DEF WorkerInv, workerVars, Queued
<1>11. CASE AlreadyCompleted(d)
  <2>1. dependents' = dependents /\ uncompleted' = [uncompleted EXCEPT ![t] = @ - 1]
    BY <1>11 DEF OnDependencyCompleted
  <2>2. TaskTypeOK'
    BY <1>a, <1>1, <1>4, <1>5, <2>1 DEF TypeOK, TaskTypeOK
  <2>3. ClientInv'
    BY <1>a, <1>5, <1>7, <2>1 DEF ClientInv
  <2>4. Waiting(t)' = Waiting(t) \ {d}
    <3>1. state[d] = "COMPLETED"
      BY <1>11 DEF AlreadyCompleted
    <3>2. \A w \in Workers : ~(wtask[w] = d /\ t \in todo[w])
      BY <1>a, <1>2 DEF DependencyInv
    <3>3. \A b \in Clients \ {c} : ctask[b] # t
      BY <1>a, <1>1 DEF ClientInv
    <3> QED
      BY <1>1, <1>5, <1>7, <2>1, <3>1, <3>2, <3>3 DEF Waiting, workerVars
  <2>5. \A u \in Tasks \ {t} : Waiting(u)' = Waiting(u)
    BY <1>5, <1>7, <2>1 DEF Waiting, workerVars
  <2>6. DependencyInv'
    <3>1. state[d] = "COMPLETED"
      BY <1>11 DEF AlreadyCompleted
    <3>2. \A u \in Tasks : Waiting(u)' \subseteq Waiting(u) /\ Waiting(u) \subseteq Waiting(u)' \cup {d}
      BY <2>4, <2>5
    <3> QED
      BY <1>a, <1>5, <2>1, <3>1, <3>2 DEF DependencyInv, workerVars
  <2>7. CounterExact'
    <3>1. uncompleted'[t] = uncompleted[t] - 1 /\ \A u \in Tasks \ {t} : uncompleted'[u] = uncompleted[u]
      BY <1>a, <1>1, <2>1 DEF TypeOK, TaskTypeOK
    <3>2. Cardinality(Waiting(t)') = Cardinality(Waiting(t)) - 1
      BY <1>4, <2>4, WaitingFinite, OneFewer
    <3> QED
      BY <1>a, <1>1, <1>4, <3>1, <3>2, <2>5 DEF CounterExact
  <2> QED
    BY <1>a, <1>6, <1>8, <1>9, <1>10, <2>2, <2>3, <2>6, <2>7 DEF IInv, TypeOK
<1>12. CASE ~AlreadyCompleted(d)
  <2>1. uncompleted' = uncompleted /\ dependents' = [dependents EXCEPT ![d] = @ \cup {t}]
    BY <1>12
  <2>2. TaskTypeOK'
    BY <1>a, <1>1, <1>5, <2>1 DEF TypeOK, TaskTypeOK
  <2>3. /\ dependents'[d] = dependents[d] \cup {t}
        /\ \A e \in Tasks \ {d} : dependents'[e] = dependents[e]
    BY <1>a, <1>1, <2>1 DEF TypeOK, TaskTypeOK
  <2>4. ClientInv'
    <3>1. \A b \in Clients \ {c} : ctask[b] # t
      BY <1>a, <1>1 DEF ClientInv
    <3>2. \A b \in Clients \ {c} : cdep[b] \in Tasks \cup {None}
      BY <1>a DEF TypeOK, ClientTypeOK
    <3> QED
      BY <1>a, <1>1, <1>5, <1>7, <2>3, <3>1, <3>2 DEF ClientInv
  <2>5. \A u \in Tasks : Waiting(u)' = Waiting(u)
    BY <1>1, <1>5, <1>7, <1>12, <2>3 DEF Waiting, workerVars, AlreadyCompleted
  <2>6. DependencyInv'
    <3>1. \A w \in Workers : todo[w] # {} => wtask[w] \in Tasks
      BY <1>a DEF TypeOK, WorkerTypeOK, WorkerInv
    <3> QED
      BY <1>a, <1>1, <1>2, <1>5, <2>3, <2>5, <3>1 DEF DependencyInv, workerVars
  <2>7. CounterExact'
    BY <1>a, <2>1, <2>5 DEF CounterExact
  <2> QED
    BY <1>a, <1>6, <1>8, <1>9, <1>10, <2>2, <2>4, <2>6, <2>7 DEF IInv, TypeOK
<1> QED
  BY <1>11, <1>12

LEMMA ScheduleInv ==
  ASSUME IInv, NEW c \in Clients, NEW t \in Tasks, Schedule(c, t)
  PROVE  IInv'
<1> USE DEF Schedule, taskVars, workerVars
<1>a. TypeOK /\ QueueInv /\ WorkerInv /\ ClientInv /\ PlaceInv /\ DependencyInv /\ CounterExact
  BY DEF IInv
<1>1. state[t] = "NEW" /\ t \notin notReady /\ t # None
  BY <1>a, TaskPoolAssumption DEF Owned, PlaceInv
<1>2. NoCheckFails' /\ crashed' \in BOOLEAN
  BY <1>1 DEF Check, NoCheckFails
<1>3. /\ cpc'[c] = "dispatching" /\ ctask'[c] = t
      /\ \A b \in Clients \ {c} : cpc'[b] = cpc[b] /\ ctask'[b] = ctask[b]
  BY <1>a DEF TypeOK, ClientTypeOK
<1>4. \A b \in Clients : ctask[b] # t
  BY DEF Owned
<1>5. TypeOK'
  BY <1>a, <1>2 DEF TypeOK, TaskTypeOK, PoolTypeOK, WorkerTypeOK, ClientTypeOK
<1>6. QueueInv' /\ WorkerInv'
  BY <1>a DEF QueueInv, WorkerInv, Queued
<1>7. ClientInv'
  BY <1>a, <1>1, <1>3, <1>4 DEF ClientInv
<1>8. PlaceInv'
  BY <1>a, <1>1, <1>3, <1>4 DEF PlaceInv, Queued
<1>9. \A u \in Tasks : Waiting(u)' = Waiting(u)
  BY <1>3 DEF Waiting
<1>10. DependencyInv' /\ CounterExact'
  BY <1>a, <1>9 DEF DependencyInv, CounterExact
<1> QED
  BY <1>2, <1>5, <1>6, <1>7, <1>8, <1>10 DEF IInv

(* A task enters the queue once, behind the others.                         *)
LEMMA MakeReadyQueue ==
  ASSUME TypeOK, QueueInv, NEW t \in scheduled, state[t] \in {"NEW", "DISPATCHED"},
         MakeReady(t), scheduled' = scheduled, running' = running
  PROVE  /\ QueueInv' /\ PoolTypeOK'
         /\ ~Queued(t)
         /\ \A u \in Tasks : Queued(u)' <=> Queued(u) \/ u = t
         /\ state'[t] = "DEPENDENCIES_COMPLETED"
         /\ \A u \in Tasks \ {t} : state'[u] = state[u]
         /\ state' \in [Tasks -> States]
<1> USE DEF MakeReady
<1>1. t \in Tasks /\ queue \in Seq(Tasks)
  BY DEF TypeOK, PoolTypeOK
<1>2. ~Queued(t)
  BY DEF QueueInv, Queued
<1>3. /\ queue' \in Seq(Tasks) /\ Len(queue') = Len(queue) + 1
      /\ \A i \in 1..Len(queue) : queue'[i] = queue[i]
      /\ queue'[Len(queue) + 1] = t
  BY <1>1
<1>4. /\ state'[t] = "DEPENDENCIES_COMPLETED"
      /\ \A u \in Tasks \ {t} : state'[u] = state[u]
      /\ state' \in [Tasks -> States]
  BY <1>1 DEF TypeOK, TaskTypeOK, States
<1>5. \A i \in 1..Len(queue') : i \in 1..Len(queue) \/ i = Len(queue) + 1
  BY <1>1, <1>3
<1>6. \A i \in 1..Len(queue) : i \in 1..Len(queue') /\ queue[i] \in Tasks /\ queue[i] # t /\ i # Len(queue) + 1
  BY <1>1, <1>2, <1>3 DEF Queued
<1>7. Len(queue) + 1 \in 1..Len(queue')
  BY <1>1, <1>3
<1>8. QueueInv'
  BY <1>3, <1>4, <1>5, <1>6 DEF QueueInv
<1>9. \A u \in Tasks : Queued(u)' <=> Queued(u) \/ u = t
  BY <1>3, <1>5, <1>6, <1>7 DEF Queued
<1>10. PoolTypeOK'
  BY <1>3 DEF TypeOK, PoolTypeOK
<1> QED
  BY <1>2, <1>4, <1>8, <1>9, <1>10

LEMMA SetThreadPoolInv ==
  ASSUME IInv, NEW c \in Clients, SetThreadPool(c)
  PROVE  IInv'
<1> USE DEF SetThreadPool, ClientReturns
<1>a. TypeOK /\ QueueInv /\ WorkerInv /\ ClientInv /\ PlaceInv /\ DependencyInv /\ CounterExact
  BY DEF IInv
<1>b. PICK t \in Tasks : ctask[c] = t
  BY <1>a DEF ClientInv, TypeOK, ClientTypeOK
<1> USE <1>b
<1>1. t \in scheduled /\ t \in notReady /\ state[t] = "NEW" /\ t # None
  BY <1>a, TaskPoolAssumption DEF ClientInv
<1>2. NoCheckFails' /\ crashed' \in BOOLEAN
  BY <1>1 DEF Check, NoCheckFails
<1>3. /\ cpc'[c] = "idle" /\ ctask'[c] = None /\ cdep'[c] = None
      /\ \A b \in Clients \ {c} : cpc'[b] = cpc[b] /\ ctask'[b] = ctask[b] /\ cdep'[b] = cdep[b]
  BY <1>a DEF TypeOK, ClientTypeOK
<1>4. \A b \in Clients \ {c} : ctask[b] # t
  BY <1>a, <1>1 DEF ClientInv
<1>5. WorkerTypeOK' /\ ClientTypeOK'
  BY <1>a DEF TypeOK, WorkerTypeOK, ClientTypeOK, workerVars
<1>6. \A w \in Workers : wtask[w] # t
  BY <1>a, <1>1 DEF WorkerInv, TypeOK, WorkerTypeOK
<1>7. CASE uncompleted[t] = 0
  <2>1. MakeReady(t)
    BY <1>7
  <2> HIDE DEF MakeReady
  <2>2. /\ QueueInv' /\ PoolTypeOK'
        /\ ~Queued(t)
        /\ \A u \in Tasks : Queued(u)' <=> Queued(u) \/ u = t
        /\ state'[t] = "DEPENDENCIES_COMPLETED"
        /\ \A u \in Tasks \ {t} : state'[u] = state[u]
        /\ state' \in [Tasks -> States]
    BY <1>a, <1>1, <2>1, MakeReadyQueue
  <2>3. notReady' = notReady \ {t}
    BY <2>1 DEF MakeReady
  <2>4. TaskTypeOK'
    BY <1>a, <2>2 DEF TypeOK, TaskTypeOK
  <2>5. WorkerInv'
    BY <1>a, <1>6, <2>2 DEF WorkerInv, workerVars, TypeOK, WorkerTypeOK
  <2>6. ClientInv'
    BY <1>a, <1>3, <1>4, <2>2, <2>3 DEF ClientInv, TypeOK, ClientTypeOK
  <2>7. PlaceInv'
    BY <1>a, <1>1, <1>3, <2>2, <2>3 DEF PlaceInv, workerVars
  <2>8. \A u \in Tasks : Waiting(u)' = Waiting(u)
    BY <1>1, <1>3, <2>2 DEF Waiting, workerVars
  <2>9. Waiting(t) = {}
    BY <1>a, <1>7, ZeroWaiting
  <2>10. DependencyInv'
    BY <1>a, <1>1, <2>2, <2>8, <2>9 DEF DependencyInv, workerVars, TypeOK
  <2>11. CounterExact'
    BY <1>a, <2>8 DEF CounterExact
  <2> QED
    BY <1>a, <1>2, <1>5, <2>2, <2>4, <2>5, <2>6, <2>7, <2>10, <2>11 DEF IInv, TypeOK
<1>8. CASE uncompleted[t] # 0
  <2>1. state' = [state EXCEPT ![t] = "DISPATCHED"] /\ queue' = queue /\ notReady' = notReady
    BY <1>8
  <2>2. /\ state'[t] = "DISPATCHED"
        /\ \A u \in Tasks \ {t} : state'[u] = state[u]
        /\ state' \in [Tasks -> States]
    BY <1>a, <2>1 DEF TypeOK, TaskTypeOK, States
  <2>3. TaskTypeOK' /\ PoolTypeOK'
    BY <1>a, <2>1, <2>2 DEF TypeOK, TaskTypeOK, PoolTypeOK
  <2>4. QueueInv'
    <3>1. \A i \in 1..Len(queue) : queue[i] \in Tasks /\ queue[i] # t
      BY <1>a, <1>1 DEF QueueInv, TypeOK, PoolTypeOK
    <3> QED
      BY <1>a, <2>1, <2>2, <3>1 DEF QueueInv
  <2>5. WorkerInv'
    BY <1>a, <1>6, <2>1, <2>2 DEF WorkerInv, workerVars, TypeOK, WorkerTypeOK, Queued
  <2>6. ClientInv'
    BY <1>a, <1>3, <1>4, <2>1, <2>2 DEF ClientInv, TypeOK, ClientTypeOK
  <2>7. PlaceInv'
    BY <1>a, <1>1, <1>3, <2>1, <2>2 DEF PlaceInv, workerVars, Queued
  <2>8. \A u \in Tasks : Waiting(u)' = Waiting(u)
    BY <1>1, <1>3, <2>2 DEF Waiting, workerVars
  <2>9. DependencyInv'
    BY <1>a, <1>1, <2>2, <2>8 DEF DependencyInv, workerVars, TypeOK
  <2>10. CounterExact'
    BY <1>a, <2>8 DEF CounterExact
  <2> QED
    BY <1>a, <1>2, <1>5, <2>3, <2>4, <2>5, <2>6, <2>7, <2>9, <2>10 DEF IInv, TypeOK
<1> QED
  BY <1>7, <1>8

LEMMA ShutdownInv ==
  ASSUME IInv, Shutdown
  PROVE  IInv'
<1> USE DEF IInv, Shutdown, taskVars, workerVars, clientVars
<1>1. TypeOK'
  BY DEF TypeOK, TaskTypeOK, PoolTypeOK, WorkerTypeOK, ClientTypeOK
<1>2. QueueInv' /\ WorkerInv' /\ ClientInv' /\ PlaceInv' /\ NoCheckFails'
  BY DEF QueueInv, WorkerInv, ClientInv, PlaceInv, NoCheckFails, Queued
<1>3. \A u \in Tasks : Waiting(u)' = Waiting(u)
  BY DEF Waiting
<1>4. DependencyInv' /\ CounterExact'
  BY <1>3 DEF DependencyInv, CounterExact
<1> QED
  BY <1>1, <1>2, <1>4

LEMMA PopInv ==
  ASSUME IInv, NEW w \in Workers, Pop(w)
  PROVE  IInv'
<1> USE DEF Pop, taskVars, clientVars
<1>a. TypeOK /\ QueueInv /\ WorkerInv /\ ClientInv /\ PlaceInv /\ DependencyInv /\ CounterExact
  BY DEF IInv
<1>b. PICK t \in Tasks : Head(queue) = t
  BY <1>a DEF TypeOK, PoolTypeOK
<1>1. queue \in Seq(Tasks) /\ queue # << >> /\ queue' = Tail(queue)
  BY <1>a DEF TypeOK, PoolTypeOK
<1>2. /\ queue' \in Seq(Tasks) /\ Len(queue') = Len(queue) - 1
      /\ \A i \in 1..Len(queue') : i + 1 \in 1..Len(queue) /\ queue'[i] = queue[i + 1]
      /\ 1 \in 1..Len(queue) /\ queue[1] = t
      /\ \A i \in 1..Len(queue) : i # 1 => i - 1 \in 1..Len(queue') /\ queue'[i - 1] = queue[i]
  BY <1>1, <1>b
<1>3. t \in scheduled /\ state[t] = "DEPENDENCIES_COMPLETED"
  BY <1>a, <1>2 DEF QueueInv
<1>4. ~Queued(t)' /\ \A u \in Tasks \ {t} : Queued(u)' <=> Queued(u)
  <2>1. \A i \in 1..Len(queue') : queue'[i] # t
    <3> SUFFICES ASSUME NEW i \in 1..Len(queue'), queue'[i] = t PROVE FALSE
      OBVIOUS
    <3>1. queue[i + 1] = queue[1] /\ i + 1 # 1
      BY <1>2
    <3> QED
      BY <1>a, <1>2, <3>1 DEF QueueInv
  <2>2. \A u \in Tasks \ {t} : Queued(u)' <=> Queued(u)
    <3> SUFFICES ASSUME NEW u \in Tasks \ {t} PROVE Queued(u)' <=> Queued(u)
      OBVIOUS
    <3>1. ASSUME NEW i \in 1..Len(queue'), queue'[i] = u PROVE Queued(u)
      BY <1>2, <3>1 DEF Queued
    <3>2. ASSUME NEW i \in 1..Len(queue), queue[i] = u PROVE Queued(u)'
      <4>1. i # 1
        BY <1>2, <3>2
      <4> QED
        BY <1>2, <3>2, <4>1 DEF Queued
    <3> QED
      BY <3>1, <3>2 DEF Queued
  <2> QED
    BY <2>1, <2>2 DEF Queued
<1>5. QueueInv'
  <2>1. \A i \in 1..Len(queue') : state[queue'[i]] = "DEPENDENCIES_COMPLETED" /\ queue'[i] \in scheduled
    BY <1>a, <1>2 DEF QueueInv
  <2>2. ASSUME NEW i \in 1..Len(queue'), NEW j \in 1..Len(queue'), queue'[i] = queue'[j]
        PROVE  i = j
    <3>1. i + 1 = j + 1
      BY <1>a, <1>2, <2>2 DEF QueueInv
    <3> QED
      BY <3>1
  <2> QED
    BY <2>1, <2>2 DEF QueueInv
<1>6. /\ wpc'[w] = "popped" /\ wtask'[w] = t
      /\ \A v \in Workers \ {w} : wpc'[v] = wpc[v] /\ wtask'[v] = wtask[v]
  BY <1>a, <1>b DEF TypeOK, WorkerTypeOK
<1>7. t # None /\ wtask[w] = None /\ todo[w] = {}
  BY <1>a, TaskPoolAssumption DEF WorkerInv
<1>8. \A v \in Workers : wtask[v] # t
  <2>1. Queued(t)
    BY <1>2 DEF Queued
  <2> QED
    BY <1>a, <1>3, <1>7, <2>1 DEF WorkerInv, TypeOK, WorkerTypeOK
<1>9. TypeOK'
  BY <1>a, <1>2, <1>b DEF TypeOK, TaskTypeOK, PoolTypeOK, WorkerTypeOK, ClientTypeOK
<1>10. WorkerInv'
  BY <1>a, <1>3, <1>4, <1>6, <1>7, <1>8 DEF WorkerInv, TypeOK, WorkerTypeOK
<1>11. ClientInv' /\ NoCheckFails'
  BY <1>a DEF ClientInv, NoCheckFails, IInv
<1>12. PlaceInv'
  <2>1. \A u \in Tasks : (\E v \in Workers : wtask[v] = u) => (\E v \in Workers : wtask'[v] = u)
    BY <1>6, <1>7, TaskPoolAssumption
  <2> QED
    BY <1>a, <1>4, <1>6, <2>1 DEF PlaceInv
<1>13. \A u \in Tasks : Waiting(u)' = Waiting(u)
  BY <1>6, <1>7 DEF Waiting
<1>14. DependencyInv' /\ CounterExact'
  BY <1>a, <1>6, <1>7, <1>13 DEF DependencyInv, CounterExact
<1> QED
  BY <1>5, <1>9, <1>10, <1>11, <1>12, <1>14 DEF IInv

LEMMA StartInv ==
  ASSUME IInv, NEW w \in Workers, Start(w)
  PROVE  IInv'
<1> USE DEF Start, poolVars, clientVars
<1>a. TypeOK /\ QueueInv /\ WorkerInv /\ ClientInv /\ PlaceInv /\ DependencyInv /\ CounterExact
  BY DEF IInv
<1>b. PICK t \in Tasks : wtask[w] = t
  BY <1>a DEF WorkerInv, TypeOK, WorkerTypeOK
<1>1. state[t] = "DEPENDENCIES_COMPLETED" /\ ~Queued(t) /\ t \in scheduled /\ t # None
  BY <1>a, <1>b, TaskPoolAssumption DEF WorkerInv
<1>2. /\ state'[t] = "RUNNING" /\ state' \in [Tasks -> States]
      /\ \A u \in Tasks \ {t} : state'[u] = state[u]
  BY <1>a, <1>b DEF TypeOK, TaskTypeOK, States
<1>3. wpc'[w] = "running" /\ \A v \in Workers \ {w} : wpc'[v] = wpc[v] /\ wtask[v] # t
  BY <1>a, <1>b, <1>1 DEF TypeOK, WorkerTypeOK, WorkerInv
<1>4. NoCheckFails' /\ crashed' \in BOOLEAN
  BY <1>1, <1>b DEF Check, NoCheckFails
<1>5. TypeOK'
  BY <1>a, <1>2, <1>4 DEF TypeOK, TaskTypeOK, PoolTypeOK, WorkerTypeOK, ClientTypeOK
<1>6. QueueInv'
  <2>1. \A i \in 1..Len(queue) : queue[i] \in Tasks /\ queue[i] # t
    BY <1>a, <1>1 DEF Queued, TypeOK, PoolTypeOK
  <2> QED
    BY <1>a, <1>2, <2>1 DEF QueueInv
<1>7. WorkerInv'
  BY <1>a, <1>b, <1>2, <1>3 DEF WorkerInv, TypeOK, WorkerTypeOK, Queued
<1>8. ClientInv'
  BY <1>a, <1>1, <1>2 DEF ClientInv, TypeOK, ClientTypeOK
<1>9. PlaceInv'
  BY <1>a, <1>b, <1>1, <1>2 DEF PlaceInv, Queued
<1>10. \A u \in Tasks : Waiting(u)' = Waiting(u)
  BY <1>1, <1>2 DEF Waiting
<1>11. DependencyInv' /\ CounterExact'
  BY <1>a, <1>1, <1>2, <1>10 DEF DependencyInv, CounterExact, TypeOK
<1> QED
  BY <1>4, <1>5, <1>6, <1>7, <1>8, <1>9, <1>11 DEF IInv

LEMMA FinishInv ==
  ASSUME IInv, NEW w \in Workers, Finish(w)
  PROVE  IInv'
<1> USE DEF Finish, poolVars, clientVars
<1>a. TypeOK /\ QueueInv /\ WorkerInv /\ ClientInv /\ PlaceInv /\ DependencyInv /\ CounterExact
  BY DEF IInv
<1>b. PICK d \in Tasks : wtask[w] = d
  BY <1>a DEF WorkerInv, TypeOK, WorkerTypeOK
<1>1. state[d] = "RUNNING" /\ todo[w] = {} /\ d # None /\ d \in scheduled
  BY <1>a, <1>b, TaskPoolAssumption DEF WorkerInv
<1>2. /\ state'[d] = "COMPLETED" /\ state' \in [Tasks -> States]
      /\ \A u \in Tasks \ {d} : state'[u] = state[u]
  BY <1>a, <1>b DEF TypeOK, TaskTypeOK, States
<1>3. /\ wpc'[w] = "notifying" /\ todo'[w] = dependents[d]
      /\ \A v \in Workers \ {w} : wpc'[v] = wpc[v] /\ todo'[v] = todo[v] /\ wtask[v] # d
  BY <1>a, <1>b, <1>1 DEF TypeOK, WorkerTypeOK, WorkerInv
<1>4. NoCheckFails'
  BY DEF NoCheckFails, IInv
<1>5. TypeOK'
  BY <1>a, <1>b, <1>2 DEF TypeOK, TaskTypeOK, PoolTypeOK, WorkerTypeOK, ClientTypeOK
<1>6. QueueInv'
  <2>1. \A i \in 1..Len(queue) : queue[i] \in Tasks /\ queue[i] # d
    BY <1>a, <1>1 DEF QueueInv, TypeOK, PoolTypeOK
  <2> QED
    BY <1>a, <1>2, <2>1 DEF QueueInv
<1>7. WorkerInv'
  BY <1>a, <1>b, <1>2, <1>3 DEF WorkerInv, TypeOK, WorkerTypeOK, Queued
<1>8. ClientInv'
  BY <1>a, <1>1, <1>2 DEF ClientInv, TypeOK, ClientTypeOK
<1>9. PlaceInv'
  BY <1>a, <1>b, <1>1, <1>2 DEF PlaceInv, Queued
<1>10. \A u \in Tasks : Waiting(u)' = Waiting(u)
  <2> SUFFICES ASSUME NEW u \in Tasks, NEW e \in Tasks
               PROVE  e \in Waiting(u)' <=> e \in Waiting(u)
    BY WaitingFinite DEF Waiting
  <2>1. CASE e = d
    BY <1>b, <1>1, <1>2, <1>3, <2>1 DEF Waiting
  <2>2. CASE e # d
    BY <1>b, <1>2, <1>3, <2>2 DEF Waiting
  <2> QED
    BY <2>1, <2>2
<1>11. DependencyInv' /\ CounterExact'
  <2>1. \A v \in Workers : \A u \in todo'[v] : u \in dependents'[wtask'[v]]
    BY <1>a, <1>b, <1>3 DEF DependencyInv
  <2> QED
    BY <1>a, <1>1, <1>2, <1>10, <2>1 DEF DependencyInv, CounterExact, TypeOK
<1> QED
  BY <1>4, <1>5, <1>6, <1>7, <1>8, <1>9, <1>11 DEF IInv

LEMMA NotifyDependentInv ==
  ASSUME IInv, NEW w \in Workers, NotifyDependent(w)
  PROVE  IInv'
<1> USE DEF NotifyDependent, clientVars
<1>a. TypeOK /\ QueueInv /\ WorkerInv /\ ClientInv /\ PlaceInv /\ DependencyInv /\ CounterExact
  BY DEF IInv
<1>b. PICK d \in Tasks : wtask[w] = d
  BY <1>a DEF WorkerInv, TypeOK, WorkerTypeOK
<1>c. PICK t \in todo[w] : OnDependencyCompleted(t) /\ todo' = [todo EXCEPT ![w] = @ \ {t}]
  OBVIOUS
<1>1. t \in Tasks /\ d # None /\ t \in dependents[d] /\ state[d] = "COMPLETED"
  BY <1>a, <1>b, TaskPoolAssumption DEF TypeOK, WorkerTypeOK, DependencyInv, WorkerInv
<1>2. d \in Waiting(t)
  BY <1>b DEF Waiting
<1>3. uncompleted[t] = Cardinality(Waiting(t)) /\ uncompleted[t] > 0
  <2>1. uncompleted[t] = Cardinality(Waiting(t))
    BY <1>a, <1>1 DEF CounterExact
  <2> QED
    BY <1>2, <2>1, WaitingFinite, OneFewer
<1>4. state[t] \in {"NEW", "DISPATCHED"}
  BY <1>a, <1>1, <1>2 DEF DependencyInv
<1>5. Readies(t) => t \in notReady /\ t \in scheduled
  BY <1>a, <1>1 DEF Readies, PlaceInv
<1>6. NoCheckFails' /\ crashed' \in BOOLEAN
  BY <1>c, <1>4, <1>5 DEF OnDependencyCompleted, Check, NoCheckFails
<1>7. /\ uncompleted' \in [Tasks -> Nat] /\ uncompleted'[t] = uncompleted[t] - 1
      /\ \A u \in Tasks \ {t} : uncompleted'[u] = uncompleted[u]
  BY <1>a, <1>c, <1>1, <1>3 DEF OnDependencyCompleted, TypeOK, TaskTypeOK
<1>8. /\ todo'[w] = todo[w] \ {t} /\ todo' \in [Workers -> SUBSET Tasks]
      /\ \A v \in Workers \ {w} : todo'[v] = todo[v] /\ wtask[v] # d
  BY <1>a, <1>b, <1>c, <1>1 DEF TypeOK, WorkerTypeOK, WorkerInv
<1>9. ASSUME Readies(t)
      PROVE  /\ QueueInv' /\ PoolTypeOK'
             /\ ~Queued(t)
             /\ \A u \in Tasks : Queued(u)' <=> Queued(u) \/ u = t
             /\ state'[t] = "DEPENDENCIES_COMPLETED"
             /\ \A u \in Tasks \ {t} : state'[u] = state[u]
             /\ state' \in [Tasks -> States]
             /\ notReady' = notReady \ {t}
  <2>1. MakeReady(t)
    BY <1>c, <1>9 DEF OnDependencyCompleted
  <2>2. notReady' = notReady \ {t}
    BY <2>1 DEF MakeReady
  <2> QED
    BY <1>a, <1>4, <1>5, <1>9, <2>1, <2>2, MakeReadyQueue
<1>10. ASSUME ~Readies(t)
       PROVE  UNCHANGED << state, queue, notReady >>
  BY <1>c, <1>10 DEF OnDependencyCompleted
<1>11. /\ state' \in [Tasks -> States] /\ \A u \in Tasks \ {t} : state'[u] = state[u]
       /\ \A u \in Tasks : state'[u] = "COMPLETED" <=> state[u] = "COMPLETED"
  BY <1>a, <1>4, <1>9, <1>10 DEF TypeOK, TaskTypeOK
<1>12. TypeOK'
  <2>1. PoolTypeOK'
    BY <1>a, <1>9, <1>10 DEF TypeOK, PoolTypeOK
  <2> QED
    BY <1>a, <1>6, <1>7, <1>8, <1>11, <2>1 DEF TypeOK, TaskTypeOK, WorkerTypeOK, ClientTypeOK
<1>13. QueueInv'
  BY <1>a, <1>9, <1>10 DEF QueueInv
<1>14. \A v \in Workers : wtask[v] = t => wpc[v] \in {"await", "returned"}
  BY <1>a, <1>4 DEF WorkerInv, TypeOK, WorkerTypeOK
<1>15. WorkerInv'
  <2>1. \A v \in Workers : wpc[v] # "notifying" => todo'[v] = {}
    BY <1>a, <1>8 DEF WorkerInv
  <2>2. CASE Readies(t)
    BY <1>a, <1>1, <1>9, <1>14, <2>1, <2>2, TaskPoolAssumption DEF WorkerInv, TypeOK, WorkerTypeOK
  <2>3. CASE ~Readies(t)
    BY <1>a, <1>10, <2>1, <2>3 DEF WorkerInv, Queued
  <2> QED
    BY <2>2, <2>3
<1>16. ClientInv'
  <2>1. CASE Readies(t)
    BY <1>a, <1>9, <2>1 DEF ClientInv, TypeOK, ClientTypeOK, Readies
  <2>2. CASE ~Readies(t)
    BY <1>a, <1>10, <2>2 DEF ClientInv
  <2> QED
    BY <2>1, <2>2
<1>17. PlaceInv'
  <2>1. CASE Readies(t)
    BY <1>a, <1>5, <1>9, <2>1 DEF PlaceInv
  <2>2. CASE ~Readies(t)
    BY <1>a, <1>10, <2>2 DEF PlaceInv, Queued
  <2> QED
    BY <2>1, <2>2
<1>18. Waiting(t)' = Waiting(t) \ {d}
  <2>1. \A c \in Clients : ~(cpc[c] = "linking" /\ ctask[c] = t /\ cdep[c] = d)
    BY <1>a, <1>1 DEF ClientInv
  <2> SUFFICES ASSUME NEW e \in Tasks
               PROVE  e \in Waiting(t)' <=> e \in Waiting(t) \ {d}
    BY WaitingFinite DEF Waiting
  <2>2. CASE e = d
    BY <1>b, <1>1, <1>8, <1>11, <2>1, <2>2 DEF Waiting
  <2>3. CASE e # d
    BY <1>b, <1>8, <1>11, <2>3 DEF Waiting
  <2> QED
    BY <2>2, <2>3
<1>19. \A u \in Tasks \ {t} : Waiting(u)' = Waiting(u)
  <2> SUFFICES ASSUME NEW u \in Tasks \ {t}, NEW e \in Tasks
               PROVE  e \in Waiting(u)' <=> e \in Waiting(u)
    BY WaitingFinite DEF Waiting
  <2> QED
    BY <1>8, <1>11 DEF Waiting
<1>20. Readies(t) => Waiting(t) = {d}
  BY <1>2, <1>3, WaitingFinite, OneFewer DEF Readies
<1>21. DependencyInv'
  <2>1. \A u \in Tasks : Waiting(u)' \subseteq Waiting(u) /\ Waiting(u) \subseteq Waiting(u)' \cup {d}
    BY <1>18, <1>19
  <2>2. \A u \in Tasks : \A e \in deps'[u] : e \in Waiting(u)' \/ state'[e] = "COMPLETED"
    BY <1>a, <1>1, <1>11, <2>1 DEF DependencyInv, TypeOK
  <2>3. \A v \in Workers : \A u \in todo'[v] : u \in dependents[wtask[v]]
    BY <1>a, <1>8 DEF DependencyInv
  <2>4. \A u \in Tasks : state'[u] \notin {"NEW", "DISPATCHED"} => Waiting(u)' = {}
    <3>1. \A u \in Tasks \ {t} : state'[u] \notin {"NEW", "DISPATCHED"} => Waiting(u)' = {}
      BY <1>a, <1>11, <1>19 DEF DependencyInv
    <3>2. state'[t] \notin {"NEW", "DISPATCHED"} => Waiting(t)' = {}
      BY <1>4, <1>10, <1>18, <1>20
    <3> QED
      BY <3>1, <3>2
  <2> QED
    BY <1>a, <2>2, <2>3, <2>4 DEF DependencyInv
<1>22. CounterExact'
  <2>1. Cardinality(Waiting(t)') = Cardinality(Waiting(t)) - 1
    BY <1>2, <1>18, WaitingFinite, OneFewer
  <2> QED
    BY <1>a, <1>1, <1>3, <1>7, <1>19, <2>1 DEF CounterExact
<1> QED
  BY <1>6, <1>12, <1>13, <1>15, <1>16, <1>17, <1>21, <1>22 DEF IInv

(* The steps that only move a worker.                                       *)
LEMMA WorkerMovesInv ==
  ASSUME IInv, NEW w \in Workers, Unlock(w) \/ Release(w) \/ Return(w)
  PROVE  IInv'
<1> USE DEF Unlock, Release, Return, taskVars, poolVars, clientVars
<1>a. TypeOK /\ QueueInv /\ WorkerInv /\ ClientInv /\ PlaceInv /\ DependencyInv /\ CounterExact
  BY DEF IInv
<1>1. TypeOK'
  BY <1>a DEF TypeOK, TaskTypeOK, PoolTypeOK, WorkerTypeOK, ClientTypeOK
<1>2. QueueInv' /\ ClientInv' /\ NoCheckFails'
  BY <1>a DEF QueueInv, ClientInv, NoCheckFails, IInv
<1>3. \A v \in Workers \ {w} : wpc'[v] = wpc[v] /\ wtask'[v] = wtask[v]
  BY <1>a DEF TypeOK, WorkerTypeOK
<1>4. todo' = todo /\ (wtask'[w] = wtask[w] \/ (wtask'[w] = None /\ todo[w] = {} /\ state[wtask[w]] = "COMPLETED"))
  BY <1>a DEF TypeOK, WorkerTypeOK, WorkerInv
<1>5. WorkerInv'
  BY <1>a, <1>3 DEF WorkerInv, TypeOK, WorkerTypeOK, Queued
<1>6. PlaceInv'
  <2>1. \A u \in Tasks : /\ state[u] \in {"DEPENDENCIES_COMPLETED", "RUNNING"}
                         /\ \E v \in Workers : wtask[v] = u
                         => \E v \in Workers : wtask'[v] = u
    BY <1>3, <1>4
  <2> QED
    BY <1>a, <2>1 DEF PlaceInv, Queued
<1>7. \A u \in Tasks : Waiting(u)' = Waiting(u)
  BY <1>3, <1>4, TaskPoolAssumption DEF Waiting
<1>8. DependencyInv' /\ CounterExact'
  BY <1>a, <1>3, <1>4, <1>7 DEF DependencyInv, CounterExact
<1> QED
  BY <1>1, <1>2, <1>5, <1>6, <1>8 DEF IInv

LEMMA NextInv == IInv /\ [Next]_vars => IInv'
<1> SUFFICES ASSUME IInv, [Next]_vars PROVE IInv'
  OBVIOUS
<1>1. CASE \E c \in Clients, t, d \in Tasks : AddDependency(c, t, d)
  BY <1>1, AddDependencyInv
<1>2. CASE \E c \in Clients, t \in Tasks : Schedule(c, t)
  BY <1>2, ScheduleInv
<1>3. CASE \E c \in Clients : ClientStep(c)
  BY <1>3, AddDependentTaskInv, SetThreadPoolInv DEF ClientStep
<1>4. CASE \E w \in Workers : WorkerStep(w)
  BY <1>4, PopInv, StartInv, FinishInv, NotifyDependentInv, WorkerMovesInv DEF WorkerStep
<1>5. CASE Shutdown
  BY <1>5, ShutdownInv
<1>6. CASE UNCHANGED vars
  <2> USE <1>6 DEF IInv, vars, taskVars, poolVars, workerVars, clientVars
  <2>1. TypeOK'
    BY DEF TypeOK, TaskTypeOK, PoolTypeOK, WorkerTypeOK, ClientTypeOK
  <2>2. QueueInv' /\ WorkerInv' /\ ClientInv' /\ PlaceInv' /\ NoCheckFails'
    BY DEF QueueInv, WorkerInv, ClientInv, PlaceInv, NoCheckFails, Queued
  <2>3. \A u \in Tasks : Waiting(u)' = Waiting(u)
    BY DEF Waiting
  <2>4. DependencyInv' /\ CounterExact'
    BY <2>3 DEF DependencyInv, CounterExact
  <2> QED
    BY <2>1, <2>2, <2>4
<1> QED
  BY <1>1, <1>2, <1>3, <1>4, <1>5, <1>6 DEF Next, Stopped

-----------------------------------------------------------------------------
(* The theorems.                                                            *)

(* Every behaviour stays within the inductive invariant.                    *)
THEOREM Invariance == SafeSpec => []IInv
BY InitInv, NextInv, PTL DEF SafeSpec

(* task.cc, thread_pool.cc: every variable keeps its type; in particular    *)
(* the unsigned uncompleted_dependencies_ never goes below zero.            *)
THEOREM TypeCorrect == SafeSpec => []TypeOK
<1>1. IInv => TypeOK
  BY DEF IInv
<1> QED
  BY <1>1, Invariance, PTL

(* No CHECK of the executor ever aborts the process.                        *)
THEOREM ChecksHold == SafeSpec => []NoCheckFails
<1>1. IInv => NoCheckFails
  BY DEF IInv
<1> QED
  BY <1>1, Invariance, PTL

(* uncompleted_dependencies_ always equals the number of dependencies that  *)
(* still owe the task a notification.                                       *)
THEOREM CounterCorrect == SafeSpec => []CounterExact
<1>1. IInv => CounterExact
  BY DEF IInv
<1> QED
  BY <1>1, Invariance, PTL

(* No task runs before the tasks it was made to depend on have completed.   *)
THEOREM DependenciesFirst == SafeSpec => []RunsAfterDependencies
<1>1. IInv => RunsAfterDependencies
  BY OrderLemma DEF IInv
<1> QED
  BY <1>1, Invariance, PTL

(* What the comment on ThreadPool::Schedule promises: an expired handle     *)
(* belongs to a completed task.                                             *)
THEOREM ExpiredIsCompleted == SafeSpec => []ExpiredMeansCompleted
<1>1. IInv => ExpiredMeansCompleted
  BY ExpiredLemma DEF IInv
<1> QED
  BY <1>1, Invariance, PTL

-----------------------------------------------------------------------------
(* What the destructor leaves behind: nothing.                              *)

(* No call outlives the pool, and the queue is never left alone: a thread   *)
(* that could empty it is still there.  Only a task that is owed something  *)
(* waits, and dependencies lead to what was scheduled earlier, so that not  *)
(* all tasks of a set can wait for each other.                              *)
DrainInv ==
  /\ ~running => \A c \in Clients : cpc[c] # "dispatching"
  /\ running => \A w \in Workers : wpc[w] # "returned"
  /\ queue # << >> => \E w \in Workers : wpc[w] # "returned"
  /\ \A t \in Tasks : state[t] = "DISPATCHED" => uncompleted[t] # 0
  /\ \A t \in Tasks : deps[t] \subseteq scheduled
  /\ \A S \in SUBSET scheduled : S # {} => \E t \in S : deps[t] \cap S = {}

(* A notification makes a task ready that it leaves nothing to wait for.    *)
LEMMA NotifyDrain ==
  ASSUME TypeOK, NEW t \in Tasks, OnDependencyCompleted(t), uncompleted[t] > 0,
         \A u \in Tasks : state[u] = "DISPATCHED" => uncompleted[u] # 0
  PROVE  \A u \in Tasks : state'[u] = "DISPATCHED" => uncompleted'[u] # 0
<1>1. /\ uncompleted[t] \in Nat /\ uncompleted'[t] = uncompleted[t] - 1
      /\ \A u \in Tasks \ {t} : uncompleted'[u] = uncompleted[u]
  BY DEF OnDependencyCompleted, TypeOK, TaskTypeOK
<1>2. CASE Readies(t)
  <2>1. /\ state'[t] = "DEPENDENCIES_COMPLETED"
        /\ \A u \in Tasks \ {t} : state'[u] = state[u]
    BY <1>2 DEF OnDependencyCompleted, MakeReady, TypeOK, TaskTypeOK
  <2> QED
    BY <1>1, <2>1
<1>3. CASE ~Readies(t)
  <2>1. state' = state /\ ~(uncompleted[t] = 1 /\ state[t] = "DISPATCHED")
    BY <1>3 DEF OnDependencyCompleted, Readies
  <2> QED
    BY <1>1, <2>1
<1> QED
  BY <1>2, <1>3

LEMMA DrainStep == IInv /\ DrainInv /\ [Next]_vars => DrainInv'
<1> SUFFICES ASSUME IInv, DrainInv, [Next]_vars PROVE DrainInv'
  OBVIOUS
<1>a. TypeOK /\ WorkerInv /\ ClientInv /\ PlaceInv /\ CounterExact
  BY DEF IInv
<1>b. /\ \A t \in Tasks : state[t] = "DISPATCHED" => uncompleted[t] # 0
      /\ \A t \in Tasks : deps[t] \subseteq scheduled
      /\ \A S \in SUBSET scheduled : S # {} => \E t \in S : deps[t] \cap S = {}
  BY DEF DrainInv
<1>1. CASE \E c \in Clients, t, d \in Tasks : AddDependency(c, t, d)
  <2>1. PICK c \in Clients, t \in Tasks, d \in Tasks : AddDependency(c, t, d)
    BY <1>1
  <2> USE DEF AddDependency
  <2>2. /\ t \notin scheduled /\ d \in scheduled /\ scheduled' = scheduled
        /\ deps'[t] = deps[t] \cup {d} /\ \A u \in Tasks \ {t} : deps'[u] = deps[u]
    BY <1>a, <2>1 DEF Owned, TypeOK
  <2>3. state[t] = "NEW" /\ state' = state
    BY <1>a, <2>1, <2>2 DEF PlaceInv
  <2>4. \A u \in Tasks \ {t} : uncompleted'[u] = uncompleted[u]
    BY <1>a, <2>1 DEF CountDependency, TypeOK, TaskTypeOK
  <2>5. \A e \in Clients : cpc'[e] = "dispatching" => cpc[e] = "dispatching"
    BY <1>a, <2>1 DEF TypeOK, ClientTypeOK, clientVars
  <2>6. \A S \in SUBSET scheduled : S # {} => \E u \in S : deps'[u] \cap S = {}
    <3> SUFFICES ASSUME NEW S \in SUBSET scheduled, S # {}
                 PROVE  \E u \in S : deps'[u] \cap S = {}
      OBVIOUS
    <3>1. PICK u \in S : deps[u] \cap S = {}
      BY <1>b
    <3>2. u \in Tasks \ {t}
      BY <1>a, <2>2 DEF TypeOK
    <3> QED
      BY <2>2, <3>1, <3>2
  <2>7. \A u \in Tasks : deps'[u] \subseteq scheduled
    BY <1>b, <2>2
  <2>8. \A u \in Tasks : state'[u] = "DISPATCHED" => uncompleted'[u] # 0
    BY <1>b, <2>3, <2>4
  <2> QED
    BY <2>1, <2>2, <2>5, <2>6, <2>7, <2>8 DEF DrainInv, poolVars, workerVars
<1>2. CASE \E c \in Clients, t \in Tasks : Schedule(c, t)
  <2>1. PICK c \in Clients, t \in Tasks : Schedule(c, t)
    BY <1>2
  <2> USE DEF Schedule
  <2>2. /\ t \notin scheduled /\ scheduled' = scheduled \cup {t} /\ running
    BY <2>1 DEF Owned
  <2>3. \A S \in SUBSET scheduled' : S # {} => \E u \in S : deps[u] \cap S = {}
    <3> SUFFICES ASSUME NEW S \in SUBSET (scheduled \cup {t}), S # {}
                 PROVE  \E u \in S : deps[u] \cap S = {}
      BY <2>2
    <3>1. CASE S = {t}
      BY <1>b, <2>2, <3>1
    <3>2. CASE S # {t}
      <4>1. S \ {t} \in SUBSET scheduled /\ S \ {t} # {}
        BY <3>2
      <4>2. PICK u \in S \ {t} : deps[u] \cap (S \ {t}) = {}
        BY <1>b, <4>1
      <4>3. t \notin deps[u]
        BY <1>a, <1>b, <2>2, <4>1, <4>2 DEF TypeOK
      <4> QED
        BY <4>2, <4>3
    <3> QED
      BY <3>1, <3>2
  <2> QED
    BY <1>b, <2>1, <2>2, <2>3 DEF DrainInv, taskVars, workerVars
<1>3. CASE \E c \in Clients : AddDependentTask(c)
  <2>1. PICK c \in Clients : AddDependentTask(c)
    BY <1>3
  <2> USE DEF AddDependentTask, ClientReturns
  <2>2. ctask[c] \in Tasks /\ cdep[c] \in Tasks /\ state[ctask[c]] = "NEW"
    BY <1>a, <2>1 DEF ClientInv, PlaceInv, TypeOK, ClientTypeOK
  <2>3. uncompleted[ctask[c]] > 0
    <3>1. cdep[c] \in Waiting(ctask[c])
      BY <2>1, <2>2 DEF Waiting
    <3>2. uncompleted[ctask[c]] = Cardinality(Waiting(ctask[c]))
      BY <1>a, <2>2 DEF CounterExact
    <3> QED
      BY <3>1, <3>2, WaitingFinite, OneFewer
  <2>4. queue' = queue
    BY <2>1, <2>2 DEF OnDependencyCompleted, Readies
  <2>5. \A u \in Tasks : state'[u] = "DISPATCHED" => uncompleted'[u] # 0
    BY <1>a, <1>b, <2>1, <2>2, <2>3, NotifyDrain
  <2>6. \A e \in Clients : cpc'[e] = "dispatching" => cpc[e] = "dispatching"
    BY <1>a, <2>1 DEF TypeOK, ClientTypeOK
  <2> QED
    BY <1>b, <2>1, <2>4, <2>5, <2>6 DEF DrainInv, workerVars
<1>4. CASE \E c \in Clients : SetThreadPool(c)
  <2>1. PICK c \in Clients : SetThreadPool(c)
    BY <1>4
  <2> USE DEF SetThreadPool, ClientReturns
  <2>2. running /\ \E w \in Workers : wpc[w] # "returned"
    BY <2>1, TaskPoolAssumption DEF DrainInv
  <2>3. ctask[c] \in Tasks
    BY <1>a, <2>1 DEF ClientInv, TypeOK, ClientTypeOK
  <2>4. \A u \in Tasks : state'[u] = "DISPATCHED" => uncompleted'[u] # 0
    BY <1>a, <1>b, <2>1, <2>3 DEF MakeReady, TypeOK, TaskTypeOK
  <2> QED
    BY <1>b, <2>1, <2>2, <2>4 DEF DrainInv, workerVars
<1>5. CASE \E w \in Workers : NotifyDependent(w)
  <2>1. PICK w \in Workers : NotifyDependent(w)
    BY <1>5
  <2> USE DEF NotifyDependent
  <2>2. PICK t \in todo[w] : OnDependencyCompleted(t)
    BY <2>1
  <2>3. t \in Tasks /\ wtask[w] \in Tasks
    BY <1>a, <2>1 DEF TypeOK, WorkerTypeOK, WorkerInv
  <2>4. uncompleted[t] > 0
    <3>1. wtask[w] \in Waiting(t)
      BY <2>2, <2>3 DEF Waiting
    <3>2. uncompleted[t] = Cardinality(Waiting(t))
      BY <1>a, <2>3 DEF CounterExact
    <3> QED
      BY <3>1, <3>2, WaitingFinite, OneFewer
  <2>5. \A u \in Tasks : state'[u] = "DISPATCHED" => uncompleted'[u] # 0
    BY <1>a, <1>b, <2>2, <2>3, <2>4, NotifyDrain
  <2> QED
    BY <1>b, <2>1, <2>5 DEF DrainInv, clientVars
<1>6. CASE \E w \in Workers : Pop(w) \/ Start(w) \/ Finish(w) \/ Unlock(w) \/ Release(w)
  <2>1. PICK w \in Workers : Pop(w) \/ Start(w) \/ Finish(w) \/ Unlock(w) \/ Release(w)
    BY <1>6
  <2> USE DEF Pop, Start, Finish, Unlock, Release, taskVars, poolVars, clientVars
  <2>2. /\ UNCHANGED << running, cpc, uncompleted, scheduled, deps >>
        /\ queue' # << >> => queue # << >>
    BY <1>a, <2>1 DEF TypeOK, PoolTypeOK
  <2>3. \A v \in Workers : wpc'[v] = "returned" <=> wpc[v] = "returned"
    BY <1>a, <2>1 DEF TypeOK, WorkerTypeOK
  <2>4. \A u \in Tasks : state'[u] = "DISPATCHED" => state[u] = "DISPATCHED"
    BY <1>a, <2>1 DEF TypeOK, TaskTypeOK
  <2> QED
    BY <1>b, <2>2, <2>3, <2>4 DEF DrainInv
<1>7. CASE \E w \in Workers : Return(w)
  <2>1. ~running /\ queue = << >>
    BY <1>7 DEF Return, MayReturn
  <2> QED
    BY <1>b, <1>7, <2>1 DEF DrainInv, Return, taskVars, poolVars, clientVars
<1>8. CASE Shutdown
  BY <1>b, <1>8 DEF DrainInv, Shutdown, taskVars, workerVars, clientVars
<1>9. CASE UNCHANGED vars
  BY <1>9 DEF DrainInv, vars, taskVars, poolVars, workerVars, clientVars
<1> QED
  BY <1>1, <1>2, <1>3, <1>4, <1>5, <1>6, <1>7, <1>8, <1>9
     DEF Next, Stopped, ClientStep, WorkerStep

(* The tasks that are not completed when all threads have returned would    *)
(* have to wait for each other.                                             *)
LEMMA DrainLemma ==
  ASSUME IInv, DrainInv
  PROVE  DrainedWhenJoined
<1> DEFINE Stuck == {t \in scheduled : state[t] # "COMPLETED"}
<1> SUFFICES ASSUME Joined, Stuck # {} PROVE FALSE
  BY DEF DrainedWhenJoined
<1>a. TypeOK /\ WorkerInv /\ ClientInv /\ PlaceInv /\ DependencyInv /\ CounterExact
  BY DEF IInv
<1>1. /\ ~running /\ queue = << >>
      /\ \A w \in Workers : wtask[w] = None /\ todo[w] = {}
      /\ \A c \in Clients : cpc[c] # "dispatching"
  BY <1>a, TaskPoolAssumption DEF Joined, DrainInv, WorkerInv
<1>2. ASSUME NEW t \in Stuck PROVE deps[t] \cap Stuck # {}
  <2>1. t \in Tasks /\ t \in scheduled /\ t # None
    BY <1>a, TaskPoolAssumption DEF TypeOK
  <2>2. ~Queued(t)
    BY <1>1 DEF Queued
  <2>3. state[t] = "DISPATCHED"
    BY <1>a, <1>1, <2>1, <2>2 DEF PlaceInv, TypeOK, TaskTypeOK, States
  <2>4. Waiting(t) # {}
    <3>1. uncompleted[t] # 0 /\ uncompleted[t] = Cardinality(Waiting(t))
      BY <1>a, <2>1, <2>3 DEF DrainInv, CounterExact
    <3> QED
      BY <3>1, FS_EmptySet
  <2>5. PICK d \in Tasks : d \in Waiting(t)
    BY <2>4 DEF Waiting
  <2>6. t \in dependents[d] /\ state[d] # "COMPLETED"
    BY <1>a, <1>1, <2>1, <2>5 DEF Waiting, ClientInv
  <2>7. d \in deps[t] /\ d \in scheduled
    BY <1>a, <2>1, <2>6 DEF DependencyInv, DrainInv
  <2> QED
    BY <2>6, <2>7
<1>3. \E t \in Stuck : deps[t] \cap Stuck = {}
  BY DEF DrainInv
<1> QED
  BY <1>2, <1>3

(* ~ThreadPool joins its threads only when every scheduled task has run,    *)
(* whatever depends on whatever and however many threads there are: the map *)
(* tasks_not_ready_ that it drops is empty, and no cycle of dependencies    *)
(* can be built.                                                            *)
THEOREM DestructorDrains == SafeSpec => []DrainedWhenJoined
<1>1. Init => DrainInv
  BY DEF Init, DrainInv
<1>2. IInv /\ DrainInv => DrainedWhenJoined
  BY DrainLemma
<1> QED
  BY <1>1, <1>2, DrainStep, Invariance, PTL DEF SafeSpec

-----------------------------------------------------------------------------
(* The pool implements the task graph, as far as safety goes.               *)

LEMMA InitRefines == Init => Graph!Init
BY DEF Init, Graph!Init, phaseBar, phaseOf

(* phaseBar, one task at a time.                                            *)
LEMMA PhaseOf ==
  \A t \in Tasks :
    /\ phaseBar[t] = phaseOf(t)
    /\ state[t] = "RUNNING" => phaseBar[t] = "executing"
    /\ state[t] = "COMPLETED" => phaseBar[t] = "completed"
    /\ state[t] \notin {"RUNNING", "COMPLETED"} =>
         phaseBar[t] = IF t \in scheduled THEN "scheduled" ELSE "created"
BY DEF phaseBar, phaseOf

(* A step that neither starts, completes nor schedules a task is invisible. *)
LEMMA PhaseSame ==
  ASSUME scheduled' = scheduled,
         \A u \in Tasks : /\ state'[u] = "RUNNING" <=> state[u] = "RUNNING"
                          /\ state'[u] = "COMPLETED" <=> state[u] = "COMPLETED"
  PROVE  phaseBar' = phaseBar
<1>1. ASSUME NEW u \in Tasks PROVE phaseOf(u)' = phaseOf(u)
  BY DEF phaseOf
<1> QED
  BY <1>1 DEF phaseBar

(* A step that changes the phase of one task.                               *)
LEMMA PhaseExcept ==
  ASSUME NEW t \in Tasks, NEW p, phaseBar'[t] = p,
         \A u \in Tasks \ {t} : /\ state'[u] = state[u]
                                /\ u \in scheduled' <=> u \in scheduled
  PROVE  phaseBar' = [phaseBar EXCEPT ![t] = p]
<1>1. ASSUME NEW u \in Tasks \ {t} PROVE phaseBar'[u] = phaseBar[u]
  <2>1. phaseOf(u)' = phaseOf(u)
    BY DEF phaseOf
  <2> QED
    BY <2>1 DEF phaseBar
<1>2. phaseBar = [u \in Tasks |-> phaseBar[u]] /\ phaseBar' = [u \in Tasks |-> phaseBar'[u]]
  BY DEF phaseBar, phaseOf
<1> QED
  BY <1>1, <1>2

(* What a notification leaves visible: nothing.                             *)
LEMMA NotificationHidden ==
  ASSUME IInv, NEW t \in Tasks, OnDependencyCompleted(t), scheduled' = scheduled
  PROVE  phaseBar' = phaseBar
<1>1. state \in [Tasks -> States]
  BY DEF IInv, TypeOK, TaskTypeOK
<1>2. CASE Readies(t)
  BY <1>1, <1>2, PhaseSame DEF OnDependencyCompleted, MakeReady, Readies
<1>3. CASE ~Readies(t)
  BY <1>3, PhaseSame DEF OnDependencyCompleted
<1> QED
  BY <1>2, <1>3

LEMMA StepRefines == IInv /\ [Next]_vars => [Graph!Next]_(Graph!vars)
<1> SUFFICES ASSUME IInv, [Next]_vars PROVE Graph!Next \/ UNCHANGED << phaseBar, deps >>
  BY DEF Graph!vars
<1>a. TypeOK /\ WorkerInv /\ ClientInv /\ PlaceInv /\ DependencyInv
  BY DEF IInv
<1>b. state \in [Tasks -> States] /\ scheduled \subseteq Tasks
  BY <1>a DEF TypeOK, TaskTypeOK
<1>1. CASE \E c \in Clients, t, d \in Tasks : AddDependency(c, t, d)
  <2>1. PICK c \in Clients, t \in Tasks, d \in Tasks : AddDependency(c, t, d)
    BY <1>1
  <2> USE <2>1 DEF AddDependency
  <2>2. phaseBar' = phaseBar
    BY PhaseSame
  <2>3. phaseBar[t] = "created"
    BY <1>a, PhaseOf DEF Owned, PlaceInv
  <2>4. phaseBar[d] # "created"
    BY PhaseOf
  <2>5. Graph!Depend(t, d)
    BY <2>2, <2>3, <2>4 DEF Graph!Depend
  <2> QED
    BY <2>5 DEF Graph!Next
<1>2. CASE \E c \in Clients, t \in Tasks : Schedule(c, t)
  <2>1. PICK c \in Clients, t \in Tasks : Schedule(c, t)
    BY <1>2
  <2> USE <2>1 DEF Schedule, taskVars
  <2>2. state[t] = "NEW" /\ phaseBar[t] = "created"
    BY <1>a, PhaseOf DEF Owned, PlaceInv
  <2>3. phaseBar'[t] = "scheduled"
    BY <2>2 DEF phaseBar, phaseOf
  <2>4. phaseBar' = [phaseBar EXCEPT ![t] = "scheduled"]
    BY <2>3, PhaseExcept
  <2>5. Graph!Submit(t)
    BY <2>2, <2>4 DEF Graph!Submit
  <2> QED
    BY <2>5 DEF Graph!Next
<1>3. CASE \E c \in Clients : ClientStep(c)
  <2>1. PICK c \in Clients : ClientStep(c)
    BY <1>3
  <2>2. CASE AddDependentTask(c)
    <3>1. ctask[c] \in Tasks
      BY <1>a, <2>2 DEF AddDependentTask, ClientInv, TypeOK, ClientTypeOK
    <3>2. CASE AlreadyCompleted(cdep[c])
      BY <2>2, <3>1, <3>2, NotificationHidden DEF AddDependentTask
    <3>3. CASE ~AlreadyCompleted(cdep[c])
      BY <2>2, <3>3, PhaseSame DEF AddDependentTask
    <3> QED
      BY <3>2, <3>3
  <2>3. CASE SetThreadPool(c)
    <3>1. state[ctask[c]] = "NEW"
      BY <1>a, <2>3 DEF SetThreadPool, ClientInv
    <3>2. \A u \in Tasks : /\ state'[u] = "RUNNING" <=> state[u] = "RUNNING"
                           /\ state'[u] = "COMPLETED" <=> state[u] = "COMPLETED"
      BY <1>b, <2>3, <3>1 DEF SetThreadPool, MakeReady
    <3> QED
      BY <2>3, <3>2, PhaseSame DEF SetThreadPool
  <2> QED
    BY <2>1, <2>2, <2>3 DEF ClientStep
<1>4. CASE \E w \in Workers : WorkerStep(w)
  <2>1. PICK w \in Workers : WorkerStep(w)
    BY <1>4
  <2>2. CASE Pop(w) \/ Unlock(w) \/ Release(w) \/ Return(w)
    BY <2>2, PhaseSame DEF Pop, Unlock, Release, Return, taskVars
  <2>3. CASE Start(w)
    <3>1. PICK t \in Tasks : wtask[w] = t
      BY <1>a, <2>3 DEF Start, WorkerInv, TypeOK, WorkerTypeOK
    <3>2. state[t] = "DEPENDENCIES_COMPLETED" /\ t \in scheduled /\ t # None
      BY <1>a, <2>3, <3>1, TaskPoolAssumption DEF Start, WorkerInv
    <3>3. \A d \in deps[t] : phaseBar[d] = "completed"
      <4>1. \A d \in deps[t] : d \in Tasks /\ state[d] = "COMPLETED"
        BY <1>a, <3>2 DEF DependencyInv, TypeOK
      <4> QED
        BY <4>1, PhaseOf
    <3>4. phaseBar' = [phaseBar EXCEPT ![t] = "executing"]
      <4>1. state'[t] = "RUNNING" /\ \A u \in Tasks \ {t} : state'[u] = state[u]
        BY <1>b, <2>3, <3>1 DEF Start
      <4>2. phaseBar'[t] = "executing"
        BY <4>1 DEF phaseBar, phaseOf
      <4> QED
        BY <2>3, <4>1, <4>2, PhaseExcept DEF Start
    <3>5. Graph!Start(t)
      BY <2>3, <3>2, <3>3, <3>4, PhaseOf DEF Graph!Start, Start
    <3> QED
      BY <3>5 DEF Graph!Next
  <2>4. CASE Finish(w)
    <3>1. PICK t \in Tasks : wtask[w] = t
      BY <1>a, <2>4 DEF Finish, WorkerInv, TypeOK, WorkerTypeOK
    <3>2. state[t] = "RUNNING"
      BY <1>a, <2>4, <3>1 DEF Finish, WorkerInv
    <3>3. phaseBar' = [phaseBar EXCEPT ![t] = "completed"]
      <4>1. state'[t] = "COMPLETED" /\ \A u \in Tasks \ {t} : state'[u] = state[u]
        BY <1>b, <2>4, <3>1 DEF Finish
      <4>2. phaseBar'[t] = "completed"
        BY <4>1 DEF phaseBar, phaseOf
      <4> QED
        BY <2>4, <4>1, <4>2, PhaseExcept DEF Finish
    <3>4. Graph!Finish(t)
      BY <2>4, <3>2, <3>3, PhaseOf DEF Graph!Finish, Finish
    <3> QED
      BY <3>4 DEF Graph!Next
  <2>5. CASE NotifyDependent(w)
    <3>1. PICK t \in todo[w] : OnDependencyCompleted(t)
      BY <2>5 DEF NotifyDependent
    <3>2. t \in Tasks
      BY <1>a DEF TypeOK, WorkerTypeOK
    <3> QED
      BY <2>5, <3>1, <3>2, NotificationHidden DEF NotifyDependent
  <2> QED
    BY <2>1, <2>2, <2>3, <2>4, <2>5 DEF WorkerStep
<1>5. CASE Shutdown
  BY <1>5, PhaseSame DEF Shutdown, taskVars
<1>6. CASE UNCHANGED vars
  BY <1>6, PhaseSame DEF vars, taskVars
<1> QED
  BY <1>1, <1>2, <1>3, <1>4, <1>5, <1>6 DEF Next, Stopped

(* Every step of the pool is a step of the task graph or invisible in it: a *)
(* work item is started once, after what it depends on.                     *)
THEOREM PoolRefinesGraph == SafeSpec => Graph!SafeSpec
<1>1. Init => Graph!Init
  BY InitRefines
<1>2. IInv /\ [Next]_vars => [Graph!Next]_(Graph!vars)
  BY StepRefines
<1> QED
  BY <1>1, <1>2, Invariance, PTL DEF SafeSpec, Graph!SafeSpec


-----------------------------------------------------------------------------
(***************************************************************************)
(* The cycles of searches: the inductive invariant.                        *)
(***************************************************************************)

\* A search that has not completed is a dependency of the current node's
\* finish task or of one that is scheduled.
SearchesHeld ==
  \A p \in outstanding : p \in nodeDeps \/ \E t \in finishing : p \in t.deps

\* A finish task that has not completed holds back the when-done task, the one
\* that is scheduled or the next.
NodesHeld ==
  \A t \in finishing : t.id \in doneDeps \/ \E d \in doneTasks : t.id \in d

\* when_done_ is set exactly while its task is scheduled, and then the cycle is
\* closed: nothing has been added to the next one.
CycleClosed ==
  IF callback = NoCallback
  THEN doneTasks = {}
  ELSE /\ nodeDeps = {}
       /\ doneDeps = {}
       /\ \E d \in SUBSET Nat : doneTasks = {d}

\* The finish tasks are numbered as the nodes were, and the counters differ by
\* those that have not completed.
NodesCounted ==
  /\ \A t \in finishing : t.id < numStarted
  /\ IsFiniteSet(finishing)
  /\ numFinished + Cardinality(finishing) = numStarted

\* A matcher is only under construction while a search waits for it.
MatchersWanted == \A s \in building : \E p \in outstanding : p[1] = s

CycleIInv ==
  /\ CycleTypeOK
  /\ SearchesHeld
  /\ NodesHeld
  /\ CycleClosed
  /\ NodesCounted
  /\ MatchersWanted
  /\ PointeesAlive
  /\ ~checkFailed
  /\ found = matched

USE DEF cbVars, searchVars, nodeVars, doneVars, cycleVars, Searches, FinishTasks

LEMMA InitCycle == CycleInit => CycleIInv
<1> SUFFICES ASSUME CycleInit PROVE CycleIInv
  OBVIOUS
<1> USE CycleAssumption DEF CycleInit, CBInit
<1>1. CycleTypeOK
  BY DEF CycleTypeOK, CBTypeOK
<1>2. SearchesHeld /\ NodesHeld /\ MatchersWanted
  BY DEF SearchesHeld, NodesHeld, MatchersWanted
<1>3. CycleClosed
  BY DEF CycleClosed
<1>4. NodesCounted
  BY FS_EmptySet DEF NodesCounted
<1>5. PointeesAlive /\ ~checkFailed /\ found = matched
  BY DEF PointeesAlive
<1> QED
  BY <1>1, <1>2, <1>3, <1>4, <1>5 DEF CycleIInv

\* When the when-done task can run, everything of the cycle has completed.
LEMMA EverythingDone ==
  ASSUME CycleIInv, NEW d \in doneTasks, \A t \in finishing : t.id \notin d
  PROVE  /\ callback # NoCallback
         /\ doneTasks = {d}
         /\ finishing = {} /\ outstanding = {} /\ building = {}
         /\ doneDeps = {} /\ nodeDeps = {}
         /\ numFinished = numStarted
<1>1. callback # NoCallback /\ nodeDeps = {} /\ doneDeps = {} /\ doneTasks = {d}
  BY DEF CycleIInv, CycleClosed
<1>2. finishing = {}
  BY <1>1 DEF CycleIInv, NodesHeld
<1>3. outstanding = {}
  BY <1>1, <1>2 DEF CycleIInv, SearchesHeld
<1>4. building = {}
  BY <1>3 DEF CycleIInv, MatchersWanted
<1>5. numFinished = numStarted
  BY <1>2, FS_EmptySet DEF CycleIInv, NodesCounted, CycleTypeOK, CBTypeOK
<1> QED
  BY <1>1, <1>2, <1>3, <1>4, <1>5

LEMMA StepCycle == CycleIInv /\ [CycleNext]_cycleVars => CycleIInv'
<1> SUFFICES ASSUME CycleIInv, [CycleNext]_cycleVars PROVE CycleIInv'
  OBVIOUS
<1> USE CycleAssumption
<1>1. ASSUME NEW p \in Searches, Add(p) PROVE CycleIInv'
  <2> USE <1>1 DEF Add, MaybeAddConstraint
  <2>1. CycleTypeOK'
    BY DEF CycleIInv, CycleTypeOK, CBTypeOK
  <2>2. SearchesHeld' /\ NodesHeld' /\ CycleClosed' /\ NodesCounted'
    BY DEF CycleIInv, SearchesHeld, NodesHeld, CycleClosed, NodesCounted
  <2>3. MatchersWanted' /\ PointeesAlive'
    BY DEF CycleIInv, MatchersWanted, PointeesAlive
  <2> QED
    BY <2>1, <2>2, <2>3 DEF CycleIInv
<1>2. ASSUME EndOfNode PROVE CycleIInv'
  <2> USE <1>2 DEF EndOfNode, NotifyEndOfNode
  <2> DEFINE new == [id |-> numStarted, deps |-> nodeDeps]
  <2>1. CycleTypeOK'
    BY DEF CycleIInv, CycleTypeOK, CBTypeOK
  <2>2. SearchesHeld'
    BY DEF CycleIInv, SearchesHeld
  <2>3. NodesHeld' /\ CycleClosed'
    BY DEF CycleIInv, NodesHeld, CycleClosed
  <2>4. NodesCounted'
    <3>1. new \notin finishing
      BY DEF CycleIInv, NodesCounted, CycleTypeOK, CBTypeOK
    <3>2. IsFiniteSet(finishing') /\ Cardinality(finishing') = Cardinality(finishing) + 1
      BY <3>1, FS_AddElement DEF CycleIInv, NodesCounted
    <3>3. Cardinality(finishing) \in Nat
      BY FS_CardinalityType DEF CycleIInv, NodesCounted
    <3> QED
      BY <3>2, <3>3 DEF CycleIInv, NodesCounted, CycleTypeOK, CBTypeOK
  <2>5. MatchersWanted' /\ PointeesAlive'
    BY DEF CycleIInv, MatchersWanted, PointeesAlive
  <2> QED
    BY <2>1, <2>2, <2>3, <2>4, <2>5 DEF CycleIInv
<1>3. ASSUME NEW cb \in Callbacks, Done(cb) PROVE CycleIInv'
  <2> USE <1>3 DEF Done, WhenDone
  <2>1. CycleTypeOK'
    BY DEF CycleIInv, CycleTypeOK, CBTypeOK
  <2>2. doneTasks' = {doneDeps} /\ doneDeps' = {} /\ callback' = cb /\ callback = NoCallback
    BY DEF CycleIInv, CycleClosed
  <2>3. CycleClosed'
    BY <2>2 DEF CycleIInv, CycleClosed, CycleTypeOK, CBTypeOK
  <2>4. NodesHeld'
    BY <2>2 DEF CycleIInv, NodesHeld, CycleClosed
  <2>5. SearchesHeld' /\ NodesCounted' /\ MatchersWanted' /\ PointeesAlive'
    BY DEF CycleIInv, SearchesHeld, NodesCounted, MatchersWanted, PointeesAlive
  <2> QED
    BY <2>1, <2>2, <2>3, <2>4, <2>5 DEF CycleIInv
<1>4. ASSUME NEW S \in SUBSET matchers, Trim(S) PROVE CycleIInv'
  <2> USE <1>4 DEF Trim, DeleteScanMatchers
  <2>1. outstanding = {} /\ building = {}
    BY DEF CycleIInv, PointeesAlive, MatchersWanted
  <2>2. CycleTypeOK'
    BY DEF CycleIInv, CycleTypeOK, CBTypeOK
  <2>3. SearchesHeld' /\ NodesHeld' /\ CycleClosed' /\ NodesCounted'
    BY DEF CycleIInv, SearchesHeld, NodesHeld, CycleClosed, NodesCounted
  <2>4. MatchersWanted' /\ PointeesAlive'
    BY <2>1 DEF CycleIInv, MatchersWanted, PointeesAlive
  <2> QED
    BY <2>2, <2>3, <2>4 DEF CycleIInv
<1>5. ASSUME NEW p \in outstanding, Search(p) PROVE CycleIInv'
  <2> USE <1>5 DEF Search, Compute
  <2>1. CycleTypeOK' /\ found' = matched'
    BY DEF CycleIInv, CycleTypeOK, CBTypeOK
  <2>2. SearchesHeld' /\ NodesHeld' /\ CycleClosed' /\ NodesCounted'
    BY DEF CycleIInv, SearchesHeld, NodesHeld, CycleClosed, NodesCounted
  <2>3. MatchersWanted' /\ PointeesAlive'
    BY DEF CycleIInv, MatchersWanted, PointeesAlive
  <2> QED
    BY <2>1, <2>2, <2>3 DEF CycleIInv
<1>6. ASSUME NEW s \in building, BuildMatcher(s), UNCHANGED << matched, delivered >>
      PROVE CycleIInv'
  <2> USE <1>6 DEF BuildMatcher
  <2>1. CycleTypeOK'
    BY DEF CycleIInv, CycleTypeOK, CBTypeOK
  <2>2. SearchesHeld' /\ NodesHeld' /\ CycleClosed' /\ NodesCounted'
    BY DEF CycleIInv, SearchesHeld, NodesHeld, CycleClosed, NodesCounted
  <2>3. MatchersWanted' /\ PointeesAlive'
    BY DEF CycleIInv, MatchersWanted, PointeesAlive
  <2> QED
    BY <2>1, <2>2, <2>3 DEF CycleIInv
<1>7. ASSUME NEW t \in finishing, FinishNode(t), UNCHANGED << matched, delivered >>
      PROVE CycleIInv'
  <2> USE <1>7 DEF FinishNode
  <2>1. CycleTypeOK'
    BY DEF CycleIInv, CycleTypeOK, CBTypeOK
  <2>2. SearchesHeld'
    BY DEF CycleIInv, SearchesHeld
  <2>3. NodesHeld' /\ CycleClosed'
    BY DEF CycleIInv, NodesHeld, CycleClosed
  <2>4. NodesCounted'
    <3>1. IsFiniteSet(finishing') /\ Cardinality(finishing') = Cardinality(finishing) - 1
      BY FS_RemoveElement DEF CycleIInv, NodesCounted
    <3>2. Cardinality(finishing) \in Nat
      BY FS_CardinalityType DEF CycleIInv, NodesCounted
    <3> QED
      BY <3>1, <3>2 DEF CycleIInv, NodesCounted, CycleTypeOK, CBTypeOK
  <2>5. MatchersWanted' /\ PointeesAlive'
    BY DEF CycleIInv, MatchersWanted, PointeesAlive
  <2> QED
    BY <2>1, <2>2, <2>3, <2>4, <2>5 DEF CycleIInv
<1>8. ASSUME CallCallback PROVE CycleIInv'
  <2>1. PICK d \in doneTasks : RunWhenDone(d)
    BY <1>8 DEF CallCallback
  <2> USE <1>8, <2>1 DEF CallCallback, RunWhenDone
  <2>2. /\ callback # NoCallback /\ doneTasks = {d}
        /\ finishing = {} /\ outstanding = {} /\ building = {}
        /\ doneDeps = {} /\ nodeDeps = {} /\ numFinished = numStarted
    BY EverythingDone
  <2>3. CycleTypeOK'
    BY DEF CycleIInv, CycleTypeOK, CBTypeOK
  <2>4. SearchesHeld' /\ NodesHeld' /\ CycleClosed' /\ NodesCounted'
    BY <2>2 DEF CycleIInv, SearchesHeld, NodesHeld, CycleClosed, NodesCounted
  <2>5. MatchersWanted' /\ PointeesAlive'
    BY <2>2 DEF CycleIInv, MatchersWanted, PointeesAlive
  <2> QED
    BY <2>2, <2>3, <2>4, <2>5 DEF CycleIInv
<1>9. CASE UNCHANGED cycleVars
  BY <1>9 DEF CycleIInv, CycleTypeOK, CBTypeOK, SearchesHeld, NodesHeld, CycleClosed,
     NodesCounted, MatchersWanted, PointeesAlive
<1> QED
  BY <1>1, <1>2, <1>3, <1>4, <1>5, <1>6, <1>7, <1>8, <1>9 DEF CycleNext, BuildOrFinish

\* The invariant holds throughout.
THEOREM CycleInvariance == CycleSpec => []CycleIInv
BY InitCycle, StepCycle, PTL DEF CycleSpec

\* The class stays well typed, whatever the number of cycles.
THEOREM CycleTypeCorrect == CycleSpec => []CycleTypeOK
<1>1. CycleIInv => CycleTypeOK
  BY DEF CycleIInv
<1> QED
  BY CycleInvariance, <1>1, PTL

\* No search outlives the entry of constraints_ it writes to or the scan matcher
\* it reads.
THEOREM PointersValid == CycleSpec => []NoDanglingPointer
<1>1. CycleIInv => NoDanglingPointer
  BY DEF CycleIInv, NoDanglingPointer
<1> QED
  BY CycleInvariance, <1>1, PTL

\* The callback is called once all searches of the cycle have completed, with
\* every constraint they found.
THEOREM CallbackComplete == CycleSpec => CalledWithEverything
<1>1. CycleIInv /\ [CycleNext]_cycleVars =>
        [CallCallback => /\ outstanding = {}
                         /\ numFinished = numStarted
                         /\ delivered' = matched]_cycleVars
  <2> SUFFICES ASSUME CycleIInv, CallCallback
               PROVE  outstanding = {} /\ numFinished = numStarted /\ delivered' = matched
    OBVIOUS
  <2>1. PICK d \in doneTasks : RunWhenDone(d)
    BY DEF CallCallback
  <2>2. outstanding = {} /\ numFinished = numStarted
    BY <2>1, EverythingDone DEF RunWhenDone
  <2> QED
    BY <2>2 DEF CallCallback, CycleIInv
<1> QED
  BY CycleInvariance, <1>1, PTL DEF CycleSpec, CalledWithEverything
=============================================================================
