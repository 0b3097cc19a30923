---------------------------- MODULE PoseGraph_proofs ----------------------------
(***************************************************************************)
(* The pose graph, for any trajectories, threads of the pool and options.  *)
(*                                                                         *)
(* Control (IInv): one drainer at a time and none too few, a Solve without *)
(* a lock that nothing disturbs, searches whose pointers stay valid.       *)
(* Data (WholeInv): what is on its way to the queue, the life of each      *)
(* trajectory, and the graph it leaves behind: no reference dangles, no    *)
(* search is missed or made twice.  Last the CHECKs (SafeInv), for a       *)
(* client that keeps to the interface.                                     *)
(***************************************************************************)
EXTENDS PoseGraph, SequenceTheorems, FiniteSetTheorems, TLAPS

-----------------------------------------------------------------------------
(* Types, in parts that actions change or leave alone.                     *)

Pairs == SubmapIds \X NodeIds

Items ==
  [op : {"data", "finish", "delete", "freeze", "submapFromProto", "nodeFromProto",
         "nodeToSubmap", "trimmer"}, traj : Trajs]
    \cup [op : {"final", "iterations"}, traj : {None}]
    \cup [op : {"node"}, traj : Trajs, index : 0 .. MaxNodes - 1, finishes : BOOLEAN]

Steps ==
  [do : {"enqueue"}, item : Items]
    \cup [do : {"insert"}, traj : Trajs, nodes : SUBSET NodeIds,
          submaps : SUBSET SubmapIds, count : {0, 1}]
    \cup [do : {"mark"}, traj : Trajs]
    \cup [do : {"sample", "destroy", "gone"}]
    \cup [do : {"await", "join"}, expected : Nat]

Jobs ==
  [at : {"idle", "drain", "whendone"}]
    \cup [at : {"exec"}, item : Items]
    \cup [at : {"search"}, item : Items, pairs : SUBSET Pairs]
    \cup [at : {"handle", "solving", "optimized", "wait"}, result : SUBSET Pairs]

ClientType ==
  /\ phase \in [Trajs -> {"new", "open", "loaded", "finished", "deleted"}]
  /\ scans \in [Trajs -> 0 .. MaxNodes]
  /\ todo \in Seq(Steps)
  /\ notified \in BOOLEAN
  /\ dataCalls \in Nat /\ finalCalls \in Nat

QueueType == queueOpen \in BOOLEAN /\ queue \in Seq(Items) /\ drainTasks \in Nat

JobType == job \in [Workers -> Jobs]

StateType ==
  /\ tstate \in [Trajs -> {"unknown", "ACTIVE", "FINISHED", "FROZEN", "DELETED"}]
  /\ deletion \in [Trajs -> {"NORMAL", "SCHEDULED_FOR_DELETION", "WAIT_FOR_DELETION"}]

GraphType ==
  /\ nodes \subseteq NodeIds
  /\ submaps \subseteq SubmapIds /\ finished \subseteq SubmapIds
  /\ nodeIds \subseteq Pairs

OptType ==
  /\ optNodes \subseteq NodeIds /\ optSubmaps \subseteq SubmapIds
  /\ intra \subseteq Pairs /\ inter \subseteq Pairs

MiscType ==
  numNodes \in Nat /\ sinceLoop \in Nat /\ trimmers \subseteq Trajs /\ tried \subseteq Pairs

BuilderType == CB!CBTypeOK /\ callback \in {None, "handle", "wait"}

TypeInv ==
  /\ ClientType /\ QueueType /\ JobType /\ StateType /\ GraphType /\ OptType
  /\ MiscType /\ BuilderType

-----------------------------------------------------------------------------
(* The inductive invariant.                                                *)

\* The queue is open while a thread is in DrainWorkQueue or HandleWorkQueue, or
\* a task or the callback will bring one there.
DrainInv ==
  \/ /\ ~queueOpen /\ Draining = {} /\ drainTasks = 0 /\ callback # "handle"
  \/ /\ queueOpen /\ Draining = {} /\ drainTasks = 1 /\ callback # "handle"
  \/ /\ queueOpen /\ Draining = {} /\ drainTasks = 0 /\ callback = "handle"
  \/ /\ queueOpen /\ drainTasks = 0 /\ callback # "handle"
     /\ \E w \in Workers : Draining = {w}

\* The client waits in WaitForAllComputations for the callback that it has set.
Joining == todo # << >> /\ Head(todo).do = "join" /\ ~notified /\ ~queueOpen

WaitInv ==
  /\ callback = "wait" => Joining
  /\ \A w \in Workers : job[w].at = "wait" =>
       /\ Joining /\ callback # "wait"
       /\ \A v \in Workers : job[v].at = "wait" => v = w

\* A search that has not completed is a dependency of the current node's finish
\* task or of one that is scheduled, and that one holds back the when-done task,
\* the one that is scheduled or the next; a matcher is only built for a search.
HeldInv ==
  /\ \A p \in outstanding : p \in nodeDeps \/ \E t \in finishing : p \in t.deps
  /\ \A t \in finishing : t.id \in doneDeps \/ \E d \in doneTasks : t.id \in d
  /\ \A s \in building : \E p \in outstanding : p[1] = s

\* While a callback is set its task is scheduled and nothing is added to the
\* next cycle; searches are only added in the middle of a node.
CycleInv ==
  /\ ~checkFailed
  /\ IF callback = None
     THEN doneTasks = {}
     ELSE doneDeps = {} /\ \E d \in doneTasks : doneTasks = {d}
  /\ nodeDeps # {} => \E w \in Workers : job[w].at = "search"

\* What searches point to is there, and when the optimization runs there are
\* none.
ReachInv ==
  /\ SearchesReachable
  /\ \A w \in Workers :
       job[w].at \in {"handle", "solving", "optimized"} => outstanding = {} /\ building = {}

IInv == TypeInv /\ DrainInv /\ WaitInv /\ HeldInv /\ CycleInv /\ ReachInv

-----------------------------------------------------------------------------
(* Lemmas about the operators.                                             *)

LEMMA DivMonotone ==
  ASSUME NEW a \in Nat, NEW b \in Nat, NEW n \in Nat \ {0}, a <= b
  PROVE  a \div n \in Nat /\ b \div n \in Nat /\ a \div n <= b \div n
OBVIOUS

\* The submaps of a scan have ids.
LEMMA ScanIds ==
  ASSUME NEW t \in Trajs, NEW i \in 0 .. MaxNodes - 1
  PROVE  /\ <<t, i>> \in NodeIds
         /\ <<t, BackOf(i)>> \in SubmapIds /\ FrontOf(t, i) \in SubmapIds
         /\ InsertionSubmaps(t, i) \subseteq SubmapIds
         /\ FinishesFront(i) \in BOOLEAN
<1>1. MaxNodes \in Nat \ {0} /\ NumRangeData \in Nat \ {0}
  BY PoseGraphAssumption
<1>2. i \in Nat /\ i <= MaxNodes
  BY <1>1
<1>3. BackOf(i) \in Nat /\ MaxNodes \div NumRangeData \in Nat /\ BackOf(i) <= MaxNodes \div NumRangeData
  BY <1>1, <1>2, DivMonotone DEF BackOf
<1>4. BackOf(i) \in 0 .. (MaxNodes \div NumRangeData)
  BY <1>3
<1>5. BackOf(i) # 0 => BackOf(i) - 1 \in 0 .. (MaxNodes \div NumRangeData)
  BY <1>3
<1>6. 0 \in 0 .. (MaxNodes \div NumRangeData)
  BY <1>3
<1>. QED
  BY <1>4, <1>5, <1>6 DEF NodeIds, SubmapIds, FrontOf, InsertionSubmaps, FinishesFront

\* What LoadState reads has ids.
LEMMA LoadedIds ==
  ASSUME NEW t \in Trajs
  PROVE  <<t, 0>> \in NodeIds /\ <<t, 0>> \in SubmapIds
<1>1. 0 \in 0 .. MaxNodes - 1
  BY PoseGraphAssumption
<1>2. BackOf(0) = 0
  BY PoseGraphAssumption DEF BackOf
<1>. QED
  BY <1>1, <1>2, ScanIds

LEMMA HeadTailSteps ==
  ASSUME NEW S, NEW s \in Seq(S), s # << >>
  PROVE  Head(s) \in S /\ Tail(s) \in Seq(S)
BY HeadTailProperties

LEMMA SeqTypes ==
  ASSUME NEW S
  PROVE  /\ << >> \in Seq(S)
         /\ \A a \in S : << a >> \in Seq(S)
         /\ \A a, b \in S : << a, b >> \in Seq(S)
         /\ \A a, b, c, d, e, f \in S : << a, b, c, d, e, f >> \in Seq(S)
         /\ \A s \in Seq(S), a \in S : Append(s, a) \in Seq(S)
         /\ \A s, r \in Seq(S) : s \o r \in Seq(S)
BY ConcatProperties

\* The jobs, by what they hold.
LEMMA JobShapes ==
  ASSUME JobType, NEW w \in Workers
  PROVE  /\ job[w] \in Jobs
         /\ job[w].at \in {"exec", "search"} => job[w].item \in Items
         /\ job[w].at = "search" => job[w].pairs \subseteq Pairs
         /\ job[w].at \in {"handle", "solving", "optimized", "wait"}
              => job[w].result \subseteq Pairs
<1>1. PICK j \in Jobs : j = job[w]
  BY DEF JobType
<1>2. /\ j.at \in {"exec", "search"} => j.item \in Items
      /\ j.at = "search" => j.pairs \subseteq Pairs
      /\ j.at \in {"handle", "solving", "optimized", "wait"} => j.result \subseteq Pairs
  BY DEF Jobs
<1>. QED
  BY <1>1, <1>2

LEMMA ItemShapes ==
  ASSUME NEW item \in Items
  PROVE  /\ item.op \notin {"final", "iterations"} => item.traj \in Trajs
         /\ item.op = "node" => item.index \in 0 .. MaxNodes - 1 /\ item.finishes \in BOOLEAN
BY DEF Items

LEMMA StepShapes ==
  ASSUME NEW step \in Steps
  PROVE  /\ step.do = "enqueue" => step.item \in Items
         /\ step.do = "insert" =>
              /\ step.traj \in Trajs /\ step.nodes \subseteq NodeIds
              /\ step.submaps \subseteq SubmapIds /\ step.count \in {0, 1}
         /\ step.do = "mark" => step.traj \in Trajs
         /\ step.do = "await" =>
              step.expected \in Nat /\ [step EXCEPT !.do = "join"] \in Steps
<1>1. step.do = "await" =>
        step.expected \in Nat /\ step = [do |-> "await", expected |-> step.expected]
  BY DEF Steps
<1>2. step.do = "await" => [step EXCEPT !.do = "join"] = [do |-> "join", expected |-> step.expected]
  BY <1>1
<1>3. \A n \in Nat : [do |-> "join", expected |-> n] \in Steps
  BY DEF Steps
<1>. QED
  BY <1>1, <1>2, <1>3 DEF Steps

\* A thread that goes from one job to another.
LEMMA GotoType ==
  ASSUME JobType, NEW w \in Workers, NEW j \in Jobs, Goto(w, j)
  PROVE  /\ JobType' /\ job'[w] = j
         /\ \A v \in Workers : v # w => job'[v] = job[v]
         /\ Draining' = IF j.at \in {"idle", "wait"} THEN Draining \ {w} ELSE Draining \cup {w}
<1>1. /\ JobType' /\ job'[w] = j
      /\ \A v \in Workers : v # w => job'[v] = job[v]
  BY DEF JobType, Goto
<1>. QED
  BY <1>1 DEF Draining

\* What no action of a group of variables changes keeps its type.
LEMMA Frames ==
  ASSUME TypeInv
  PROVE  /\ UNCHANGED clientVars => ClientType'
         /\ UNCHANGED queueVars => QueueType'
         /\ UNCHANGED job => JobType'
         /\ UNCHANGED stateVars => StateType'
         /\ UNCHANGED graphVars => GraphType'
         /\ UNCHANGED optVars => OptType'
         /\ UNCHANGED miscVars => MiscType'
         /\ UNCHANGED cbVars => BuilderType'
<1>. USE DEF TypeInv
<1>1. UNCHANGED clientVars => ClientType'
  BY DEF ClientType, clientVars
<1>2. UNCHANGED queueVars => QueueType'
  BY DEF QueueType, queueVars
<1>3. UNCHANGED job => JobType'
  BY DEF JobType
<1>4. UNCHANGED stateVars => StateType'
  BY DEF StateType, stateVars
<1>5. UNCHANGED graphVars => GraphType'
  BY DEF GraphType, graphVars
<1>6. UNCHANGED optVars => OptType'
  BY DEF OptType, optVars
<1>7. UNCHANGED miscVars => MiscType'
  BY DEF MiscType, miscVars
<1>8. UNCHANGED cbVars => BuilderType'
  BY DEF BuilderType, cbVars, CB!CBTypeOK
<1>. QED
  BY <1>1, <1>2, <1>3, <1>4, <1>5, <1>6, <1>7, <1>8

LEMMA JobsMade ==
  /\ Idle \in Jobs
  /\ \A a \in {"drain", "whendone"} : [at |-> a] \in Jobs
  /\ \A item \in Items : [at |-> "exec", item |-> item] \in Jobs
  /\ \A item \in Items, P \in SUBSET Pairs :
       [at |-> "search", item |-> item, pairs |-> P] \in Jobs
  /\ \A a \in {"handle", "solving", "optimized", "wait"}, R \in SUBSET Pairs :
       [at |-> a, result |-> R] \in Jobs
BY DEF Jobs, Idle

LEMMA ItemsMade ==
  ASSUME NEW t \in Trajs
  PROVE  /\ \A op \in {"data", "finish", "delete", "freeze", "submapFromProto", "nodeFromProto",
                       "nodeToSubmap", "trimmer"} : Item(op, t) \in Items
         /\ \A i \in 0 .. MaxNodes - 1 : NodeItem(t, i) \in Items
<1>1. \A i \in 0 .. MaxNodes - 1 : FinishesFront(i) \in BOOLEAN
  BY ScanIds
<1>. QED
  BY <1>1 DEF Items, Item, NodeItem

LEMMA StepsMade ==
  /\ \A item \in Items : Enqueue(item) \in Steps
  /\ \A t \in Trajs, N \in SUBSET NodeIds, S \in SUBSET SubmapIds, c \in {0, 1} :
       Inserting(t, N, S, c) \in Steps
  /\ \A t \in Trajs : [do |-> "mark", traj |-> t] \in Steps
  /\ \A a \in {"sample", "destroy", "gone"} : [do |-> a] \in Steps
  /\ \A n \in Nat : [do |-> "await", expected |-> n] \in Steps
BY DEF Steps, Enqueue, Inserting

\* The calls of the client.
LEMMA CallTypes ==
  ASSUME TypeInv, ClientCalls
  PROVE  TypeInv'
<1>0. /\ QueueType' /\ JobType' /\ StateType' /\ GraphType' /\ OptType' /\ MiscType'
      /\ BuilderType'
  BY Frames DEF ClientCalls, NoEffect
<1>. SUFFICES ClientType'
  BY <1>0 DEF TypeInv
<1>1. ASSUME NEW t \in Trajs, AddTrajectoryBuilder(t) PROVE ClientType'
  <2>1. Enqueue(Item("trimmer", t)) \in Steps
    BY ItemsMade, StepsMade
  <2>2. todo' \in Seq(Steps)
    BY <1>1, <2>1, SeqTypes DEF AddTrajectoryBuilder
  <2>. QED
    BY <1>1, <2>2 DEF AddTrajectoryBuilder, TypeInv, ClientType
<1>2. ASSUME NEW t \in Trajs, AddNode(t) PROVE ClientType'
  <2>1. scans[t] \in 0 .. MaxNodes - 1 /\ scans' \in [Trajs -> 0 .. MaxNodes]
    BY <1>2, PoseGraphAssumption DEF AddNode, TypeInv, ClientType
  <2>2. PICK i \in 0 .. MaxNodes - 1 : i = scans[t]
    BY <2>1
  <2>3. /\ {<<t, i>>} \in SUBSET NodeIds /\ {<<t, BackOf(i)>>} \in SUBSET SubmapIds
        /\ NodeItem(t, i) \in Items
    BY ScanIds, ItemsMade
  <2>4. /\ Inserting(t, {<<t, i>>}, {<<t, BackOf(i)>>}, 1) \in Steps
        /\ Enqueue(NodeItem(t, i)) \in Steps
    BY <2>3, StepsMade
  <2>5. todo' = << Inserting(t, {<<t, i>>}, {<<t, BackOf(i)>>}, 1), Enqueue(NodeItem(t, i)) >>
    BY <1>2, <2>2 DEF AddNode
  <2>6. todo' \in Seq(Steps)
    BY <2>4, <2>5, SeqTypes
  <2>. QED
    BY <1>2, <2>1, <2>6 DEF AddNode, TypeInv, ClientType
<1>3. ASSUME NEW t \in Trajs, AddSensorData(t) PROVE ClientType'
  <2>1. Enqueue(Item("data", t)) \in Steps
    BY ItemsMade, StepsMade
  <2>2. todo' \in Seq(Steps)
    BY <1>3, <2>1, SeqTypes DEF AddSensorData
  <2>. QED
    BY <1>3, <2>2 DEF AddSensorData, TypeInv, ClientType
<1>4. ASSUME NEW t \in Trajs, LoadState(t) PROVE ClientType'
  <2>1. <<t, 0>> \in NodeIds /\ <<t, 0>> \in SubmapIds
    BY LoadedIds
  <2>2. /\ Enqueue(Item("freeze", t)) \in Steps
        /\ Inserting(t, {}, {<<t, 0>>}, 0) \in Steps
        /\ Enqueue(Item("submapFromProto", t)) \in Steps
        /\ Inserting(t, {<<t, 0>>}, {}, 0) \in Steps
        /\ Enqueue(Item("nodeFromProto", t)) \in Steps
        /\ Enqueue(Item("nodeToSubmap", t)) \in Steps
    BY <2>1, ItemsMade, StepsMade
  <2>3. todo' \in Seq(Steps)
    BY <1>4, <2>2, SeqTypes DEF LoadState
  <2>. QED
    BY <1>4, <2>3 DEF LoadState, TypeInv, ClientType
<1>5. ASSUME NEW t \in Trajs, FinishTrajectory(t) PROVE ClientType'
  <2>1. Enqueue(Item("finish", t)) \in Steps
    BY ItemsMade, StepsMade
  <2>2. todo' \in Seq(Steps)
    BY <1>5, <2>1, SeqTypes DEF FinishTrajectory
  <2>. QED
    BY <1>5, <2>2 DEF FinishTrajectory, TypeInv, ClientType
<1>6. ASSUME NEW t \in Trajs, DeleteTrajectory(t) PROVE ClientType'
  <2>1. [do |-> "mark", traj |-> t] \in Steps /\ Enqueue(Item("delete", t)) \in Steps
    BY ItemsMade, StepsMade
  <2>2. todo' \in Seq(Steps)
    BY <1>6, <2>1, SeqTypes DEF DeleteTrajectory
  <2>. QED
    BY <1>6, <2>2 DEF DeleteTrajectory, TypeInv, ClientType
<1>7. ASSUME RunFinalOptimization PROVE ClientType'
  <2>1. Item("final", None) \in Items /\ Item("iterations", None) \in Items
    BY DEF Items, Item
  <2>2. /\ Enqueue(Item("final", None)) \in Steps /\ Enqueue(Item("iterations", None)) \in Steps
        /\ [do |-> "sample"] \in Steps
    BY <2>1, StepsMade
  <2>3. Wait \in Seq(Steps)
    BY <2>2, SeqTypes DEF Wait
  <2>4. todo' \in Seq(Steps)
    BY <1>7, <2>2, <2>3, SeqTypes DEF RunFinalOptimization
  <2>. QED
    BY <1>7, <2>4 DEF RunFinalOptimization, TypeInv, ClientType
<1>8. ASSUME Destroy PROVE ClientType'
  <2>1. [do |-> "sample"] \in Steps /\ [do |-> "destroy"] \in Steps
    BY StepsMade
  <2>2. Wait \in Seq(Steps) /\ << [do |-> "destroy"] >> \in Seq(Steps)
    BY <2>1, SeqTypes DEF Wait
  <2>3. todo' \in Seq(Steps)
    BY <1>8, <2>2, SeqTypes DEF Destroy
  <2>. QED
    BY <1>8, <2>3 DEF Destroy, TypeInv, ClientType
<1>. QED
  BY <1>1, <1>2, <1>3, <1>4, <1>5, <1>6, <1>7, <1>8 DEF ClientCalls

LEMMA AbortTypes ==
  ASSUME TypeInv, NEW function, Abort(function)
  PROVE  TypeInv'
BY Frames DEF Abort, TypeInv

\* The builder's calls.
LEMMA WhenDoneType ==
  ASSUME BuilderType, NEW cb \in {"handle", "wait"}, CB!WhenDone(cb)
  PROVE  BuilderType'
<1>. USE DEF CB!WhenDone, CB!searchVars, CB!nodeVars, CB!doneVars
<1>1. CB!CBTypeOK'
  BY DEF BuilderType, CB!CBTypeOK
<1>2. callback' \in {None, "handle", "wait"}
  BY DEF BuilderType
<1>. QED
  BY <1>1, <1>2 DEF BuilderType

\* The steps of the client's calls.
LEMMA ClientStepTypes ==
  ASSUME TypeInv, ClientSteps
  PROVE  TypeInv'
<1>0. /\ todo \in Seq(Steps) /\ todo # << >>
      /\ Head(todo) \in Steps /\ Tail(todo) \in Seq(Steps)
  <2>1. todo \in Seq(Steps)
    BY DEF TypeInv, ClientType
  <2>2. todo # << >>
    BY DEF ClientSteps, AddWorkItem, Insert, MarkForDeletion, SampleNumNodes, AwaitQueue,
           AwaitNotification, Destruct
  <2>. QED
    BY <2>1, <2>2, HeadTailSteps
<1>a. ASSUME StepDone PROVE ClientType'
  BY <1>0, <1>a DEF StepDone, TypeInv, ClientType
<1>1. CASE AddWorkItem
  <2>1. ClientType'
    BY <1>1, <1>a DEF AddWorkItem
  <2>2. Head(todo).item \in Items
    BY <1>0, <1>1, StepShapes DEF AddWorkItem
  <2>3. queue' \in Seq(Items)
    BY <1>1, <2>2, SeqTypes DEF AddWorkItem, TypeInv, QueueType
  <2>4. QueueType'
    BY <1>1, <2>3 DEF AddWorkItem, TypeInv, QueueType
  <2>5. /\ JobType' /\ StateType' /\ GraphType' /\ OptType' /\ MiscType' /\ BuilderType'
    BY <1>1, Frames DEF AddWorkItem
  <2>. QED
    BY <2>1, <2>4, <2>5 DEF TypeInv
<1>2. CASE Insert
  <2>1. PICK step \in Steps : step = Head(todo)
    BY <1>0
  <2>2. step.do = "insert" /\ step.traj \in Trajs
    BY <1>2, <2>1, StepShapes DEF Insert
  <2>3. CASE Abort("AddTrajectoryIfNeeded")
    BY <2>3, AbortTypes
  <2>4. CASE /\ tstate' = [tstate EXCEPT ![step.traj] = StateAfterAdd(step.traj)]
             /\ nodes' = nodes \cup step.nodes
             /\ submaps' = submaps \cup step.submaps
             /\ numNodes' = numNodes + step.count
             /\ StepDone
             /\ UNCHANGED << deletion, finished, nodeIds, optVars, queueVars,
                             sinceLoop, trimmers, tried, job, failed, cbVars >>
    <3>1. step.nodes \subseteq NodeIds /\ step.submaps \subseteq SubmapIds /\ step.count \in {0, 1}
      BY <2>2, StepShapes
    <3>2. ClientType'
      BY <2>4, <1>a
    <3>3. StateType'
      BY <2>2, <2>4 DEF StateAfterAdd, TypeInv, StateType
    <3>4. GraphType'
      BY <2>4, <3>1 DEF TypeInv, GraphType
    <3>5. MiscType'
      BY <2>4, <3>1 DEF TypeInv, MiscType
    <3>6. JobType' /\ QueueType' /\ OptType' /\ BuilderType'
      BY <2>4, Frames
    <3>. QED
      BY <3>2, <3>3, <3>4, <3>5, <3>6 DEF TypeInv
  <2>. QED
    BY <1>2, <2>1, <2>3, <2>4 DEF Insert
<1>3. CASE MarkForDeletion
  <2>1. ClientType'
    BY <1>0, <1>3, SeqTypes DEF MarkForDeletion, TypeInv, ClientType
  <2>2. StateType'
    BY <1>3 DEF MarkForDeletion, TypeInv, StateType
  <2>3. /\ QueueType' /\ JobType' /\ GraphType' /\ OptType' /\ MiscType' /\ BuilderType'
    BY <1>3, Frames DEF MarkForDeletion
  <2>. QED
    BY <2>1, <2>2, <2>3 DEF TypeInv
<1>4. CASE SampleNumNodes
  <2>1. [do |-> "await", expected |-> numNodes] \in Steps
    BY StepsMade DEF TypeInv, MiscType
  <2>2. << [do |-> "await", expected |-> numNodes] >> \in Seq(Steps)
    BY <2>1, SeqTypes
  <2>3. todo' \in Seq(Steps)
    BY <1>0, <1>4, <2>2, SeqTypes DEF SampleNumNodes
  <2>4. ClientType'
    BY <1>4, <2>3 DEF SampleNumNodes, TypeInv, ClientType
  <2>5. /\ QueueType' /\ JobType' /\ StateType' /\ GraphType' /\ OptType' /\ MiscType'
        /\ BuilderType'
    BY <1>4, Frames DEF SampleNumNodes, NoEffect
  <2>. QED
    BY <2>4, <2>5 DEF TypeInv
<1>5. CASE AwaitQueue
  <2>1. [Head(todo) EXCEPT !.do = "join"] \in Steps
    BY <1>0, <1>5, StepShapes DEF AwaitQueue
  <2>2. << [Head(todo) EXCEPT !.do = "join"] >> \in Seq(Steps)
    BY <2>1, SeqTypes
  <2>3. todo' \in Seq(Steps)
    BY <1>0, <1>5, <2>2, SeqTypes DEF AwaitQueue
  <2>4. ClientType'
    BY <1>5, <2>3 DEF AwaitQueue, TypeInv, ClientType
  <2>5. BuilderType'
    BY <1>5, WhenDoneType DEF AwaitQueue, TypeInv
  <2>6. /\ QueueType' /\ JobType' /\ StateType' /\ GraphType' /\ OptType' /\ MiscType'
    BY <1>5, Frames DEF AwaitQueue
  <2>. QED
    BY <2>4, <2>5, <2>6 DEF TypeInv
<1>6. CASE AwaitNotification
  <2>1. CASE StepDone /\ NoEffect
    <3>1. /\ QueueType' /\ JobType' /\ StateType' /\ GraphType' /\ OptType' /\ MiscType'
          /\ BuilderType'
      BY <2>1, Frames DEF NoEffect
    <3>. QED
      BY <1>a, <2>1, <3>1 DEF TypeInv
  <2>. QED
    BY <1>6, <2>1, AbortTypes DEF AwaitNotification
<1>7. CASE Destruct
  <2>1. CASE /\ todo' = << [do |-> "gone"] >>
             /\ UNCHANGED << phase, scans, notified, dataCalls, finalCalls >>
             /\ NoEffect
    <3>1. /\ QueueType' /\ JobType' /\ StateType' /\ GraphType' /\ OptType' /\ MiscType'
          /\ BuilderType'
      BY <2>1, Frames DEF NoEffect
    <3>2. todo' \in Seq(Steps)
      BY <2>1, StepsMade, SeqTypes
    <3>3. ClientType'
      BY <2>1, <3>2 DEF TypeInv, ClientType
    <3>. QED
      BY <3>1, <3>3 DEF TypeInv
  <2>. QED
    BY <1>7, <2>1, AbortTypes DEF Destruct
<1>. QED
  BY <1>1, <1>2, <1>3, <1>4, <1>5, <1>6, <1>7 DEF ClientSteps

LEMMA AfterItemType ==
  ASSUME JobType, NEW w \in Workers, NEW r \in BOOLEAN, AfterItem(w, r)
  PROVE  JobType'
<1>1. PICK a \in {"drain", "whendone"} : a = IF r THEN "whendone" ELSE "drain"
  OBVIOUS
<1>2. [at |-> a] \in Jobs
  BY JobsMade
<1>3. Goto(w, [at |-> a])
  BY <1>1 DEF AfterItem
<1>. QED
  BY <1>2, <1>3, GotoType

\* The work items that search for nothing.
LEMMA ItemTypes ==
  ASSUME TypeInv, NEW w \in Workers,
         \/ ExecuteData(w) \/ ExecuteFinish(w) \/ ExecuteDelete(w) \/ ExecuteFreeze(w)
         \/ ExecuteFromProto(w) \/ ExecuteNodeToSubmap(w) \/ ExecuteTrimmer(w)
         \/ ExecuteFinal(w)
  PROVE  TypeInv'
<1>0. PICK item \in Items : item = job[w].item
  BY JobShapes DEF ExecuteData, ExecuteFinish, ExecuteDelete, ExecuteFreeze, ExecuteFromProto,
       ExecuteNodeToSubmap, ExecuteTrimmer, ExecuteFinal, Executing, TypeInv
<1>a. \A r \in BOOLEAN : AfterItem(w, r) => JobType'
  BY AfterItemType DEF TypeInv
<1>b. item.op \notin {"final", "iterations"} =>
        item.traj \in Trajs /\ <<item.traj, 0>> \in NodeIds /\ <<item.traj, 0>> \in SubmapIds
  BY ItemShapes, LoadedIds
<1>1. CASE ExecuteData(w)
  <2>1. CASE /\ AfterItem(w, FALSE)
             /\ UNCHANGED << stateVars, graphVars, optVars, queueVars, clientVars,
                             miscVars, failed, cbVars >>
    BY <1>a, <2>1, Frames DEF TypeInv
  <2>. QED
    BY <1>1, <2>1, AbortTypes DEF ExecuteData
<1>2. CASE ExecuteFinish(w)
  <2>1. CASE /\ tstate' = [tstate EXCEPT ![item.traj] = "FINISHED"]
             /\ finished' = finished \cup {s \in submaps : s[1] = item.traj}
             /\ AfterItem(w, TRUE)
             /\ UNCHANGED << deletion, nodes, submaps, nodeIds, optVars, queueVars,
                             clientVars, miscVars, failed, cbVars >>
    <3>1. StateType'
      BY <2>1 DEF TypeInv, StateType
    <3>2. GraphType'
      BY <2>1 DEF TypeInv, GraphType
    <3>3. JobType' /\ ClientType' /\ QueueType' /\ OptType' /\ MiscType' /\ BuilderType'
      BY <1>a, <2>1, Frames
    <3>. QED
      BY <3>1, <3>2, <3>3 DEF TypeInv
  <2>. QED
    BY <1>0, <1>2, <2>1, AbortTypes DEF ExecuteFinish
<1>3. CASE ExecuteDelete(w)
  <2>1. CASE /\ deletion' = [deletion EXCEPT ![item.traj] = "WAIT_FOR_DELETION"]
             /\ AfterItem(w, FALSE)
             /\ UNCHANGED << tstate, graphVars, optVars, queueVars, clientVars,
                             miscVars, failed, cbVars >>
    <3>1. StateType'
      BY <2>1 DEF TypeInv, StateType
    <3>2. /\ JobType' /\ ClientType' /\ QueueType' /\ GraphType' /\ OptType' /\ MiscType'
          /\ BuilderType'
      BY <1>a, <2>1, Frames
    <3>. QED
      BY <3>1, <3>2 DEF TypeInv
  <2>. QED
    BY <1>0, <1>3, <2>1, AbortTypes DEF ExecuteDelete
<1>4. CASE ExecuteFreeze(w)
  <2>1. CASE /\ tstate' = [tstate EXCEPT ![item.traj] = "FROZEN"]
             /\ AfterItem(w, FALSE)
             /\ UNCHANGED << deletion, graphVars, optVars, queueVars, clientVars,
                             miscVars, failed, cbVars >>
    <3>1. StateType'
      BY <2>1 DEF TypeInv, StateType
    <3>2. /\ JobType' /\ ClientType' /\ QueueType' /\ GraphType' /\ OptType' /\ MiscType'
          /\ BuilderType'
      BY <1>a, <2>1, Frames
    <3>. QED
      BY <3>1, <3>2 DEF TypeInv
  <2>. QED
    BY <1>0, <1>4, <2>1, AbortTypes DEF ExecuteFreeze
<1>5. CASE ExecuteFromProto(w)
  <2>1. /\ finished' \subseteq finished \cup {<<item.traj, 0>>}
        /\ optSubmaps' \subseteq optSubmaps \cup {<<item.traj, 0>>}
        /\ optNodes' \subseteq optNodes \cup {<<item.traj, 0>>}
        /\ AfterItem(w, FALSE)
        /\ UNCHANGED << stateVars, nodes, submaps, nodeIds, intra, inter, queueVars,
                        clientVars, miscVars, failed, cbVars >>
    BY <1>0, <1>5 DEF ExecuteFromProto
  <2>2. <<item.traj, 0>> \in NodeIds /\ <<item.traj, 0>> \in SubmapIds
    BY <1>0, <1>5, <1>b DEF ExecuteFromProto
  <2>3. GraphType'
    BY <2>1, <2>2 DEF TypeInv, GraphType
  <2>4. OptType'
    BY <2>1, <2>2 DEF TypeInv, OptType
  <2>5. JobType' /\ ClientType' /\ QueueType' /\ StateType' /\ MiscType' /\ BuilderType'
    BY <1>a, <2>1, Frames
  <2>. QED
    BY <2>3, <2>4, <2>5 DEF TypeInv
<1>6. CASE ExecuteNodeToSubmap(w)
  <2>1. CASE /\ nodeIds' = nodeIds \cup {<< <<item.traj, 0>>, <<item.traj, 0>> >>}
             /\ AfterItem(w, FALSE)
             /\ UNCHANGED << stateVars, nodes, submaps, finished, optVars, queueVars,
                             clientVars, miscVars, failed, cbVars >>
    <3>1. << <<item.traj, 0>>, <<item.traj, 0>> >> \in Pairs
      BY <1>0, <1>6, <1>b DEF ExecuteNodeToSubmap, Executing, Pairs
    <3>2. GraphType'
      BY <2>1, <3>1 DEF TypeInv, GraphType
    <3>3. /\ JobType' /\ ClientType' /\ QueueType' /\ StateType' /\ OptType' /\ MiscType'
          /\ BuilderType'
      BY <1>a, <2>1, Frames
    <3>. QED
      BY <3>2, <3>3 DEF TypeInv
  <2>. QED
    BY <1>0, <1>6, <2>1, AbortTypes DEF ExecuteNodeToSubmap
<1>7. CASE ExecuteTrimmer(w)
  <2>1. item.traj \in Trajs
    BY <1>0, <1>7, <1>b DEF ExecuteTrimmer, Executing
  <2>2. MiscType'
    BY <1>0, <1>7, <2>1 DEF ExecuteTrimmer, TypeInv, MiscType
  <2>3. /\ JobType' /\ ClientType' /\ QueueType' /\ StateType' /\ GraphType' /\ OptType'
        /\ BuilderType'
    BY <1>7, <1>a, Frames DEF ExecuteTrimmer
  <2>. QED
    BY <2>2, <2>3 DEF TypeInv
<1>8. CASE ExecuteFinal(w)
  BY <1>8, <1>a, Frames DEF ExecuteFinal, TypeInv
<1>. QED
  BY <1>1, <1>2, <1>3, <1>4, <1>5, <1>6, <1>7, <1>8

\* What AfterOptimization does, as far as the invariants tell: things only go.
Optimized(w) ==
  /\ \E D : tstate' = [t \in Trajs |-> IF t \in D THEN "DELETED" ELSE tstate[t]]
  /\ \E D : deletion' = [t \in Trajs |-> IF t \in D THEN "NORMAL" ELSE deletion[t]]
  /\ submaps' \subseteq submaps /\ finished' \subseteq finished
  /\ nodes' \subseteq nodes /\ nodeIds' \subseteq nodeIds
  /\ intra' \subseteq intra /\ inter' \subseteq inter
  /\ optSubmaps' \subseteq optSubmaps /\ optNodes' \subseteq optNodes
  /\ trimmers' \subseteq trimmers /\ sinceLoop' = 0
  /\ \E S : CB!DeleteScanMatchers(S)
  /\ Goto(w, [at |-> "drain"])
  /\ UNCHANGED << queueVars, clientVars, numNodes, tried, failed >>

LEMMA OptimizedEffect ==
  ASSUME NEW w \in Workers, AfterOptimization(w), ~Abort("HandleWorkQueue")
  PROVE  Optimized(w)
<1>. DEFINE deleted == {t \in Trajs : deletion[t] = "WAIT_FOR_DELETION"}
            ended == {t \in trimmers \ deleted : tstate[t] = "FINISHED"}
            gone == {s \in optSubmaps : s[1] \in deleted} \cup
                      UNION {Trimmed(t) : t \in trimmers \ deleted}
<1>1. /\ tstate' = [t \in Trajs |-> IF t \in deleted \cup ended THEN "DELETED" ELSE tstate[t]]
      /\ deletion' = [t \in Trajs |-> IF t \in deleted THEN "NORMAL" ELSE deletion[t]]
      /\ submaps' = submaps \ gone
      /\ finished' = finished \ gone
      /\ nodes' = nodes \ NodesGoneWith(gone)
      /\ nodeIds' = {p \in nodeIds : p[1] \notin gone}
      /\ intra' = KeptConstraints(intra, gone)
      /\ inter' = KeptConstraints(inter, gone)
      /\ optSubmaps' = optSubmaps \ gone
      /\ optNodes' = optNodes \ NodesGoneWith(gone)
      /\ CB!DeleteScanMatchers(MatchersGoneWith(gone))
      /\ trimmers' = trimmers \ ended
      /\ sinceLoop' = 0
      /\ Goto(w, [at |-> "drain"])
      /\ UNCHANGED << queueVars, clientVars, numNodes, tried, failed >>
  BY Zenon DEF AfterOptimization
<1>. HIDE DEF deleted, ended, gone
<1>2. intra' \subseteq intra /\ inter' \subseteq inter
  BY <1>1 DEF KeptConstraints
<1>. QED
  BY <1>1, <1>2 DEF Optimized

\* The loop of DrainWorkQueue, the callbacks and the optimization.
LEMMA ThreadTypes ==
  ASSUME TypeInv, CycleInv, NEW w \in Workers,
         \/ StartDrain(w) \/ PopWorkItem(w) \/ CallWhenDone(w) \/ TakeCallback(w)
         \/ Notify(w) \/ HandleWorkQueue(w) \/ EndSolve(w) \/ AfterOptimization(w)
  PROVE  TypeInv'
<1>0. JobType
  BY DEF TypeInv
<1>1. CASE StartDrain(w)
  <2>1. JobType'
    BY <1>0, <1>1, JobsMade, GotoType DEF StartDrain
  <2>2. QueueType'
    BY <1>1 DEF StartDrain, TypeInv, QueueType
  <2>3. /\ ClientType' /\ StateType' /\ GraphType' /\ OptType' /\ MiscType' /\ BuilderType'
    BY <1>1, Frames DEF StartDrain
  <2>. QED
    BY <2>1, <2>2, <2>3 DEF TypeInv
<1>2. CASE PopWorkItem(w)
  <2>1. queue \in Seq(Items)
    BY DEF TypeInv, QueueType
  <2>2. queue # << >> => Head(queue) \in Items /\ Tail(queue) \in Seq(Items)
    BY <2>1, HeadTailSteps
  <2>3. JobType'
    BY <1>0, <1>2, <2>2, JobsMade, GotoType DEF PopWorkItem
  <2>4. QueueType'
    BY <1>2, <2>2 DEF PopWorkItem, TypeInv, QueueType
  <2>5. /\ ClientType' /\ StateType' /\ GraphType' /\ OptType' /\ MiscType' /\ BuilderType'
    BY <1>2, Frames DEF PopWorkItem
  <2>. QED
    BY <2>3, <2>4, <2>5 DEF TypeInv
<1>3. CASE CallWhenDone(w)
  <2>1. JobType'
    BY <1>0, <1>3, JobsMade, GotoType DEF CallWhenDone
  <2>2. BuilderType'
    BY <1>3, WhenDoneType DEF CallWhenDone, TypeInv
  <2>3. /\ ClientType' /\ QueueType' /\ StateType' /\ GraphType' /\ OptType' /\ MiscType'
    BY <1>3, Frames DEF CallWhenDone
  <2>. QED
    BY <2>1, <2>2, <2>3 DEF TypeInv
<1>4. CASE TakeCallback(w)
  <2>1. PICK d \in doneTasks : CB!RunWhenDone(d)
    BY <1>4 DEF TakeCallback
  <2>2. BuilderType'
    <3>1. CB!CBTypeOK'
      BY <2>1 DEF TypeInv, BuilderType, CB!CBTypeOK, CB!RunWhenDone, CB!nodeVars
    <3>2. callback' = None
      BY <2>1 DEF CB!RunWhenDone
    <3>. QED
      BY <3>1, <3>2 DEF BuilderType
  <2>3. found \subseteq Pairs
    BY DEF TypeInv, BuilderType, CB!CBTypeOK, CB!Searches, Pairs
  <2>4. callback \in {"handle", "wait"}
    BY <2>1 DEF TypeInv, BuilderType, CycleInv
  <2>5. [at |-> callback, result |-> found] \in Jobs
    BY <2>3, <2>4, JobsMade
  <2>6. JobType'
    BY <1>0, <1>4, <2>5, GotoType DEF TakeCallback
  <2>7. /\ ClientType' /\ QueueType' /\ StateType' /\ GraphType' /\ OptType' /\ MiscType'
    BY <1>4, Frames DEF TakeCallback
  <2>. QED
    BY <2>2, <2>6, <2>7 DEF TypeInv
<1>5. CASE Notify(w)
  <2>1. job[w].result \subseteq Pairs
    BY <1>0, <1>5, JobShapes DEF Notify
  <2>2. JobType'
    BY <1>0, <1>5, JobsMade, GotoType DEF Notify
  <2>3. OptType'
    BY <1>5, <2>1 DEF Notify, TypeInv, OptType
  <2>4. ClientType'
    BY <1>5 DEF Notify, TypeInv, ClientType
  <2>5. QueueType' /\ StateType' /\ GraphType' /\ MiscType' /\ BuilderType'
    BY <1>5, Frames DEF Notify
  <2>. QED
    BY <2>2, <2>3, <2>4, <2>5 DEF TypeInv
<1>6. CASE HandleWorkQueue(w)
  <2>1. PICK R \in SUBSET Pairs : job[w] = [at |-> "handle", result |-> R]
    BY <1>0, <1>6, JobShapes DEF HandleWorkQueue, Jobs
  <2>2. PICK a \in {"optimized", "solving"} : a = IF optSubmaps = {} THEN "optimized" ELSE "solving"
    OBVIOUS
  <2>3. [job[w] EXCEPT !.at = a] = [at |-> a, result |-> R]
    BY <2>1
  <2>4. [job[w] EXCEPT !.at = a] \in Jobs
    BY <2>3, JobsMade
  <2>5. Goto(w, [job[w] EXCEPT !.at = a])
    BY <1>6, <2>2 DEF HandleWorkQueue
  <2>6. JobType'
    BY <1>0, <2>4, <2>5, GotoType
  <2>7. OptType'
    BY <1>6, <2>1 DEF HandleWorkQueue, TypeInv, OptType
  <2>8. /\ ClientType' /\ QueueType' /\ StateType' /\ GraphType' /\ MiscType' /\ BuilderType'
    BY <1>6, Frames DEF HandleWorkQueue
  <2>. QED
    BY <2>6, <2>7, <2>8 DEF TypeInv
<1>7. CASE EndSolve(w)
  <2>1. CASE /\ Goto(w, [job[w] EXCEPT !.at = "optimized"])
             /\ UNCHANGED << stateVars, graphVars, optVars, queueVars, clientVars,
                             miscVars, failed, cbVars >>
    <3>1. PICK R \in SUBSET Pairs : job[w] = [at |-> "solving", result |-> R]
      BY <1>0, <1>7, JobShapes DEF EndSolve, Jobs
    <3>2. [job[w] EXCEPT !.at = "optimized"] = [at |-> "optimized", result |-> R]
      BY <3>1
    <3>3. [job[w] EXCEPT !.at = "optimized"] \in Jobs
      BY <3>2, JobsMade
    <3>4. JobType'
      BY <1>0, <2>1, <3>3, GotoType
    <3>. QED
      BY <2>1, <3>4, Frames DEF TypeInv
  <2>. QED
    BY <1>7, <2>1, AbortTypes DEF EndSolve
<1>8. CASE AfterOptimization(w)
  <2>1. CASE Abort("HandleWorkQueue")
    BY <2>1, AbortTypes
  <2>2. CASE ~Abort("HandleWorkQueue")
    <3>1. Optimized(w)
      BY <1>8, <2>2, OptimizedEffect
    <3>2. JobType'
      BY <1>0, <3>1, JobsMade, GotoType DEF Optimized
    <3>3. StateType'
      BY <3>1 DEF Optimized, TypeInv, StateType
    <3>4. GraphType'
      BY <3>1 DEF Optimized, TypeInv, GraphType
    <3>5. OptType'
      BY <3>1 DEF Optimized, TypeInv, OptType
    <3>6. MiscType'
      BY <3>1 DEF Optimized, TypeInv, MiscType
    <3>7. BuilderType'
      <4>1. PICK S : CB!DeleteScanMatchers(S)
        BY <3>1 DEF Optimized
      <4>. QED
        BY <4>1 DEF TypeInv, BuilderType, CB!CBTypeOK, CB!DeleteScanMatchers, CB!nodeVars,
                    CB!doneVars
    <3>8. ClientType' /\ QueueType'
      BY <3>1, Frames DEF Optimized
    <3>. QED
      BY <3>2, <3>3, <3>4, <3>5, <3>6, <3>7, <3>8 DEF TypeInv
  <2>. QED
    BY <2>1, <2>2
<1>. QED
  BY <1>1, <1>2, <1>3, <1>4, <1>5, <1>6, <1>7, <1>8

\* The item of AddNode.
LEMMA NodeTypes ==
  ASSUME TypeInv, NEW w \in Workers,
         \/ ExecuteNode(w) \/ EndOfNode(w)
         \/ \E p \in SubmapIds \X NodeIds : ComputeConstraint(w, p)
  PROVE  TypeInv'
<1>0. JobType
  BY DEF TypeInv
<1>1. CASE ExecuteNode(w)
  <2>1. PICK item \in Items : item = job[w].item
    BY <1>0, <1>1, JobShapes DEF ExecuteNode, Executing
  <2>2. /\ item.traj \in Trajs /\ item.index \in 0 .. MaxNodes - 1
        /\ <<item.traj, item.index>> \in NodeIds
        /\ InsertionSubmaps(item.traj, item.index) \subseteq SubmapIds
        /\ FrontOf(item.traj, item.index) \in SubmapIds
    BY <1>1, <2>1, ItemShapes, ScanIds DEF ExecuteNode, Executing
  <2>3. CASE Abort("ComputeConstraintsForNode")
    BY <2>3, AbortTypes
  <2>4. CASE ~Abort("ComputeConstraintsForNode")
    <3>. DEFINE n == <<item.traj, item.index>>
                into == InsertionSubmaps(item.traj, item.index)
                front == FrontOf(item.traj, item.index)
                oldNodes == optNodes \ NodesIn(front)
                pairs == (finished \X {n}) \cup
                           (IF item.finishes THEN {front} \X (oldNodes \ {n}) ELSE {})
    <3>1. /\ optSubmaps' = optSubmaps \cup into
          /\ optNodes' = optNodes \cup {n}
          /\ nodeIds' = nodeIds \cup (into \X {n})
          /\ intra' = intra \cup (into \X {n})
          /\ finished' = IF item.finishes THEN finished \cup {front} ELSE finished
          /\ Goto(w, [at |-> "search", item |-> item, pairs |-> pairs])
          /\ UNCHANGED << stateVars, nodes, submaps, inter, queueVars, clientVars,
                          miscVars, failed, cbVars >>
      BY <1>1, <2>1, <2>4, Zenon DEF ExecuteNode
    <3>2. n \in NodeIds /\ into \subseteq SubmapIds /\ front \in SubmapIds
      BY <2>2
    <3>3. oldNodes \subseteq NodeIds /\ finished \subseteq SubmapIds
      BY DEF TypeInv, OptType, GraphType
    <3>. HIDE DEF n, into, front, oldNodes
    <3>4. pairs \in SUBSET Pairs
      BY <3>2, <3>3 DEF Pairs
    <3>. HIDE DEF pairs
    <3>5. [at |-> "search", item |-> item, pairs |-> pairs] \in Jobs
      BY <3>4, JobsMade
    <3>6. JobType'
      BY <1>0, <3>1, <3>5, GotoType
    <3>7. into \X {n} \subseteq Pairs
      BY <3>2 DEF Pairs
    <3>8. GraphType'
      BY <3>1, <3>2, <3>7 DEF TypeInv, GraphType
    <3>9. OptType'
      BY <3>1, <3>2, <3>7 DEF TypeInv, OptType
    <3>10. ClientType' /\ QueueType' /\ StateType' /\ MiscType' /\ BuilderType'
      BY <3>1, Frames
    <3>. QED
      BY <3>6, <3>8, <3>9, <3>10 DEF TypeInv
  <2>. QED
    BY <2>3, <2>4
<1>2. CASE EndOfNode(w)
  <2>1. JobType'
    <3>1. PICK r \in BOOLEAN : r = (OptimizeEvery > 0 /\ sinceLoop + 1 > OptimizeEvery)
      BY PoseGraphAssumption DEF TypeInv, MiscType
    <3>. QED
      BY <1>0, <1>2, <3>1, AfterItemType DEF EndOfNode
  <2>2. BuilderType'
    <3>1. /\ finishing' = finishing \cup {[id |-> numStarted, deps |-> nodeDeps]}
          /\ nodeDeps' = {}
          /\ doneDeps' = doneDeps \cup {numStarted}
          /\ numStarted' = numStarted + 1
          /\ UNCHANGED << slots, found, outstanding, matchers, building, numFinished,
                          callback, doneTasks, checkFailed >>
      BY <1>2 DEF EndOfNode, CB!NotifyEndOfNode, CB!searchVars
    <3>2. CB!CBTypeOK /\ callback \in {None, "handle", "wait"}
      BY DEF TypeInv, BuilderType
    <3>3. [id |-> numStarted, deps |-> nodeDeps] \in CB!FinishTasks
      BY <3>2 DEF CB!CBTypeOK, CB!FinishTasks
    <3>4. CB!CBTypeOK'
      BY <3>1, <3>2, <3>3 DEF CB!CBTypeOK
    <3>. QED
      BY <3>1, <3>2, <3>4 DEF BuilderType
  <2>3. MiscType'
    BY <1>2 DEF EndOfNode, TypeInv, MiscType
  <2>4. ClientType' /\ QueueType' /\ StateType' /\ GraphType' /\ OptType'
    BY <1>2, Frames DEF EndOfNode
  <2>. QED
    BY <2>1, <2>2, <2>3, <2>4 DEF TypeInv
<1>3. ASSUME NEW p \in SubmapIds \X NodeIds, ComputeConstraint(w, p) PROVE TypeInv'
  <2>1. CASE Abort("ComputeConstraint")
    BY <2>1, AbortTypes
  <2>2. CASE /\ tried' = tried \cup {p}
             /\ Goto(w, [job[w] EXCEPT !.pairs = @ \ {p}])
             /\ \/ InsertionFinished(p[1]) /\ CB!MaybeAddConstraint(p)
                \/ UNCHANGED cbVars
             /\ UNCHANGED << stateVars, graphVars, optVars, queueVars, clientVars,
                             numNodes, sinceLoop, trimmers, failed >>
    <3>1. PICK item \in Items, P \in SUBSET Pairs :
            job[w] = [at |-> "search", item |-> item, pairs |-> P]
      BY <1>0, <1>3, JobShapes DEF ComputeConstraint, Jobs
    <3>2. [job[w] EXCEPT !.pairs = @ \ {p}] = [at |-> "search", item |-> item, pairs |-> P \ {p}]
      BY <3>1
    <3>3. [job[w] EXCEPT !.pairs = @ \ {p}] \in Jobs
      BY <3>2, JobsMade
    <3>4. JobType'
      BY <1>0, <2>2, <3>3, GotoType
    <3>5. MiscType'
      BY <2>2 DEF TypeInv, MiscType, Pairs
    <3>6. BuilderType'
      <4>1. CASE CB!MaybeAddConstraint(p)
        BY <4>1 DEF TypeInv, BuilderType, CB!CBTypeOK, CB!MaybeAddConstraint, CB!Searches,
                    CB!doneVars
      <4>. QED
        BY <2>2, <4>1, Frames
    <3>7. ClientType' /\ QueueType' /\ StateType' /\ GraphType' /\ OptType'
      BY <2>2, Frames
    <3>. QED
      BY <3>4, <3>5, <3>6, <3>7 DEF TypeInv
  <2>. QED
    BY <1>3, <2>1, <2>2 DEF ComputeConstraint
<1>. QED
  BY <1>1, <1>2, <1>3

\* The builder's own tasks.
LEMMA BuilderTaskTypes ==
  ASSUME TypeInv, BuilderTask
  PROVE  TypeInv'
<1>1. BuilderType'
  <2>. USE DEF CB!doneVars, CB!nodeVars, CB!searchVars
  <2>1. callback' = callback
    BY DEF BuilderTask, CB!CBTask, CB!BuildMatcher, CB!Compute, CB!FinishNode
  <2>2. CASE \E s \in building : CB!BuildMatcher(s)
    BY <2>1, <2>2 DEF CB!BuildMatcher, TypeInv, BuilderType, CB!CBTypeOK
  <2>3. CASE \E p \in outstanding : CB!Compute(p)
    BY <2>1, <2>3 DEF CB!Compute, TypeInv, BuilderType, CB!CBTypeOK
  <2>4. CASE \E t \in finishing : CB!FinishNode(t)
    BY <2>1, <2>4 DEF CB!FinishNode, TypeInv, BuilderType, CB!CBTypeOK
  <2>. QED
    BY <2>2, <2>3, <2>4 DEF BuilderTask, CB!CBTask
<1>2. /\ ClientType' /\ QueueType' /\ JobType' /\ StateType' /\ GraphType' /\ OptType'
      /\ MiscType'
  BY Frames DEF BuilderTask
<1>. QED
  BY <1>1, <1>2 DEF TypeInv

LEMMA StepTypes == TypeInv /\ CycleInv /\ [Next]_vars => TypeInv'
<1> SUFFICES ASSUME TypeInv, CycleInv, [Next]_vars PROVE TypeInv'
  OBVIOUS
<1>1. CASE ClientCalls
  BY <1>1, CallTypes
<1>2. CASE ClientSteps
  BY <1>2, ClientStepTypes
<1>3. ASSUME NEW w \in Workers, Worker(w) PROVE TypeInv'
  BY <1>3, ItemTypes, ThreadTypes, NodeTypes DEF Worker
<1>4. CASE BuilderTask
  BY <1>4, BuilderTaskTypes
<1>5. CASE UNCHANGED vars
  BY <1>5, Frames DEF vars, TypeInv
<1>. QED
  BY <1>1, <1>2, <1>3, <1>4, <1>5 DEF Next, Stopped

-----------------------------------------------------------------------------
(* The steps, as the invariants tell them apart.                           *)

\* The client goes on with what is not the end of a wait, or nothing happens:
\* the queue, the threads and the builder are left alone.
ClientOnly ==
  /\ UNCHANGED << queueOpen, drainTasks, job, cbVars, finished, optVars >>
  /\ nodes \subseteq nodes' /\ submaps \subseteq submaps'
  /\ Joining => UNCHANGED << todo, notified >>

\* A thread that drains takes, executes or ends an item or an optimization.
Moves(w) ==
  /\ job[w].at \notin {"idle", "wait", "search"}
  /\ \E j \in Jobs :
       /\ Goto(w, j) /\ j.at \notin {"idle", "wait"}
       /\ j.at \in {"handle", "solving", "optimized"}
            => job[w].at \in {"handle", "solving", "optimized"}
       /\ job[w].at = "solving" => j.at # "solving"
  /\ UNCHANGED << queueOpen, drainTasks, todo, notified, cbVars, nodes, submaps >>

\* A thread finds the queue empty.
Closes(w) ==
  /\ job[w].at = "drain"
  /\ queueOpen' = FALSE /\ Goto(w, Idle)
  /\ UNCHANGED << drainTasks, todo, notified, cbVars, nodes, submaps, finished, optVars >>

\* A pair is given to the builder, or left out.
Searched(w) ==
  /\ job[w].at = "search"
  /\ \E j \in Jobs : Goto(w, j) /\ j.at = "search"
  /\ \/ \E p \in Pairs : CB!MaybeAddConstraint(p) /\ p[1] \in submaps /\ p[2] \in nodes
     \/ UNCHANGED cbVars
  /\ UNCHANGED << queueOpen, drainTasks, todo, notified, nodes, submaps, finished, optVars >>

LEMMA AbortKind ==
  ASSUME NEW function, Abort(function)
  PROVE  ClientOnly
BY DEF Abort, ClientOnly, graphVars, queueVars, clientVars

LEMMA ClientKinds ==
  ASSUME TypeInv, ClientCalls \/ ClientSteps
  PROVE  ClientOnly \/ AddWorkItem \/ AwaitQueue
<1>1. CASE ClientCalls
  BY <1>1 DEF ClientCalls, NoEffect, graphVars, queueVars, ClientOnly, Joining
<1>2. CASE Insert
  <2>1. CASE \E function : Abort(function)
    BY <2>1, AbortKind
  <2>2. CASE ~ \E function : Abort(function)
    BY <1>2, <2>2 DEF Insert, ClientOnly, queueVars, Joining
  <2>. QED
    BY <2>1, <2>2
<1>3. CASE MarkForDeletion
  BY <1>3 DEF MarkForDeletion, ClientOnly, graphVars, queueVars, Joining
<1>4. CASE SampleNumNodes
  BY <1>4 DEF SampleNumNodes, NoEffect, ClientOnly, graphVars, queueVars, Joining
<1>5. CASE AwaitNotification
  <2>1. CASE StepDone /\ NoEffect
    BY <1>5, <2>1 DEF AwaitNotification, NoEffect, ClientOnly, graphVars, queueVars, Joining
  <2>. QED
    BY <1>5, <2>1, AbortKind DEF AwaitNotification
<1>6. CASE Destruct
  <2>1. CASE ~ \E function : Abort(function)
    BY <1>6, <2>1 DEF Destruct, NoEffect, ClientOnly, graphVars, queueVars, Joining
  <2>. QED
    BY <2>1, AbortKind
<1>. QED
  BY <1>1, <1>2, <1>3, <1>4, <1>5, <1>6 DEF ClientSteps

LEMMA AfterItemKind ==
  ASSUME NEW w \in Workers, NEW r \in BOOLEAN, AfterItem(w, r), job[w].at = "exec",
         UNCHANGED << queueVars, clientVars, cbVars, nodes, submaps >>
  PROVE  Moves(w)
<1>1. PICK a \in {"drain", "whendone"} : a = IF r THEN "whendone" ELSE "drain"
  OBVIOUS
<1>2. [at |-> a] \in Jobs
  BY JobsMade
<1>3. Goto(w, [at |-> a])
  BY <1>1 DEF AfterItem
<1>. QED
  BY <1>2, <1>3 DEF Moves, queueVars, clientVars

LEMMA ItemKinds ==
  ASSUME NEW w \in Workers,
         \/ ExecuteData(w) \/ ExecuteFinish(w) \/ ExecuteDelete(w) \/ ExecuteFreeze(w)
         \/ ExecuteFromProto(w) \/ ExecuteNodeToSubmap(w) \/ ExecuteTrimmer(w)
         \/ ExecuteFinal(w)
  PROVE  ClientOnly \/ Moves(w)
<1>1. CASE \E function : Abort(function)
  BY <1>1, AbortKind
<1>2. CASE ~ \E function : Abort(function)
  <2>1. job[w].at = "exec" /\ \E r \in BOOLEAN : AfterItem(w, r)
    <3>1. (job[w].item.op = "final") \in BOOLEAN
      OBVIOUS
    <3>. QED
      BY <1>2, <3>1 DEF ExecuteData, ExecuteFinish, ExecuteDelete, ExecuteFreeze,
         ExecuteFromProto, ExecuteNodeToSubmap, ExecuteTrimmer, ExecuteFinal, Executing
  <2>2. UNCHANGED << queueVars, clientVars, cbVars, nodes, submaps >>
    BY <1>2 DEF ExecuteData, ExecuteFinish, ExecuteDelete, ExecuteFreeze,
         ExecuteFromProto, ExecuteNodeToSubmap, ExecuteTrimmer, ExecuteFinal, graphVars
  <2>. QED
    BY <2>1, <2>2, AfterItemKind
<1>. QED
  BY <1>1, <1>2

\* The threads of the pool.
WorkerKind(w) ==
  \/ ClientOnly \/ StartDrain(w) \/ Moves(w) \/ Closes(w) \/ CallWhenDone(w)
  \/ Searched(w) \/ EndOfNode(w) \/ TakeCallback(w) \/ Notify(w)
  \/ job[w].at = "optimized" /\ Optimized(w)

LEMMA WorkerKinds ==
  ASSUME TypeInv, NEW w \in Workers, Worker(w)
  PROVE  WorkerKind(w)
<1>0. JobType
  BY DEF TypeInv
<1>1. CASE PopWorkItem(w)
  <2>1. CASE queue = << >>
    BY <1>1, <2>1 DEF PopWorkItem, Closes, clientVars, graphVars, WorkerKind
  <2>2. CASE queue # << >>
    <3>1. Head(queue) \in Items
      BY <2>2, HeadTailSteps DEF TypeInv, QueueType
    <3>2. [at |-> "exec", item |-> Head(queue)] \in Jobs
      BY <3>1, JobsMade
    <3>3. /\ job[w].at = "drain" /\ Goto(w, [at |-> "exec", item |-> Head(queue)])
          /\ UNCHANGED << queueOpen, drainTasks, todo, notified, cbVars, nodes, submaps >>
      BY <1>1, <2>2 DEF PopWorkItem, clientVars, graphVars
    <3>. QED
      BY <3>2, <3>3 DEF Moves, WorkerKind
  <2>. QED
    BY <2>1, <2>2
<1>2. CASE \/ ExecuteData(w) \/ ExecuteFinish(w) \/ ExecuteDelete(w) \/ ExecuteFreeze(w)
           \/ ExecuteFromProto(w) \/ ExecuteNodeToSubmap(w) \/ ExecuteTrimmer(w)
           \/ ExecuteFinal(w)
  BY <1>2, ItemKinds DEF WorkerKind
<1>3. CASE ExecuteNode(w)
  <2>1. CASE \E function : Abort(function)
    BY <2>1, AbortKind DEF WorkerKind
  <2>2. CASE ~ \E function : Abort(function)
    <3>1. JobType'
      BY <1>3, NodeTypes DEF TypeInv
    <3>2. PICK j : Goto(w, j) /\ j.at = "search"
      BY <1>3, <2>2 DEF ExecuteNode
    <3>3. j \in Jobs
      BY <1>0, <3>1, <3>2 DEF Goto, JobType
    <3>4. /\ job[w].at = "exec"
          /\ UNCHANGED << queueOpen, drainTasks, todo, notified, cbVars, nodes, submaps >>
      BY <1>3, <2>2 DEF ExecuteNode, Executing, queueVars, clientVars
    <3>. QED
      BY <3>2, <3>3, <3>4 DEF Moves, WorkerKind
  <2>. QED
    BY <2>1, <2>2
<1>4. ASSUME NEW p \in SubmapIds \X NodeIds, ComputeConstraint(w, p) PROVE WorkerKind(w)
  <2>1. CASE \E function : Abort(function)
    BY <2>1, AbortKind DEF WorkerKind
  <2>2. CASE ~ \E function : Abort(function)
    <3>1. JobType'
      BY <1>4, NodeTypes DEF TypeInv
    <3>2. PICK j : j = [job[w] EXCEPT !.pairs = @ \ {p}]
      OBVIOUS
    <3>3. /\ job[w].at = "search" /\ Goto(w, j) /\ p[1] \in submaps /\ p[2] \in nodes
          /\ CB!MaybeAddConstraint(p) \/ UNCHANGED cbVars
          /\ UNCHANGED << graphVars, optVars, queueVars, clientVars >>
      BY <1>4, <2>2, <3>2 DEF ComputeConstraint
    <3>4. j \in Jobs
      BY <1>0, <3>1, <3>3 DEF Goto, JobType
    <3>5. j.at = "search"
      <4>1. "at" \in DOMAIN job[w]
        BY <1>0, JobShapes DEF Jobs
      <4>. QED
        BY <3>2, <3>3, <4>1
    <3>. QED
      BY <3>3, <3>4, <3>5 DEF Searched, WorkerKind, Pairs, graphVars, queueVars, clientVars
  <2>. QED
    BY <2>1, <2>2
<1>5. CASE HandleWorkQueue(w)
  <2>1. PICK R \in SUBSET Pairs : job[w] = [at |-> "handle", result |-> R]
    BY <1>0, <1>5, JobShapes DEF HandleWorkQueue, Jobs
  <2>2. PICK a \in {"optimized", "solving"} : a = IF optSubmaps = {} THEN "optimized" ELSE "solving"
    OBVIOUS
  <2>3. [job[w] EXCEPT !.at = a] = [at |-> a, result |-> R]
    BY <2>1
  <2>4. [at |-> a, result |-> R] \in Jobs
    BY JobsMade
  <2>5. Goto(w, [at |-> a, result |-> R])
    BY <1>5, <2>2, <2>3 DEF HandleWorkQueue
  <2>. QED
    BY <1>5, <2>1, <2>4, <2>5
    DEF HandleWorkQueue, Moves, WorkerKind, graphVars, queueVars, clientVars
<1>6. CASE EndSolve(w)
  <2>1. CASE /\ Goto(w, [job[w] EXCEPT !.at = "optimized"])
             /\ UNCHANGED << stateVars, graphVars, optVars, queueVars, clientVars,
                             miscVars, failed, cbVars >>
    <3>1. PICK R \in SUBSET Pairs : job[w] = [at |-> "solving", result |-> R]
      BY <1>0, <1>6, JobShapes DEF EndSolve, Jobs
    <3>2. [job[w] EXCEPT !.at = "optimized"] = [at |-> "optimized", result |-> R]
      BY <3>1
    <3>3. [at |-> "optimized", result |-> R] \in Jobs
      BY JobsMade
    <3>. QED
      BY <2>1, <3>1, <3>2, <3>3 DEF Moves, WorkerKind, graphVars, queueVars, clientVars
  <2>. QED
    BY <1>6, <2>1, AbortKind DEF EndSolve, WorkerKind
<1>7. CASE AfterOptimization(w)
  BY <1>7, OptimizedEffect, AbortKind DEF AfterOptimization, WorkerKind
<1>. QED
  BY <1>1, <1>2, <1>3, <1>4, <1>5, <1>6, <1>7 DEF Worker, WorkerKind

-----------------------------------------------------------------------------
(* The invariants are kept.                                                *)

\* While one thread drains, the others are idle and no callback is set.
LEMMA Alone ==
  ASSUME TypeInv, DrainInv, WaitInv, NEW w \in Workers, job[w].at \notin {"idle", "wait"}
  PROVE  /\ queueOpen /\ drainTasks = 0 /\ Draining = {w}
         /\ callback = None
         /\ ~Joining
         /\ \A v \in Workers : v # w => job[v].at = "idle"
<1>1. w \in Draining
  BY DEF Draining
<1>2. queueOpen /\ drainTasks = 0 /\ Draining = {w} /\ callback # "handle"
  BY <1>1 DEF DrainInv
<1>3. ~Joining
  BY <1>2 DEF Joining
<1>4. callback = None
  BY <1>2, <1>3 DEF WaitInv, TypeInv, BuilderType
<1>5. \A v \in Workers : v # w => job[v].at = "idle"
  BY <1>2, <1>3 DEF WaitInv, Draining
<1>. QED
  BY <1>2, <1>3, <1>4, <1>5

\* While no thread drains, none is in the middle of a node or an optimization.
LEMMA NoDrainer ==
  ASSUME Draining = {}
  PROVE  \A w \in Workers : job[w].at \in {"idle", "wait"}
BY DEF Draining

\* The builder's CHECK in WhenDone holds.
LEMMA WhenDoneEffect ==
  ASSUME callback = None, ~checkFailed, doneTasks = {},
         NEW cb, CB!WhenDone(cb)
  PROVE  /\ callback' = cb /\ doneTasks' = {doneDeps} /\ doneDeps' = {} /\ checkFailed' = FALSE
         /\ UNCHANGED << slots, found, outstanding, matchers, building, nodeDeps, finishing,
                         numStarted, numFinished >>
<1>1. /\ callback' = cb /\ doneTasks' = doneTasks \cup {doneDeps} /\ doneDeps' = {}
      /\ UNCHANGED << CB!searchVars, CB!nodeVars, checkFailed >>
  BY DEF CB!WhenDone
<1>. QED
  BY <1>1 DEF CB!searchVars, CB!nodeVars

\* The client waits for the builder only when no callback is set.
LEMMA AwaitEffect ==
  ASSUME TypeInv, DrainInv, WaitInv, CycleInv, AwaitQueue
  PROVE  /\ callback = None /\ ~queueOpen /\ Draining = {} /\ drainTasks = 0
         /\ callback' = "wait" /\ doneTasks' = {doneDeps} /\ doneDeps' = {} /\ ~checkFailed'
         /\ UNCHANGED << slots, found, outstanding, matchers, building, nodeDeps, finishing,
                         numStarted, numFinished, queueOpen, drainTasks, job, nodes, submaps,
                         finished, optVars >>
         /\ Joining'
         /\ \A w \in Workers : job[w].at = "idle"
<1>1. ~Joining
  BY DEF AwaitQueue, Joining
<1>2. ~queueOpen /\ Draining = {} /\ drainTasks = 0 /\ callback # "handle"
  BY DEF AwaitQueue, DrainInv
<1>3. callback = None
  BY <1>1, <1>2 DEF WaitInv, TypeInv, BuilderType
<1>4. \A w \in Workers : job[w].at = "idle"
  BY <1>1, <1>2, NoDrainer DEF WaitInv
<1>5. CB!WhenDone("wait")
  BY DEF AwaitQueue
<1>6. ~checkFailed /\ doneTasks = {}
  BY <1>3 DEF CycleInv
<1>7. Joining'
  <2>1. PICK step \in Steps : step = Head(todo) /\ step.do = "await"
    BY HeadTailSteps DEF AwaitQueue, TypeInv, ClientType
  <2>2. step = [do |-> "await", expected |-> step.expected]
    BY <2>1 DEF Steps
  <2>3. [step EXCEPT !.do = "join"].do = "join"
    BY <2>2
  <2>4. Tail(todo) \in Seq(Steps)
    BY HeadTailSteps DEF AwaitQueue, TypeInv, ClientType
  <2>5. todo' = << [step EXCEPT !.do = "join"] >> \o Tail(todo) /\ ~notified' /\ ~queueOpen'
    BY <1>2, <2>1 DEF AwaitQueue, queueVars
  <2>6. todo' # << >> /\ Head(todo') = [step EXCEPT !.do = "join"]
    BY <2>4, <2>5
  <2>. QED
    BY <2>3, <2>5, <2>6 DEF Joining
<1>8. /\ callback' = "wait" /\ doneTasks' = {doneDeps} /\ doneDeps' = {} /\ ~checkFailed'
      /\ UNCHANGED << slots, found, outstanding, matchers, building, nodeDeps, finishing,
                      numStarted, numFinished >>
  BY <1>3, <1>5, <1>6, WhenDoneEffect
<1>9. UNCHANGED << queueOpen, drainTasks, job, nodes, submaps, finished, optVars >>
  BY DEF AwaitQueue, queueVars, graphVars
<1>. QED
  BY <1>2, <1>3, <1>4, <1>7, <1>8, <1>9

\* The same for the thread that drains.
LEMMA CallEffect ==
  ASSUME TypeInv, DrainInv, WaitInv, CycleInv, NEW w \in Workers, CallWhenDone(w)
  PROVE  /\ callback' = "handle" /\ doneTasks' = {doneDeps} /\ doneDeps' = {} /\ ~checkFailed'
         /\ UNCHANGED << slots, found, outstanding, matchers, building, nodeDeps, finishing,
                         numStarted, numFinished, queueOpen, drainTasks, nodes, submaps,
                         todo, notified, finished, optVars >>
         /\ Goto(w, Idle) /\ job[w].at = "whendone"
<1>1. callback = None
  BY Alone DEF CallWhenDone
<1>2. CB!WhenDone("handle") /\ ~checkFailed /\ doneTasks = {}
  BY <1>1 DEF CallWhenDone, CycleInv
<1>3. /\ callback' = "handle" /\ doneTasks' = {doneDeps} /\ doneDeps' = {} /\ ~checkFailed'
      /\ UNCHANGED << slots, found, outstanding, matchers, building, nodeDeps, finishing,
                      numStarted, numFinished >>
  BY <1>1, <1>2, WhenDoneEffect
<1>4. UNCHANGED << queueOpen, drainTasks, nodes, submaps, todo, notified, finished, optVars >>
  BY DEF CallWhenDone, queueVars, graphVars, clientVars
<1>. QED
  BY <1>3, <1>4 DEF CallWhenDone

\* When the when-done task can run, all searches have completed.
LEMMA EverythingDone ==
  ASSUME TypeInv, DrainInv, WaitInv, HeldInv, CycleInv, NEW w \in Workers, TakeCallback(w)
  PROVE  /\ callback \in {"handle", "wait"} /\ callback' = None
         /\ doneTasks' = {} /\ ~checkFailed'
         /\ outstanding = {} /\ building = {} /\ finishing = {} /\ nodeDeps = {}
         /\ slots' = {}
         /\ UNCHANGED << outstanding, matchers, building, nodeDeps, finishing, doneDeps,
                         queueOpen, drainTasks, todo, notified, nodes, submaps, finished,
                         optVars >>
         /\ job[w] = Idle /\ Goto(w, [at |-> callback, result |-> found])
<1>1. PICK d \in doneTasks : CB!RunWhenDone(d)
  BY DEF TakeCallback
<1>2. callback # None /\ doneDeps = {} /\ doneTasks = {d}
  BY DEF CycleInv
<1>3. callback \in {"handle", "wait"}
  BY <1>2 DEF TypeInv, BuilderType
<1>4. \A v \in Workers : job[v].at # "search"
  BY <1>2, Alone
<1>5. nodeDeps = {}
  BY <1>4 DEF CycleInv
<1>6. finishing = {}
  BY <1>1, <1>2 DEF CB!RunWhenDone, HeldInv
<1>7. outstanding = {}
  BY <1>5, <1>6 DEF HeldInv
<1>8. building = {}
  BY <1>7 DEF HeldInv
<1>9. /\ callback' = None /\ doneTasks' = {} /\ ~checkFailed' /\ slots' = {}
      /\ UNCHANGED << outstanding, matchers, building, nodeDeps, finishing, doneDeps >>
  BY <1>1, <1>2 DEF CB!RunWhenDone, CB!nodeVars
<1>10. UNCHANGED << queueOpen, drainTasks, todo, notified, nodes, submaps, finished, optVars >>
  BY DEF TakeCallback, queueVars, graphVars, clientVars
<1>. QED
  BY <1>3, <1>5, <1>6, <1>7, <1>8, <1>9, <1>10 DEF TakeCallback

\* A task of the builder leaves the threads, the queue and the client alone.
LEMMA TaskEffect ==
  ASSUME BuilderTask
  PROVE  /\ UNCHANGED << queueOpen, drainTasks, job, todo, notified, nodes, submaps, finished,
                         optVars, slots, matchers, nodeDeps, doneDeps, callback, doneTasks,
                         checkFailed >>
         /\ \/ \E s \in building : /\ building' = building \ {s}
                                   /\ UNCHANGED << outstanding, finishing >>
            \/ \E p \in outstanding : /\ outstanding' = outstanding \ {p} /\ p[1] \notin building
                                      /\ UNCHANGED << building, finishing >>
            \/ \E t \in finishing : /\ finishing' = finishing \ {t} /\ t.deps \cap outstanding = {}
                                    /\ UNCHANGED << building, outstanding >>
<1>1. UNCHANGED << queueOpen, drainTasks, job, todo, notified, nodes, submaps, finished, optVars >>
  BY DEF BuilderTask, queueVars, clientVars, graphVars
<1>. USE DEF CB!doneVars, CB!nodeVars, CB!searchVars
<1>2. CASE \E s \in building : CB!BuildMatcher(s)
  BY <1>1, <1>2 DEF CB!BuildMatcher
<1>3. CASE \E p \in outstanding : CB!Compute(p)
  BY <1>1, <1>3 DEF CB!Compute
<1>4. CASE \E t \in finishing : CB!FinishNode(t)
  BY <1>1, <1>4 DEF CB!FinishNode
<1>. QED
  BY <1>2, <1>3, <1>4 DEF BuilderTask, CB!CBTask

LEMMA StepDrain == IInv /\ [Next]_vars => DrainInv'
<1> SUFFICES ASSUME IInv, [Next]_vars PROVE DrainInv'
  OBVIOUS
<1>0. TypeInv /\ JobType /\ DrainInv /\ WaitInv /\ HeldInv /\ CycleInv /\ drainTasks \in Nat
      /\ None \notin {"handle", "wait"}
  BY PoseGraphAssumption DEF IInv, TypeInv, QueueType
<1>1. CASE UNCHANGED << queueOpen, drainTasks, job, callback >>
  BY <1>0, <1>1 DEF DrainInv, Draining
<1>2. CASE AddWorkItem
  BY <1>0, <1>2 DEF AddWorkItem, DrainInv, Draining, cbVars
<1>3. CASE AwaitQueue
  <2>1. Draining' = Draining
    BY <1>0, <1>3, AwaitEffect DEF Draining
  <2>. QED
    BY <1>0, <1>3, <2>1, AwaitEffect DEF DrainInv
<1>4. ASSUME NEW w \in Workers, WorkerKind(w) PROVE DrainInv'
  <2>1. CASE ClientOnly
    BY <1>1, <2>1 DEF ClientOnly, cbVars
  <2>2. CASE StartDrain(w)
    <3>1. Draining' = Draining \cup {w}
      BY <1>0, <2>2, JobsMade, GotoType DEF StartDrain
    <3>2. drainTasks = 1 /\ drainTasks' = 0 /\ UNCHANGED << queueOpen, callback >>
      BY <1>0, <2>2 DEF StartDrain, DrainInv, cbVars
    <3>. QED
      BY <1>0, <3>1, <3>2 DEF DrainInv
  <2>3. CASE Moves(w) \/ Searched(w)
    <3>1. job[w].at \notin {"idle", "wait"} /\ UNCHANGED << queueOpen, drainTasks >>
      BY <2>3 DEF Moves, Searched
    <3>2. Draining' = Draining \cup {w}
      BY <1>0, <2>3, GotoType DEF Moves, Searched
    <3>3. callback' = callback
      BY <2>3 DEF Moves, Searched, cbVars, CB!MaybeAddConstraint, CB!doneVars
    <3>. QED
      BY <1>0, <3>1, <3>2, <3>3, Alone DEF DrainInv
  <2>4. CASE Closes(w)
    <3>1. queueOpen' = FALSE /\ UNCHANGED << drainTasks, callback >>
      BY <2>4 DEF Closes, cbVars
    <3>2. Draining' = Draining \ {w}
      BY <1>0, <2>4, JobsMade, GotoType DEF Closes, Idle
    <3>. QED
      BY <1>0, <2>4, <3>1, <3>2, Alone DEF DrainInv, Closes
  <2>5. CASE CallWhenDone(w)
    <3>1. Draining' = Draining \ {w}
      BY <1>0, <2>5, CallEffect, JobsMade, GotoType DEF Idle
    <3>. QED
      BY <1>0, <2>5, <3>1, CallEffect, Alone DEF DrainInv
  <2>6. CASE EndOfNode(w)
    <3>1. job[w].at = "search" /\ UNCHANGED << queueOpen, drainTasks, callback >>
      BY <2>6 DEF EndOfNode, queueVars, CB!NotifyEndOfNode
    <3>2. PICK a \in {"drain", "whendone"} : Goto(w, [at |-> a])
      BY <2>6 DEF EndOfNode, AfterItem
    <3>3. [at |-> a] \in Jobs
      BY JobsMade
    <3>4. Draining' = Draining \cup {w}
      BY <1>0, <3>2, <3>3, GotoType
    <3>. QED
      BY <1>0, <3>1, <3>4, Alone DEF DrainInv
  <2>7. CASE TakeCallback(w)
    <3>1. found \in SUBSET Pairs
      BY <1>0 DEF TypeInv, BuilderType, CB!CBTypeOK, CB!Searches, Pairs
    <3>2. [at |-> callback, result |-> found] \in Jobs
      BY <1>0, <2>7, <3>1, EverythingDone, JobsMade
    <3>3. Draining' = IF callback = "wait" THEN Draining \ {w} ELSE Draining \cup {w}
      BY <1>0, <2>7, <3>2, EverythingDone, GotoType
    <3>4. w \notin Draining
      BY <2>7, EverythingDone, <1>0 DEF Draining, Idle
    <3>. QED
      BY <1>0, <2>7, <3>3, <3>4, EverythingDone DEF DrainInv
  <2>8. CASE Notify(w)
    <3>1. Draining' = Draining \ {w} /\ w \notin Draining
      BY <1>0, <2>8, JobsMade, GotoType DEF Notify, Idle, Draining
    <3>2. UNCHANGED << queueOpen, drainTasks, callback >>
      BY <2>8 DEF Notify, queueVars, cbVars
    <3>. QED
      BY <1>0, <3>1, <3>2 DEF DrainInv
  <2>9. CASE job[w].at = "optimized" /\ Optimized(w)
    <3>1. Draining' = Draining \cup {w}
      BY <1>0, <2>9, JobsMade, GotoType DEF Optimized
    <3>2. UNCHANGED << queueOpen, drainTasks, callback >>
      BY <2>9 DEF Optimized, queueVars, CB!DeleteScanMatchers, CB!doneVars
    <3>. QED
      BY <1>0, <2>9, <3>1, <3>2, Alone DEF DrainInv
  <2>. QED
    BY <1>4, <2>1, <2>2, <2>3, <2>4, <2>5, <2>6, <2>7, <2>8, <2>9 DEF WorkerKind
<1>5. CASE BuilderTask
  BY <1>1, <1>5, TaskEffect
<1>6. CASE UNCHANGED vars
  BY <1>1, <1>6 DEF vars, queueVars, cbVars
<1>7. CASE ClientOnly
  BY <1>1, <1>7 DEF ClientOnly, cbVars
<1>. QED
  BY <1>0, <1>2, <1>3, <1>4, <1>5, <1>6, <1>7, ClientKinds, WorkerKinds DEF Next, Stopped

\* What a step does to the threads and to what a callback that waits needs.
LEMMA DrainerStep ==
  ASSUME TypeInv, DrainInv, WaitInv, CycleInv, NEW w \in Workers,
         \/ Moves(w) \/ Searched(w) \/ EndOfNode(w) \/ Closes(w)
         \/ job[w].at = "optimized" /\ Optimized(w)
  PROVE  /\ job[w].at \notin {"idle", "wait"} /\ callback = None /\ callback' = None
         /\ \A v \in Workers : v # w => job[v].at = "idle" /\ job'[v] = job[v]
         /\ job'[w].at # "wait"
         /\ UNCHANGED << todo, notified >>
<1>0. JobType
  BY DEF TypeInv
<1>1. job[w].at \notin {"idle", "wait"}
  BY DEF Moves, Searched, EndOfNode, Closes
<1>2. callback = None /\ \A v \in Workers : v # w => job[v].at = "idle"
  BY <1>1, Alone
<1>3. callback' = callback /\ UNCHANGED << todo, notified >>
  BY DEF Moves, Searched, EndOfNode, Closes, Optimized, cbVars, CB!MaybeAddConstraint,
         CB!doneVars, CB!NotifyEndOfNode, CB!DeleteScanMatchers, clientVars
<1>4. PICK j \in Jobs : Goto(w, j) /\ j.at # "wait"
  <2>1. CASE Moves(w) \/ Searched(w)
    BY <2>1 DEF Moves, Searched
  <2>2. CASE Closes(w) \/ Optimized(w)
    BY <2>2, JobsMade DEF Closes, Optimized, Idle
  <2>3. CASE EndOfNode(w)
    <3>1. PICK a \in {"drain", "whendone"} : Goto(w, [at |-> a])
      BY <2>3 DEF EndOfNode, AfterItem
    <3>2. [at |-> a] \in Jobs
      BY JobsMade
    <3>. QED
      BY <3>1, <3>2
  <2>. QED
    BY <2>1, <2>2, <2>3
<1>5. job'[w] = j /\ \A v \in Workers : v # w => job'[v] = job[v]
  BY <1>0, <1>4, GotoType
<1>. QED
  BY <1>1, <1>2, <1>3, <1>4, <1>5

LEMMA StepWait == IInv /\ [Next]_vars => WaitInv'
<1> SUFFICES ASSUME IInv, [Next]_vars PROVE WaitInv'
  OBVIOUS
<1>0. /\ TypeInv /\ JobType /\ DrainInv /\ WaitInv /\ HeldInv /\ CycleInv
      /\ None \notin {"handle", "wait"}
  BY PoseGraphAssumption DEF IInv, TypeInv
<1>1. CASE UNCHANGED << job, callback, queueOpen, todo, notified >>
  BY <1>0, <1>1 DEF WaitInv, Joining
<1>2. CASE ClientOnly
  <2>1. UNCHANGED << job, callback, queueOpen >> /\ (Joining => Joining')
    BY <1>2 DEF ClientOnly, Joining, cbVars
  <2>. QED
    BY <1>0, <2>1 DEF WaitInv
<1>3. CASE AddWorkItem
  <2>1. ~Joining /\ UNCHANGED << job, callback >>
    BY <1>3 DEF AddWorkItem, Joining, cbVars
  <2>. QED
    BY <1>0, <2>1 DEF WaitInv
<1>4. CASE AwaitQueue
  <2>1. Joining' /\ \A w \in Workers : job'[w].at = "idle"
    BY <1>0, <1>4, AwaitEffect
  <2>. QED
    BY <2>1 DEF WaitInv
<1>5. ASSUME NEW w \in Workers, WorkerKind(w) PROVE WaitInv'
  <2>1. CASE StartDrain(w)
    <3>1. /\ job'[w].at # "wait"
          /\ \A v \in Workers : v # w => job'[v] = job[v]
      BY <1>0, <2>1, JobsMade, GotoType DEF StartDrain
    <3>2. UNCHANGED << callback, queueOpen, todo, notified >>
      BY <2>1 DEF StartDrain, cbVars, clientVars
    <3>. QED
      BY <1>0, <3>1, <3>2 DEF WaitInv, Joining
  <2>2. CASE \/ Moves(w) \/ Searched(w) \/ EndOfNode(w) \/ Closes(w)
             \/ job[w].at = "optimized" /\ Optimized(w)
    BY <1>0, <2>2, DrainerStep DEF WaitInv
  <2>3. CASE CallWhenDone(w)
    <3>1. \A v \in Workers : v # w => job[v].at = "idle"
      BY <1>0, <2>3, CallEffect, Alone
    <3>2. \A v \in Workers : job'[v].at = "idle"
      BY <1>0, <2>3, <3>1, CallEffect, JobsMade, GotoType DEF Idle
    <3>. QED
      BY <1>0, <2>3, <3>2, CallEffect DEF WaitInv
  <2>4. CASE TakeCallback(w)
    <3>1. found \in SUBSET Pairs
      BY <1>0 DEF TypeInv, BuilderType, CB!CBTypeOK, CB!Searches, Pairs
    <3>2. [at |-> callback, result |-> found] \in Jobs
      BY <1>0, <2>4, <3>1, EverythingDone, JobsMade
    <3>3. /\ job'[w] = [at |-> callback, result |-> found]
          /\ \A v \in Workers : v # w => job'[v] = job[v]
      BY <1>0, <2>4, <3>2, EverythingDone, GotoType
    <3>4. Joining' <=> Joining
      BY <1>0, <2>4, EverythingDone DEF Joining
    <3>5. job[w].at = "idle" /\ callback' = None
      BY <1>0, <2>4, EverythingDone DEF Idle
    <3>. QED
      BY <1>0, <3>3, <3>4, <3>5 DEF WaitInv
  <2>5. CASE Notify(w)
    <3>1. \A v \in Workers : v # w => job[v].at # "wait" /\ job'[v] = job[v]
      BY <1>0, <2>5, JobsMade, GotoType DEF Notify, WaitInv
    <3>2. job'[w].at = "idle"
      BY <1>0, <2>5, JobsMade, GotoType DEF Notify, Idle
    <3>3. callback # "wait" /\ callback' = callback
      BY <1>0, <2>5 DEF WaitInv, Notify, cbVars
    <3>. QED
      BY <3>1, <3>2, <3>3 DEF WaitInv
  <2>. QED
    BY <1>2, <1>5, <2>1, <2>2, <2>3, <2>4, <2>5 DEF WorkerKind
<1>6. CASE BuilderTask
  BY <1>1, <1>6, TaskEffect
<1>7. CASE UNCHANGED vars
  BY <1>1, <1>7 DEF vars, queueVars, clientVars, cbVars
<1>. QED
  BY <1>0, <1>2, <1>3, <1>4, <1>5, <1>6, <1>7, ClientKinds, WorkerKinds DEF Next, Stopped

\* What the invariants say of a search is not affected by a step that leaves the
\* builder alone and takes nothing from the graph.
LEMMA BuilderAlone ==
  ASSUME HeldInv, CycleInv, ReachInv, UNCHANGED cbVars,
         nodes \subseteq nodes', submaps \subseteq submaps',
         \A v \in Workers : job[v].at = "search" => job'[v].at = "search",
         \A v \in Workers : job'[v].at \in {"handle", "solving", "optimized"}
                              => job[v].at \in {"handle", "solving", "optimized"}
  PROVE  HeldInv' /\ CycleInv' /\ ReachInv'
<1>. USE DEF cbVars
<1>1. HeldInv'
  BY DEF HeldInv
<1>2. CycleInv'
  BY DEF CycleInv
<1>3. SearchesReachable'
  BY DEF ReachInv, SearchesReachable, CB!PointeesAlive
<1>4. ReachInv'
  BY <1>3 DEF ReachInv
<1>. QED
  BY <1>1, <1>2, <1>4

\* WhenDone closes the cycle.
LEMMA WhenDoneKeeps ==
  ASSUME HeldInv, CycleInv, ReachInv,
         callback = None, callback' # None, doneTasks' = {doneDeps}, doneDeps' = {}, ~checkFailed',
         UNCHANGED << slots, outstanding, matchers, building, nodeDeps, finishing,
                      nodes, submaps >>,
         \A v \in Workers : job[v].at = "search" => job'[v].at = "search",
         \A v \in Workers : job'[v].at \in {"handle", "solving", "optimized"}
                              => job[v].at \in {"handle", "solving", "optimized"}
  PROVE  HeldInv' /\ CycleInv' /\ ReachInv'
<1>1. doneTasks = {}
  BY DEF CycleInv
<1>2. HeldInv'
  BY <1>1 DEF HeldInv
<1>3. CycleInv'
  BY DEF CycleInv
<1>4. SearchesReachable'
  BY DEF ReachInv, SearchesReachable, CB!PointeesAlive
<1>5. ReachInv'
  BY <1>4 DEF ReachInv
<1>. QED
  BY <1>2, <1>3, <1>5

LEMMA StepBuilder == IInv /\ [Next]_vars => HeldInv' /\ CycleInv' /\ ReachInv'
<1> SUFFICES ASSUME IInv, [Next]_vars PROVE HeldInv' /\ CycleInv' /\ ReachInv'
  OBVIOUS
<1>0. /\ TypeInv /\ JobType /\ DrainInv /\ WaitInv /\ HeldInv /\ CycleInv /\ ReachInv
      /\ None \notin {"handle", "wait"}
  BY PoseGraphAssumption DEF IInv, TypeInv
<1>1. CASE UNCHANGED << job, cbVars >> /\ nodes \subseteq nodes' /\ submaps \subseteq submaps'
  BY <1>0, <1>1, BuilderAlone
<1>2. CASE ClientOnly \/ AddWorkItem \/ UNCHANGED vars
  BY <1>1, <1>2 DEF ClientOnly, AddWorkItem, vars, graphVars
<1>3. CASE AwaitQueue
  BY <1>0, <1>3, AwaitEffect, WhenDoneKeeps
<1>4. ASSUME NEW w \in Workers, WorkerKind(w) PROVE HeldInv' /\ CycleInv' /\ ReachInv'
  <2>1. CASE StartDrain(w)
    <3>1. /\ job[w].at = "idle" /\ job'[w].at = "drain"
          /\ \A v \in Workers : v # w => job'[v] = job[v]
      BY <1>0, <2>1, JobsMade, GotoType DEF StartDrain, Idle
    <3>2. UNCHANGED << cbVars, nodes, submaps >>
      BY <2>1 DEF StartDrain, graphVars
    <3>. QED
      BY <1>0, <3>1, <3>2, BuilderAlone
  <2>2. CASE Moves(w) \/ Closes(w) \/ (Searched(w) /\ UNCHANGED cbVars)
    <3>1. \A v \in Workers : v # w => job'[v] = job[v]
      BY <1>0, <2>2, DrainerStep
    <3>2. /\ job[w].at = "search" => job'[w].at = "search"
          /\ job'[w].at \in {"handle", "solving", "optimized"}
               => job[w].at \in {"handle", "solving", "optimized"}
      BY <1>0, <2>2, JobsMade, GotoType DEF Moves, Closes, Searched, Idle
    <3>3. UNCHANGED << cbVars, nodes, submaps >>
      BY <2>2 DEF Moves, Closes, Searched
    <3>. QED
      BY <1>0, <3>1, <3>2, <3>3, BuilderAlone
  <2>3. CASE Searched(w) /\ ~UNCHANGED cbVars
    <3>1. PICK p \in Pairs : CB!MaybeAddConstraint(p) /\ p[1] \in submaps /\ p[2] \in nodes
      BY <2>3 DEF Searched
    <3>2. /\ \A v \in Workers : v # w => job'[v] = job[v] /\ job[v].at = "idle"
          /\ job'[w].at = "search" /\ callback = None
      BY <1>0, <2>3, DrainerStep, GotoType DEF Searched
    <3>3. /\ slots' = slots \cup {p} /\ outstanding' = outstanding \cup {p}
          /\ nodeDeps' = nodeDeps \cup {p} /\ matchers' = matchers \cup {p[1]}
          /\ building' = IF p[1] \in matchers THEN building ELSE building \cup {p[1]}
          /\ UNCHANGED << finishing, doneDeps, callback, doneTasks, checkFailed, nodes, submaps >>
      BY <2>3, <3>1 DEF CB!MaybeAddConstraint, CB!doneVars, Searched
    <3>4. HeldInv'
      BY <1>0, <3>3 DEF HeldInv
    <3>5. CycleInv'
      BY <1>0, <3>2, <3>3 DEF CycleInv
    <3>6. SearchesReachable'
      BY <1>0, <3>1, <3>3 DEF ReachInv, SearchesReachable, CB!PointeesAlive
    <3>7. ReachInv'
      BY <3>2, <3>6 DEF ReachInv
    <3>. QED
      BY <3>4, <3>5, <3>7
  <2>4. CASE EndOfNode(w)
    <3>1. /\ finishing' = finishing \cup {[id |-> numStarted, deps |-> nodeDeps]}
          /\ nodeDeps' = {} /\ doneDeps' = doneDeps \cup {numStarted}
          /\ UNCHANGED << slots, outstanding, matchers, building, callback, doneTasks,
                          checkFailed, nodes, submaps >>
      BY <2>4 DEF EndOfNode, CB!NotifyEndOfNode, CB!searchVars, graphVars
    <3>2. \A v \in Workers : v # w => job'[v].at = "idle"
      BY <1>0, <2>4, DrainerStep
    <3>3. job'[w].at \in {"drain", "whendone"}
      <4>1. PICK a \in {"drain", "whendone"} : Goto(w, [at |-> a])
        BY <2>4 DEF EndOfNode, AfterItem
      <4>2. [at |-> a] \in Jobs
        BY JobsMade
      <4>. QED
        BY <1>0, <4>1, <4>2, GotoType
    <3>4. callback = None
      BY <1>0, <2>4, DrainerStep
    <3>5. HeldInv'
      <4>0. PICK new : new = [id |-> numStarted, deps |-> nodeDeps]
        OBVIOUS
      <4>1. new.id = numStarted /\ new.deps = nodeDeps
        BY <4>0
      <4>2. new \in finishing' /\ \A t \in finishing' : t = new \/ t \in finishing
        BY <3>1, <4>0
      <4>3. \A p \in outstanding' : \E t \in finishing' : p \in t.deps
        BY <1>0, <3>1, <4>1, <4>2 DEF HeldInv
      <4>4. \A t \in finishing' : t.id \in doneDeps' \/ \E d \in doneTasks' : t.id \in d
        BY <1>0, <3>1, <4>1, <4>2 DEF HeldInv
      <4>5. \A s \in building' : \E p \in outstanding' : p[1] = s
        BY <1>0, <3>1 DEF HeldInv
      <4>. QED
        BY <4>3, <4>4, <4>5 DEF HeldInv
    <3>6. CycleInv'
      BY <1>0, <3>1, <3>4 DEF CycleInv
    <3>7. SearchesReachable'
      BY <1>0, <3>1 DEF ReachInv, SearchesReachable, CB!PointeesAlive
    <3>8. ReachInv'
      BY <3>2, <3>3, <3>7 DEF ReachInv
    <3>. QED
      BY <3>5, <3>6, <3>8
  <2>5. CASE CallWhenDone(w)
    <3>1. /\ job[w].at = "whendone" /\ job'[w].at = "idle"
          /\ \A v \in Workers : v # w => job'[v] = job[v]
      BY <1>0, <2>5, CallEffect, JobsMade, GotoType DEF Idle
    <3>2. callback = None
      BY <1>0, <2>5, CallEffect, Alone
    <3>. QED
      BY <1>0, <2>5, <3>1, <3>2, CallEffect, WhenDoneKeeps
  <2>6. CASE TakeCallback(w)
    <3>1. /\ doneTasks' = {} /\ callback' = None /\ ~checkFailed'
          /\ outstanding' = {} /\ building' = {} /\ finishing' = {} /\ nodeDeps' = {}
      BY <1>0, <2>6, EverythingDone
    <3>2. HeldInv' /\ CycleInv'
      BY <3>1 DEF HeldInv, CycleInv
    <3>3. ReachInv'
      BY <3>1 DEF ReachInv, SearchesReachable, CB!PointeesAlive
    <3>. QED
      BY <3>2, <3>3
  <2>7. CASE Notify(w)
    <3>1. /\ job[w].at = "wait" /\ job'[w].at = "idle"
          /\ \A v \in Workers : v # w => job'[v] = job[v]
      BY <1>0, <2>7, JobsMade, GotoType DEF Notify, Idle
    <3>2. UNCHANGED << cbVars, nodes, submaps >>
      BY <2>7 DEF Notify, graphVars
    <3>. QED
      BY <1>0, <3>1, <3>2, BuilderAlone
  <2>8. CASE job[w].at = "optimized" /\ Optimized(w)
    <3>1. outstanding = {} /\ building = {}
      BY <1>0, <2>8 DEF ReachInv
    <3>2. UNCHANGED << slots, outstanding, building, nodeDeps, finishing, doneDeps, callback,
                       doneTasks, checkFailed >>
      BY <2>8 DEF Optimized, CB!DeleteScanMatchers, CB!nodeVars, CB!doneVars
    <3>3. /\ job'[w].at = "drain"
          /\ \A v \in Workers : v # w => job'[v] = job[v]
      BY <1>0, <2>8, JobsMade, GotoType DEF Optimized
    <3>4. HeldInv'
      BY <1>0, <3>2 DEF HeldInv
    <3>5. CycleInv'
      BY <1>0, <2>8, <3>2, <3>3 DEF CycleInv
    <3>6. ReachInv'
      BY <3>1, <3>2 DEF ReachInv, SearchesReachable, CB!PointeesAlive
    <3>. QED
      BY <3>4, <3>5, <3>6
  <2>. QED
    BY <1>2, <1>4, <2>1, <2>2, <2>3, <2>4, <2>5, <2>6, <2>7, <2>8 DEF WorkerKind
<1>5. CASE BuilderTask
  <2>1. UNCHANGED << job, nodes, submaps, slots, matchers, nodeDeps, doneDeps, callback,
                     doneTasks, checkFailed >>
    BY <1>5, TaskEffect
  <2>2. /\ outstanding' \subseteq outstanding /\ building' \subseteq building
        /\ finishing' \subseteq finishing
        /\ \A t \in finishing : t \notin finishing' => t.deps \cap outstanding' = {}
        /\ \A s \in building' : \A p \in outstanding : p[1] = s => p \in outstanding'
    BY <1>5, TaskEffect
  <2>3. HeldInv'
    BY <1>0, <2>1, <2>2 DEF HeldInv
  <2>4. CycleInv'
    BY <1>0, <2>1 DEF CycleInv
  <2>5. SearchesReachable'
    BY <1>0, <2>1, <2>2 DEF ReachInv, SearchesReachable, CB!PointeesAlive
  <2>6. ReachInv'
    BY <1>0, <2>1, <2>2, <2>5 DEF ReachInv
  <2>. QED
    BY <2>3, <2>4, <2>6
<1>. QED
  BY <1>0, <1>2, <1>3, <1>4, <1>5, ClientKinds, WorkerKinds DEF Next, Stopped

LEMMA InitIInv == Init => IInv
<1> SUFFICES ASSUME Init PROVE IInv
  OBVIOUS
<1>. USE DEF Init
<1>1. TypeInv
  <2>1. ClientType
    <3>1. 0 \in 0 .. MaxNodes
      BY PoseGraphAssumption
    <3>2. scans \in [Trajs -> 0 .. MaxNodes]
      BY <3>1
    <3>3. todo \in Seq(Steps)
      BY SeqTypes
    <3>. QED
      BY <3>2, <3>3 DEF ClientType
  <2>2. QueueType
    BY SeqTypes DEF QueueType
  <2>3. JobType
    BY JobsMade DEF JobType
  <2>4. StateType /\ GraphType /\ OptType /\ MiscType
    BY DEF StateType, GraphType, OptType, MiscType
  <2>5. BuilderType
    BY DEF BuilderType, CB!CBInit, CB!CBTypeOK
  <2>. QED
    BY <2>1, <2>2, <2>3, <2>4, <2>5 DEF TypeInv
<1>2. \A w \in Workers : job[w].at = "idle"
  BY DEF Idle
<1>3. callback = None /\ None \notin {"handle", "wait"}
  BY PoseGraphAssumption DEF CB!CBInit
<1>4. DrainInv
  <2>1. Draining = {}
    BY <1>2 DEF Draining
  <2>. QED
    BY <1>3, <2>1 DEF DrainInv
<1>5. WaitInv
  BY <1>2, <1>3 DEF WaitInv
<1>6. HeldInv /\ CycleInv
  BY <1>3 DEF HeldInv, CycleInv, CB!CBInit
<1>7. ReachInv
  BY <1>2 DEF ReachInv, SearchesReachable, CB!PointeesAlive, CB!CBInit
<1>. QED
  BY <1>1, <1>4, <1>5, <1>6, <1>7 DEF IInv

LEMMA StepIInv == IInv /\ [Next]_vars => IInv'
<1> SUFFICES ASSUME IInv, [Next]_vars PROVE IInv'
  OBVIOUS
<1>1. TypeInv'
  BY StepTypes DEF IInv
<1>2. DrainInv' /\ WaitInv' /\ HeldInv' /\ CycleInv' /\ ReachInv'
  BY StepDrain, StepWait, StepBuilder
<1>. QED
  BY <1>1, <1>2 DEF IInv

\* The invariant of every behaviour.
THEOREM Invariance == Spec => []IInv
BY InitIInv, StepIInv, PTL DEF Spec

-----------------------------------------------------------------------------
(* What follows.                                                           *)

\* The types of the module, from those of its parts.
THEOREM TypeCorrect == Spec => []TypeOK
<1>1. IInv => TypeOK
  <2> SUFFICES ASSUME TypeInv PROVE TypeOK
    BY DEF IInv
  <2>1. \A i \in DOMAIN queue : queue[i].op \in Ops
    <3>1. \A i \in DOMAIN queue : queue[i] \in Items
      BY DEF TypeInv, QueueType
    <3>2. \A item \in Items : item.op \in Ops
      BY DEF Items, Ops
    <3>. QED
      BY <3>1, <3>2
  <2>2. \A w \in Workers : job[w].at \in {"idle", "drain", "exec", "search", "whendone",
                                          "handle", "solving", "optimized", "wait"}
    <3>1. \A w \in Workers : job[w] \in Jobs
      BY DEF TypeInv, JobType
    <3>. QED
      BY <3>1 DEF Jobs
  <2>. QED
    BY <2>1, <2>2 DEF TypeOK, TypeInv, QueueType, StateType, GraphType, OptType, MiscType,
                      BuilderType, Pairs
<1>. QED
  BY <1>1, Invariance, PTL

\* The work queue exists exactly while one thread drains it or will: never two
\* threads that run items or optimizations, never none while items wait.
THEOREM OneThreadDrains == Spec => []OneDrainer
<1>1. IInv => OneDrainer
  <2> SUFFICES ASSUME DrainInv PROVE OneDrainer
    BY DEF IInv
  <2>1. Draining = {} => Cardinality(Draining) = 0
    BY FS_EmptySet
  <2>2. (\E w \in Workers : Draining = {w}) => Cardinality(Draining) = 1
    BY FS_Singleton
  <2>. QED
    BY <2>1, <2>2 DEF DrainInv, OneDrainer
<1>. QED
  BY <1>1, Invariance, PTL

\* The raw pointers of the searches that wait or run are valid, whatever is
\* trimmed or deleted.
THEOREM PointersValid == Spec => []SearchesReachable
<1>1. IInv => SearchesReachable
  BY DEF IInv, ReachInv
<1>. QED
  BY <1>1, Invariance, PTL

\* While one thread is in Solve without a lock, no other changes what Solve
\* reads.
THEOREM SolveIsAlone == Spec => SolveUndisturbed
<1>1. ASSUME IInv, [Next]_vars, NEW w \in Workers, job[w].at = "solving", job'[w].at = "solving"
      PROVE  UNCHANGED << optVars, finished >>
  <2>0. TypeInv /\ JobType /\ DrainInv /\ WaitInv /\ HeldInv /\ CycleInv
    BY <1>1 DEF IInv, TypeInv
  <2>1. drainTasks = 0 /\ callback = None /\ \A v \in Workers : v # w => job[v].at = "idle"
    BY <1>1, <2>0, Alone
  <2>2. CASE ClientOnly \/ AddWorkItem \/ UNCHANGED vars
    BY <2>2 DEF ClientOnly, AddWorkItem, vars, graphVars
  <2>3. CASE AwaitQueue
    BY <2>0, <2>3, AwaitEffect
  <2>4. CASE BuilderTask
    BY <2>4, TaskEffect
  <2>5. ASSUME NEW v \in Workers, WorkerKind(v) PROVE UNCHANGED << optVars, finished >>
    <3>1. CASE v = w
      <4>1. ~Moves(v)
        BY <1>1, <2>0, <3>1, GotoType DEF Moves
      <4>. QED
        BY <1>1, <2>2, <2>5, <3>1, <4>1 DEF WorkerKind, StartDrain, Closes, CallWhenDone,
           Searched, EndOfNode, TakeCallback, Notify, Idle
    <3>2. CASE v # w
      <4>1. job[v].at = "idle" /\ doneTasks = {}
        BY <2>0, <2>1, <3>2 DEF CycleInv
      <4>2. ~ (drainTasks > 0)
        BY <2>1
      <4>. QED
        BY <2>2, <2>5, <4>1, <4>2 DEF WorkerKind, StartDrain, Moves, Closes, CallWhenDone,
           Searched, EndOfNode, TakeCallback, Notify
    <3>. QED
      BY <3>1, <3>2
  <2>. QED
    BY <1>1, <2>0, <2>2, <2>3, <2>4, <2>5, ClientKinds, WorkerKinds DEF Next, Stopped
<1>2. IInv /\ [Next]_vars
        => [\A w \in Workers : job[w].at = "solving" /\ job'[w].at = "solving"
                                 => UNCHANGED << optVars, finished >>]_vars
  BY <1>1
<1>. QED
  BY <1>2, Invariance, PTL DEF Spec, SolveUndisturbed

-----------------------------------------------------------------------------
(* What is on its way: items that no thread has begun to execute, or is    *)
(* about to, and ids that the client has still to insert.                  *)

RangeOf(s) == {s[i] : i \in DOMAIN s}

QueueItems == RangeOf(queue)
ExecItemsOf(jb) == {jb[w].item : w \in {v \in Workers : jb[v].at = "exec"}}
ExecItems == ExecItemsOf(job)

ItemsOf(S) == {s.item : s \in {r \in S : r.do = "enqueue"}}
InsertsOf(S) == {s \in S : s.do = "insert"}

TodoItems == ItemsOf(RangeOf(todo))
Inserts == InsertsOf(RangeOf(todo))
NodesToInsert == UNION {s.nodes : s \in Inserts}
SubmapsToInsert == UNION {s.submaps : s \in Inserts}

AllItems == QueueItems \cup ExecItems \cup TodoItems
Pending == {x \in AllItems : x.traj \in Trajs}

Slam == Trajs \ Loaded

\* x has to be executed before y.
Before(x, y) ==
  x.traj = y.traj =>
    /\ x.op # "delete"
    /\ x.op \in {"finish", "nodeToSubmap"} => y.op = "delete"
    /\ x.op = "nodeFromProto" => y.op \in {"nodeToSubmap", "delete"}
    /\ x.op = "submapFromProto" => y.op \in {"nodeFromProto", "nodeToSubmap", "delete"}
    /\ x.op = "freeze" =>
         y.op \in {"submapFromProto", "nodeFromProto", "nodeToSubmap", "delete"}
    /\ x.op = "node" /\ y.op = "node" => x.index < y.index

OrderInv ==
  /\ \A i, j \in DOMAIN queue : i < j => Before(queue[i], queue[j])
  /\ \A x \in QueueItems, y \in TodoItems : Before(x, y)
  /\ \A x \in ExecItems, y \in QueueItems \cup TodoItems : Before(x, y)

InsertNode(t, i) == Inserting(t, {<<t, i>>}, {<<t, BackOf(i)>>}, 1)
InsertLoadedSubmap(t) == Inserting(t, {}, {<<t, 0>>}, 0)
InsertLoadedNode(t) == Inserting(t, {<<t, 0>>}, {}, 0)

\* What the client has still to do of its call.
SlamSteps(t) ==
  \/ phase[t] = "open" /\ todo \in {<< Enqueue(Item("trimmer", t)) >>, << Enqueue(Item("data", t)) >>}
  \/ phase[t] = "finished" /\ todo = << Enqueue(Item("finish", t)) >>
  \/ /\ phase[t] = "open"
     /\ \E i \in 0 .. MaxNodes - 1 :
          /\ scans[t] = i + 1
          /\ todo \in {<< InsertNode(t, i), Enqueue(NodeItem(t, i)) >>, << Enqueue(NodeItem(t, i)) >>}

LoadSteps(t) ==
  /\ phase[t] = "loaded"
  /\ todo \in
       {<< Enqueue(Item("freeze", t)),
           InsertLoadedSubmap(t), Enqueue(Item("submapFromProto", t)),
           InsertLoadedNode(t), Enqueue(Item("nodeFromProto", t)),
           Enqueue(Item("nodeToSubmap", t)) >>,
        << InsertLoadedSubmap(t), Enqueue(Item("submapFromProto", t)),
           InsertLoadedNode(t), Enqueue(Item("nodeFromProto", t)),
           Enqueue(Item("nodeToSubmap", t)) >>,
        << Enqueue(Item("submapFromProto", t)),
           InsertLoadedNode(t), Enqueue(Item("nodeFromProto", t)),
           Enqueue(Item("nodeToSubmap", t)) >>,
        << InsertLoadedNode(t), Enqueue(Item("nodeFromProto", t)),
           Enqueue(Item("nodeToSubmap", t)) >>,
        << Enqueue(Item("nodeFromProto", t)), Enqueue(Item("nodeToSubmap", t)) >>,
        << Enqueue(Item("nodeToSubmap", t)) >>}

DeleteSteps(t) ==
  /\ phase[t] = "deleted" /\ t \in MayDelete
  /\ todo \in {<< [do |-> "mark", traj |-> t], Enqueue(Item("delete", t)) >>,
               << Enqueue(Item("delete", t)) >>}

Sample == [do |-> "sample"]
Destroying == [do |-> "destroy"]

WaitSteps ==
  \/ todo \in {<< Enqueue(Item("final", None)), Enqueue(Item("iterations", None)), Sample >>,
               << Enqueue(Item("iterations", None)), Sample >>, << Sample >>,
               << Sample, Destroying >>, << Destroying >>, << [do |-> "gone"] >>}
  \/ \E a \in {"await", "join"} :
       todo \in {<< [do |-> a, expected |-> numNodes] >>,
                << [do |-> a, expected |-> numNodes], Destroying >>}

TodoInv ==
  \/ todo = << >>
  \/ \E t \in Slam : SlamSteps(t)
  \/ \E t \in Loaded : LoadSteps(t)
  \/ \E t \in Trajs : DeleteSteps(t)
  \/ WaitSteps

\* What there is of a trajectory, by how far the client is with it.
ItemInv ==
  /\ \A t \in Loaded : phase[t] \in {"new", "loaded", "deleted"} /\ scans[t] = 0
  /\ \A t \in Slam : phase[t] # "loaded"
  /\ \A t \in Trajs : phase[t] = "new" => scans[t] = 0 /\ \A x \in Pending : x.traj # t
  /\ \A x \in Pending :
       /\ x.op = "node" => /\ x.traj \in Slam /\ x.index < scans[x.traj]
                           /\ x = NodeItem(x.traj, x.index)
       /\ x.op \in {"trimmer", "data", "finish"} => x.traj \in Slam
       /\ x.op = "trimmer" => x.traj \in Localizing
       /\ x.op \in {"freeze", "submapFromProto", "nodeFromProto", "nodeToSubmap"} =>
            x.traj \in Loaded
       /\ x.op = "finish" => phase[x.traj] \in {"finished", "deleted"}
       /\ x.op = "delete" => phase[x.traj] = "deleted" /\ x.traj \in MayDelete
  /\ \A t \in Slam : \A i, j \in 0 .. scans[t] - 1 :
       i < j /\ NodeItem(t, i) \in Pending => NodeItem(t, j) \in Pending
  /\ \A t \in Loaded : Item("nodeFromProto", t) \in Pending => Item("nodeToSubmap", t) \in Pending

PipeInv == TodoInv /\ OrderInv /\ ItemInv

-----------------------------------------------------------------------------
(* The life of a trajectory.                                               *)

Finished(t) == tstate[t] \in {"FINISHED", "DELETED"}

Life(t) ==
  /\ phase[t] = "new" => tstate[t] = "unknown"
  /\ Finished(t) => /\ phase[t] \in {"finished", "deleted", "loaded"}
                    /\ \A x \in Pending : x.traj = t => x.op = "delete"
  /\ tstate[t] = "FINISHED" => t \in Slam
  /\ tstate[t] = "FROZEN" => t \in Loaded
  /\ deletion[t] # "NORMAL" => phase[t] = "deleted" /\ tstate[t] # "unknown"
  /\ deletion[t] = "WAIT_FOR_DELETION" =>
       tstate[t] \in {"FINISHED", "FROZEN"} /\ \A x \in Pending : x.traj # t
  /\ t \in Loaded /\ tstate[t] = "DELETED" => phase[t] = "deleted" /\ \A x \in Pending : x.traj # t
  /\ t \in Slam /\ phase[t] \in {"finished", "deleted"} /\ Item("finish", t) \notin Pending => Finished(t)
  /\ t \in Loaded /\ phase[t] # "new" =>
       (Item("freeze", t) \in Pending <=> tstate[t] \in {"unknown", "ACTIVE"})

LifeInv ==
  /\ trimmers \subseteq Localizing
  /\ \A t \in Trajs : Life(t)
  /\ \A n \in nodes : tstate[n[1]] # "unknown"
  /\ \A s \in submaps : tstate[s[1]] # "unknown"

-----------------------------------------------------------------------------
(* The graph.                                                              *)

Executed(t, i) == i < scans[t] /\ NodeItem(t, i) \notin Pending

\* Node i is the last that is inserted into submap k.
Completes(i, k) == FinishesFront(i) /\ BackOf(i) = k + 1

\* The item that gives the node, or the submap, to the optimization problem
\* has been executed, and so has the one that completes the submap.
NodeKnown(n) ==
  IF n[1] \in Loaded THEN Item("nodeFromProto", n[1]) \notin Pending ELSE Executed(n[1], n[2])
SubmapKnown(s) ==
  IF s[1] \in Loaded THEN Item("submapFromProto", s[1]) \notin Pending
  ELSE \E i \in 0 .. MaxNodes - 1 : Executed(s[1], i) /\ BackOf(i) = s[2]
SubmapComplete(s) ==
  IF s[1] \in Loaded THEN Item("submapFromProto", s[1]) \notin Pending
  ELSE Finished(s[1]) \/ \E i \in 0 .. MaxNodes - 1 : Executed(s[1], i) /\ Completes(i, s[2])

\* Trimming may have removed the submap.
MayBeGone(s) ==
  \/ tstate[s[1]] = "DELETED"
  \/ \E i \in 0 .. MaxNodes - 1 : Executed(s[1], i) /\ BackOf(i) >= s[2] + 2

ThereInv ==
  /\ \A n \in nodes : n[2] < scans[n[1]] \/ (n[1] \in Loaded /\ n[2] = 0)
  /\ \A s \in submaps : \/ \E i \in 0 .. scans[s[1]] - 1 : BackOf(i) = s[2]
                        \/ s[1] \in Loaded /\ s[2] = 0
  /\ \A t \in Slam : \A i \in 0 .. scans[t] - 1 :
       /\ NodeItem(t, i) \in Pending => <<t, i>> \in nodes \cup NodesToInsert
       /\ \/ <<t, i>> \in NodesToInsert
          \/ <<t, BackOf(i)>> \in submaps
          \/ MayBeGone(<<t, BackOf(i)>>)
  /\ \A t \in Loaded : phase[t] # "new" /\ tstate[t] # "DELETED" =>
       /\ <<t, 0>> \in nodes \cup NodesToInsert
       /\ <<t, 0>> \in submaps \cup SubmapsToInsert

KnownInv ==
  /\ optNodes \subseteq nodes
  /\ \A n \in nodes : n \in optNodes <=> NodeKnown(n)
  /\ optSubmaps \subseteq submaps
  /\ \A s \in submaps : s \in optSubmaps <=> SubmapKnown(s)
  /\ finished \subseteq submaps
  /\ \A s \in submaps : s \in finished <=> SubmapComplete(s)

MemberInv ==
  /\ \A p \in nodeIds : p[1] \in optSubmaps /\ p[2] \in optNodes /\ p[1][1] = p[2][1]
  /\ \A n \in optNodes : \/ n[1] \in Loaded /\ Item("nodeToSubmap", n[1]) \in Pending
                         \/ \E s \in submaps : <<s, n>> \in nodeIds
  /\ intra \subseteq nodeIds

DeletedInv ==
  \A t \in Trajs : tstate[t] = "DELETED" =>
    (\A s \in submaps : s[1] # t) /\ (\A n \in nodes : n[1] # t)

GraphInv == ThereInv /\ KnownInv /\ MemberInv /\ DeletedInv

-----------------------------------------------------------------------------
(* The searches.                                                           *)

Resolves(p) == p[1] \in submaps /\ p[2] \in nodes

SearchingOf(jb) == {w \in Workers : jb[w].at = "search"}
OpenPairsOf(jb) == UNION {jb[w].pairs : w \in SearchingOf(jb)}
ResultsOf(jb) == UNION {jb[w].result : w \in {v \in Workers :
                          jb[v].at \in {"handle", "solving", "optimized", "wait"}}}
Searching == SearchingOf(job)
OpenPairs == OpenPairsOf(job)
Results == ResultsOf(job)

TriedInv ==
  /\ \A p \in tried :
       /\ p[2][1] \in Slam => Executed(p[2][1], p[2][2])
       /\ p[1][1] \in Slam => SubmapComplete(p[1])
       /\ p[1][1] \in Slam \/ p[2][1] \in Slam
  /\ tried \cap nodeIds = {}

OpenInv ==
  /\ \A p \in OpenPairs : /\ p[1] \in finished /\ p[2] \in optNodes
                          /\ p[1][1] \in Slam \/ p[2][1] \in Slam
  /\ OpenPairs \cap (tried \cup nodeIds) = {}

CoverInv ==
  \A s \in finished, n \in optNodes :
    InsertionFinished(s) /\ s[1] \in Slam /\ n[1] \in Slam
      => <<s, n>> \in tried \cup nodeIds \cup OpenPairs

Matches == slots \cup found \cup inter \cup Results
Spent ==
  \A w \in Workers :
    job[w].at \in {"handle", "solving", "optimized"} => slots = {} /\ found = {}

ResultInv == Matches \subseteq tried /\ (\A p \in Matches : Resolves(p)) /\ Spent

SearchInv == TriedInv /\ OpenInv /\ CoverInv /\ ResultInv

-----------------------------------------------------------------------------
(* Counting nodes.                                                         *)

NodesPending == {x \in Pending : x.op = "node"}

Appending == \E s \in Inserts : s.count = 1

\* The nodes are those whose item is on its way, the one whose searches are being
\* listed and those whose end the builder has been told.
BalanceInv ==
  /\ IsFiniteSet(NodesPending)
  /\ numNodes + (IF Appending THEN 1 ELSE 0)
       = numStarted + Cardinality(NodesPending) + (IF Searching = {} THEN 0 ELSE 1)

EndedInv ==
  /\ IsFiniteSet(finishing) /\ \A f \in finishing : f.id < numStarted
  /\ numStarted = numFinished + Cardinality(finishing)

Quiet == ~queueOpen /\ finishing = {} /\ slots = {} /\ callback = None

Joined == todo # << >> /\ Head(todo).do = "join" /\ notified
Destroyed == todo \in {<< Destroying >>, << [do |-> "gone"] >>}

QuietInv ==
  /\ ~queueOpen => queue = << >>
  /\ \A w \in Workers : job[w].at = "wait" => finishing = {} /\ slots = {}
  /\ Joined \/ Destroyed => Quiet

CountInv == BalanceInv /\ EndedInv /\ QuietInv

-----------------------------------------------------------------------------
(* A client that keeps to the interface.                                   *)

PatientClient == Patient /\ Localizing \cap MayDelete = {}

Marking(t) == [do |-> "mark", traj |-> t] \in RangeOf(todo)

\* Nothing but a finish precedes the deletion of a trajectory, ...
OnlyEnds ==
  \A x \in Pending : phase[x.traj] = "deleted" => x.op \in {"finish", "delete"}

\* ... which the client has scheduled, or is about to.
ScheduledInv ==
  \A t \in Trajs :
    Item("delete", t) \in Pending => deletion[t] = "SCHEDULED_FOR_DELETION" \/ Marking(t)

\* One that is DELETED though its deletion was not executed had ended localization.
AskedInv ==
  \A t \in Trajs : tstate[t] = "DELETED" =>
    t \in Localizing \/ (phase[t] = "deleted" /\ \A x \in Pending : x.traj # t)

PatientInv == OnlyEnds /\ ScheduledInv /\ AskedInv

-----------------------------------------------------------------------------
(* Lemmas about sequences and what is on its way.                          *)

LEMMA RangeTail ==
  ASSUME NEW S, NEW s \in Seq(S), s # << >>
  PROVE  RangeOf(s) = {Head(s)} \cup RangeOf(Tail(s))
<1>1. /\ Len(s) \in Nat /\ Len(s) >= 1 /\ DOMAIN s = 1 .. Len(s) /\ Head(s) = s[1]
      /\ DOMAIN Tail(s) = 1 .. Len(s) - 1
      /\ \A i \in 1 .. Len(s) - 1 : Tail(s)[i] = s[i + 1]
  BY HeadTailProperties, EmptySeq, LenProperties
<1>2. ASSUME NEW i \in DOMAIN s PROVE i = 1 \/ (i - 1 \in DOMAIN Tail(s) /\ s[i] = Tail(s)[i - 1])
  BY <1>1
<1>3. ASSUME NEW i \in DOMAIN Tail(s) PROVE i + 1 \in DOMAIN s /\ Tail(s)[i] = s[i + 1]
  BY <1>1
<1>4. RangeOf(s) \subseteq {Head(s)} \cup RangeOf(Tail(s))
  BY <1>1, <1>2 DEF RangeOf
<1>5. {Head(s)} \cup RangeOf(Tail(s)) \subseteq RangeOf(s)
  BY <1>1, <1>3 DEF RangeOf
<1>. QED
  BY <1>4, <1>5

LEMMA RangeAppend ==
  ASSUME NEW S, NEW s \in Seq(S), NEW a
  PROVE  RangeOf(Append(s, a)) = RangeOf(s) \cup {a}
<1>1. /\ Len(s) \in Nat /\ DOMAIN s = 1 .. Len(s)
      /\ DOMAIN Append(s, a) = 1 .. Len(s) + 1
      /\ \A i \in 1 .. Len(s) : Append(s, a)[i] = s[i]
      /\ Append(s, a)[Len(s) + 1] = a
  BY LenProperties
<1>2. \A i \in DOMAIN Append(s, a) : i \in DOMAIN s \/ i = Len(s) + 1
  BY <1>1
<1>3. \A i \in DOMAIN s : i \in DOMAIN Append(s, a)
  BY <1>1
<1>4. Len(s) + 1 \in DOMAIN Append(s, a)
  BY <1>1
<1>. QED
  BY <1>1, <1>2, <1>3, <1>4 DEF RangeOf

LEMMA RangeShort ==
  /\ RangeOf(<< >>) = {}
  /\ \A a : RangeOf(<< a >>) = {a}
  /\ \A a, b : RangeOf(<< a, b >>) = {a, b}
  /\ \A a, b, c : RangeOf(<< a, b, c >>) = {a, b, c}
  /\ \A a, b, c, d : RangeOf(<< a, b, c, d >>) = {a, b, c, d}
  /\ \A a, b, c, d, e : RangeOf(<< a, b, c, d, e >>) = {a, b, c, d, e}
  /\ \A a, b, c, d, e, f : RangeOf(<< a, b, c, d, e, f >>) = {a, b, c, d, e, f}
BY DEF RangeOf

LEMMA PartsOf ==
  ASSUME NEW a, NEW S
  PROVE  /\ ItemsOf({}) = {} /\ InsertsOf({}) = {}
         /\ a.do = "enqueue" => /\ ItemsOf({a} \cup S) = {a.item} \cup ItemsOf(S)
                                /\ InsertsOf({a} \cup S) = InsertsOf(S)
         /\ a.do = "insert" => /\ ItemsOf({a} \cup S) = ItemsOf(S)
                               /\ InsertsOf({a} \cup S) = {a} \cup InsertsOf(S)
         /\ a.do \notin {"enqueue", "insert"} => /\ ItemsOf({a} \cup S) = ItemsOf(S)
                                                 /\ InsertsOf({a} \cup S) = InsertsOf(S)
BY DEF ItemsOf, InsertsOf

\* What the threads hold when one of them does not rest.
ExecItemOf(j) == IF j.at = "exec" THEN {j.item} ELSE {}
OpenPairOf(j) == IF j.at = "search" THEN j.pairs ELSE {}
ResultOf(j) == IF j.at \in {"handle", "solving", "optimized", "wait"} THEN j.result ELSE {}

LEMMA JobView ==
  ASSUME NEW jb, NEW w \in Workers, \A v \in Workers : v # w => jb[v].at = "idle"
  PROVE  /\ ExecItemsOf(jb) = ExecItemOf(jb[w])
         /\ SearchingOf(jb) = IF jb[w].at = "search" THEN {w} ELSE {}
         /\ OpenPairsOf(jb) = OpenPairOf(jb[w])
         /\ ResultsOf(jb) = ResultOf(jb[w])
<1>1. ExecItemsOf(jb) = ExecItemOf(jb[w])
  BY DEF ExecItemsOf, ExecItemOf
<1>2. SearchingOf(jb) = IF jb[w].at = "search" THEN {w} ELSE {}
  BY DEF SearchingOf
<1>3. OpenPairsOf(jb) = OpenPairOf(jb[w])
  BY <1>2 DEF OpenPairsOf, OpenPairOf
<1>4. ResultsOf(jb) = ResultOf(jb[w])
  BY DEF ResultsOf, ResultOf
<1>. QED
  BY <1>1, <1>2, <1>3, <1>4

\* A step of the thread that drains, or, when there is none, of any thread.
LEMMA JobMove ==
  ASSUME JobType, NEW w \in Workers, \A v \in Workers : v # w => job[v].at = "idle",
         NEW j \in Jobs, Goto(w, j)
  PROVE  /\ ExecItems = ExecItemOf(job[w]) /\ ExecItems' = ExecItemOf(j)
         /\ OpenPairs = OpenPairOf(job[w]) /\ OpenPairs' = OpenPairOf(j)
         /\ Results = ResultOf(job[w]) /\ Results' = ResultOf(j)
         /\ Searching = (IF job[w].at = "search" THEN {w} ELSE {})
         /\ Searching' = (IF j.at = "search" THEN {w} ELSE {})
         /\ job'[w] = j /\ \A v \in Workers : v # w => job'[v].at = "idle"
<1>1. job'[w] = j /\ \A v \in Workers : v # w => job'[v].at = "idle"
  BY GotoType
<1>2. /\ ExecItemsOf(job) = ExecItemOf(job[w]) /\ OpenPairsOf(job) = OpenPairOf(job[w])
      /\ ResultsOf(job) = ResultOf(job[w])
      /\ SearchingOf(job) = (IF job[w].at = "search" THEN {w} ELSE {})
  BY JobView
<1>3. /\ ExecItemsOf(job') = ExecItemOf(j) /\ OpenPairsOf(job') = OpenPairOf(j)
      /\ ResultsOf(job') = ResultOf(j)
      /\ SearchingOf(job') = (IF j.at = "search" THEN {w} ELSE {})
  BY <1>1, JobView
<1>. QED
  BY <1>1, <1>2, <1>3 DEF ExecItems, OpenPairs, Results, Searching

LEMMA ConcatShort ==
  /\ \A a : << a >> \o << >> = << a >>
  /\ \A a, b : << a >> \o << b >> = << a, b >>
  /\ \A a, b, c : << a, b >> \o << c >> = << a, b, c >>
<1>0. ASSUME NEW a PROVE << a >> \o << >> = << a >>
  <2>1. PICK S : S = {a}
    OBVIOUS
  <2>2. << a >> \in Seq(S)
    BY <2>1
  <2>. QED
    BY <2>2, ConcatEmptySeq
<1>1. ASSUME NEW a, NEW b PROVE << a >> \o << b >> = << a, b >>
  <2>1. PICK S : S = {a, b}
    OBVIOUS
  <2>2. << a >> \in Seq(S) /\ << b >> \in Seq(S) /\ << a, b >> \in Seq(S)
    BY <2>1
  <2>3. /\ Len(<< a >> \o << b >>) = 2 /\ << a >> \o << b >> \in Seq(S)
        /\ \A i \in 1 .. 2 : (<< a >> \o << b >>)[i] = << a, b >>[i]
    BY <2>2
  <2>. QED
    BY <2>2, <2>3, SeqEqual
<1>2. ASSUME NEW a, NEW b, NEW c PROVE << a, b >> \o << c >> = << a, b, c >>
  <2>1. PICK S : S = {a, b, c}
    OBVIOUS
  <2>2. << a, b >> \in Seq(S) /\ << c >> \in Seq(S) /\ << a, b, c >> \in Seq(S)
    BY <2>1
  <2>3. /\ Len(<< a, b >> \o << c >>) = 3 /\ << a, b >> \o << c >> \in Seq(S)
        /\ \A i \in 1 .. 3 : (<< a, b >> \o << c >>)[i] = << a, b, c >>[i]
    BY <2>2
  <2>. QED
    BY <2>2, <2>3, SeqEqual
<1>. QED
  BY <1>0, <1>1, <1>2

\* While a thread is not at rest the others are idle, and so they are when it
\* begins to drain, or takes or ends a callback.
LEMMA OthersIdle ==
  ASSUME IInv, NEW w \in Workers, Worker(w)
  PROVE  \A v \in Workers : v # w => job[v].at = "idle"
<1>0. /\ TypeInv /\ JobType /\ DrainInv /\ WaitInv /\ CycleInv
      /\ None \notin {"handle", "wait"}
  BY PoseGraphAssumption DEF IInv, TypeInv
<1>1. CASE job[w].at \notin {"idle", "wait"}
  BY <1>0, <1>1, Alone
<1>2. CASE job[w].at = "wait"
  <2>1. Joining /\ Draining = {}
    BY <1>0, <1>2 DEF WaitInv, DrainInv, Joining
  <2>. QED
    BY <1>0, <1>2, <2>1, NoDrainer DEF WaitInv
<1>3. CASE job[w].at = "idle"
  <2>1. StartDrain(w) \/ TakeCallback(w)
    BY <1>3 DEF Worker, PopWorkItem, CallWhenDone, ExecuteData, ExecuteFinish, ExecuteDelete,
       ExecuteFreeze, ExecuteFromProto, ExecuteNodeToSubmap, ExecuteTrimmer, ExecuteFinal,
       ExecuteNode, ComputeConstraint, EndOfNode, Notify, HandleWorkQueue, EndSolve,
       AfterOptimization, Executing
  <2>2. CASE StartDrain(w)
    <3>1. drainTasks > 0 /\ drainTasks \in Nat
      BY <1>0, <2>2 DEF StartDrain, TypeInv, QueueType
    <3>2. queueOpen /\ Draining = {}
      BY <1>0, <3>1 DEF DrainInv
    <3>3. ~Joining
      BY <3>2 DEF Joining
    <3>. QED
      BY <1>0, <3>2, <3>3, NoDrainer DEF WaitInv
  <2>3. CASE TakeCallback(w)
    <3>1. callback \in {"handle", "wait"}
      BY <1>0, <2>3, EverythingDone DEF IInv
    <3>2. Draining = {} /\ (callback = "handle" => queueOpen)
      <4>1. callback = "wait" => ~queueOpen
        BY <1>0 DEF WaitInv, Joining
      <4>. QED
        BY <1>0, <3>1, <4>1 DEF DrainInv
    <3>3. callback = "handle" => ~Joining
      BY <3>2 DEF Joining
    <3>. QED
      BY <1>0, <3>1, <3>2, <3>3, NoDrainer DEF WaitInv
  <2>. QED
    BY <2>1, <2>2, <2>3
<1>. QED
  BY <1>1, <1>2, <1>3

LEMMA TailShort ==
  /\ \A a : Tail(<< a >>) = << >>
  /\ \A a, b : Tail(<< a, b >>) = << b >>
  /\ \A a, b, c : Tail(<< a, b, c >>) = << b, c >>
  /\ \A a, b, c, d : Tail(<< a, b, c, d >>) = << b, c, d >>
  /\ \A a, b, c, d, e : Tail(<< a, b, c, d, e >>) = << b, c, d, e >>
  /\ \A a, b, c, d, e, f : Tail(<< a, b, c, d, e, f >>) = << b, c, d, e, f >>
<1>1. \A a : Tail(<< a >>) = << >>
  OBVIOUS
<1>2. \A a, b : Tail(<< a, b >>) = << b >>
  OBVIOUS
<1>3. \A a, b, c : Tail(<< a, b, c >>) = << b, c >>
  OBVIOUS
<1>4. \A a, b, c, d : Tail(<< a, b, c, d >>) = << b, c, d >>
  OBVIOUS
<1>5. \A a, b, c, d, e : Tail(<< a, b, c, d, e >>) = << b, c, d, e >>
  OBVIOUS
<1>6. \A a, b, c, d, e, f : Tail(<< a, b, c, d, e, f >>) = << b, c, d, e, f >>
  OBVIOUS
<1>. QED
  BY <1>1, <1>2, <1>3, <1>4, <1>5, <1>6

LEMMA HeadShort ==
  /\ \A a : Head(<< a >>) = a
  /\ \A a, b : Head(<< a, b >>) = a
  /\ \A a, b, c : Head(<< a, b, c >>) = a
  /\ \A a, b, c, d : Head(<< a, b, c, d >>) = a
  /\ \A a, b, c, d, e : Head(<< a, b, c, d, e >>) = a
  /\ \A a, b, c, d, e, f : Head(<< a, b, c, d, e, f >>) = a
OBVIOUS

LEMMA StepFields ==
  /\ \A x : Enqueue(x).do = "enqueue" /\ Enqueue(x).item = x
  /\ \A t, i : /\ InsertNode(t, i).do = "insert" /\ InsertNode(t, i).traj = t
               /\ InsertNode(t, i).nodes = {<<t, i>>}
               /\ InsertNode(t, i).submaps = {<<t, BackOf(i)>>} /\ InsertNode(t, i).count = 1
  /\ \A t : /\ InsertLoadedSubmap(t).do = "insert" /\ InsertLoadedSubmap(t).traj = t
            /\ InsertLoadedSubmap(t).nodes = {} /\ InsertLoadedSubmap(t).submaps = {<<t, 0>>}
            /\ InsertLoadedSubmap(t).count = 0
  /\ \A t : /\ InsertLoadedNode(t).do = "insert" /\ InsertLoadedNode(t).traj = t
            /\ InsertLoadedNode(t).nodes = {<<t, 0>>} /\ InsertLoadedNode(t).submaps = {}
            /\ InsertLoadedNode(t).count = 0
  /\ \A op, t : Item(op, t).op = op /\ Item(op, t).traj = t
  /\ \A t, i : NodeItem(t, i).op = "node" /\ NodeItem(t, i).traj = t /\ NodeItem(t, i).index = i
  /\ Sample.do = "sample" /\ Destroying.do = "destroy"
BY DEF Enqueue, InsertNode, InsertLoadedSubmap, InsertLoadedNode, Inserting, Item, NodeItem,
       Sample, Destroying

\* What the client does next, and what then remains.
EnqueueStep ==
  \/ \E t \in Slam : /\ phase[t] = "open" /\ \E op \in {"trimmer", "data"} : Head(todo).item = Item(op, t)
                     /\ Tail(todo) = << >>
  \/ \E t \in Slam : /\ phase[t] = "finished" /\ Head(todo).item = Item("finish", t)
                     /\ Tail(todo) = << >>
  \/ \E t \in Slam, i \in 0 .. MaxNodes - 1 :
       /\ phase[t] = "open" /\ scans[t] = i + 1 /\ Head(todo).item = NodeItem(t, i)
       /\ Tail(todo) = << >>
  \/ \E t \in Loaded :
       /\ phase[t] = "loaded"
       /\ \/ /\ Head(todo).item = Item("freeze", t)
             /\ Tail(todo) = << InsertLoadedSubmap(t), Enqueue(Item("submapFromProto", t)),
                                InsertLoadedNode(t), Enqueue(Item("nodeFromProto", t)),
                                Enqueue(Item("nodeToSubmap", t)) >>
          \/ /\ Head(todo).item = Item("submapFromProto", t)
             /\ Tail(todo) = << InsertLoadedNode(t), Enqueue(Item("nodeFromProto", t)),
                                Enqueue(Item("nodeToSubmap", t)) >>
          \/ /\ Head(todo).item = Item("nodeFromProto", t)
             /\ Tail(todo) = << Enqueue(Item("nodeToSubmap", t)) >>
          \/ Head(todo).item = Item("nodeToSubmap", t) /\ Tail(todo) = << >>
  \/ \E t \in MayDelete : /\ phase[t] = "deleted" /\ Head(todo).item = Item("delete", t)
                          /\ Tail(todo) = << >>
  \/ /\ Head(todo).item = Item("final", None)
     /\ Tail(todo) = << Enqueue(Item("iterations", None)), Sample >>
  \/ Head(todo).item = Item("iterations", None) /\ Tail(todo) = << Sample >>

InsertStep ==
  \/ \E t \in Slam, i \in 0 .. MaxNodes - 1 :
       /\ phase[t] = "open" /\ scans[t] = i + 1
       /\ Head(todo) = InsertNode(t, i) /\ Tail(todo) = << Enqueue(NodeItem(t, i)) >>
  \/ \E t \in Loaded :
       /\ phase[t] = "loaded"
       /\ \/ /\ Head(todo) = InsertLoadedSubmap(t)
             /\ Tail(todo) = << Enqueue(Item("submapFromProto", t)),
                                InsertLoadedNode(t), Enqueue(Item("nodeFromProto", t)),
                                Enqueue(Item("nodeToSubmap", t)) >>
          \/ /\ Head(todo) = InsertLoadedNode(t)
             /\ Tail(todo) = << Enqueue(Item("nodeFromProto", t)), Enqueue(Item("nodeToSubmap", t)) >>

MarkStep ==
  \E t \in MayDelete : /\ phase[t] = "deleted" /\ Head(todo).traj = t
                       /\ Head(todo) = [do |-> "mark", traj |-> t]
                       /\ Tail(todo) = << Enqueue(Item("delete", t)) >>

LEMMA TodoForms ==
  ASSUME TodoInv, todo # << >>
  PROVE  /\ Head(todo).do = "enqueue" => EnqueueStep
         /\ Head(todo).do = "insert" => InsertStep
         /\ Head(todo).do = "mark" => MarkStep
         /\ Head(todo).do \notin {"enqueue", "insert", "mark"} => WaitSteps
<1>1. ASSUME NEW t \in Slam, SlamSteps(t)
      PROVE  /\ Head(todo).do = "enqueue" => EnqueueStep
             /\ Head(todo).do = "insert" => InsertStep
             /\ Head(todo).do \in {"enqueue", "insert"}
  <2>1. ASSUME NEW op, todo = << Enqueue(Item(op, t)) >>
        PROVE  Head(todo).do = "enqueue" /\ Head(todo).item = Item(op, t) /\ Tail(todo) = << >>
    BY <2>1, StepFields, HeadShort, TailShort
  <2>2. CASE phase[t] = "open" /\ todo \in {<< Enqueue(Item("trimmer", t)) >>, << Enqueue(Item("data", t)) >>}
    BY <2>1, <2>2 DEF EnqueueStep
  <2>3. CASE phase[t] = "finished" /\ todo = << Enqueue(Item("finish", t)) >>
    BY <2>1, <2>3 DEF EnqueueStep
  <2>4. ASSUME NEW i \in 0 .. MaxNodes - 1, phase[t] = "open", scans[t] = i + 1,
               todo = << InsertNode(t, i), Enqueue(NodeItem(t, i)) >>
        PROVE  InsertStep /\ Head(todo).do = "insert"
    <3>1. Head(todo) = InsertNode(t, i) /\ Tail(todo) = << Enqueue(NodeItem(t, i)) >>
      BY <2>4, HeadShort, TailShort
    <3>. QED
      BY <2>4, <3>1, StepFields DEF InsertStep
  <2>5. ASSUME NEW i \in 0 .. MaxNodes - 1, phase[t] = "open", scans[t] = i + 1,
               todo = << Enqueue(NodeItem(t, i)) >>
        PROVE  EnqueueStep /\ Head(todo).do = "enqueue"
    <3>1. Head(todo) = Enqueue(NodeItem(t, i)) /\ Tail(todo) = << >>
      BY <2>5, HeadShort, TailShort
    <3>. QED
      BY <2>5, <3>1, StepFields DEF EnqueueStep
  <2>. QED
    BY <1>1, <2>1, <2>2, <2>3, <2>4, <2>5 DEF SlamSteps
<1>2. ASSUME NEW t \in Loaded, LoadSteps(t)
      PROVE  /\ Head(todo).do = "enqueue" => EnqueueStep
             /\ Head(todo).do = "insert" => InsertStep
             /\ Head(todo).do \in {"enqueue", "insert"}
  <2>0. phase[t] = "loaded"
    BY <1>2 DEF LoadSteps
  <2>1. PICK a, b, c, d, e, f : /\ a = Enqueue(Item("freeze", t)) /\ b = InsertLoadedSubmap(t)
                                /\ c = Enqueue(Item("submapFromProto", t)) /\ d = InsertLoadedNode(t)
                                /\ e = Enqueue(Item("nodeFromProto", t))
                                /\ f = Enqueue(Item("nodeToSubmap", t))
    OBVIOUS
  <2>2. todo \in {<< a, b, c, d, e, f >>, << b, c, d, e, f >>, << c, d, e, f >>, << d, e, f >>,
                  << e, f >>, << f >>}
    BY <1>2, <2>1 DEF LoadSteps
  <2>3. \/ Head(todo) = a /\ Tail(todo) = << b, c, d, e, f >>
        \/ Head(todo) = b /\ Tail(todo) = << c, d, e, f >>
        \/ Head(todo) = c /\ Tail(todo) = << d, e, f >>
        \/ Head(todo) = d /\ Tail(todo) = << e, f >>
        \/ Head(todo) = e /\ Tail(todo) = << f >>
        \/ Head(todo) = f /\ Tail(todo) = << >>
    <3>1. CASE todo = << a, b, c, d, e, f >>
      BY <3>1, HeadShort, TailShort
    <3>2. CASE todo = << b, c, d, e, f >>
      BY <3>2, HeadShort, TailShort
    <3>3. CASE todo = << c, d, e, f >>
      BY <3>3, HeadShort, TailShort
    <3>4. CASE todo = << d, e, f >>
      BY <3>4, HeadShort, TailShort
    <3>5. CASE todo = << e, f >>
      BY <3>5, HeadShort, TailShort
    <3>6. CASE todo = << f >>
      BY <3>6, HeadShort, TailShort
    <3>. QED
      BY <2>2, <3>1, <3>2, <3>3, <3>4, <3>5, <3>6
  <2>4. /\ a.do = "enqueue" /\ a.item = Item("freeze", t)
        /\ c.do = "enqueue" /\ c.item = Item("submapFromProto", t)
        /\ e.do = "enqueue" /\ e.item = Item("nodeFromProto", t)
        /\ f.do = "enqueue" /\ f.item = Item("nodeToSubmap", t)
        /\ b.do = "insert" /\ d.do = "insert"
    BY <2>1, StepFields
  <2>5. Head(todo) \in {a, c, e, f} => EnqueueStep
    BY <2>0, <2>1, <2>3, <2>4 DEF EnqueueStep
  <2>6. Head(todo) \in {b, d} => InsertStep
    BY <2>0, <2>1, <2>3, <2>4 DEF InsertStep
  <2>. QED
    BY <2>3, <2>4, <2>5, <2>6
<1>3. ASSUME NEW t \in Trajs, DeleteSteps(t)
      PROVE  /\ Head(todo).do = "enqueue" => EnqueueStep
             /\ Head(todo).do = "mark" => MarkStep
             /\ Head(todo).do \in {"enqueue", "mark"}
  <2>1. PICK m : m = [do |-> "mark", traj |-> t]
    OBVIOUS
  <2>2. \/ Head(todo) = m /\ Tail(todo) = << Enqueue(Item("delete", t)) >>
        \/ Head(todo) = Enqueue(Item("delete", t)) /\ Tail(todo) = << >>
    <3>1. CASE todo = << m, Enqueue(Item("delete", t)) >>
      BY <3>1, HeadShort, TailShort
    <3>2. CASE todo = << Enqueue(Item("delete", t)) >>
      BY <3>2, HeadShort, TailShort
    <3>. QED
      BY <1>3, <2>1, <3>1, <3>2 DEF DeleteSteps
  <2>3. m.do = "mark" /\ m.traj = t
    BY <2>1
  <2>. QED
    BY <1>3, <2>1, <2>2, <2>3, StepFields DEF DeleteSteps, EnqueueStep, MarkStep
<1>4. ASSUME WaitSteps
      PROVE  /\ Head(todo).do = "enqueue" => EnqueueStep
             /\ Head(todo).do \notin {"insert", "mark"}
  <2>1. PICK a, b : a = Enqueue(Item("final", None)) /\ b = Enqueue(Item("iterations", None))
    OBVIOUS
  <2>2. a.do = "enqueue" /\ a.item = Item("final", None) /\ b.do = "enqueue" /\ b.item = Item("iterations", None)
    BY <2>1, StepFields
  <2>3. CASE todo = << a, b, Sample >> \/ todo = << b, Sample >>
    <3>1. \/ Head(todo) = a /\ Tail(todo) = << b, Sample >>
          \/ Head(todo) = b /\ Tail(todo) = << Sample >>
      <4>1. CASE todo = << a, b, Sample >>
        BY <4>1, HeadShort, TailShort
      <4>2. CASE todo = << b, Sample >>
        BY <4>2, HeadShort, TailShort
      <4>. QED
        BY <2>3, <4>1, <4>2
    <3>. QED
      BY <2>1, <2>2, <3>1 DEF EnqueueStep
  <2>4. CASE ~ (todo = << a, b, Sample >> \/ todo = << b, Sample >>)
    <3>1. \E x \in {"sample", "destroy", "gone", "await", "join"} : Head(todo).do = x
      BY <1>4, <2>1, <2>4, HeadShort, StepFields DEF WaitSteps
    <3>. QED
      BY <3>1
  <2>. QED
    BY <2>3, <2>4
<1>. QED
  BY <1>1, <1>2, <1>3, <1>4 DEF TodoInv

LEMMA TodoTail ==
  ASSUME TodoInv, todo # << >>, Head(todo).do \in {"enqueue", "insert", "mark"},
         todo' = Tail(todo), UNCHANGED << phase, scans >>
  PROVE  TodoInv'
<1>1. CASE EnqueueStep
  <2>1. CASE Tail(todo) = << >>
    BY <2>1 DEF TodoInv
  <2>2. ASSUME NEW t \in Loaded, phase[t] = "loaded",
               Tail(todo) \in {<< InsertLoadedSubmap(t), Enqueue(Item("submapFromProto", t)),
                                  InsertLoadedNode(t), Enqueue(Item("nodeFromProto", t)),
                                  Enqueue(Item("nodeToSubmap", t)) >>,
                               << InsertLoadedNode(t), Enqueue(Item("nodeFromProto", t)),
                                  Enqueue(Item("nodeToSubmap", t)) >>,
                               << Enqueue(Item("nodeToSubmap", t)) >>}
        PROVE  TodoInv'
    BY <2>2 DEF TodoInv, LoadSteps
  <2>3. CASE Tail(todo) \in {<< Enqueue(Item("iterations", None)), Sample >>, << Sample >>}
    BY <2>3 DEF TodoInv, WaitSteps
  <2>. QED
    BY <1>1, <2>1, <2>2, <2>3 DEF EnqueueStep
<1>2. CASE InsertStep
  <2>1. ASSUME NEW t \in Slam, NEW i \in 0 .. MaxNodes - 1, phase[t] = "open", scans[t] = i + 1,
               Tail(todo) = << Enqueue(NodeItem(t, i)) >>
        PROVE  TodoInv'
    BY <2>1 DEF TodoInv, SlamSteps
  <2>2. ASSUME NEW t \in Loaded, phase[t] = "loaded",
               Tail(todo) \in {<< Enqueue(Item("submapFromProto", t)),
                                  InsertLoadedNode(t), Enqueue(Item("nodeFromProto", t)),
                                  Enqueue(Item("nodeToSubmap", t)) >>,
                               << Enqueue(Item("nodeFromProto", t)), Enqueue(Item("nodeToSubmap", t)) >>}
        PROVE  TodoInv'
    BY <2>2 DEF TodoInv, LoadSteps
  <2>. QED
    BY <1>2, <2>1, <2>2 DEF InsertStep
<1>3. CASE MarkStep
  <2>1. PICK t \in MayDelete : phase[t] = "deleted" /\ Tail(todo) = << Enqueue(Item("delete", t)) >>
    BY <1>3 DEF MarkStep
  <2>2. t \in Trajs
    BY PoseGraphAssumption
  <2>. QED
    BY <2>1, <2>2 DEF TodoInv, DeleteSteps
<1>. QED
  BY <1>1, <1>2, <1>3, TodoForms

LEMMA TailItems ==
  ASSUME EnqueueStep, NEW y \in ItemsOf(RangeOf(Tail(todo)))
  PROVE  Before(Head(todo).item, y)
<1>. DEFINE S == ItemsOf(RangeOf(Tail(todo)))
<1>0. ItemsOf({}) = {}
  BY PartsOf
<1>1. CASE Tail(todo) = << >>
  BY <1>0, <1>1, RangeShort
<1>2. ASSUME NEW t \in Loaded,
             \/ /\ Head(todo).item = Item("freeze", t)
                /\ Tail(todo) = << InsertLoadedSubmap(t), Enqueue(Item("submapFromProto", t)),
                                   InsertLoadedNode(t), Enqueue(Item("nodeFromProto", t)),
                                   Enqueue(Item("nodeToSubmap", t)) >>
             \/ /\ Head(todo).item = Item("submapFromProto", t)
                /\ Tail(todo) = << InsertLoadedNode(t), Enqueue(Item("nodeFromProto", t)),
                                   Enqueue(Item("nodeToSubmap", t)) >>
             \/ /\ Head(todo).item = Item("nodeFromProto", t)
                /\ Tail(todo) = << Enqueue(Item("nodeToSubmap", t)) >>
      PROVE  Before(Head(todo).item, y)
  <2>1. PICK b, c, d, e, f : /\ b = InsertLoadedSubmap(t)
                             /\ c = Enqueue(Item("submapFromProto", t)) /\ d = InsertLoadedNode(t)
                             /\ e = Enqueue(Item("nodeFromProto", t))
                             /\ f = Enqueue(Item("nodeToSubmap", t))
    OBVIOUS
  <2>2. /\ c.do = "enqueue" /\ c.item = Item("submapFromProto", t)
        /\ e.do = "enqueue" /\ e.item = Item("nodeFromProto", t)
        /\ f.do = "enqueue" /\ f.item = Item("nodeToSubmap", t)
        /\ b.do = "insert" /\ d.do = "insert"
    BY <2>1, StepFields
  <2>3. /\ RangeOf(<< b, c, d, e, f >>) = {b, c, d, e, f}
        /\ RangeOf(<< d, e, f >>) = {d, e, f}
        /\ RangeOf(<< f >>) = {f}
    BY RangeShort
  <2>4. /\ \A z \in ItemsOf({b, c, d, e, f}) : z \in {Item("submapFromProto", t), Item("nodeFromProto", t), Item("nodeToSubmap", t)}
        /\ \A z \in ItemsOf({d, e, f}) : z \in {Item("nodeFromProto", t), Item("nodeToSubmap", t)}
        /\ \A z \in ItemsOf({f}) : z = Item("nodeToSubmap", t)
    BY <2>2 DEF ItemsOf
  <2>5. CASE Head(todo).item = Item("freeze", t) /\ Tail(todo) = << b, c, d, e, f >>
    <3>1. y \in ItemsOf({b, c, d, e, f})
      BY <2>3, <2>5
    <3>2. \E op \in {"submapFromProto", "nodeFromProto", "nodeToSubmap"} : y = Item(op, t)
      BY <2>4, <3>1
    <3>3. \A op : Item(op, t).op = op /\ Item(op, t).traj = t
      BY StepFields
    <3>. QED
      BY <2>5, <3>2, <3>3 DEF Before
  <2>6. CASE Head(todo).item = Item("submapFromProto", t) /\ Tail(todo) = << d, e, f >>
    <3>1. y \in ItemsOf({d, e, f})
      BY <2>3, <2>6
    <3>2. \E op \in {"submapFromProto", "nodeFromProto", "nodeToSubmap"} : y = Item(op, t) /\ op # "submapFromProto"
      BY <2>4, <3>1
    <3>3. \A op : Item(op, t).op = op /\ Item(op, t).traj = t
      BY StepFields
    <3>. QED
      BY <2>6, <3>2, <3>3 DEF Before
  <2>7. CASE Head(todo).item = Item("nodeFromProto", t) /\ Tail(todo) = << f >>
    <3>1. y \in ItemsOf({f})
      BY <2>3, <2>7
    <3>2. \E op \in {"submapFromProto", "nodeFromProto", "nodeToSubmap"} : y = Item(op, t) /\ op = "nodeToSubmap"
      BY <2>4, <3>1
    <3>3. \A op : Item(op, t).op = op /\ Item(op, t).traj = t
      BY StepFields
    <3>. QED
      BY <2>7, <3>2, <3>3 DEF Before
  <2>. QED
    BY <1>2, <2>1, <2>5, <2>6, <2>7
<1>3. CASE /\ Head(todo).item = Item("final", None)
           /\ Tail(todo) = << Enqueue(Item("iterations", None)), Sample >>
  BY <1>3, StepFields DEF Before
<1>4. CASE Head(todo).item = Item("iterations", None) /\ Tail(todo) = << Sample >>
  BY <1>4, StepFields DEF Before
<1>. QED
  BY <1>1, <1>2, <1>3, <1>4 DEF EnqueueStep

-----------------------------------------------------------------------------
(* The steps, as what is on its way sees them.                             *)

LEMMA PipeSame ==
  ASSUME PipeInv, UNCHANGED << queue, phase, scans >>, ExecItems' = ExecItems,
         TodoItems' = TodoItems, TodoInv'
  PROVE  PipeInv' /\ Pending' = Pending
<1>1. QueueItems' = QueueItems
  BY DEF QueueItems
<1>2. Pending' = Pending
  BY <1>1 DEF Pending, AllItems
<1>3. OrderInv'
  BY <1>1 DEF PipeInv, OrderInv
<1>4. ItemInv'
  BY <1>2 DEF PipeInv, ItemInv
<1>. QED
  BY <1>2, <1>3, <1>4 DEF PipeInv

LEMMA PipeStill ==
  ASSUME PipeInv, UNCHANGED << queue, todo, phase, scans, numNodes >>, ExecItems' = ExecItems
  PROVE  PipeInv' /\ Pending' = Pending /\ Inserts' = Inserts
<1>1. TodoItems' = TodoItems /\ Inserts' = Inserts
  BY DEF TodoItems, Inserts
<1>2. TodoInv'
  BY DEF PipeInv, TodoInv, SlamSteps, LoadSteps, DeleteSteps, WaitSteps
<1>. QED
  BY <1>1, <1>2, PipeSame

LEMMA TodoParts ==
  ASSUME todo \in Seq(Steps), todo # << >>, todo' = Tail(todo)
  PROVE  /\ Head(todo).do = "enqueue" => /\ TodoItems = {Head(todo).item} \cup TodoItems'
                                         /\ Inserts' = Inserts
         /\ Head(todo).do = "insert" => /\ TodoItems' = TodoItems
                                        /\ Inserts = {Head(todo)} \cup Inserts'
         /\ Head(todo).do \notin {"enqueue", "insert"} => TodoItems' = TodoItems /\ Inserts' = Inserts
<1>1. PICK a, S : a = Head(todo) /\ S = RangeOf(todo')
  OBVIOUS
<1>2. RangeOf(todo) = {a} \cup S
  BY <1>1, RangeTail
<1>3. /\ TodoItems = ItemsOf({a} \cup S) /\ TodoItems' = ItemsOf(S)
      /\ Inserts = InsertsOf({a} \cup S) /\ Inserts' = InsertsOf(S)
  BY <1>1, <1>2 DEF TodoItems, Inserts
<1>. QED
  BY <1>1, <1>3, PartsOf

\* A thread has executed an item.
LEMMA PipeEnds ==
  ASSUME IInv, PipeInv, NEW w \in Workers, job[w].at = "exec",
         NEW j \in Jobs, Goto(w, j), j.at # "exec",
         UNCHANGED << queue, todo, phase, scans, numNodes >>
  PROVE  /\ PipeInv' /\ Inserts' = Inserts /\ Pending' \subseteq Pending
         /\ \A y \in Pending : y \in Pending' \/ y = job[w].item
         /\ job[w].item.op \notin {"data", "trimmer"} => job[w].item \notin Pending'
         /\ \A y \in Pending' : Before(job[w].item, y)
         /\ job[w].item.traj \in Trajs => job[w].item \in Pending
<1>0. TypeInv /\ JobType /\ DrainInv /\ WaitInv /\ TodoInv /\ OrderInv /\ ItemInv
  BY DEF IInv, TypeInv, PipeInv
<1>1. PICK x \in Items : x = job[w].item
  BY <1>0, JobShapes
<1>2. \A v \in Workers : v # w => job[v].at = "idle"
  BY <1>0, Alone
<1>3. ExecItems = {x} /\ ExecItems' = {}
  BY <1>0, <1>1, <1>2, JobMove DEF ExecItemOf
<1>4. QueueItems' = QueueItems /\ TodoItems' = TodoItems /\ Inserts' = Inserts
  BY DEF QueueItems, TodoItems, Inserts
<1>5. AllItems = QueueItems \cup TodoItems \cup {x} /\ AllItems' = QueueItems \cup TodoItems
  BY <1>3, <1>4 DEF AllItems
<1>6. Pending' \subseteq Pending /\ (\A y \in Pending : y \in Pending' \/ y = x)
  BY <1>5 DEF Pending
<1>7. \A y \in Pending' : Before(x, y)
  BY <1>0, <1>3, <1>5 DEF Pending, OrderInv
<1>8. x.traj \in Trajs => x \in Pending
  BY <1>5 DEF Pending
<1>9. x.op \notin {"data", "trimmer"} => x \notin Pending'
  <2>1. SUFFICES ASSUME x.op \notin {"data", "trimmer"}, x \in Pending' PROVE FALSE
    OBVIOUS
  <2>2. Before(x, x) /\ x.traj \in Trajs
    BY <1>7, <2>1 DEF Pending
  <2>3. x.traj # None
    BY <2>2, PoseGraphAssumption
  <2>4. x.op = "node" => x.index \in 0 .. MaxNodes - 1
    BY ItemShapes
  <2>5. x.op \in {"finish", "delete", "freeze", "submapFromProto", "nodeFromProto", "nodeToSubmap", "node"}
    BY <2>1, <2>3 DEF Items
  <2>. QED
    BY <2>2, <2>4, <2>5, PoseGraphAssumption DEF Before
<1>10. OrderInv'
  BY <1>0, <1>3, <1>4 DEF OrderInv
<1>11. TodoInv'
  BY <1>0 DEF TodoInv, SlamSteps, LoadSteps, DeleteSteps, WaitSteps
<1>12. ItemInv'
  <2>1. ASSUME NEW t \in Slam, NEW i \in 0 .. scans[t] - 1, NEW k \in 0 .. scans[t] - 1,
               i < k, NodeItem(t, i) \in Pending'
        PROVE  NodeItem(t, k) \in Pending'
    <3>1. NodeItem(t, k) \in Pending
      BY <1>0, <1>6, <2>1 DEF ItemInv
    <3>2. NodeItem(t, k) # x
      <4>1. NodeItem(t, k) = x => Before(NodeItem(t, k), NodeItem(t, i))
        BY <1>7, <2>1
      <4>2. scans[t] \in 0 .. MaxNodes /\ i \in Int /\ k \in Int
        BY <1>0 DEF TypeInv, ClientType, Slam
      <4>. QED
        BY <2>1, <4>1, <4>2, StepFields DEF Before
    <3>. QED
      BY <1>6, <3>1, <3>2
  <2>2. ASSUME NEW t \in Loaded, Item("nodeFromProto", t) \in Pending'
        PROVE  Item("nodeToSubmap", t) \in Pending'
    <3>1. Item("nodeToSubmap", t) \in Pending
      BY <1>0, <1>6, <2>2 DEF ItemInv
    <3>2. Item("nodeToSubmap", t) # x
      BY <1>7, <2>2, StepFields DEF Before
    <3>. QED
      BY <1>6, <3>1, <3>2
  <2>. QED
    BY <1>0, <1>6, <2>1, <2>2 DEF ItemInv
<1>. QED
  BY <1>1, <1>4, <1>6, <1>7, <1>8, <1>9, <1>10, <1>11, <1>12 DEF PipeInv

\* A thread takes an item from the queue.
LEMMA PipePops ==
  ASSUME IInv, PipeInv, NEW w \in Workers, PopWorkItem(w)
  PROVE  PipeInv' /\ Pending' = Pending /\ Inserts' = Inserts
<1>0. TypeInv /\ JobType /\ DrainInv /\ WaitInv /\ OrderInv /\ queue \in Seq(Items)
  BY DEF IInv, TypeInv, PipeInv, QueueType
<1>1. \A v \in Workers : v # w => job[v].at = "idle"
  BY <1>0, Alone DEF PopWorkItem
<1>2. UNCHANGED << todo, phase, scans, numNodes >>
  BY DEF PopWorkItem, clientVars, miscVars
<1>3. CASE queue = << >>
  <2>1. ExecItems' = ExecItems
    BY <1>0, <1>1, <1>3, JobMove, JobsMade DEF PopWorkItem, ExecItemOf, Idle
  <2>. QED
    BY <1>2, <1>3, <2>1, PipeStill DEF PopWorkItem
<1>4. CASE queue # << >>
  <2>1. PICK x \in Items : x = Head(queue)
    BY <1>0, <1>4, HeadTailSteps
  <2>2. ExecItems = {} /\ ExecItems' = {x}
    BY <1>0, <1>1, <1>4, <2>1, JobMove, JobsMade DEF PopWorkItem, ExecItemOf
  <2>3. queue' = Tail(queue) /\ QueueItems = {x} \cup QueueItems'
    BY <1>0, <1>4, <2>1, RangeTail DEF PopWorkItem, QueueItems
  <2>4. TodoItems' = TodoItems /\ Inserts' = Inserts
    BY <1>2 DEF TodoItems, Inserts
  <2>5. AllItems' = AllItems
    BY <2>2, <2>3, <2>4 DEF AllItems
  <2>6. Pending' = Pending
    BY <2>5 DEF Pending
  <2>7. /\ Len(queue) \in Nat /\ Len(queue) >= 1 /\ DOMAIN queue = 1 .. Len(queue) /\ x = queue[1]
        /\ DOMAIN queue' = 1 .. Len(queue) - 1
        /\ \A i \in 1 .. Len(queue) - 1 : queue'[i] = queue[i + 1]
    BY <1>0, <1>4, <2>1, <2>3, HeadTailProperties, EmptySeq, LenProperties
  <2>8. \A i, k \in DOMAIN queue' : i < k => Before(queue'[i], queue'[k])
    BY <1>0, <2>7 DEF OrderInv
  <2>9. \A y \in QueueItems' : Before(x, y)
    BY <1>0, <2>7 DEF OrderInv, QueueItems, RangeOf
  <2>10. \A y \in TodoItems : Before(x, y)
    BY <1>0, <2>3 DEF OrderInv
  <2>11. OrderInv'
    BY <1>0, <2>2, <2>3, <2>4, <2>8, <2>9, <2>10 DEF OrderInv
  <2>12. TodoInv'
    BY <1>2 DEF PipeInv, TodoInv, SlamSteps, LoadSteps, DeleteSteps, WaitSteps
  <2>13. ItemInv'
    BY <1>2, <2>6 DEF PipeInv, ItemInv
  <2>. QED
    BY <2>4, <2>6, <2>11, <2>12, <2>13 DEF PipeInv
<1>. QED
  BY <1>3, <1>4

\* The client gives an item to the queue.
LEMMA PipeAdds ==
  ASSUME IInv, PipeInv, AddWorkItem
  PROVE  PipeInv' /\ Pending' = Pending /\ Inserts' = Inserts
<1>0. TypeInv /\ OrderInv /\ TodoInv /\ queue \in Seq(Items) /\ todo \in Seq(Steps)
  BY DEF IInv, TypeInv, PipeInv, QueueType, ClientType
<1>1. /\ todo # << >> /\ Head(todo).do = "enqueue" /\ todo' = Tail(todo)
      /\ queue' = Append(queue, Head(todo).item)
      /\ UNCHANGED << phase, scans, numNodes, job >>
  BY DEF AddWorkItem, StepDone, miscVars
<1>2. PICK x : x = Head(todo).item
  OBVIOUS
<1>3. EnqueueStep
  BY <1>0, <1>1, TodoForms
<1>5. TodoItems = {x} \cup TodoItems' /\ Inserts' = Inserts
  BY <1>0, <1>1, <1>2, TodoParts
<1>6. QueueItems' = QueueItems \cup {x}
  BY <1>0, <1>1, <1>2, RangeAppend DEF QueueItems
<1>7. ExecItems' = ExecItems
  BY <1>1 DEF ExecItems
<1>8. Pending' = Pending
  BY <1>5, <1>6, <1>7 DEF Pending, AllItems
<1>9. \A y \in TodoItems' : Before(x, y)
  BY <1>1, <1>2, <1>3, TailItems DEF TodoItems
<1>10. /\ Len(queue) \in Nat /\ DOMAIN queue = 1 .. Len(queue)
       /\ DOMAIN queue' = 1 .. Len(queue) + 1
       /\ \A i \in 1 .. Len(queue) : queue'[i] = queue[i]
       /\ queue'[Len(queue) + 1] = x
  BY <1>0, <1>1, <1>2, LenProperties
<1>11. ASSUME NEW i \in DOMAIN queue', NEW k \in DOMAIN queue', i < k
       PROVE  Before(queue'[i], queue'[k])
  <2>1. i \in DOMAIN queue /\ queue'[i] = queue[i]
    BY <1>10, <1>11
  <2>2. (k \in DOMAIN queue /\ queue'[k] = queue[k]) \/ queue'[k] = x
    BY <1>10, <1>11
  <2>3. queue[i] \in QueueItems
    BY <2>1 DEF QueueItems, RangeOf
  <2>. QED
    BY <1>0, <1>5, <1>11, <2>1, <2>2, <2>3 DEF OrderInv
<1>12. OrderInv'
  BY <1>0, <1>5, <1>6, <1>7, <1>9, <1>11 DEF OrderInv
<1>13. TodoInv'
  BY <1>0, <1>1, TodoTail
<1>14. ItemInv'
  BY <1>1, <1>8 DEF PipeInv, ItemInv
<1>. QED
  BY <1>5, <1>8, <1>12, <1>13, <1>14 DEF PipeInv

\* What the steps of the client do to the graph, when no CHECK fails.
Inserted(t, N, S, c) ==
  /\ CanAddWorkItemModifying(t)
  /\ tstate' = [tstate EXCEPT ![t] = StateAfterAdd(t)]
  /\ nodes' = nodes \cup N /\ submaps' = submaps \cup S /\ numNodes' = numNodes + c
  /\ UNCHANGED << phase, scans, notified, deletion, finished, nodeIds, optVars, queueVars,
                  trimmers, tried, job, failed, cbVars >>

InsertsScan ==
  \E t \in Slam, i \in 0 .. MaxNodes - 1 :
    /\ phase[t] = "open" /\ scans[t] = i + 1 /\ NodeItem(t, i) \in Pending
    /\ NodesToInsert = {<<t, i>>} /\ SubmapsToInsert = {<<t, BackOf(i)>>}
    /\ NodesToInsert' = {} /\ SubmapsToInsert' = {}
    /\ Inserts = {InsertNode(t, i)} /\ Inserts' = {}
    /\ Inserted(t, {<<t, i>>}, {<<t, BackOf(i)>>}, 1)

InsertsLoadedSubmap ==
  \E t \in Loaded :
    /\ phase[t] = "loaded"
    /\ \A op \in {"submapFromProto", "nodeFromProto", "nodeToSubmap"} : Item(op, t) \in Pending
    /\ NodesToInsert = {<<t, 0>>} /\ SubmapsToInsert = {<<t, 0>>}
    /\ NodesToInsert' = {<<t, 0>>} /\ SubmapsToInsert' = {}
    /\ \A s \in Inserts \cup Inserts' : s.count = 0
    /\ Inserted(t, {}, {<<t, 0>>}, 0)

InsertsLoadedNode ==
  \E t \in Loaded :
    /\ phase[t] = "loaded"
    /\ \A op \in {"nodeFromProto", "nodeToSubmap"} : Item(op, t) \in Pending
    /\ NodesToInsert = {<<t, 0>>} /\ SubmapsToInsert = {}
    /\ NodesToInsert' = {} /\ SubmapsToInsert' = {}
    /\ \A s \in Inserts \cup Inserts' : s.count = 0
    /\ Inserted(t, {<<t, 0>>}, {}, 0)

LEMMA PipeInserts ==
  ASSUME IInv, PipeInv, Insert, ~Abort("AddTrajectoryIfNeeded")
  PROVE  /\ PipeInv' /\ Pending' = Pending
         /\ InsertsScan \/ InsertsLoadedSubmap \/ InsertsLoadedNode
<1>0. TypeInv /\ TodoInv /\ todo \in Seq(Steps)
  BY DEF IInv, TypeInv, PipeInv, ClientType
<1>1. PICK a, r : a = Head(todo) /\ r = Tail(todo)
  OBVIOUS
<1>2. /\ todo # << >> /\ a.do = "insert" /\ todo' = r
      /\ Inserted(a.traj, a.nodes, a.submaps, a.count)
      /\ UNCHANGED << queue, phase, scans, job >>
  BY <1>1 DEF Insert, StepDone, Inserted, queueVars
<1>3. InsertStep
  BY <1>0, <1>1, <1>2, TodoForms
<1>4. TodoItems' = TodoItems /\ Inserts = {a} \cup Inserts'
  BY <1>0, <1>1, <1>2, TodoParts
<1>5. TodoInv'
  BY <1>0, <1>1, <1>2, TodoTail
<1>6. ExecItems' = ExecItems
  BY <1>2 DEF ExecItems
<1>7. PipeInv' /\ Pending' = Pending
  BY <1>2, <1>4, <1>5, <1>6, PipeSame
<1>8. /\ NodesToInsert = a.nodes \cup NodesToInsert' /\ SubmapsToInsert = a.submaps \cup SubmapsToInsert'
  BY <1>4 DEF NodesToInsert, SubmapsToInsert
<1>9. ASSUME NEW x, x \in TodoItems, x.traj \in Trajs PROVE x \in Pending
  BY <1>9 DEF Pending, AllItems
<1>10. ASSUME NEW t \in Slam, NEW i \in 0 .. MaxNodes - 1,
              phase[t] = "open", scans[t] = i + 1,
              a = InsertNode(t, i), r = << Enqueue(NodeItem(t, i)) >>
       PROVE  InsertsScan
  <2>1. PICK x : x = Enqueue(NodeItem(t, i))
    OBVIOUS
  <2>2. x.do = "enqueue" /\ x.item = NodeItem(t, i)
    BY <2>1, StepFields
  <2>3. RangeOf(r) = {x}
    BY <1>10, <2>1, RangeShort
  <2>4. TodoItems' = {NodeItem(t, i)} /\ Inserts' = {}
    BY <1>2, <2>2, <2>3 DEF TodoItems, Inserts, ItemsOf, InsertsOf
  <2>5. NodesToInsert' = {} /\ SubmapsToInsert' = {}
    BY <2>4 DEF NodesToInsert, SubmapsToInsert
  <2>6. a.traj = t /\ a.nodes = {<<t, i>>} /\ a.submaps = {<<t, BackOf(i)>>} /\ a.count = 1
    BY <1>10, StepFields
  <2>7. NodeItem(t, i) \in Pending
    BY <1>4, <1>9, <2>4, StepFields DEF Slam
  <2>. QED
    BY <1>2, <1>4, <1>8, <1>10, <2>4, <2>5, <2>6, <2>7 DEF InsertsScan
<1>11. ASSUME NEW t \in Loaded, phase[t] = "loaded", a = InsertLoadedSubmap(t),
              r = << Enqueue(Item("submapFromProto", t)), InsertLoadedNode(t),
                     Enqueue(Item("nodeFromProto", t)), Enqueue(Item("nodeToSubmap", t)) >>
       PROVE  InsertsLoadedSubmap
  <2>1. PICK c, d, e, f : /\ c = Enqueue(Item("submapFromProto", t)) /\ d = InsertLoadedNode(t)
                          /\ e = Enqueue(Item("nodeFromProto", t))
                          /\ f = Enqueue(Item("nodeToSubmap", t))
    OBVIOUS
  <2>2. /\ c.do = "enqueue" /\ c.item = Item("submapFromProto", t)
        /\ e.do = "enqueue" /\ e.item = Item("nodeFromProto", t)
        /\ f.do = "enqueue" /\ f.item = Item("nodeToSubmap", t)
        /\ d.do = "insert" /\ d.nodes = {<<t, 0>>} /\ d.submaps = {} /\ d.count = 0
    BY <2>1, StepFields
  <2>3. RangeOf(r) = {c, d, e, f}
    <3>1. r = << c, d, e, f >>
      BY <1>11, <2>1
    <3>. QED
      BY <3>1, RangeShort
  <2>4. TodoItems' = {c.item, e.item, f.item} /\ Inserts' = {d}
    BY <1>2, <2>2, <2>3 DEF TodoItems, Inserts, ItemsOf, InsertsOf
  <2>5. NodesToInsert' = {<<t, 0>>} /\ SubmapsToInsert' = {}
    BY <2>2, <2>4 DEF NodesToInsert, SubmapsToInsert
  <2>6. a.traj = t /\ a.nodes = {} /\ a.submaps = {<<t, 0>>} /\ a.count = 0
    BY <1>11, StepFields
  <2>7. ASSUME NEW op \in {"submapFromProto", "nodeFromProto", "nodeToSubmap"}
        PROVE  Item(op, t) \in Pending
    <3>1. Item(op, t) \in TodoItems
      BY <1>4, <2>2, <2>4
    <3>2. Item(op, t).traj \in Trajs
      BY StepFields, PoseGraphAssumption
    <3>. QED
      BY <1>9, <3>1, <3>2
  <2>. QED
    BY <1>2, <1>4, <1>8, <1>11, <2>2, <2>4, <2>5, <2>6, <2>7 DEF InsertsLoadedSubmap
<1>12. ASSUME NEW t \in Loaded, phase[t] = "loaded", a = InsertLoadedNode(t),
              r = << Enqueue(Item("nodeFromProto", t)), Enqueue(Item("nodeToSubmap", t)) >>
       PROVE  InsertsLoadedNode
  <2>1. PICK e, f : e = Enqueue(Item("nodeFromProto", t)) /\ f = Enqueue(Item("nodeToSubmap", t))
    OBVIOUS
  <2>2. /\ e.do = "enqueue" /\ e.item = Item("nodeFromProto", t)
        /\ f.do = "enqueue" /\ f.item = Item("nodeToSubmap", t)
    BY <2>1, StepFields
  <2>3. RangeOf(r) = {e, f}
    <3>1. r = << e, f >>
      BY <1>12, <2>1
    <3>. QED
      BY <3>1, RangeShort
  <2>4. TodoItems' = {e.item, f.item} /\ Inserts' = {}
    BY <1>2, <2>2, <2>3 DEF TodoItems, Inserts, ItemsOf, InsertsOf
  <2>5. NodesToInsert' = {} /\ SubmapsToInsert' = {}
    BY <2>4 DEF NodesToInsert, SubmapsToInsert
  <2>6. a.traj = t /\ a.nodes = {<<t, 0>>} /\ a.submaps = {} /\ a.count = 0
    BY <1>12, StepFields
  <2>7. ASSUME NEW op \in {"nodeFromProto", "nodeToSubmap"}
        PROVE  Item(op, t) \in Pending
    <3>1. Item(op, t) \in TodoItems
      BY <1>4, <2>2, <2>4
    <3>2. Item(op, t).traj \in Trajs
      BY StepFields, PoseGraphAssumption
    <3>. QED
      BY <1>9, <3>1, <3>2
  <2>. QED
    BY <1>2, <1>4, <1>8, <1>12, <2>2, <2>4, <2>5, <2>6, <2>7 DEF InsertsLoadedNode
<1>. QED
  BY <1>1, <1>3, <1>7, <1>10, <1>11, <1>12 DEF InsertStep

\* The client marks a trajectory, or finds that there is none.
LEMMA PipeMarks ==
  ASSUME IInv, PipeInv, MarkForDeletion
  PROVE  /\ PipeInv' /\ Inserts' = Inserts /\ Inserts = {} /\ Pending' \subseteq Pending
         /\ \A y \in Pending : y \in Pending' \/ y.op = "delete"
         /\ \E t \in MayDelete :
              /\ phase[t] = "deleted" /\ Item("delete", t) \in Pending
              /\ [do |-> "mark", traj |-> t] \in RangeOf(todo)
              /\ \/ /\ tstate[t] = "unknown" /\ UNCHANGED deletion
                    /\ \A y \in Pending : y \in Pending' \/ y = Item("delete", t)
                    /\ RangeOf(todo') = {} /\ Item("delete", t) \notin Pending'
                 \/ /\ tstate[t] # "unknown" /\ Pending' = Pending
                    /\ deletion' = [deletion EXCEPT ![t] = "SCHEDULED_FOR_DELETION"]
                    /\ RangeOf(todo) = {[do |-> "mark", traj |-> t]} \cup RangeOf(todo')
<1>0. TypeInv /\ TodoInv /\ OrderInv /\ ItemInv /\ todo \in Seq(Steps)
  BY DEF IInv, TypeInv, PipeInv, ClientType
<1>1. PICK a, r : a = Head(todo) /\ r = Tail(todo)
  OBVIOUS
<1>2. todo # << >> /\ a.do = "mark" /\ UNCHANGED << queue, phase, scans, job, numNodes >>
  BY <1>1 DEF MarkForDeletion, queueVars, miscVars
<1>3. PICK t \in MayDelete : /\ phase[t] = "deleted" /\ a = [do |-> "mark", traj |-> t] /\ a.traj = t
                             /\ r = << Enqueue(Item("delete", t)) >>
  BY <1>0, <1>1, <1>2, TodoForms DEF MarkStep
<1>4. QueueItems' = QueueItems /\ ExecItems' = ExecItems
  BY <1>2 DEF QueueItems, ExecItems
<1>5. RangeOf(todo) = {a} \cup RangeOf(r)
  BY <1>0, <1>1, <1>2, RangeTail
<1>6. RangeOf(r) = {Enqueue(Item("delete", t))}
  BY <1>3, RangeShort
<1>7. TodoItems = {Item("delete", t)} /\ Inserts = {}
  BY <1>2, <1>5, <1>6, StepFields DEF TodoItems, Inserts, ItemsOf, InsertsOf
<1>8. Item("delete", t) \in Pending
  BY <1>7, StepFields, PoseGraphAssumption DEF Pending, AllItems
<1>9. CASE tstate[t] = "unknown"
  <2>1. todo' = << >> /\ UNCHANGED deletion
    BY <1>1, <1>3, <1>9 DEF MarkForDeletion
  <2>2. TodoItems' = {} /\ Inserts' = {} /\ RangeOf(todo') = {}
    BY <2>1, RangeShort, PartsOf DEF TodoItems, Inserts
  <2>3. Pending' \subseteq Pending /\ \A y \in Pending : y \in Pending' \/ y = Item("delete", t)
    BY <1>4, <1>7, <2>2 DEF Pending, AllItems
  <2>4. OrderInv'
    BY <1>0, <1>2, <1>4, <1>7, <2>2 DEF OrderInv
  <2>5. TodoInv'
    BY <2>1 DEF TodoInv
  <2>6. \A s \in Trajs, i \in Nat : NodeItem(s, i) # Item("delete", t)
    BY StepFields
  <2>7. ASSUME NEW s \in Slam, NEW i \in 0 .. scans[s] - 1, NEW k \in 0 .. scans[s] - 1,
               i < k, NodeItem(s, i) \in Pending'
        PROVE  NodeItem(s, k) \in Pending'
    <3>1. NodeItem(s, k) \in Pending
      BY <1>0, <2>3, <2>7 DEF ItemInv
    <3>2. NodeItem(s, k) # Item("delete", t)
      BY StepFields
    <3>. QED
      BY <2>3, <3>1, <3>2
  <2>8. ItemInv'
    <3>1. ASSUME NEW s \in Loaded, Item("nodeFromProto", s) \in Pending'
          PROVE  Item("nodeToSubmap", s) \in Pending'
      <4>1. Item("nodeToSubmap", s) \in Pending
        BY <1>0, <2>3, <3>1 DEF ItemInv
      <4>. QED
        BY <2>3, <4>1, StepFields
    <3>. QED
      BY <1>0, <1>2, <2>3, <2>7, <3>1 DEF ItemInv
  <2>9. \A y \in Pending : y \in Pending' \/ y.op = "delete"
    BY <2>3, StepFields
  <2>10. Item("delete", t) \notin Pending'
    <3>1. Item("delete", t) \notin QueueItems \cup ExecItems
      <4>1. ~Before(Item("delete", t), Item("delete", t))
        BY StepFields DEF Before
      <4>. QED
        BY <1>0, <1>7, <4>1 DEF OrderInv
    <3>. QED
      BY <1>4, <2>2, <3>1 DEF Pending, AllItems
  <2>. QED
    BY <1>3, <1>5, <1>7, <1>8, <1>9, <2>1, <2>2, <2>3, <2>4, <2>5, <2>8, <2>9, <2>10 DEF PipeInv
<1>10. CASE tstate[t] # "unknown"
  <2>1. todo' = r /\ deletion' = [deletion EXCEPT ![t] = "SCHEDULED_FOR_DELETION"]
    BY <1>1, <1>3, <1>10 DEF MarkForDeletion
  <2>2. TodoItems' = TodoItems /\ Inserts' = Inserts
    BY <1>0, <1>1, <1>2, <2>1, TodoParts
  <2>3. TodoInv'
    BY <1>0, <1>1, <1>2, <2>1, TodoTail
  <2>4. PipeInv' /\ Pending' = Pending
    BY <1>2, <1>4, <2>2, <2>3, PipeSame
  <2>. QED
    BY <1>3, <1>5, <1>7, <1>8, <1>10, <2>1, <2>2, <2>4
<1>. QED
  BY <1>9, <1>10

\* The steps of WaitForAllComputations and of the destructor.
LEMMA WaitForms ==
  ASSUME TodoInv, todo # << >>
  PROVE  /\ Head(todo).do = "sample" =>
              todo = << Sample >> \/ todo = << Sample, Destroying >>
         /\ \A d \in {"await", "join"} : Head(todo).do = d =>
              \/ todo = << [do |-> d, expected |-> numNodes] >>
              \/ todo = << [do |-> d, expected |-> numNodes], Destroying >>
<1> SUFFICES ASSUME Head(todo).do \in {"sample", "await", "join"}
             PROVE  /\ Head(todo).do = "sample" =>
                         todo = << Sample >> \/ todo = << Sample, Destroying >>
                    /\ \A d \in {"await", "join"} : Head(todo).do = d =>
                         \/ todo = << [do |-> d, expected |-> numNodes] >>
                         \/ todo = << [do |-> d, expected |-> numNodes], Destroying >>
  OBVIOUS
<1>1. WaitSteps
  BY TodoForms
<1>2. ASSUME NEW x, todo = << Enqueue(x), Enqueue(Item("iterations", None)), Sample >>
      PROVE  Head(todo).do = "enqueue"
  BY <1>2, HeadShort, StepFields
<1>3. ASSUME todo = << Enqueue(Item("iterations", None)), Sample >>
      PROVE  Head(todo).do = "enqueue"
  BY <1>3, HeadShort, StepFields
<1>4. ASSUME todo = << Sample >> \/ todo = << Sample, Destroying >> PROVE Head(todo).do = "sample"
  <2>1. CASE todo = << Sample >>
    BY <2>1, HeadShort, StepFields
  <2>2. CASE todo = << Sample, Destroying >>
    BY <2>2, HeadShort, StepFields
  <2>. QED
    BY <1>4, <2>1, <2>2
<1>5. ASSUME todo = << Destroying >> PROVE Head(todo).do = "destroy"
  BY <1>5, HeadShort, StepFields
<1>6. ASSUME todo = << [do |-> "gone"] >> PROVE Head(todo).do = "gone"
  BY <1>6, HeadShort
<1>7. ASSUME NEW a \in {"await", "join"},
             todo \in {<< [do |-> a, expected |-> numNodes] >>,
                       << [do |-> a, expected |-> numNodes], Destroying >>}
      PROVE  Head(todo).do = a
  <2>1. PICK b : b = [do |-> a, expected |-> numNodes]
    OBVIOUS
  <2>2. b.do = a
    BY <2>1
  <2>3. CASE todo = << b >>
    BY <2>2, <2>3, HeadShort
  <2>4. CASE todo = << b, Destroying >>
    BY <2>2, <2>4, HeadShort
  <2>. QED
    BY <1>7, <2>1, <2>3, <2>4
<1>8. CASE todo \in {<< Enqueue(Item("final", None)), Enqueue(Item("iterations", None)), Sample >>,
                     << Enqueue(Item("iterations", None)), Sample >>, << Destroying >>,
                     << [do |-> "gone"] >>}
  BY <1>2, <1>3, <1>5, <1>6, <1>8
<1>9. CASE todo = << Sample >> \/ todo = << Sample, Destroying >>
  BY <1>4, <1>9
<1>10. ASSUME NEW a \in {"await", "join"},
              todo \in {<< [do |-> a, expected |-> numNodes] >>,
                        << [do |-> a, expected |-> numNodes], Destroying >>}
       PROVE  /\ Head(todo).do # "sample"
              /\ \A d \in {"await", "join"} : Head(todo).do = d =>
                   \/ todo = << [do |-> d, expected |-> numNodes] >>
                   \/ todo = << [do |-> d, expected |-> numNodes], Destroying >>
  <2>1. Head(todo).do = a
    BY <1>7, <1>10
  <2>. QED
    BY <1>10, <2>1
<1>. QED
  BY <1>1, <1>8, <1>9, <1>10 DEF WaitSteps

\* No step of these calls is an item or an insertion.
LEMMA WaitParts ==
  ASSUME NEW s, NEW d \in {"await", "join"}, NEW n,
         \/ s = << Sample >> \/ s = << Sample, Destroying >>
         \/ s = << [do |-> d, expected |-> n] >>
         \/ s = << [do |-> d, expected |-> n], Destroying >>
         \/ s = << Destroying >> \/ s = << [do |-> "gone"] >> \/ s = << >>
  PROVE  ItemsOf(RangeOf(s)) = {} /\ InsertsOf(RangeOf(s)) = {}
<1>1. PICK b, g : b = [do |-> d, expected |-> n] /\ g = [do |-> "gone"]
  OBVIOUS
<1>2. \A x \in {Sample, Destroying, b, g} : x.do \notin {"enqueue", "insert"}
  BY <1>1, StepFields
<1>3. RangeOf(s) \subseteq {Sample, Destroying, b, g}
  <2>1. CASE s = << Sample >> \/ s = << Destroying >> \/ s = << b >> \/ s = << g >>
    BY <2>1, RangeShort
  <2>2. CASE s = << Sample, Destroying >>
    BY <2>2, RangeShort
  <2>3. CASE s = << b, Destroying >>
    BY <2>3, RangeShort
  <2>4. CASE s = << >>
    BY <2>4, RangeShort
  <2>. QED
    BY <1>1, <2>1, <2>2, <2>3, <2>4
<1>. QED
  BY <1>2, <1>3 DEF ItemsOf, InsertsOf

LEMMA PipeWaits ==
  ASSUME IInv, PipeInv,
         \/ SampleNumNodes
         \/ AwaitQueue
         \/ AwaitNotification /\ ~Abort("WaitForAllComputations")
         \/ Destruct /\ ~Abort("~PoseGraph2D")
  PROVE  /\ PipeInv' /\ Pending' = Pending /\ Inserts' = Inserts
         /\ Inserts = {} /\ TodoItems = {}
         /\ UNCHANGED << queue, phase, scans, numNodes, job >>
<1>0. TodoInv
  BY DEF PipeInv
<1>1. UNCHANGED << queue, phase, scans, numNodes, job >>
  BY DEF SampleNumNodes, AwaitQueue, AwaitNotification, Destruct, NoEffect, StepDone, queueVars,
         miscVars
<1>2. ExecItems' = ExecItems
  BY <1>1 DEF ExecItems
<1> SUFFICES /\ TodoInv' /\ TodoItems' = {} /\ TodoItems = {}
             /\ Inserts' = {} /\ Inserts = {}
  BY <1>1, <1>2, PipeSame
<1>3. PICK A, J, a, j : /\ A = << a >> /\ J = << j >> /\ a = [do |-> "await", expected |-> numNodes]
                        /\ j = [do |-> "join", expected |-> numNodes]
  OBVIOUS
<1>4. \A s : \/ s = << Sample >> \/ s = << Sample, Destroying >>
             \/ s = << a >> \/ s = << a, Destroying >> \/ s = << j >> \/ s = << j, Destroying >>
             \/ s = << Destroying >> \/ s = << [do |-> "gone"] >> \/ s = << >>
        => ItemsOf(RangeOf(s)) = {} /\ InsertsOf(RangeOf(s)) = {}
  <2>1. \A s, d : /\ d \in {"await", "join"}
                  /\ \/ s = << Sample >> \/ s = << Sample, Destroying >>
                     \/ s = << [do |-> d, expected |-> numNodes] >>
                     \/ s = << [do |-> d, expected |-> numNodes], Destroying >>
                     \/ s = << Destroying >> \/ s = << [do |-> "gone"] >> \/ s = << >>
        => ItemsOf(RangeOf(s)) = {} /\ InsertsOf(RangeOf(s)) = {}
    BY WaitParts
  <2>. QED
    BY <1>3, <2>1
<1>5. CASE SampleNumNodes
  <2>1. todo # << >> /\ Head(todo).do = "sample" /\ todo' = << a >> \o Tail(todo)
    BY <1>3, <1>5 DEF SampleNumNodes
  <2>2. \/ todo = << Sample >> /\ todo' = << a >>
        \/ todo = << Sample, Destroying >> /\ todo' = << a, Destroying >>
    <3>1. CASE todo = << Sample >>
      BY <2>1, <3>1, TailShort, ConcatShort
    <3>2. CASE todo = << Sample, Destroying >>
      BY <2>1, <3>2, TailShort, ConcatShort
    <3>. QED
      BY <1>0, <2>1, <3>1, <3>2, WaitForms
  <2>3. TodoInv'
    <3>1. todo' \in {<< [do |-> "await", expected |-> numNodes'] >>,
                     << [do |-> "await", expected |-> numNodes'], Destroying >>}
      BY <1>1, <1>3, <2>2
    <3>. QED
      BY <3>1 DEF TodoInv, WaitSteps
  <2>. QED
    BY <1>4, <2>2, <2>3 DEF TodoItems, Inserts
<1>6. CASE AwaitQueue
  <2>1. todo # << >> /\ Head(todo).do = "await" /\ todo' = << [Head(todo) EXCEPT !.do = "join"] >> \o Tail(todo)
    BY <1>6 DEF AwaitQueue
  <2>2. [a EXCEPT !.do = "join"] = j
    BY <1>3
  <2>3. \/ todo = << a >> /\ todo' = << j >>
        \/ todo = << a, Destroying >> /\ todo' = << j, Destroying >>
    <3>1. CASE todo = << a >>
      BY <2>1, <2>2, <3>1, HeadShort, TailShort, ConcatShort
    <3>2. CASE todo = << a, Destroying >>
      BY <2>1, <2>2, <3>2, HeadShort, TailShort, ConcatShort
    <3>. QED
      BY <1>0, <1>3, <2>1, <3>1, <3>2, WaitForms
  <2>4. TodoInv'
    <3>1. todo' \in {<< [do |-> "join", expected |-> numNodes'] >>,
                     << [do |-> "join", expected |-> numNodes'], Destroying >>}
      BY <1>1, <1>3, <2>3
    <3>. QED
      BY <3>1 DEF TodoInv, WaitSteps
  <2>. QED
    BY <1>4, <2>3, <2>4 DEF TodoItems, Inserts
<1>7. CASE AwaitNotification /\ ~Abort("WaitForAllComputations")
  <2>1. todo # << >> /\ Head(todo).do = "join" /\ todo' = Tail(todo)
    BY <1>7 DEF AwaitNotification, StepDone
  <2>2. \/ todo = << j >> /\ todo' = << >>
        \/ todo = << j, Destroying >> /\ todo' = << Destroying >>
    <3>1. CASE todo = << j >>
      BY <2>1, <3>1, TailShort
    <3>2. CASE todo = << j, Destroying >>
      BY <2>1, <3>2, TailShort
    <3>. QED
      BY <1>0, <1>3, <2>1, <3>1, <3>2, WaitForms
  <2>3. TodoInv'
    BY <2>2 DEF TodoInv, WaitSteps
  <2>. QED
    BY <1>4, <2>2, <2>3 DEF TodoItems, Inserts
<1>8. CASE Destruct /\ ~Abort("~PoseGraph2D")
  <2>1. todo = << Destroying >> /\ todo' = << [do |-> "gone"] >>
    BY <1>8 DEF Destruct, Destroying
  <2>2. TodoInv'
    BY <2>1 DEF TodoInv, WaitSteps
  <2>. QED
    BY <1>4, <2>1, <2>2 DEF TodoItems, Inserts
<1>. QED
  BY <1>5, <1>6, <1>7, <1>8

\* What the calls of the client bring.
Brings(S) == Pending' = Pending \cup S /\ Inserts' = {}

Builds(t) ==
  /\ t \in Slam /\ phase[t] = "new" /\ phase' = [phase EXCEPT ![t] = "open"] /\ UNCHANGED scans
  /\ \/ t \in Localizing /\ Brings({Item("trimmer", t)})
     \/ Brings({})
Sends(t) ==
  t \in Slam /\ phase[t] = "open" /\ UNCHANGED << phase, scans >> /\ Brings({Item("data", t)})
Finishes(t) ==
  /\ t \in Slam /\ phase[t] = "open" /\ phase' = [phase EXCEPT ![t] = "finished"] /\ UNCHANGED scans
  /\ Brings({Item("finish", t)})
Deletes(t) ==
  /\ t \in MayDelete /\ phase[t] \in {"finished", "loaded"} /\ (Patient => Processed(t))
  /\ phase' = [phase EXCEPT ![t] = "deleted"] /\ UNCHANGED scans
  /\ Brings({Item("delete", t)})
  /\ [do |-> "mark", traj |-> t] \in RangeOf(todo')
Adds(t) ==
  /\ t \in Slam /\ phase[t] = "open" /\ scans[t] < MaxNodes
  /\ scans' = [scans EXCEPT ![t] = @ + 1] /\ UNCHANGED phase
  /\ Pending' = Pending \cup {NodeItem(t, scans[t])} /\ NodeItem(t, scans[t]) \notin Pending
  /\ Inserts' = {InsertNode(t, scans[t])}
  /\ NodesToInsert' = {<<t, scans[t]>>} /\ SubmapsToInsert' = {<<t, BackOf(scans[t])>>}
Loads(t) ==
  /\ t \in Loaded /\ phase[t] = "new" /\ phase' = [phase EXCEPT ![t] = "loaded"] /\ UNCHANGED scans
  /\ Pending' = Pending \cup {Item("freeze", t), Item("submapFromProto", t),
                              Item("nodeFromProto", t), Item("nodeToSubmap", t)}
  /\ \A s \in Inserts' : s.count = 0
  /\ NodesToInsert' = {<<t, 0>>} /\ SubmapsToInsert' = {<<t, 0>>}
Waits == UNCHANGED << phase, scans >> /\ Brings({})

LEMMA PendingItems ==
  ASSUME TypeInv, todo = << >>
  PROVE  /\ AllItems = QueueItems \cup ExecItems /\ TodoItems = {} /\ Inserts = {}
         /\ QueueItems \cup ExecItems \subseteq Items
         /\ \A x \in AllItems : x.traj \in Trajs \/ x.op \in {"final", "iterations"}
<1>1. RangeOf(todo) = {}
  BY RangeShort
<1>2. TodoItems = {} /\ Inserts = {}
  BY <1>1, PartsOf DEF TodoItems, Inserts
<1>3. QueueItems \subseteq Items
  BY DEF TypeInv, QueueType, QueueItems, RangeOf
<1>4. ExecItems \subseteq Items
  BY JobShapes DEF TypeInv, ExecItems, ExecItemsOf
<1>. QED
  BY <1>2, <1>3, <1>4, ItemShapes DEF AllItems

\* New items follow what is on its way.
LEMMA CallOrder ==
  ASSUME TypeInv, PipeInv, todo = << >>, UNCHANGED << queue, job >>,
         \A x \in Pending, y \in TodoItems' : Before(x, y),
         \A y \in TodoItems' : y.op \notin {"final", "iterations"} => y.traj \in Trajs
  PROVE  /\ OrderInv'
         /\ Pending' = Pending \cup {y \in TodoItems' : y.traj \in Trajs}
<1>1. QueueItems' = QueueItems /\ ExecItems' = ExecItems
  BY DEF QueueItems, ExecItems
<1>2. AllItems' = AllItems \cup TodoItems'
  BY <1>1, PendingItems DEF AllItems
<1>3. ASSUME NEW x \in QueueItems \cup ExecItems, NEW y \in TodoItems' PROVE Before(x, y)
  <2>1. x \in AllItems
    BY PendingItems
  <2>2. CASE x.traj \in Trajs
    BY <2>1, <2>2 DEF Pending
  <2>3. CASE x.traj \notin Trajs
    BY <2>1, <2>3, PendingItems DEF Before
  <2>. QED
    BY <2>2, <2>3
<1>4. OrderInv'
  BY <1>1, <1>3 DEF OrderInv, PipeInv
<1>. QED
  BY <1>2, <1>4 DEF Pending

LEMMA OneItemCall ==
  ASSUME NEW x, todo' = << Enqueue(x) >>
  PROVE  TodoItems' = {x} /\ Inserts' = {} /\ NodesToInsert' = {} /\ SubmapsToInsert' = {}
<1>1. PICK a : a = Enqueue(x)
  OBVIOUS
<1>2. a.do = "enqueue" /\ a.item = x
  BY <1>1, StepFields
<1>3. RangeOf(todo') = {a}
  BY <1>1, RangeShort
<1>4. TodoItems' = {x} /\ Inserts' = {}
  BY <1>2, <1>3 DEF TodoItems, Inserts, ItemsOf, InsertsOf
<1>. QED
  BY <1>4 DEF NodesToInsert, SubmapsToInsert

\* Calls that bring one item, and none to be inserted.
LEMMA SmallCall ==
  ASSUME IInv, PipeInv, todo = << >>, NoEffect, NEW t \in Trajs, NEW op \in {"trimmer", "data", "finish", "delete"},
         TodoItems' = {Item(op, t)}, Inserts' = {}, TodoInv', UNCHANGED scans,
         \A r \in Trajs : r # t => phase'[r] = phase[r],
         op # "delete" => t \in Slam,
         op = "trimmer" => t \in Localizing /\ phase[t] = "new" /\ phase'[t] = "open",
         op = "data" => phase[t] = "open" /\ phase'[t] = "open",
         op = "finish" => phase[t] = "open" /\ phase'[t] = "finished",
         op = "delete" => t \in MayDelete /\ phase[t] \in {"finished", "loaded"} /\ phase'[t] = "deleted"
  PROVE  PipeInv' /\ Brings({Item(op, t)})
<1>0. TypeInv /\ ItemInv /\ UNCHANGED << queue, job >>
  BY DEF IInv, PipeInv, NoEffect, queueVars
<1>1. Item(op, t).op = op /\ Item(op, t).traj = t
  BY StepFields
<1>2. ASSUME NEW x \in Pending PROVE Before(x, Item(op, t))
  <2>1. CASE x.traj # t
    BY <1>1, <2>1 DEF Before
  <2>2. CASE x.traj = t
    <3>1. x.op # "delete"
      BY <1>0, <2>2 DEF ItemInv
    <3>2. CASE op = "delete"
      BY <1>1, <2>2, <3>1, <3>2 DEF Before
    <3>3. CASE op # "delete"
      <4>1. t \in Slam /\ phase[t] # "finished" /\ phase[t] # "new"
        BY <1>0, <2>2, <3>3 DEF ItemInv
      <4>2. x.op \notin {"finish", "freeze", "submapFromProto", "nodeFromProto", "nodeToSubmap"}
        BY <1>0, <2>2, <3>3, <4>1 DEF ItemInv, Slam
      <4>. QED
        BY <1>1, <2>2, <3>1, <3>3, <4>2 DEF Before
    <3>. QED
      BY <3>2, <3>3
  <2>. QED
    BY <2>1, <2>2
<1>3. OrderInv' /\ Pending' = Pending \cup {Item(op, t)}
  BY <1>0, <1>1, <1>2, CallOrder
<1>4. \A r \in Slam : \A i : NodeItem(r, i) # Item(op, t)
  BY <1>1, StepFields
<1>5. /\ \A r \in Loaded : phase'[r] \in {"new", "loaded", "deleted"} /\ scans'[r] = 0
      /\ \A r \in Slam : phase'[r] # "loaded"
      /\ \A r \in Trajs : phase'[r] = "new" => phase[r] = "new" /\ r # t
  <2>1. /\ phase'[t] # "new" /\ phase'[t] # "loaded" /\ (t \in Loaded => phase'[t] = "deleted")
    BY <1>0 DEF Slam
  <2>. QED
    BY <1>0, <2>1, PoseGraphAssumption DEF ItemInv, Slam
<1>6. \A r \in Trajs : phase'[r] = "new" => scans'[r] = 0 /\ \A x \in Pending' : x.traj # r
  BY <1>0, <1>1, <1>3, <1>5 DEF ItemInv
<1>7. ASSUME NEW x \in Pending'
      PROVE  /\ x.op = "node" => /\ x.traj \in Slam /\ x.index < scans'[x.traj]
                                 /\ x = NodeItem(x.traj, x.index)
             /\ x.op \in {"trimmer", "data", "finish"} => x.traj \in Slam
             /\ x.op = "trimmer" => x.traj \in Localizing
             /\ x.op \in {"freeze", "submapFromProto", "nodeFromProto", "nodeToSubmap"} =>
                  x.traj \in Loaded
             /\ x.op = "finish" => phase'[x.traj] \in {"finished", "deleted"}
             /\ x.op = "delete" => phase'[x.traj] = "deleted" /\ x.traj \in MayDelete
  <2>1. CASE x = Item(op, t)
    BY <1>1, <2>1
  <2>2. CASE x \in Pending
    <3>1. x.traj \in Trajs
      BY <2>2 DEF Pending
    <3>2. x.op = "finish" => phase'[x.traj] \in {"finished", "deleted"}
      <4>1. x.op = "finish" => phase[x.traj] \in {"finished", "deleted"}
        BY <1>0, <2>2 DEF ItemInv
      <4>. QED
        BY <3>1, <4>1
    <3>3. x.op = "delete" => phase'[x.traj] = "deleted" /\ x.traj \in MayDelete
      <4>1. x.op = "delete" => phase[x.traj] = "deleted" /\ x.traj \in MayDelete
        BY <1>0, <2>2 DEF ItemInv
      <4>. QED
        BY <3>1, <4>1
    <3>4. /\ x.op = "node" => /\ x.traj \in Slam /\ x.index < scans[x.traj]
                              /\ x = NodeItem(x.traj, x.index)
          /\ x.op \in {"trimmer", "data", "finish"} => x.traj \in Slam
          /\ x.op = "trimmer" => x.traj \in Localizing
          /\ x.op \in {"freeze", "submapFromProto", "nodeFromProto", "nodeToSubmap"} =>
               x.traj \in Loaded
      BY <1>0, <2>2 DEF ItemInv
    <3>. QED
      BY <3>2, <3>3, <3>4
  <2>. QED
    BY <1>3, <2>1, <2>2
<1>8. ASSUME NEW r \in Slam, NEW i \in 0 .. scans'[r] - 1, NEW k \in 0 .. scans'[r] - 1,
             i < k, NodeItem(r, i) \in Pending'
      PROVE  NodeItem(r, k) \in Pending'
  BY <1>0, <1>3, <1>4, <1>8 DEF ItemInv
<1>9. ItemInv'
  <2>1. ASSUME NEW r \in Loaded, Item("nodeFromProto", r) \in Pending'
        PROVE  Item("nodeToSubmap", r) \in Pending'
    <3>1. Item("nodeFromProto", r) # Item(op, t)
      BY <1>1, StepFields
    <3>. QED
      BY <1>0, <1>3, <2>1, <3>1 DEF ItemInv
  <2>. QED
    BY <1>5, <1>6, <1>7, <1>8, <2>1 DEF ItemInv
<1>. QED
  BY <1>3, <1>9 DEF PipeInv, Brings

\* Calls that bring none.
LEMMA EmptyCall ==
  ASSUME IInv, PipeInv, todo = << >>, NoEffect, TodoItems' = {}, Inserts' = {}, TodoInv',
         UNCHANGED scans,
         \/ UNCHANGED phase
         \/ \E t \in Slam : phase' = [phase EXCEPT ![t] = "open"] /\ phase[t] = "new"
  PROVE  PipeInv' /\ Brings({})
<1>0. TypeInv /\ ItemInv /\ UNCHANGED << queue, job >> /\ phase \in [Trajs -> {"new", "open", "loaded", "finished", "deleted"}]
  BY DEF IInv, PipeInv, NoEffect, queueVars, TypeInv, ClientType
<1>1. OrderInv' /\ Pending' = Pending
  BY <1>0, CallOrder
<1>2. /\ \A r \in Trajs : phase'[r] = phase[r] \/ (phase[r] = "new" /\ phase'[r] = "open" /\ r \in Slam)
  BY <1>0 DEF Slam
<1>3. /\ \A r \in Loaded : phase'[r] \in {"new", "loaded", "deleted"} /\ scans'[r] = 0
      /\ \A r \in Slam : phase'[r] # "loaded"
      /\ \A r \in Trajs : phase'[r] = "new" => scans'[r] = 0 /\ \A x \in Pending' : x.traj # r
  BY <1>0, <1>1, <1>2, PoseGraphAssumption DEF ItemInv, Slam
<1>4. \A x \in Pending : x.traj \in Trajs /\ phase'[x.traj] = phase[x.traj]
  BY <1>0, <1>2 DEF ItemInv, Pending
<1>5. ItemInv'
  BY <1>0, <1>1, <1>3, <1>4 DEF ItemInv
<1>. QED
  BY <1>1, <1>5 DEF PipeInv, Brings

LEMMA AddNodeCall ==
  ASSUME IInv, PipeInv, todo = << >>, NoEffect, NEW t \in Trajs, AddNode(t)
  PROVE  PipeInv' /\ Adds(t)
<1>0. /\ TypeInv /\ ItemInv /\ UNCHANGED << queue, job, phase >>
      /\ phase \in [Trajs -> {"new", "open", "loaded", "finished", "deleted"}]
      /\ scans \in [Trajs -> 0 .. MaxNodes] /\ MaxNodes \in Nat
  BY PoseGraphAssumption DEF IInv, PipeInv, NoEffect, queueVars, TypeInv, ClientType, AddNode
<1>1. PICK i \in 0 .. MaxNodes - 1 : i = scans[t]
  BY <1>0 DEF AddNode
<1>2. t \in Slam /\ phase[t] = "open"
  BY <1>0 DEF AddNode, ItemInv, Slam
<1>3. scans' = [scans EXCEPT ![t] = i + 1] /\ scans'[t] = i + 1
  BY <1>0, <1>1 DEF AddNode
<1>4. PICK a, b : a = InsertNode(t, i) /\ b = Enqueue(NodeItem(t, i))
  OBVIOUS
<1>5. todo' = << a, b >>
  BY <1>1, <1>4 DEF AddNode, InsertNode
<1>6. /\ a.do = "insert" /\ a.nodes = {<<t, i>>} /\ a.submaps = {<<t, BackOf(i)>>}
      /\ b.do = "enqueue" /\ b.item = NodeItem(t, i)
  BY <1>4, StepFields
<1>7. RangeOf(todo') = {a, b}
  BY <1>5, RangeShort
<1>8. TodoItems' = {NodeItem(t, i)} /\ Inserts' = {a}
  BY <1>6, <1>7 DEF TodoItems, Inserts, ItemsOf, InsertsOf
<1>9. NodesToInsert' = {<<t, i>>} /\ SubmapsToInsert' = {<<t, BackOf(i)>>}
  BY <1>6, <1>8 DEF NodesToInsert, SubmapsToInsert
<1>10. /\ NodeItem(t, i).op = "node" /\ NodeItem(t, i).traj = t /\ NodeItem(t, i).index = i
  BY StepFields
<1>11. ASSUME NEW x \in Pending PROVE Before(x, NodeItem(t, i)) /\ x # NodeItem(t, i)
  <2>1. CASE x.traj # t
    BY <1>10, <2>1 DEF Before
  <2>2. CASE x.traj = t
    <3>1. /\ x.op \notin {"delete", "finish", "freeze", "submapFromProto", "nodeFromProto", "nodeToSubmap"}
          /\ x.op = "node" => x.index < scans[t]
      BY <1>0, <1>2, <2>2 DEF ItemInv, Slam
    <3>. QED
      BY <1>1, <1>10, <2>2, <3>1 DEF Before
  <2>. QED
    BY <1>10, <2>1, <2>2
<1>12. OrderInv' /\ Pending' = Pending \cup {NodeItem(t, i)}
  BY <1>0, <1>8, <1>10, <1>11, CallOrder
<1>13. TodoInv'
  <2>1. SlamSteps(t)'
    BY <1>0, <1>2, <1>3, <1>4, <1>5 DEF SlamSteps
  <2>. QED
    BY <1>2, <2>1 DEF TodoInv
<1>14. /\ \A r \in Trajs : scans'[r] = IF r = t THEN i + 1 ELSE scans[r]
       /\ \A r \in Trajs : scans[r] <= scans'[r] /\ scans[r] \in Nat /\ scans'[r] \in Nat
  BY <1>0, <1>1, <1>3
<1>15. /\ \A r \in Loaded : phase'[r] \in {"new", "loaded", "deleted"} /\ scans'[r] = 0
       /\ \A r \in Slam : phase'[r] # "loaded"
       /\ \A r \in Trajs : phase'[r] = "new" => scans'[r] = 0 /\ \A x \in Pending' : x.traj # r
  <2>1. \A r \in Loaded : r # t /\ r \in Trajs
    BY <1>2, PoseGraphAssumption DEF Slam
  <2>. QED
    BY <1>0, <1>2, <1>10, <1>12, <1>14, <2>1 DEF ItemInv
<1>16. ASSUME NEW x \in Pending'
       PROVE  /\ x.op = "node" => /\ x.traj \in Slam /\ x.index < scans'[x.traj]
                                  /\ x = NodeItem(x.traj, x.index)
              /\ x.op \in {"trimmer", "data", "finish"} => x.traj \in Slam
              /\ x.op = "trimmer" => x.traj \in Localizing
              /\ x.op \in {"freeze", "submapFromProto", "nodeFromProto", "nodeToSubmap"} =>
                   x.traj \in Loaded
              /\ x.op = "finish" => phase'[x.traj] \in {"finished", "deleted"}
              /\ x.op = "delete" => phase'[x.traj] = "deleted" /\ x.traj \in MayDelete
  <2>1. CASE x = NodeItem(t, i)
    BY <1>2, <1>3, <1>1, <1>10, <2>1
  <2>2. CASE x \in Pending
    <3>1. x.traj \in Trajs
      BY <2>2 DEF Pending
    <3>2. /\ x.op = "node" => /\ x.traj \in Slam /\ x.index < scans[x.traj]
                              /\ x = NodeItem(x.traj, x.index)
          /\ x.op \in {"trimmer", "data", "finish"} => x.traj \in Slam
          /\ x.op = "trimmer" => x.traj \in Localizing
          /\ x.op \in {"freeze", "submapFromProto", "nodeFromProto", "nodeToSubmap"} =>
               x.traj \in Loaded
          /\ x.op = "finish" => phase[x.traj] \in {"finished", "deleted"}
          /\ x.op = "delete" => phase[x.traj] = "deleted" /\ x.traj \in MayDelete
      BY <1>0, <2>2 DEF ItemInv
    <3>3. x.op = "node" => x.index < scans'[x.traj]
      <4>1. ASSUME x.op = "node" PROVE x.index \in Int
        <5>1. x \in AllItems
          BY <2>2 DEF Pending
        <5>2. x \in Items
          BY <1>0, <5>1, PendingItems
        <5>. QED
          BY <4>1, <5>2, ItemShapes
      <4>. QED
        BY <1>14, <3>1, <3>2, <4>1
    <3>. QED
      BY <1>0, <3>2, <3>3
  <2>. QED
    BY <1>12, <2>1, <2>2
<1>17. ASSUME NEW r \in Slam, NEW p \in 0 .. scans'[r] - 1, NEW k \in 0 .. scans'[r] - 1,
              p < k, NodeItem(r, p) \in Pending'
       PROVE  NodeItem(r, k) \in Pending'
  <2>1. CASE r = t /\ k = i
    BY <1>12, <2>1
  <2>2. CASE ~ (r = t /\ k = i)
    <3>1. p \in 0 .. scans[r] - 1 /\ k \in 0 .. scans[r] - 1
      BY <1>1, <1>14, <1>17, <2>2 DEF Slam
    <3>2. NodeItem(r, p) # NodeItem(t, i)
      <4>1. NodeItem(r, p).traj = r /\ NodeItem(r, p).index = p
        BY StepFields
      <4>. QED
        BY <1>1, <1>10, <3>1, <4>1
    <3>. QED
      BY <1>0, <1>12, <1>17, <3>1, <3>2 DEF ItemInv
  <2>. QED
    BY <2>1, <2>2
<1>18. ItemInv'
  <2>1. ASSUME NEW r \in Loaded, Item("nodeFromProto", r) \in Pending'
        PROVE  Item("nodeToSubmap", r) \in Pending'
    <3>1. Item("nodeFromProto", r) # NodeItem(t, i)
      BY <1>10, StepFields
    <3>. QED
      BY <1>0, <1>12, <2>1, <3>1 DEF ItemInv
  <2>. QED
    BY <1>15, <1>16, <1>17, <2>1 DEF ItemInv
<1>19. PipeInv'
  BY <1>12, <1>13, <1>18 DEF PipeInv
<1>20. Adds(t)
  BY <1>0, <1>1, <1>2, <1>3, <1>4, <1>8, <1>9, <1>11, <1>12, PoseGraphAssumption DEF Adds, AddNode
<1>. QED
  BY <1>19, <1>20

LEMMA LoadStateCall ==
  ASSUME IInv, PipeInv, todo = << >>, NoEffect, NEW t \in Trajs, LoadState(t)
  PROVE  PipeInv' /\ Loads(t)
<1>0. /\ TypeInv /\ ItemInv /\ UNCHANGED << queue, job, scans >>
      /\ phase \in [Trajs -> {"new", "open", "loaded", "finished", "deleted"}]
      /\ t \in Loaded /\ phase[t] = "new" /\ phase' = [phase EXCEPT ![t] = "loaded"]
  BY DEF IInv, PipeInv, NoEffect, queueVars, TypeInv, ClientType, LoadState
<1>1. PICK a, b, c, d, e, f : /\ a = Enqueue(Item("freeze", t)) /\ b = InsertLoadedSubmap(t)
                              /\ c = Enqueue(Item("submapFromProto", t)) /\ d = InsertLoadedNode(t)
                              /\ e = Enqueue(Item("nodeFromProto", t))
                              /\ f = Enqueue(Item("nodeToSubmap", t))
  OBVIOUS
<1>2. todo' = << a, b, c, d, e, f >>
  BY <1>1 DEF LoadState, InsertLoadedSubmap, InsertLoadedNode
<1>3. /\ a.do = "enqueue" /\ a.item = Item("freeze", t)
      /\ c.do = "enqueue" /\ c.item = Item("submapFromProto", t)
      /\ e.do = "enqueue" /\ e.item = Item("nodeFromProto", t)
      /\ f.do = "enqueue" /\ f.item = Item("nodeToSubmap", t)
      /\ b.do = "insert" /\ b.nodes = {} /\ b.submaps = {<<t, 0>>} /\ b.count = 0
      /\ d.do = "insert" /\ d.nodes = {<<t, 0>>} /\ d.submaps = {} /\ d.count = 0
  BY <1>1, StepFields
<1>4. RangeOf(todo') = {a, b, c, d, e, f}
  BY <1>2, RangeShort
<1>5. TodoItems' = {a.item, c.item, e.item, f.item} /\ Inserts' = {b, d}
  BY <1>3, <1>4 DEF TodoItems, Inserts, ItemsOf, InsertsOf
<1>6. NodesToInsert' = {<<t, 0>>} /\ SubmapsToInsert' = {<<t, 0>>}
  BY <1>3, <1>5 DEF NodesToInsert, SubmapsToInsert
<1>7. PICK New : New = {Item("freeze", t), Item("submapFromProto", t), Item("nodeFromProto", t),
                        Item("nodeToSubmap", t)}
  OBVIOUS
<1>8. /\ TodoItems' = New
      /\ \A y \in New : /\ y.op \in {"freeze", "submapFromProto", "nodeFromProto", "nodeToSubmap"}
                        /\ y.traj = t
  BY <1>3, <1>5, <1>7, StepFields
<1>9. \A x \in Pending : x.traj # t
  BY <1>0 DEF ItemInv
<1>10. \A x \in Pending, y \in TodoItems' : Before(x, y)
  BY <1>8, <1>9 DEF Before
<1>11. OrderInv' /\ Pending' = Pending \cup New
  <2>1. {y \in New : y.traj \in Trajs} = New
    BY <1>8
  <2>. QED
    BY <1>0, <1>8, <1>10, <2>1, CallOrder
<1>12. TodoInv'
  <2>1. LoadSteps(t)'
    BY <1>0, <1>1, <1>2 DEF LoadSteps
  <2>. QED
    BY <1>0, <2>1 DEF TodoInv
<1>13. /\ \A r \in Loaded : phase'[r] \in {"new", "loaded", "deleted"} /\ scans'[r] = 0
       /\ \A r \in Slam : phase'[r] # "loaded"
       /\ \A r \in Trajs : phase'[r] = "new" => scans'[r] = 0 /\ \A x \in Pending' : x.traj # r
  BY <1>0, <1>8, <1>11, PoseGraphAssumption DEF ItemInv, Slam
<1>14. ASSUME NEW x \in Pending'
       PROVE  /\ x.op = "node" => /\ x.traj \in Slam /\ x.index < scans'[x.traj]
                                  /\ x = NodeItem(x.traj, x.index)
              /\ x.op \in {"trimmer", "data", "finish"} => x.traj \in Slam
              /\ x.op = "trimmer" => x.traj \in Localizing
              /\ x.op \in {"freeze", "submapFromProto", "nodeFromProto", "nodeToSubmap"} =>
                   x.traj \in Loaded
              /\ x.op = "finish" => phase'[x.traj] \in {"finished", "deleted"}
              /\ x.op = "delete" => phase'[x.traj] = "deleted" /\ x.traj \in MayDelete
  <2>1. CASE x \in New
    BY <1>0, <1>8, <2>1
  <2>2. CASE x \in Pending
    <3>1. x.traj # t /\ x.traj \in Trajs
      BY <1>9, <2>2 DEF Pending
    <3>2. phase'[x.traj] = phase[x.traj] /\ scans' = scans
      BY <1>0, <3>1
    <3>. QED
      BY <1>0, <2>2, <3>2 DEF ItemInv
  <2>. QED
    BY <1>11, <2>1, <2>2
<1>15. ASSUME NEW r \in Slam, NEW p \in 0 .. scans'[r] - 1, NEW k \in 0 .. scans'[r] - 1,
              p < k, NodeItem(r, p) \in Pending'
       PROVE  NodeItem(r, k) \in Pending'
  <2>1. NodeItem(r, p) \notin New
    BY <1>8, StepFields
  <2>. QED
    BY <1>0, <1>11, <1>15, <2>1 DEF ItemInv
<1>16. ItemInv'
  <2>1. ASSUME NEW r \in Loaded, Item("nodeFromProto", r) \in Pending'
        PROVE  Item("nodeToSubmap", r) \in Pending'
    <3>1. CASE r = t
      BY <1>7, <1>11, <3>1
    <3>2. CASE r # t
      BY <1>0, <1>8, <1>11, <2>1, <3>2, StepFields DEF ItemInv
    <3>. QED
      BY <3>1, <3>2
  <2>. QED
    BY <1>13, <1>14, <1>15, <2>1 DEF ItemInv
<1>17. Loads(t)
  BY <1>0, <1>3, <1>5, <1>6, <1>7, <1>11 DEF Loads
<1>. QED
  BY <1>11, <1>12, <1>16, <1>17 DEF PipeInv

\* The calls.
LEMMA PipeCalls ==
  ASSUME IInv, PipeInv, ClientCalls
  PROVE  /\ PipeInv' /\ Inserts = {} /\ TodoItems = {} /\ todo = << >>
         /\ UNCHANGED << stateVars, graphVars, optVars, queueVars, miscVars, job, failed, cbVars >>
         /\ \/ \E t \in Trajs : Builds(t) \/ Sends(t) \/ Finishes(t) \/ Deletes(t) \/ Adds(t) \/ Loads(t)
            \/ Waits
<1>0. /\ todo = << >> /\ NoEffect /\ TypeInv /\ ItemInv
      /\ phase \in [Trajs -> {"new", "open", "loaded", "finished", "deleted"}]
  BY DEF ClientCalls, IInv, TypeInv, ClientType, PipeInv
<1>1. TodoItems = {} /\ Inserts = {}
  BY <1>0, PendingItems
<1>2. ASSUME NEW t \in Trajs, AddTrajectoryBuilder(t) PROVE PipeInv' /\ Builds(t)
  <2>1. t \in Slam /\ phase[t] = "new" /\ phase' = [phase EXCEPT ![t] = "open"] /\ UNCHANGED scans
    BY <1>2 DEF AddTrajectoryBuilder, Slam
  <2>2. CASE t \in Localizing
    <3>1. todo' = << Enqueue(Item("trimmer", t)) >>
      BY <1>2, <2>2 DEF AddTrajectoryBuilder
    <3>2. TodoItems' = {Item("trimmer", t)} /\ Inserts' = {}
      BY <3>1, OneItemCall
    <3>3. phase'[t] = "open" /\ \A r \in Trajs : r # t => phase'[r] = phase[r]
      BY <1>0, <2>1
    <3>4. TodoInv'
      BY <2>1, <3>1, <3>3 DEF TodoInv, SlamSteps
    <3>5. PipeInv' /\ Brings({Item("trimmer", t)})
      BY <1>0, <2>1, <2>2, <3>2, <3>3, <3>4, SmallCall
    <3>. QED
      BY <2>1, <2>2, <3>5 DEF Builds
  <2>3. CASE t \notin Localizing
    <3>1. todo' = << >>
      BY <1>2, <2>3 DEF AddTrajectoryBuilder
    <3>2. TodoItems' = {} /\ Inserts' = {}
      BY <3>1, RangeShort, PartsOf DEF TodoItems, Inserts
    <3>3. TodoInv'
      BY <3>1 DEF TodoInv
    <3>4. PipeInv' /\ Brings({})
      BY <1>0, <2>1, <3>2, <3>3, EmptyCall
    <3>. QED
      BY <2>1, <3>4 DEF Builds
  <2>. QED
    BY <2>2, <2>3
<1>3. ASSUME NEW t \in Trajs, AddSensorData(t) PROVE PipeInv' /\ Sends(t)
  <2>1. phase[t] = "open" /\ UNCHANGED << phase, scans >> /\ todo' = << Enqueue(Item("data", t)) >>
    BY <1>3 DEF AddSensorData
  <2>2. t \in Slam
    BY <1>0, <2>1 DEF ItemInv, Slam
  <2>3. TodoItems' = {Item("data", t)} /\ Inserts' = {}
    BY <2>1, OneItemCall
  <2>4. TodoInv'
    BY <2>1, <2>2 DEF TodoInv, SlamSteps
  <2>5. PipeInv' /\ Brings({Item("data", t)})
    BY <1>0, <2>1, <2>2, <2>3, <2>4, SmallCall
  <2>. QED
    BY <2>1, <2>2, <2>5 DEF Sends
<1>4. ASSUME NEW t \in Trajs, FinishTrajectory(t) PROVE PipeInv' /\ Finishes(t)
  <2>1. /\ phase[t] = "open" /\ phase' = [phase EXCEPT ![t] = "finished"] /\ UNCHANGED scans
        /\ todo' = << Enqueue(Item("finish", t)) >>
    BY <1>4 DEF FinishTrajectory
  <2>2. t \in Slam
    BY <1>0, <2>1 DEF ItemInv, Slam
  <2>3. TodoItems' = {Item("finish", t)} /\ Inserts' = {}
    BY <2>1, OneItemCall
  <2>4. phase'[t] = "finished" /\ \A r \in Trajs : r # t => phase'[r] = phase[r]
    BY <1>0, <2>1
  <2>5. TodoInv'
    BY <2>1, <2>2, <2>4 DEF TodoInv, SlamSteps
  <2>6. PipeInv' /\ Brings({Item("finish", t)})
    BY <1>0, <2>1, <2>2, <2>3, <2>4, <2>5, SmallCall
  <2>. QED
    BY <2>1, <2>2, <2>6 DEF Finishes
<1>5. ASSUME NEW t \in Trajs, DeleteTrajectory(t) PROVE PipeInv' /\ Deletes(t)
  <2>1. /\ t \in MayDelete /\ phase[t] \in {"finished", "loaded"} /\ (Patient => Processed(t))
        /\ phase' = [phase EXCEPT ![t] = "deleted"] /\ UNCHANGED scans
        /\ todo' = << [do |-> "mark", traj |-> t], Enqueue(Item("delete", t)) >>
    BY <1>5 DEF DeleteTrajectory
  <2>2. PICK a, b : a = [do |-> "mark", traj |-> t] /\ b = Enqueue(Item("delete", t))
    OBVIOUS
  <2>3. a.do = "mark" /\ b.do = "enqueue" /\ b.item = Item("delete", t)
    BY <2>2, StepFields
  <2>4. RangeOf(todo') = {a, b}
    <3>1. todo' = << a, b >>
      BY <2>1, <2>2
    <3>. QED
      BY <3>1, RangeShort
  <2>5. TodoItems' = {Item("delete", t)} /\ Inserts' = {}
    BY <2>3, <2>4 DEF TodoItems, Inserts, ItemsOf, InsertsOf
  <2>6. phase'[t] = "deleted" /\ \A r \in Trajs : r # t => phase'[r] = phase[r]
    BY <1>0, <2>1
  <2>7. TodoInv'
    BY <2>1, <2>6 DEF TodoInv, DeleteSteps
  <2>8. PipeInv' /\ Brings({Item("delete", t)})
    BY <1>0, <2>1, <2>5, <2>6, <2>7, SmallCall
  <2>. QED
    BY <2>1, <2>2, <2>4, <2>8 DEF Deletes
<1>6. CASE RunFinalOptimization
  <2>1. PICK a, b : a = Enqueue(Item("final", None)) /\ b = Enqueue(Item("iterations", None))
    OBVIOUS
  <2>2. todo' = << a, b, Sample >> /\ UNCHANGED << phase, scans >>
    BY <1>6, <2>1, ConcatShort DEF RunFinalOptimization, Wait, Sample
  <2>3. /\ a.do = "enqueue" /\ a.item = Item("final", None) /\ b.do = "enqueue"
        /\ b.item = Item("iterations", None) /\ Sample.do = "sample"
    BY <2>1, StepFields
  <2>4. RangeOf(todo') = {a, b, Sample}
    BY <2>2, RangeShort
  <2>5. TodoItems' = {a.item, b.item} /\ Inserts' = {}
    BY <2>3, <2>4 DEF TodoItems, Inserts, ItemsOf, InsertsOf
  <2>6. TodoInv'
    BY <2>1, <2>2 DEF TodoInv, WaitSteps
  <2>7. \A y \in TodoItems' : y.op \in {"final", "iterations"} /\ y.traj = None /\ y.traj \notin Trajs
    BY <2>3, <2>5, StepFields, PoseGraphAssumption
  <2>8. \A x \in Pending, y \in TodoItems' : Before(x, y)
    BY <2>7 DEF Pending, Before
  <2>9. UNCHANGED << queue, job >>
    BY <1>0 DEF NoEffect, queueVars
  <2>10. OrderInv' /\ Pending' = Pending
    <3>1. {y \in TodoItems' : y.traj \in Trajs} = {}
      BY <2>7
    <3>. QED
      BY <1>0, <2>7, <2>8, <2>9, <3>1, CallOrder
  <2>11. ItemInv'
    BY <1>0, <2>2, <2>10 DEF ItemInv
  <2>. QED
    BY <1>0, <1>1, <2>2, <2>5, <2>6, <2>10, <2>11 DEF PipeInv, Waits, Brings, NoEffect
<1>7. CASE Destroy
  <2>1. todo' = << Sample, Destroying >> /\ UNCHANGED << phase, scans >>
    BY <1>7, ConcatShort DEF Destroy, Wait, Sample, Destroying
  <2>2. TodoItems' = {} /\ Inserts' = {}
    BY <2>1, WaitParts DEF TodoItems, Inserts
  <2>3. TodoInv'
    BY <2>1 DEF TodoInv, WaitSteps
  <2>4. PipeInv' /\ Brings({})
    BY <1>0, <2>1, <2>2, <2>3, EmptyCall
  <2>. QED
    BY <1>0, <1>1, <2>1, <2>4 DEF Waits, NoEffect
<1>8. ASSUME NEW t \in Trajs, AddNode(t) \/ LoadState(t) PROVE PipeInv' /\ (Adds(t) \/ Loads(t))
  BY <1>0, <1>8, AddNodeCall, LoadStateCall
<1>9. UNCHANGED << stateVars, graphVars, optVars, queueVars, miscVars, job, failed, cbVars >>
  BY <1>0 DEF NoEffect
<1>. QED
  BY <1>0, <1>1, <1>2, <1>3, <1>4, <1>5, <1>6, <1>7, <1>8, <1>9 DEF ClientCalls

-----------------------------------------------------------------------------
(* The steps, as the graph sees them.                                      *)

SameGraph == UNCHANGED << nodes, submaps, finished, nodeIds, optSubmaps, optNodes, intra >>

Rests ==
  /\ SameGraph /\ UNCHANGED << phase, scans, tstate, deletion, trimmers, tried >>
  /\ Pending' = Pending /\ Inserts' = Inserts /\ OpenPairs' = OpenPairs

\* A thread has executed item x.
Ran(x) ==
  /\ x \in Pending /\ Pending' \subseteq Pending /\ \A y \in Pending : y \in Pending' \/ y = x
  /\ x.op \notin {"data", "trimmer"} => x \notin Pending' /\ x \notin TodoItems
  /\ \A y \in Pending' : Before(x, y)
  /\ Inserts' = Inserts /\ OpenPairs = {}
  /\ UNCHANGED << phase, scans, tried >>

RanIdly(t) ==
  /\ t \in Slam
  /\ \/ Ran(Item("data", t)) /\ UNCHANGED trimmers
     \/ t \in Localizing /\ Ran(Item("trimmer", t)) /\ trimmers' = trimmers \cup {t}
  /\ SameGraph /\ UNCHANGED << tstate, deletion >> /\ OpenPairs' = {}

RanFinish(t) ==
  /\ t \in Slam /\ Ran(Item("finish", t)) /\ tstate[t] # "FINISHED"
  /\ tstate' = [tstate EXCEPT ![t] = "FINISHED"]
  /\ finished' = finished \cup {s \in submaps : s[1] = t}
  /\ UNCHANGED << deletion, nodes, submaps, nodeIds, optSubmaps, optNodes, intra, trimmers >>
  /\ OpenPairs' = {}

RanDelete(t) ==
  /\ t \in MayDelete /\ Ran(Item("delete", t))
  /\ tstate[t] \notin {"ACTIVE", "DELETED"} /\ deletion[t] = "SCHEDULED_FOR_DELETION"
  /\ deletion' = [deletion EXCEPT ![t] = "WAIT_FOR_DELETION"]
  /\ SameGraph /\ UNCHANGED << tstate, trimmers >> /\ OpenPairs' = {}

RanFreeze(t) ==
  /\ t \in Loaded /\ Ran(Item("freeze", t)) /\ tstate[t] # "FROZEN"
  /\ tstate' = [tstate EXCEPT ![t] = "FROZEN"]
  /\ SameGraph /\ UNCHANGED << deletion, trimmers >> /\ OpenPairs' = {}

RanSubmap(t) ==
  /\ t \in Loaded /\ Ran(Item("submapFromProto", t))
  /\ finished' = finished \cup {<<t, 0>>} /\ optSubmaps' = optSubmaps \cup {<<t, 0>>}
  /\ UNCHANGED << tstate, deletion, nodes, submaps, nodeIds, optNodes, intra, trimmers >>
  /\ OpenPairs' = {}

RanNode(t) ==
  /\ t \in Loaded /\ Ran(Item("nodeFromProto", t))
  /\ optNodes' = optNodes \cup {<<t, 0>>}
  /\ UNCHANGED << tstate, deletion, nodes, submaps, finished, nodeIds, optSubmaps, intra, trimmers >>
  /\ OpenPairs' = {}

RanMember(t) ==
  /\ t \in Loaded /\ Ran(Item("nodeToSubmap", t)) /\ CanAddWorkItemModifying(t)
  /\ nodeIds' = nodeIds \cup {<< <<t, 0>>, <<t, 0>> >>}
  /\ UNCHANGED << tstate, deletion, nodes, submaps, finished, optNodes, optSubmaps, intra, trimmers >>
  /\ OpenPairs' = {}

RanScan(t, i) ==
  LET n == <<t, i>>
      into == InsertionSubmaps(t, i)
      front == FrontOf(t, i)
  IN /\ t \in Slam /\ i \in 0 .. MaxNodes - 1 /\ i < scans[t] /\ Ran(NodeItem(t, i))
     /\ n \in nodes /\ into \subseteq submaps \ finished
     /\ optSubmaps' = optSubmaps \cup into /\ optNodes' = optNodes \cup {n}
     /\ nodeIds' = nodeIds \cup (into \X {n}) /\ intra' = intra \cup (into \X {n})
     /\ finished' = IF FinishesFront(i) THEN finished \cup {front} ELSE finished
     /\ OpenPairs' = (finished \X {n}) \cup
          (IF FinishesFront(i) THEN {front} \X ((optNodes \ NodesIn(front)) \ {n}) ELSE {})
     /\ UNCHANGED << tstate, deletion, nodes, submaps, trimmers >>

Tries(p) ==
  /\ p \in OpenPairs /\ p[1] \in finished /\ p[1] \in submaps /\ p[2] \in nodes
  /\ tried' = tried \cup {p} /\ OpenPairs' = OpenPairs \ {p}
  /\ slots' \subseteq slots \cup {p}
  /\ SameGraph /\ UNCHANGED << phase, scans, tstate, deletion, trimmers, found, inter >>
  /\ Pending' = Pending /\ Inserts' = Inserts

Deleted == {t \in Trajs : deletion[t] = "WAIT_FOR_DELETION"}
Ended == {t \in trimmers \ Deleted : tstate[t] = "FINISHED"}
Gone == {s \in optSubmaps : s[1] \in Deleted} \cup UNION {Trimmed(t) : t \in trimmers \ Deleted}

Cleans ==
  /\ Gone \subseteq finished \cap submaps
  /\ tstate' = [t \in Trajs |-> IF t \in Deleted \cup Ended THEN "DELETED" ELSE tstate[t]]
  /\ deletion' = [t \in Trajs |-> IF t \in Deleted THEN "NORMAL" ELSE deletion[t]]
  /\ submaps' = submaps \ Gone /\ finished' = finished \ Gone
  /\ nodes' = nodes \ NodesGoneWith(Gone)
  /\ nodeIds' = {p \in nodeIds : p[1] \notin Gone}
  /\ intra' = KeptConstraints(intra, Gone) /\ inter' = KeptConstraints(inter, Gone)
  /\ optSubmaps' = optSubmaps \ Gone /\ optNodes' = optNodes \ NodesGoneWith(Gone)
  /\ trimmers' = trimmers \ Ended
  /\ UNCHANGED << phase, scans, tried, slots, found >>
  /\ Pending' = Pending /\ Inserts' = Inserts /\ OpenPairs = {} /\ OpenPairs' = {} /\ Results' = {}

RanItem ==
  \E t \in Trajs : \/ RanIdly(t) \/ RanFinish(t) \/ RanDelete(t) \/ RanFreeze(t) \/ RanSubmap(t)
                  \/ RanNode(t) \/ RanMember(t)

RanAny == RanItem \/ \E t \in Slam, i \in 0 .. MaxNodes - 1 : RanScan(t, i)

\* The work items that search for nothing.
LEMMA ItemViews ==
  ASSUME IInv, PipeInv, NEW w \in Workers,
         \/ ExecuteData(w) \/ ExecuteFinish(w) \/ ExecuteDelete(w) \/ ExecuteFreeze(w)
         \/ ExecuteFromProto(w) \/ ExecuteNodeToSubmap(w) \/ ExecuteTrimmer(w)
         \/ ExecuteFinal(w),
         ~ \E function : Abort(function)
  PROVE  PipeInv' /\ (Rests \/ RanItem)
<1>0. TypeInv /\ JobType /\ ItemInv /\ TodoInv
  BY DEF IInv, TypeInv, PipeInv
<1>1. job[w].at = "exec" /\ \E r \in BOOLEAN : AfterItem(w, r)
  <2>1. (job[w].item.op = "final") \in BOOLEAN
    OBVIOUS
  <2>. QED
    BY <2>1 DEF ExecuteData, ExecuteFinish, ExecuteDelete, ExecuteFreeze,
       ExecuteFromProto, ExecuteNodeToSubmap, ExecuteTrimmer, ExecuteFinal, Executing
<1>2. PICK x \in Items : x = job[w].item
  BY <1>0, <1>1, JobShapes
<1>3. PICK j \in Jobs : Goto(w, j) /\ j.at \in {"drain", "whendone"}
  <2>1. PICK a \in {"drain", "whendone"} : Goto(w, [at |-> a])
    BY <1>1 DEF AfterItem
  <2>2. [at |-> a] \in Jobs /\ [at |-> a].at = a
    BY JobsMade
  <2>. QED
    BY <2>1, <2>2
<1>4. UNCHANGED << queue, todo, phase, scans, numNodes, tried >>
  BY DEF ExecuteData, ExecuteFinish, ExecuteDelete, ExecuteFreeze,
     ExecuteFromProto, ExecuteNodeToSubmap, ExecuteTrimmer, ExecuteFinal, Abort,
     queueVars, clientVars, miscVars
<1>5. /\ PipeInv' /\ Inserts' = Inserts /\ Pending' \subseteq Pending
      /\ \A y \in Pending : y \in Pending' \/ y = x
      /\ x.op \notin {"data", "trimmer"} => x \notin Pending'
      /\ \A y \in Pending' : Before(x, y)
      /\ x.traj \in Trajs => x \in Pending
  BY <1>1, <1>2, <1>3, <1>4, PipeEnds
<1>6. OpenPairs = {} /\ OpenPairs' = {}
  <2>1. \A v \in Workers : v # w => job[v].at = "idle"
    BY <1>0, <1>1, Alone DEF IInv
  <2>. QED
    BY <1>0, <1>1, <1>3, <2>1, JobMove DEF OpenPairOf
<1>7. x.op \notin {"data", "trimmer"} /\ x.traj \in Trajs => x \notin TodoItems
  <2>1. TodoItems' = TodoItems
    BY <1>4 DEF TodoItems
  <2>2. \A y \in TodoItems' : y.traj \in Trajs => y \in Pending'
    BY DEF Pending, AllItems
  <2>. QED
    BY <1>5, <2>1, <2>2
<1>8. x.traj \in Trajs => Ran(x)
  BY <1>4, <1>5, <1>6, <1>7 DEF Ran
<1>9. x.op \in {"data", "finish", "delete", "freeze", "submapFromProto", "nodeFromProto",
                "nodeToSubmap", "trimmer"} =>
        \E t \in Trajs : x = Item(x.op, t) /\ x.traj = t /\ Ran(Item(x.op, t))
  <2> SUFFICES ASSUME x.op \in {"data", "finish", "delete", "freeze", "submapFromProto",
                                "nodeFromProto", "nodeToSubmap", "trimmer"}
               PROVE  x.traj \in Trajs /\ x = Item(x.op, x.traj)
    BY <1>8
  <2>. QED
    BY DEF Items, Item
<1>10. CASE ExecuteData(w)
  <2>1. PICK t \in Trajs : x = Item("data", t) /\ x.traj = t /\ Ran(Item("data", t))
    BY <1>2, <1>9, <1>10 DEF ExecuteData, Executing
  <2>2. t \in Slam
    BY <1>0, <1>5, <2>1, StepFields DEF ItemInv
  <2>3. SameGraph /\ UNCHANGED << tstate, deletion, trimmers >>
    BY <1>10 DEF ExecuteData, SameGraph, stateVars, graphVars, optVars, miscVars, Abort
  <2>. QED
    BY <1>5, <1>6, <2>1, <2>2, <2>3 DEF RanIdly, RanItem
<1>11. CASE ExecuteTrimmer(w)
  <2>1. PICK t \in Trajs : x = Item("trimmer", t) /\ x.traj = t /\ Ran(Item("trimmer", t))
    BY <1>2, <1>9, <1>11 DEF ExecuteTrimmer, Executing
  <2>2. t \in Slam /\ t \in Localizing
    BY <1>0, <1>5, <2>1, StepFields DEF ItemInv
  <2>3. SameGraph /\ UNCHANGED << tstate, deletion >> /\ trimmers' = trimmers \cup {t}
    BY <1>2, <1>11, <2>1 DEF ExecuteTrimmer, SameGraph, stateVars, graphVars, optVars
  <2>. QED
    BY <1>5, <1>6, <2>1, <2>2, <2>3 DEF RanIdly, RanItem
<1>12. CASE ExecuteFinish(w)
  <2>1. PICK t \in Trajs : x = Item("finish", t) /\ x.traj = t /\ Ran(Item("finish", t))
    BY <1>2, <1>9, <1>12 DEF ExecuteFinish, Executing
  <2>2. t \in Slam
    BY <1>0, <1>5, <2>1, StepFields DEF ItemInv
  <2>3. /\ tstate[t] # "FINISHED" /\ tstate' = [tstate EXCEPT ![t] = "FINISHED"]
        /\ finished' = finished \cup {s \in submaps : s[1] = t}
        /\ UNCHANGED << deletion, nodes, submaps, nodeIds, optSubmaps, optNodes, intra, trimmers >>
    BY <1>2, <1>12, <2>1 DEF ExecuteFinish, optVars, miscVars
  <2>. QED
    BY <1>5, <1>6, <2>1, <2>2, <2>3 DEF RanFinish, RanItem
<1>13. CASE ExecuteDelete(w)
  <2>1. PICK t \in Trajs : x = Item("delete", t) /\ x.traj = t /\ Ran(Item("delete", t))
    BY <1>2, <1>9, <1>13 DEF ExecuteDelete, Executing
  <2>2. t \in MayDelete
    BY <1>0, <1>5, <2>1, StepFields DEF ItemInv
  <2>3. /\ tstate[t] \notin {"ACTIVE", "DELETED"} /\ deletion[t] = "SCHEDULED_FOR_DELETION"
        /\ deletion' = [deletion EXCEPT ![t] = "WAIT_FOR_DELETION"]
        /\ SameGraph /\ UNCHANGED << tstate, trimmers >>
    BY <1>2, <1>13, <2>1 DEF ExecuteDelete, SameGraph, graphVars, optVars, miscVars
  <2>. QED
    BY <1>5, <1>6, <2>1, <2>2, <2>3 DEF RanDelete, RanItem
<1>14. CASE ExecuteFreeze(w)
  <2>1. PICK t \in Trajs : x = Item("freeze", t) /\ x.traj = t /\ Ran(Item("freeze", t))
    BY <1>2, <1>9, <1>14 DEF ExecuteFreeze, Executing
  <2>2. t \in Loaded
    BY <1>0, <1>5, <2>1, StepFields DEF ItemInv
  <2>3. /\ tstate[t] # "FROZEN" /\ tstate' = [tstate EXCEPT ![t] = "FROZEN"]
        /\ SameGraph /\ UNCHANGED << deletion, trimmers >>
    BY <1>2, <1>14, <2>1 DEF ExecuteFreeze, SameGraph, graphVars, optVars, miscVars
  <2>. QED
    BY <1>5, <1>6, <2>1, <2>2, <2>3 DEF RanFreeze, RanItem
<1>15. CASE ExecuteFromProto(w)
  <2>1. CASE x.op = "submapFromProto"
    <3>1. PICK t \in Trajs : /\ x = Item("submapFromProto", t) /\ x.traj = t
                             /\ Ran(Item("submapFromProto", t))
      BY <1>9, <2>1
    <3>2. t \in Loaded
      BY <1>0, <1>5, <3>1, StepFields DEF ItemInv
    <3>3. /\ finished' = finished \cup {<<t, 0>>} /\ optSubmaps' = optSubmaps \cup {<<t, 0>>}
          /\ UNCHANGED << tstate, deletion, nodes, submaps, nodeIds, optNodes, intra, trimmers >>
      BY <1>2, <1>15, <2>1, <3>1 DEF ExecuteFromProto, Executing, stateVars, miscVars
    <3>. QED
      BY <1>5, <1>6, <3>1, <3>2, <3>3 DEF RanSubmap, RanItem
  <2>2. CASE x.op = "nodeFromProto"
    <3>1. PICK t \in Trajs : /\ x = Item("nodeFromProto", t) /\ x.traj = t
                             /\ Ran(Item("nodeFromProto", t))
      BY <1>9, <2>2
    <3>2. t \in Loaded
      BY <1>0, <1>5, <3>1, StepFields DEF ItemInv
    <3>3. /\ optNodes' = optNodes \cup {<<t, 0>>}
          /\ UNCHANGED << tstate, deletion, nodes, submaps, finished, nodeIds, optSubmaps, intra,
                          trimmers >>
      BY <1>2, <1>15, <2>2, <3>1 DEF ExecuteFromProto, Executing, stateVars, miscVars
    <3>. QED
      BY <1>5, <1>6, <3>1, <3>2, <3>3 DEF RanNode, RanItem
  <2>. QED
    BY <1>2, <1>15, <2>1, <2>2 DEF ExecuteFromProto
<1>16. CASE ExecuteNodeToSubmap(w)
  <2>1. PICK t \in Trajs : x = Item("nodeToSubmap", t) /\ x.traj = t /\ Ran(Item("nodeToSubmap", t))
    BY <1>2, <1>9, <1>16 DEF ExecuteNodeToSubmap, Executing
  <2>2. t \in Loaded
    BY <1>0, <1>5, <2>1, StepFields DEF ItemInv
  <2>3. /\ CanAddWorkItemModifying(t)
        /\ nodeIds' = nodeIds \cup {<< <<t, 0>>, <<t, 0>> >>}
        /\ UNCHANGED << tstate, deletion, nodes, submaps, finished, optNodes, optSubmaps, intra,
                        trimmers >>
    BY <1>2, <1>16, <2>1 DEF ExecuteNodeToSubmap, stateVars, optVars, miscVars
  <2>. QED
    BY <1>5, <1>6, <2>1, <2>2, <2>3 DEF RanMember, RanItem
<1>17. CASE ExecuteFinal(w)
  <2>1. x \notin Pending
    <3>1. x.op \in {"final", "iterations"}
      BY <1>2, <1>17 DEF ExecuteFinal
    <3>2. x.traj = None
      BY <3>1 DEF Items
    <3>. QED
      BY <3>2, PoseGraphAssumption DEF Pending
  <2>2. Pending' = Pending
    BY <1>5, <2>1
  <2>3. SameGraph /\ UNCHANGED << tstate, deletion, trimmers >>
    BY <1>17 DEF ExecuteFinal, SameGraph, stateVars, graphVars, optVars, miscVars
  <2>. QED
    BY <1>4, <1>5, <1>6, <2>2, <2>3 DEF Rests
<1>. QED
  BY <1>10, <1>11, <1>12, <1>13, <1>14, <1>15, <1>16, <1>17

\* Nothing is matched that was not before.
Keeps == Matches' \subseteq Matches /\ (Spent => Spent')

\* A thread searches for what it has just added to the graph.
LEMMA ScanView ==
  ASSUME IInv, PipeInv, NEW w \in Workers, ExecuteNode(w), ~ \E function : Abort(function)
  PROVE  PipeInv' /\ \E t \in Slam, i \in 0 .. MaxNodes - 1 : RanScan(t, i)
<1>0. TypeInv /\ JobType /\ ItemInv /\ TodoInv /\ JobType'
  BY NodeTypes DEF IInv, TypeInv, PipeInv
<1>1. job[w].at = "exec" /\ job[w].item.op = "node"
  BY DEF ExecuteNode, Executing
<1>2. PICK x \in Items : x = job[w].item
  BY <1>0, <1>1, JobShapes
<1>3. x.traj \in Trajs /\ x.index \in 0 .. MaxNodes - 1
  BY <1>1, <1>2, ItemShapes
<1>4. PICK t, i, n, into, front, P :
        /\ t = x.traj /\ i = x.index /\ n = <<t, i>> /\ into = InsertionSubmaps(t, i)
        /\ front = FrontOf(t, i)
        /\ P = (finished \X {n}) \cup
                 (IF x.finishes THEN {front} \X ((optNodes \ NodesIn(front)) \ {n}) ELSE {})
  OBVIOUS
<1>5. /\ n \in nodes /\ into \subseteq submaps \ finished
      /\ optSubmaps' = optSubmaps \cup into /\ optNodes' = optNodes \cup {n}
      /\ nodeIds' = nodeIds \cup (into \X {n}) /\ intra' = intra \cup (into \X {n})
      /\ finished' = IF x.finishes THEN finished \cup {front} ELSE finished
      /\ Goto(w, [at |-> "search", item |-> x, pairs |-> P])
      /\ UNCHANGED << stateVars, nodes, submaps, inter, queueVars, clientVars,
                      miscVars, failed, cbVars >>
  BY <1>2, <1>4 DEF ExecuteNode
<1>6. PICK j : j = [at |-> "search", item |-> x, pairs |-> P]
  OBVIOUS
<1>7. j \in Jobs /\ j.at = "search" /\ j.pairs = P
  <2>1. job'[w] = j
    BY <1>0, <1>5, <1>6 DEF Goto, JobType
  <2>. QED
    BY <1>0, <1>6, <2>1 DEF JobType
<1>8. UNCHANGED << queue, todo, phase, scans, numNodes, tried >>
  BY <1>5 DEF queueVars, clientVars, miscVars
<1>9. /\ PipeInv' /\ Inserts' = Inserts /\ Pending' \subseteq Pending
      /\ \A y \in Pending : y \in Pending' \/ y = x
      /\ x \notin Pending'
      /\ \A y \in Pending' : Before(x, y)
      /\ x \in Pending
  BY <1>1, <1>2, <1>3, <1>5, <1>6, <1>7, <1>8, PipeEnds
<1>10. OpenPairs = {} /\ OpenPairs' = P
  <2>1. \A v \in Workers : v # w => job[v].at = "idle"
    BY <1>0, <1>1, Alone DEF IInv
  <2>. QED
    BY <1>0, <1>1, <1>5, <1>6, <1>7, <2>1, JobMove DEF OpenPairOf
<1>11. x \notin TodoItems
  <2>1. TodoItems' = TodoItems
    BY <1>8 DEF TodoItems
  <2>2. \A y \in TodoItems' : y.traj \in Trajs => y \in Pending'
    BY DEF Pending, AllItems
  <2>. QED
    BY <1>3, <1>9, <2>1, <2>2
<1>12. t \in Slam /\ i < scans[t] /\ x = NodeItem(t, i)
  BY <1>0, <1>1, <1>2, <1>4, <1>9 DEF ItemInv
<1>13. x.finishes = FinishesFront(i)
  BY <1>12 DEF NodeItem
<1>14. Ran(NodeItem(t, i))
  BY <1>8, <1>9, <1>10, <1>11, <1>12 DEF Ran
<1>15. UNCHANGED << tstate, deletion, nodes, submaps, trimmers >>
  BY <1>5 DEF stateVars, miscVars
<1>16. RanScan(t, i)
  BY <1>3, <1>4, <1>5, <1>10, <1>12, <1>13, <1>14, <1>15 DEF RanScan
<1>. QED
  BY <1>3, <1>4, <1>9, <1>12, <1>16

\* A pair is tried.
LEMMA TryView ==
  ASSUME IInv, PipeInv, NEW w \in Workers, NEW p \in SubmapIds \X NodeIds, ComputeConstraint(w, p),
         ~ \E function : Abort(function)
  PROVE  PipeInv' /\ Tries(p) /\ (Spent => Spent') /\ Results' = Results
<1>0. TypeInv /\ JobType /\ JobType'
  BY NodeTypes DEF IInv, TypeInv
<1>1. PICK j : j = [job[w] EXCEPT !.pairs = @ \ {p}]
  OBVIOUS
<1>2. /\ job[w].at = "search" /\ p \in job[w].pairs /\ Goto(w, j)
      /\ p[1] \in finished /\ p[1] \in submaps /\ p[2] \in nodes
      /\ tried' = tried \cup {p}
      /\ CB!MaybeAddConstraint(p) \/ UNCHANGED cbVars
      /\ UNCHANGED << stateVars, graphVars, optVars, queueVars, clientVars, numNodes, trimmers >>
  BY <1>1 DEF ComputeConstraint
<1>3. j \in Jobs /\ j.at = "search" /\ j.pairs = job[w].pairs \ {p}
  <2>1. job'[w] = j
    BY <1>0, <1>2 DEF Goto, JobType
  <2>2. j \in Jobs
    BY <1>0, <2>1 DEF JobType
  <2>3. PICK item, P : job[w] = [at |-> "search", item |-> item, pairs |-> P]
    BY <1>0, <1>2, JobShapes DEF Jobs
  <2>4. j = [at |-> "search", item |-> item, pairs |-> P \ {p}]
    BY <1>1, <2>3
  <2>. QED
    BY <2>2, <2>3, <2>4
<1>4. \A v \in Workers : v # w => job[v].at = "idle"
  BY <1>0, <1>2, Alone DEF IInv
<1>5. /\ ExecItems = {} /\ ExecItems' = {} /\ OpenPairs = job[w].pairs
      /\ OpenPairs' = job[w].pairs \ {p} /\ Results = {} /\ Results' = {}
      /\ \A v \in Workers : job'[v].at \in {"idle", "search"}
  <2>1. /\ ExecItems = ExecItemOf(job[w]) /\ ExecItems' = ExecItemOf(j)
        /\ OpenPairs = OpenPairOf(job[w]) /\ OpenPairs' = OpenPairOf(j)
        /\ Results = ResultOf(job[w]) /\ Results' = ResultOf(j)
        /\ job'[w] = j /\ \A v \in Workers : v # w => job'[v].at = "idle"
    BY <1>0, <1>2, <1>3, <1>4, JobMove
  <2>. QED
    BY <1>2, <1>3, <2>1 DEF ExecItemOf, OpenPairOf, ResultOf
<1>6. UNCHANGED << queue, todo, phase, scans, numNodes >> /\ SameGraph
      /\ UNCHANGED << tstate, deletion, trimmers, inter >>
  BY <1>2 DEF queueVars, clientVars, SameGraph, stateVars, graphVars, optVars
<1>7. PipeInv' /\ Pending' = Pending /\ Inserts' = Inserts
  BY <1>5, <1>6, PipeStill
<1>8. slots' \subseteq slots \cup {p} /\ found' = found
  BY <1>2 DEF CB!MaybeAddConstraint, cbVars
<1>9. Spent'
  BY <1>5 DEF Spent
<1>. QED
  BY <1>2, <1>5, <1>6, <1>7, <1>8, <1>9 DEF Tries

\* The optimization has ended.
LEMMA CleanView ==
  ASSUME IInv, PipeInv, NEW w \in Workers, AfterOptimization(w), ~ \E function : Abort(function)
  PROVE  PipeInv' /\ Cleans /\ (Spent => slots = {} /\ found = {} /\ Spent')
<1>0. TypeInv /\ JobType
  BY DEF IInv, TypeInv
<1>1. /\ Gone \subseteq finished \cap submaps
      /\ tstate' = [t \in Trajs |-> IF t \in Deleted \cup Ended THEN "DELETED" ELSE tstate[t]]
      /\ deletion' = [t \in Trajs |-> IF t \in Deleted THEN "NORMAL" ELSE deletion[t]]
      /\ submaps' = submaps \ Gone /\ finished' = finished \ Gone
      /\ nodes' = nodes \ NodesGoneWith(Gone)
      /\ nodeIds' = {p \in nodeIds : p[1] \notin Gone}
      /\ intra' = KeptConstraints(intra, Gone) /\ inter' = KeptConstraints(inter, Gone)
      /\ optSubmaps' = optSubmaps \ Gone /\ optNodes' = optNodes \ NodesGoneWith(Gone)
      /\ CB!DeleteScanMatchers(MatchersGoneWith(Gone))
      /\ trimmers' = trimmers \ Ended
      /\ Goto(w, [at |-> "drain"]) /\ job[w].at = "optimized"
      /\ UNCHANGED << queueVars, clientVars, numNodes, tried, failed >>
  BY Zenon DEF AfterOptimization, Deleted, Ended, Gone
<1>2. PICK j \in Jobs : j = [at |-> "drain"] /\ Goto(w, j) /\ j.at = "drain"
  BY <1>1, JobsMade
<1>3. \A v \in Workers : v # w => job[v].at = "idle"
  BY <1>0, <1>1, Alone DEF IInv
<1>4. /\ ExecItems = {} /\ ExecItems' = {} /\ OpenPairs = {} /\ OpenPairs' = {} /\ Results' = {}
      /\ \A v \in Workers : job'[v].at \in {"idle", "drain"}
  <2>1. /\ ExecItems = ExecItemOf(job[w]) /\ ExecItems' = ExecItemOf(j)
        /\ OpenPairs = OpenPairOf(job[w]) /\ OpenPairs' = OpenPairOf(j)
        /\ Results' = ResultOf(j)
        /\ job'[w] = j /\ \A v \in Workers : v # w => job'[v].at = "idle"
    BY <1>0, <1>2, <1>3, JobMove
  <2>. QED
    BY <1>1, <1>2, <2>1 DEF ExecItemOf, OpenPairOf, ResultOf
<1>5. UNCHANGED << queue, todo, phase, scans, numNodes >>
  BY <1>1 DEF queueVars, clientVars
<1>6. PipeInv' /\ Pending' = Pending /\ Inserts' = Inserts
  BY <1>4, <1>5, PipeStill
<1>7. slots' = slots /\ found' = found
  BY <1>1 DEF CB!DeleteScanMatchers
<1>8. Spent' /\ (Spent => slots = {} /\ found = {})
  BY <1>1, <1>4 DEF Spent
<1>. QED
  BY <1>1, <1>4, <1>5, <1>6, <1>7, <1>8 DEF Cleans

LEMMA FrameKeeps ==
  ASSUME UNCHANGED << slots, found, inter, job >>
  PROVE  Keeps /\ OpenPairs' = OpenPairs /\ ExecItems' = ExecItems
<1>1. Results' = Results /\ OpenPairs' = OpenPairs /\ ExecItems' = ExecItems
  BY DEF Results, OpenPairs, ExecItems
<1>. QED
  BY <1>1 DEF Keeps, Matches, Spent

\* A thread that takes no result but the one it has.
LEMMA ThreadKeeps ==
  ASSUME JobType, NEW w \in Workers, \A v \in Workers : v # w => job[v].at = "idle",
         NEW j \in Jobs, Goto(w, j), UNCHANGED << slots, found >>,
         inter' \subseteq inter \cup ResultOf(job[w]), ResultOf(j) \subseteq ResultOf(job[w]),
         j.at \in {"handle", "solving", "optimized"}
           => job[w].at \in {"handle", "solving", "optimized"}
  PROVE  Keeps
<1>1. /\ Results = ResultOf(job[w]) /\ Results' = ResultOf(j)
      /\ job'[w] = j /\ \A v \in Workers : v # w => job'[v].at = "idle"
  BY JobMove
<1>2. Matches' \subseteq Matches
  BY <1>1 DEF Matches
<1>3. Spent => Spent'
  BY <1>1 DEF Spent
<1>. QED
  BY <1>2, <1>3 DEF Keeps

LEMMA ItemKeeps ==
  ASSUME IInv, NEW w \in Workers,
         \/ ExecuteData(w) \/ ExecuteFinish(w) \/ ExecuteDelete(w) \/ ExecuteFreeze(w)
         \/ ExecuteFromProto(w) \/ ExecuteNodeToSubmap(w) \/ ExecuteTrimmer(w)
         \/ ExecuteFinal(w) \/ ExecuteNode(w),
         ~ \E function : Abort(function)
  PROVE  Keeps
<1>0. TypeInv /\ JobType /\ JobType'
  BY StepTypes, ItemTypes, NodeTypes DEF IInv, TypeInv
<1>1. job[w].at = "exec"
  BY DEF ExecuteData, ExecuteFinish, ExecuteDelete, ExecuteFreeze, ExecuteFromProto,
     ExecuteNodeToSubmap, ExecuteTrimmer, ExecuteFinal, ExecuteNode, Executing
<1>2. UNCHANGED << slots, found, inter >>
  BY DEF ExecuteData, ExecuteFinish, ExecuteDelete, ExecuteFreeze, ExecuteFromProto,
     ExecuteNodeToSubmap, ExecuteTrimmer, ExecuteFinal, ExecuteNode, optVars, cbVars, Abort
<1>3. \E j : Goto(w, j) /\ j.at \in {"drain", "whendone", "search"}
  <2>1. CASE ExecuteNode(w)
    <3>1. \E item, P : Goto(w, [at |-> "search", item |-> item, pairs |-> P])
      BY <2>1 DEF ExecuteNode
    <3>2. PICK item, P : Goto(w, [at |-> "search", item |-> item, pairs |-> P])
      BY <3>1
    <3>. QED
      BY <3>2
  <2>2. CASE ~ExecuteNode(w)
    <3>1. \E r : AfterItem(w, r)
      BY <2>2 DEF ExecuteData, ExecuteFinish, ExecuteDelete, ExecuteFreeze, ExecuteFromProto,
         ExecuteNodeToSubmap, ExecuteTrimmer, ExecuteFinal
    <3>2. PICK a \in {"drain", "whendone"} : Goto(w, [at |-> a])
      BY <3>1 DEF AfterItem
    <3>. QED
      BY <3>2
  <2>. QED
    BY <2>1, <2>2
<1>4. PICK j : Goto(w, j) /\ j.at \in {"drain", "whendone", "search"}
  BY <1>3
<1>5. j \in Jobs
  BY <1>0, <1>4 DEF Goto, JobType
<1>6. \A v \in Workers : v # w => job[v].at = "idle"
  BY <1>0, <1>1, Alone DEF IInv
<1>. QED
  BY <1>0, <1>2, <1>4, <1>5, <1>6, ThreadKeeps DEF ResultOf

\* Steps that the graph does not see.
LEMMA RestsMade ==
  ASSUME SameGraph, UNCHANGED << phase, scans, tstate, deletion, trimmers, tried, todo, queue,
                                 numNodes >>,
         PipeInv, ExecItems' = ExecItems, OpenPairs' = OpenPairs
  PROVE  PipeInv' /\ Rests
BY PipeStill DEF Rests

LEMMA AbortRests ==
  ASSUME IInv, PipeInv, NEW function, Abort(function)
  PROVE  PipeInv' /\ Rests /\ Keeps
<1>1. UNCHANGED << slots, found, inter, job, phase, scans, tstate, deletion, trimmers, tried,
                   todo, queue, numNodes >> /\ SameGraph
  BY DEF Abort, SameGraph, stateVars, graphVars, optVars, queueVars, clientVars, miscVars, cbVars
<1>. QED
  BY <1>1, FrameKeeps, RestsMade

LEMMA ClientRests ==
  ASSUME IInv, PipeInv,
         \/ AddWorkItem \/ SampleNumNodes \/ AwaitQueue \/ AwaitNotification \/ Destruct
  PROVE  PipeInv' /\ Rests /\ Keeps
<1>1. CASE \E function : Abort(function)
  BY <1>1, AbortRests
<1>2. CASE AddWorkItem
  <2>1. UNCHANGED << slots, found, inter, job, phase, scans, tstate, deletion, trimmers, tried >>
        /\ SameGraph
    BY <1>2 DEF AddWorkItem, StepDone, SameGraph, stateVars, graphVars, optVars, miscVars, cbVars
  <2>. QED
    BY <1>2, <2>1, PipeAdds, FrameKeeps DEF Rests
<1>3. CASE (~ \E function : Abort(function)) /\ ~AddWorkItem
  <2>1. UNCHANGED << slots, found, inter, tstate, deletion, trimmers, tried >> /\ SameGraph
    <3>1. CASE AwaitQueue
      <4>1. UNCHANGED << slots, found >>
        BY <3>1, AwaitEffect DEF IInv
      <4>. QED
        BY <3>1, <4>1 DEF AwaitQueue, SameGraph, stateVars, graphVars, optVars, miscVars
    <3>2. CASE ~AwaitQueue
      BY <1>3, <3>2 DEF SampleNumNodes, AwaitNotification, Destruct, NoEffect, SameGraph, stateVars,
         graphVars, optVars, miscVars, cbVars
    <3>. QED
      BY <3>1, <3>2
  <2>2. /\ PipeInv' /\ Pending' = Pending /\ Inserts' = Inserts
        /\ UNCHANGED << phase, scans, job >>
    BY <1>3, PipeWaits
  <2>. QED
    BY <2>1, <2>2, FrameKeeps DEF Rests
<1>. QED
  BY <1>1, <1>2, <1>3

\* A thread that goes on, and executes nothing.
LEMMA ThreadRests ==
  ASSUME IInv, PipeInv, NEW w \in Workers, Worker(w), NEW j \in Jobs, Goto(w, j),
         job[w].at # "exec", j.at # "exec", OpenPairOf(j) = OpenPairOf(job[w]),
         UNCHANGED << slots, found >>,
         inter' \subseteq inter \cup ResultOf(job[w]), ResultOf(j) \subseteq ResultOf(job[w]),
         j.at \in {"handle", "solving", "optimized"}
           => job[w].at \in {"handle", "solving", "optimized"},
         SameGraph, UNCHANGED << phase, scans, tstate, deletion, trimmers, tried, todo, queue,
                                 numNodes >>
  PROVE  PipeInv' /\ Rests /\ Keeps
<1>1. JobType /\ \A v \in Workers : v # w => job[v].at = "idle"
  BY OthersIdle DEF IInv, TypeInv
<1>2. Keeps
  BY <1>1, ThreadKeeps
<1>3. ExecItems' = ExecItems /\ OpenPairs' = OpenPairs
  BY <1>1, JobMove DEF ExecItemOf
<1>. QED
  BY <1>2, <1>3, RestsMade

LEMMA WorkerRests ==
  ASSUME IInv, PipeInv, NEW w \in Workers,
         \/ StartDrain(w) \/ PopWorkItem(w) \/ CallWhenDone(w) \/ EndOfNode(w) \/ TakeCallback(w)
         \/ Notify(w) \/ HandleWorkQueue(w) \/ EndSolve(w)
  PROVE  PipeInv' /\ Rests /\ Keeps
<1>0. TypeInv /\ JobType /\ Worker(w) /\ \A v \in Workers : v # w => job[v].at = "idle"
  BY OthersIdle DEF IInv, TypeInv, Worker
<1>1. CASE \E function : Abort(function)
  BY <1>1, AbortRests
<1>2. CASE StartDrain(w)
  <2>1. PICK j \in Jobs : j = [at |-> "drain"] /\ j.at = "drain"
    BY JobsMade
  <2>2. Goto(w, j) /\ job[w].at = "idle" /\ SameGraph
        /\ UNCHANGED << slots, found, inter, phase, scans, tstate, deletion, trimmers, tried, todo,
                        queue, numNodes >>
    BY <1>2, <2>1 DEF StartDrain, Idle, SameGraph, stateVars, graphVars, optVars, clientVars,
       miscVars, cbVars
  <2>. QED
    BY <1>0, <2>1, <2>2, ThreadRests DEF OpenPairOf, ResultOf
<1>3. CASE PopWorkItem(w)
  <2>1. PICK j : /\ Goto(w, j) /\ j.at \in {"idle", "exec"}
    BY <1>3 DEF PopWorkItem, Idle
  <2>2. j \in Jobs
    <3>1. JobType'
      <4>1. TypeInv'
        BY <1>0, <1>3, ThreadTypes DEF IInv
      <4>. QED
        BY <4>1 DEF TypeInv
    <3>. QED
      BY <1>0, <2>1, <3>1 DEF Goto, JobType
  <2>3. job[w].at = "drain" /\ SameGraph
        /\ UNCHANGED << slots, found, inter, phase, scans, tstate, deletion, trimmers, tried >>
    BY <1>3 DEF PopWorkItem, SameGraph, stateVars, graphVars, optVars, clientVars, miscVars, cbVars
  <2>4. OpenPairs' = OpenPairs /\ Keeps
    BY <1>0, <2>1, <2>2, <2>3, JobMove, ThreadKeeps DEF OpenPairOf, ResultOf
  <2>. QED
    BY <1>3, <2>3, <2>4, PipePops DEF Rests
<1>4. CASE CallWhenDone(w)
  <2>1. PICK j \in Jobs : j = Idle /\ j.at = "idle"
    BY JobsMade DEF Idle
  <2>2. Goto(w, j) /\ job[w].at = "whendone" /\ UNCHANGED << slots, found >>
    BY <1>0, <1>4, <2>1, CallEffect DEF IInv
  <2>3. SameGraph
        /\ UNCHANGED << inter, phase, scans, tstate, deletion, trimmers, tried, todo,
                        queue, numNodes >>
    BY <1>4 DEF CallWhenDone, SameGraph, stateVars, graphVars, optVars, clientVars, queueVars,
       miscVars
  <2>. QED
    BY <1>0, <2>1, <2>2, <2>3, ThreadRests DEF OpenPairOf, ResultOf
<1>5. CASE EndOfNode(w)
  <2>1. PICK a \in {"drain", "whendone"} : AfterItem(w, a = "whendone") /\ Goto(w, [at |-> a])
    BY <1>5 DEF EndOfNode, AfterItem
  <2>2. PICK j \in Jobs : j = [at |-> a] /\ j.at = a
    BY JobsMade
  <2>3. Goto(w, j) /\ job[w].at = "search" /\ job[w].pairs = {} /\ SameGraph
        /\ UNCHANGED << slots, found, inter, phase, scans, tstate, deletion, trimmers, tried, todo,
                        queue, numNodes >>
    BY <1>5, <2>1, <2>2 DEF EndOfNode, SameGraph, stateVars, graphVars, optVars, clientVars,
       queueVars, CB!NotifyEndOfNode, CB!searchVars
  <2>. QED
    BY <1>0, <2>2, <2>3, ThreadRests DEF OpenPairOf, ResultOf
<1>6. CASE TakeCallback(w)
  <2>1. PICK a \in {"handle", "wait"} : a = callback
    BY <1>0, <1>6, EverythingDone DEF IInv
  <2>2. PICK j \in Jobs : j = [at |-> a, result |-> found] /\ j.at = a /\ j.result = found
    <3>1. found \in SUBSET Pairs
      BY <1>0 DEF TypeInv, BuilderType, CB!CBTypeOK, CB!Searches, Pairs
    <3>. QED
      BY <3>1, JobsMade
  <2>3. Goto(w, j) /\ job[w].at = "idle" /\ SameGraph
        /\ UNCHANGED << inter, phase, scans, tstate, deletion, trimmers, tried, todo,
                        queue, numNodes >>
    BY <1>6, <2>1, <2>2 DEF TakeCallback, Idle, SameGraph, stateVars, graphVars, optVars,
       clientVars, queueVars, miscVars
  <2>4. slots' = {} /\ found' = {}
    BY <1>6 DEF TakeCallback, CB!RunWhenDone
  <2>5. /\ ExecItems' = ExecItems /\ OpenPairs' = OpenPairs /\ Results' = found
    BY <1>0, <2>2, <2>3, JobMove DEF ExecItemOf, OpenPairOf, ResultOf
  <2>6. Keeps
    BY <2>3, <2>4, <2>5 DEF Keeps, Matches, Spent
  <2>. QED
    BY <2>3, <2>5, <2>6, RestsMade
<1>7. CASE Notify(w)
  <2>1. PICK j \in Jobs : j = Idle /\ j.at = "idle"
    BY JobsMade DEF Idle
  <2>2. Goto(w, j) /\ job[w].at = "wait" /\ SameGraph /\ inter' = inter \cup job[w].result
        /\ UNCHANGED << slots, found, phase, scans, tstate, deletion, trimmers, tried, todo,
                        queue, numNodes >>
    BY <1>7, <2>1 DEF Notify, SameGraph, stateVars, graphVars, queueVars, miscVars, cbVars
  <2>. QED
    BY <1>0, <2>1, <2>2, ThreadRests DEF OpenPairOf, ResultOf
<1>8. CASE HandleWorkQueue(w)
  <2>1. PICK R \in SUBSET Pairs : job[w] = [at |-> "handle", result |-> R]
    BY <1>0, <1>8, JobShapes DEF HandleWorkQueue, Jobs
  <2>2. PICK a \in {"optimized", "solving"} : Goto(w, [job[w] EXCEPT !.at = a])
    BY <1>8 DEF HandleWorkQueue
  <2>3. PICK j \in Jobs : j = [at |-> a, result |-> R] /\ j.at = a /\ j.result = R
    BY JobsMade
  <2>4. j = [job[w] EXCEPT !.at = a]
    BY <2>1, <2>3
  <2>5. SameGraph /\ inter' = inter \cup job[w].result
        /\ UNCHANGED << slots, found, phase, scans, tstate, deletion, trimmers, tried, todo,
                        queue, numNodes >>
    BY <1>8 DEF HandleWorkQueue, SameGraph, stateVars, graphVars, queueVars, clientVars, miscVars,
       cbVars
  <2>. QED
    BY <1>0, <2>1, <2>2, <2>3, <2>4, <2>5, ThreadRests DEF OpenPairOf, ResultOf
<1>9. CASE EndSolve(w) /\ ~ \E function : Abort(function)
  <2>1. PICK R \in SUBSET Pairs : job[w] = [at |-> "solving", result |-> R]
    BY <1>0, <1>9, JobShapes DEF EndSolve, Jobs
  <2>2. PICK j \in Jobs : /\ j = [at |-> "optimized", result |-> R] /\ j.at = "optimized"
                          /\ j.result = R
    BY JobsMade
  <2>3. j = [job[w] EXCEPT !.at = "optimized"]
    BY <2>1, <2>2
  <2>4. SameGraph /\ Goto(w, j)
        /\ UNCHANGED << slots, found, inter, phase, scans, tstate, deletion, trimmers, tried, todo,
                        queue, numNodes >>
    BY <1>9, <2>3 DEF EndSolve, SameGraph, stateVars, graphVars, queueVars, clientVars, miscVars,
       cbVars, optVars
  <2>. QED
    BY <1>0, <2>1, <2>2, <2>4, ThreadRests DEF OpenPairOf, ResultOf
<1>. QED
  BY <1>1, <1>2, <1>3, <1>4, <1>5, <1>6, <1>7, <1>8, <1>9

LEMMA TaskRests ==
  ASSUME IInv, PipeInv, BuilderTask
  PROVE  PipeInv' /\ Rests /\ Keeps
<1>1. SameGraph /\ UNCHANGED << inter, phase, scans, tstate, deletion, trimmers, tried, todo,
                                queue, numNodes, job >>
  BY DEF BuilderTask, SameGraph, stateVars, graphVars, queueVars, clientVars, miscVars, optVars
<1>2. ExecItems' = ExecItems /\ OpenPairs' = OpenPairs /\ Results' = Results
  BY <1>1 DEF ExecItems, OpenPairs, Results
<1>3. slots' = slots /\ (found' = found \/ \E p \in outstanding : found' \subseteq found \cup {p})
  BY DEF BuilderTask, CB!CBTask, CB!BuildMatcher, CB!Compute, CB!FinishNode, CB!searchVars
<1>4. outstanding \subseteq slots
  BY DEF IInv, ReachInv, SearchesReachable, CB!PointeesAlive
<1>5. Matches' \subseteq Matches
  BY <1>1, <1>2, <1>3, <1>4 DEF Matches
<1>6. Spent => Spent'
  BY <1>1, <1>3, <1>4 DEF Spent
<1>. QED
  BY <1>1, <1>2, <1>5, <1>6, RestsMade DEF Keeps

\* A call of the client; the end of AddNode's, AddSubmapFromProto's or
\* AddNodeFromProto's first critical section; that of DeleteTrajectory.
Calls(t) ==
  /\ Builds(t) \/ Sends(t) \/ Finishes(t) \/ Deletes(t) \/ Adds(t) \/ Loads(t)
  /\ Inserts = {} /\ TodoItems = {}
  /\ SameGraph /\ UNCHANGED << tstate, deletion, trimmers, tried >> /\ OpenPairs' = OpenPairs

Puts ==
  /\ InsertsScan \/ InsertsLoadedSubmap \/ InsertsLoadedNode
  /\ Pending' = Pending /\ OpenPairs' = OpenPairs

Marks(t) ==
  /\ t \in MayDelete /\ phase[t] = "deleted"
  /\ \/ UNCHANGED deletion
     \/ /\ tstate[t] # "unknown" /\ deletion' = [deletion EXCEPT ![t] = "SCHEDULED_FOR_DELETION"]
        /\ Item("delete", t) \in Pending
  /\ Pending' \subseteq Pending /\ \A y \in Pending : y \in Pending' \/ y.op = "delete"
  /\ Inserts = {} /\ Inserts' = {}
  /\ SameGraph /\ UNCHANGED << phase, scans, tstate, trimmers, tried >> /\ OpenPairs' = OpenPairs

Views ==
  \/ /\ Keeps
     /\ \/ Rests \/ Puts \/ RanAny
        \/ \E t \in Trajs : Calls(t) \/ Marks(t)
  \/ (\E p \in Pairs : Tries(p)) /\ (Spent => Spent') /\ Results' = Results
  \/ Cleans /\ (Spent => slots = {} /\ found = {} /\ Spent')

LEMMA CallView ==
  ASSUME IInv, PipeInv, ClientCalls
  PROVE  PipeInv' /\ Views
<1>1. /\ PipeInv' /\ Inserts = {} /\ TodoItems = {} /\ todo = << >>
      /\ UNCHANGED << stateVars, graphVars, optVars, queueVars, miscVars, job, failed, cbVars >>
      /\ \/ \E t \in Trajs : Builds(t) \/ Sends(t) \/ Finishes(t) \/ Deletes(t) \/ Adds(t) \/ Loads(t)
         \/ Waits
  BY PipeCalls
<1>2. SameGraph /\ UNCHANGED << tstate, deletion, trimmers, tried, slots, found, inter, job >>
  BY <1>1 DEF SameGraph, stateVars, graphVars, optVars, miscVars, cbVars
<1>3. Keeps /\ OpenPairs' = OpenPairs
  BY <1>2, FrameKeeps
<1>4. CASE Waits
  BY <1>1, <1>2, <1>3, <1>4 DEF Waits, Brings, Rests, Views
<1>5. CASE ~Waits
  <2>1. PICK t \in Trajs :
          Builds(t) \/ Sends(t) \/ Finishes(t) \/ Deletes(t) \/ Adds(t) \/ Loads(t)
    BY <1>1, <1>5
  <2>2. Calls(t)
    BY <1>1, <1>2, <1>3, <2>1 DEF Calls
  <2>. QED
    BY <1>1, <1>3, <2>2 DEF Views
<1>. QED
  BY <1>4, <1>5

LEMMA StepView ==
  ASSUME IInv, PipeInv, ClientSteps
  PROVE  PipeInv' /\ Views
<1>1. CASE \E function : Abort(function)
  BY <1>1, AbortRests DEF Views
<1>2. CASE AddWorkItem \/ SampleNumNodes \/ AwaitQueue \/ AwaitNotification \/ Destruct
  BY <1>2, ClientRests DEF Views
<1>3. CASE Insert /\ ~ \E function : Abort(function)
  <2>1. PipeInv' /\ Pending' = Pending /\ (InsertsScan \/ InsertsLoadedSubmap \/ InsertsLoadedNode)
    BY <1>3, PipeInserts
  <2>2. UNCHANGED << slots, found, inter, job >>
    BY <1>3 DEF Insert, Abort, optVars, cbVars
  <2>. QED
    BY <2>1, <2>2, FrameKeeps DEF Puts, Views
<1>4. CASE MarkForDeletion
  <2>1. /\ PipeInv' /\ Inserts' = Inserts /\ Inserts = {} /\ Pending' \subseteq Pending
        /\ \A y \in Pending : y \in Pending' \/ y.op = "delete"
        /\ \E t \in MayDelete :
             /\ phase[t] = "deleted" /\ Item("delete", t) \in Pending
             /\ \/ UNCHANGED deletion
                \/ /\ tstate[t] # "unknown"
                   /\ deletion' = [deletion EXCEPT ![t] = "SCHEDULED_FOR_DELETION"]
    BY <1>4, PipeMarks
  <2>2. /\ UNCHANGED << slots, found, inter, job, phase, scans, tstate, trimmers, tried >>
        /\ SameGraph
    BY <1>4 DEF MarkForDeletion, SameGraph, graphVars, optVars, miscVars, cbVars
  <2>3. Keeps /\ OpenPairs' = OpenPairs
    BY <2>2, FrameKeeps
  <2>4. \E t \in Trajs : Marks(t)
    BY <2>1, <2>2, <2>3, PoseGraphAssumption DEF Marks
  <2>. QED
    BY <2>1, <2>3, <2>4 DEF Views
<1>. QED
  BY <1>1, <1>2, <1>3, <1>4 DEF ClientSteps

LEMMA WorkerView ==
  ASSUME IInv, PipeInv, NEW w \in Workers, Worker(w)
  PROVE  PipeInv' /\ Views
<1>1. CASE \E function : Abort(function)
  BY <1>1, AbortRests DEF Views
<1>2. CASE ~ \E function : Abort(function)
  <2>1. CASE \/ StartDrain(w) \/ PopWorkItem(w) \/ CallWhenDone(w) \/ EndOfNode(w)
             \/ TakeCallback(w) \/ Notify(w) \/ HandleWorkQueue(w) \/ EndSolve(w)
    BY <2>1, WorkerRests DEF Views
  <2>2. CASE \/ ExecuteData(w) \/ ExecuteFinish(w) \/ ExecuteDelete(w) \/ ExecuteFreeze(w)
             \/ ExecuteFromProto(w) \/ ExecuteNodeToSubmap(w) \/ ExecuteTrimmer(w)
             \/ ExecuteFinal(w)
    BY <1>2, <2>2, ItemViews, ItemKeeps DEF Views, RanAny
  <2>3. CASE ExecuteNode(w)
    BY <1>2, <2>3, ScanView, ItemKeeps DEF Views, RanAny
  <2>4. CASE \E p \in SubmapIds \X NodeIds : ComputeConstraint(w, p)
    <3>1. PICK p \in SubmapIds \X NodeIds : ComputeConstraint(w, p)
      BY <2>4
    <3>2. PipeInv' /\ Tries(p) /\ (Spent => Spent') /\ Results' = Results
      BY <1>2, <3>1, TryView
    <3>. QED
      BY <3>2 DEF Views, Pairs
  <2>5. CASE AfterOptimization(w)
    BY <1>2, <2>5, CleanView DEF Views
  <2>. QED
    BY <2>1, <2>2, <2>3, <2>4, <2>5 DEF Worker
<1>. QED
  BY <1>1, <1>2

LEMMA NextView == IInv /\ PipeInv /\ [Next]_vars => PipeInv' /\ Views
<1> SUFFICES ASSUME IInv, PipeInv, [Next]_vars PROVE PipeInv' /\ Views
  OBVIOUS
<1>1. CASE BuilderTask
  BY <1>1, TaskRests DEF Views
<1>2. CASE UNCHANGED vars
  <2>1. UNCHANGED << slots, found, inter, job, phase, scans, tstate, deletion, trimmers, tried,
                     todo, queue, numNodes >> /\ SameGraph
    BY <1>2 DEF vars, SameGraph, stateVars, graphVars, optVars, queueVars, clientVars, miscVars,
       cbVars
  <2>. QED
    BY <2>1, FrameKeeps, RestsMade DEF Views
<1>. QED
  BY <1>1, <1>2, CallView, StepView, WorkerView DEF Next, Stopped

-----------------------------------------------------------------------------
(* The steps keep LifeInv.                                                 *)

\* Nothing happens to the trajectory that its life depends on.
LifeSame(r) ==
  /\ tstate'[r] = tstate[r] /\ deletion'[r] = deletion[r] /\ phase'[r] = phase[r]
  /\ \A x \in Pending' : x.traj = r => x \in Pending
  /\ \A op \in {"finish", "freeze"} : Item(op, r) \in Pending => Item(op, r) \in Pending'

LEMMA LifeFrame ==
  ASSUME NEW r \in Trajs, Life(r), LifeSame(r)
  PROVE  Life(r)'
<1>1. /\ \A x \in Pending' : x.traj = r => x \in Pending
      /\ \A op \in {"finish", "freeze"} : Item(op, r) \in Pending <=> Item(op, r) \in Pending'
  BY StepFields DEF LifeSame
<1>2. (\A x \in Pending : x.traj # r) => \A x \in Pending' : x.traj # r
  BY <1>1
<1>. QED
  BY <1>1, <1>2 DEF LifeSame, Life, Finished

LEMMA ItemsDiffer ==
  /\ \A o, p, r, t : Item(o, r) = Item(p, t) => o = p /\ r = t
  /\ \A o, r, t, i : Item(o, r) # NodeItem(t, i)
  /\ \A r, t, i, k : NodeItem(r, k) = NodeItem(t, i) => r = t /\ k = i
<1>1. \A o, p, r, t : Item(o, r) = Item(p, t) => o = p /\ r = t
  BY StepFields
<1>2. \A o, r, t, i : Item(o, r) # NodeItem(t, i)
  <2>1. \A o, r : DOMAIN Item(o, r) = {"op", "traj"}
    BY DEF Item
  <2>2. \A t, i : DOMAIN NodeItem(t, i) = {"op", "traj", "index", "finishes"}
    BY DEF NodeItem
  <2>3. "index" \notin {"op", "traj"} /\ "index" \in {"op", "traj", "index", "finishes"}
    OBVIOUS
  <2>. QED
    BY <2>1, <2>2, <2>3
<1>3. \A r, t, i, k : NodeItem(r, k) = NodeItem(t, i) => r = t /\ k = i
  BY StepFields
<1>. QED
  BY <1>1, <1>2, <1>3

\* The graph's part of LifeInv.
LEMMA LifeKept ==
  ASSUME LifeInv, \A r \in Trajs : Life(r)', trimmers' \subseteq Localizing,
         \A r \in Trajs : tstate[r] # "unknown" => tstate'[r] # "unknown",
         \A n \in nodes' : n \in nodes \/ tstate'[n[1]] # "unknown",
         \A s \in submaps' : s \in submaps \/ tstate'[s[1]] # "unknown",
         GraphType
  PROVE  LifeInv'
<1>1. \A n \in nodes : n[1] \in Trajs
  BY DEF GraphType, NodeIds
<1>2. \A s \in submaps : s[1] \in Trajs
  BY DEF GraphType, SubmapIds
<1>3. \A n \in nodes' : tstate'[n[1]] # "unknown"
  BY <1>1 DEF LifeInv
<1>4. \A s \in submaps' : tstate'[s[1]] # "unknown"
  BY <1>2 DEF LifeInv
<1>. QED
  BY <1>3, <1>4 DEF LifeInv

LEMMA LifeRests ==
  ASSUME IInv, LifeInv, Rests \/ \E p \in Pairs : Tries(p)
  PROVE  LifeInv'
<1>1. GraphType /\ UNCHANGED << tstate, deletion, phase, trimmers, nodes, submaps >> /\ Pending' = Pending
  BY DEF IInv, TypeInv, Rests, Tries, SameGraph
<1>2. \A r \in Trajs : Life(r)'
  BY <1>1, LifeFrame DEF LifeSame, LifeInv
<1>. QED
  BY <1>1, <1>2, LifeKept DEF LifeInv

LEMMA LifePuts ==
  ASSUME IInv, PipeInv, LifeInv, Puts
  PROVE  LifeInv'
<1>0. /\ GraphType /\ tstate \in [Trajs -> {"unknown", "ACTIVE", "FINISHED", "FROZEN", "DELETED"}]
      /\ LifeInv
  BY DEF IInv, TypeInv, StateType
<1>1. PICK t, N, S, c :
        /\ t \in Trajs /\ (\A n \in N : n[1] = t) /\ (\A s \in S : s[1] = t)
        /\ phase[t] \in {"open", "loaded"}
        /\ Inserted(t, N, S, c)
  <2>1. CASE InsertsScan
    <3>1. PICK t \in Slam, i \in 0 .. MaxNodes - 1 :
            phase[t] = "open" /\ Inserted(t, {<<t, i>>}, {<<t, BackOf(i)>>}, 1)
      BY <2>1 DEF InsertsScan
    <3>2. t \in Trajs
      BY DEF Slam
    <3>. QED
      BY <3>1, <3>2
  <2>2. CASE InsertsLoadedSubmap
    <3>1. PICK t \in Loaded : phase[t] = "loaded" /\ Inserted(t, {}, {<<t, 0>>}, 0)
      BY <2>2 DEF InsertsLoadedSubmap
    <3>. QED
      BY <3>1, PoseGraphAssumption
  <2>3. CASE InsertsLoadedNode
    <3>1. PICK t \in Loaded : phase[t] = "loaded" /\ Inserted(t, {<<t, 0>>}, {}, 0)
      BY <2>3 DEF InsertsLoadedNode
    <3>. QED
      BY <3>1, PoseGraphAssumption
  <2>. QED
    BY <2>1, <2>2, <2>3 DEF Puts
<1>2. /\ tstate[t] \notin {"FINISHED", "DELETED"} /\ deletion[t] = "NORMAL"
      /\ tstate' = [tstate EXCEPT ![t] = StateAfterAdd(t)]
      /\ nodes' = nodes \cup N /\ submaps' = submaps \cup S
      /\ UNCHANGED << phase, deletion, trimmers >> /\ Pending' = Pending
  BY <1>1 DEF Inserted, CanAddWorkItemModifying, Puts
<1>3. /\ tstate'[t] = StateAfterAdd(t) /\ \A r \in Trajs : r # t => tstate'[r] = tstate[r]
      /\ StateAfterAdd(t) = IF tstate[t] = "unknown" THEN "ACTIVE" ELSE tstate[t]
  BY <1>0, <1>1, <1>2 DEF StateAfterAdd
<1>4. ASSUME NEW r \in Trajs, r # t \/ tstate[t] # "unknown" PROVE Life(r)'
  BY <1>0, <1>2, <1>3, <1>4, LifeFrame DEF LifeSame, LifeInv
<1>5. CASE tstate[t] = "unknown"
  <2>1. Life(t)
    BY <1>0, <1>1 DEF LifeInv
  <2>2. /\ tstate'[t] = "ACTIVE" /\ deletion'[t] = "NORMAL" /\ phase'[t] = phase[t]
    BY <1>2, <1>3, <1>5
  <2>3. Life(t)'
    BY <1>1, <1>2, <1>5, <2>1, <2>2 DEF Life, Finished
  <2>. QED
    BY <1>0, <1>1, <1>2, <1>3, <1>4, <2>2, <2>3, LifeKept DEF LifeInv
<1>6. CASE tstate[t] # "unknown"
  <2>1. \A r \in Trajs : Life(r)'
    BY <1>4, <1>6
  <2>2. \A r \in Trajs : tstate'[r] = tstate[r]
    BY <1>3, <1>6
  <2>. QED
    BY <1>0, <1>1, <1>2, <1>6, <2>1, <2>2, LifeKept DEF LifeInv
<1>. QED
  BY <1>5, <1>6

\* What a thread's item leaves of the other trajectories.
LEMMA RanSame ==
  ASSUME LifeInv, NEW x, Ran(x), NEW r \in Trajs,
         tstate'[r] = tstate[r], deletion'[r] = deletion[r],
         x # Item("finish", r), x # Item("freeze", r)
  PROVE  Life(r)'
<1>1. LifeSame(r)
  BY DEF LifeSame, Ran
<1>. QED
  BY <1>1, LifeFrame DEF LifeInv

LEMMA LifeRuns ==
  ASSUME IInv, PipeInv, LifeInv, RanAny
  PROVE  LifeInv'
<1>0. /\ GraphType /\ ItemInv /\ StateType
      /\ tstate \in [Trajs -> {"unknown", "ACTIVE", "FINISHED", "FROZEN", "DELETED"}]
      /\ deletion \in [Trajs -> {"NORMAL", "SCHEDULED_FOR_DELETION", "WAIT_FOR_DELETION"}]
  BY DEF IInv, PipeInv, TypeInv, StateType
<1>1. nodes' = nodes /\ submaps' = submaps
  BY DEF RanAny, RanItem, RanIdly, RanFinish, RanDelete, RanFreeze, RanSubmap, RanNode, RanMember, RanScan,
     SameGraph
<1>2. trimmers' \subseteq Localizing
  BY DEF LifeInv, RanAny, RanItem, RanIdly, RanFinish, RanDelete, RanFreeze, RanSubmap, RanNode, RanMember, RanScan
<1>3. ASSUME \A r \in Trajs : Life(r)',
             \A r \in Trajs : tstate[r] # "unknown" => tstate'[r] # "unknown"
      PROVE  LifeInv'
  BY <1>0, <1>1, <1>2, <1>3, LifeKept
<1>4. ASSUME NEW t \in Trajs, RanIdly(t) PROVE LifeInv'
  BY <1>3, <1>4, RanSame, ItemsDiffer DEF RanIdly
<1>5. ASSUME NEW t \in Trajs, RanSubmap(t) \/ RanNode(t) \/ RanMember(t) PROVE LifeInv'
  BY <1>3, <1>5, RanSame, ItemsDiffer DEF RanSubmap, RanNode, RanMember
<1>6. ASSUME NEW t \in Slam, NEW i \in 0 .. MaxNodes - 1, RanScan(t, i) PROVE LifeInv'
  <2>1. Ran(NodeItem(t, i)) /\ UNCHANGED << tstate, deletion >>
    BY <1>6 DEF RanScan
  <2>. QED
    BY <1>3, <2>1, RanSame, ItemsDiffer
<1>7. ASSUME NEW t \in Trajs, RanFinish(t) PROVE LifeInv'
  <2>1. /\ Item("finish", t) \in Pending /\ t \in Slam /\ UNCHANGED << deletion, phase >>
        /\ tstate'[t] = "FINISHED" /\ \A r \in Trajs : r # t => tstate'[r] = tstate[r]
        /\ \A x \in Pending' : x.traj = t => x.op = "delete"
        /\ Ran(Item("finish", t)) /\ Item("finish", t) \notin Pending'
    BY <1>0, <1>7, StepFields DEF RanFinish, Ran, Before
  <2>2. phase[t] \in {"finished", "deleted"} /\ Life(t)
    BY <1>0, <2>1, StepFields DEF ItemInv, LifeInv
  <2>3. deletion[t] # "WAIT_FOR_DELETION"
    BY <2>1, <2>2, StepFields DEF Life
  <2>4. Life(t)'
    BY <2>1, <2>2, <2>3 DEF Life, Finished, Slam
  <2>5. \A r \in Trajs : r # t => Life(r)'
    BY <2>1, RanSame, ItemsDiffer
  <2>. QED
    BY <1>3, <2>1, <2>4, <2>5
<1>8. ASSUME NEW t \in Trajs, RanDelete(t) PROVE LifeInv'
  <2>1. /\ t \in MayDelete /\ UNCHANGED << tstate, phase >>
        /\ tstate[t] \notin {"ACTIVE", "DELETED"} /\ deletion[t] = "SCHEDULED_FOR_DELETION"
        /\ deletion'[t] = "WAIT_FOR_DELETION" /\ \A r \in Trajs : r # t => deletion'[r] = deletion[r]
        /\ \A x \in Pending' : x.traj # t
        /\ Ran(Item("delete", t)) /\ Pending' \subseteq Pending
    BY <1>0, <1>8, StepFields DEF RanDelete, Ran, Before
  <2>2. Life(t)
    BY DEF LifeInv
  <2>3. phase[t] = "deleted" /\ tstate[t] \in {"FINISHED", "FROZEN"}
    BY <1>0, <2>1, <2>2 DEF Life
  <2>4. t \in Slam => Finished(t)
    BY <2>2, <2>3 DEF Life, Finished, Slam
  <2>5. t \in Loaded => Item("freeze", t) \notin Pending'
    BY <2>1, StepFields
  <2>6. Life(t)'
    BY <2>1, <2>2, <2>3, <2>4, <2>5 DEF Life, Finished, Slam
  <2>7. \A r \in Trajs : r # t => Life(r)'
    BY <2>1, RanSame, ItemsDiffer
  <2>. QED
    BY <1>3, <2>1, <2>6, <2>7
<1>9. ASSUME NEW t \in Trajs, RanFreeze(t) PROVE LifeInv'
  <2>1. /\ Item("freeze", t) \in Pending /\ t \in Loaded /\ UNCHANGED << deletion, phase >>
        /\ tstate'[t] = "FROZEN" /\ \A r \in Trajs : r # t => tstate'[r] = tstate[r]
        /\ Ran(Item("freeze", t)) /\ Item("freeze", t) \notin Pending'
    BY <1>0, <1>9, StepFields DEF RanFreeze, Ran
  <2>2. phase[t] # "new" /\ Life(t)
    BY <1>0, <2>1, StepFields DEF ItemInv, LifeInv
  <2>3. deletion[t] # "WAIT_FOR_DELETION"
    BY <2>1, <2>2, StepFields DEF Life
  <2>4. Life(t)'
    BY <2>1, <2>2, <2>3 DEF Life, Finished, Slam
  <2>5. \A r \in Trajs : r # t => Life(r)'
    BY <2>1, RanSame, ItemsDiffer
  <2>. QED
    BY <1>3, <2>1, <2>4, <2>5
<1>. QED
  BY <1>4, <1>5, <1>6, <1>7, <1>8, <1>9 DEF RanAny, RanItem

LEMMA LifeCalls ==
  ASSUME IInv, PipeInv, LifeInv, NEW t \in Trajs, Calls(t)
  PROVE  LifeInv'
<1>0. /\ GraphType /\ ItemInv
      /\ phase \in [Trajs -> {"new", "open", "loaded", "finished", "deleted"}]
      /\ UNCHANGED << tstate, deletion, nodes, submaps, trimmers >>
  BY DEF IInv, PipeInv, TypeInv, ClientType, Calls, SameGraph
<1>1. ASSUME \A r \in Trajs : Life(r)' PROVE LifeInv'
  BY <1>0, <1>1, LifeKept DEF LifeInv
<1>2. Life(t)
  BY DEF LifeInv
<1>3. ASSUME Pending \subseteq Pending', \A x \in Pending' : x \in Pending \/ x.traj = t,
             \A r \in Trajs : r # t => phase'[r] = phase[r]
      PROVE  \A r \in Trajs : r # t => Life(r)'
  <2>1. \A r \in Trajs : r # t => LifeSame(r)
    BY <1>0, <1>3 DEF LifeSame
  <2>. QED
    BY <2>1, LifeFrame DEF LifeInv
<1>4. CASE Builds(t)
  <2>1. Pending \subseteq Pending' /\ (\A x \in Pending' : x \in Pending \/ x.traj = t)
    BY <1>4, StepFields DEF Builds, Brings
  <2>2. phase[t] = "new" /\ phase'[t] = "open" /\ t \in Slam /\ \A r \in Trajs : r # t => phase'[r] = phase[r]
    BY <1>0, <1>4 DEF Builds
  <2>3. tstate'[t] = "unknown" /\ deletion'[t] = "NORMAL"
    <3>1. deletion[t] = "NORMAL"
      BY <1>2, <2>2 DEF Life
    <3>. QED
      BY <1>0, <1>2, <2>2, <3>1 DEF Life
  <2>4. Life(t)'
    BY <2>2, <2>3 DEF Life, Finished, Slam
  <2>. QED
    BY <1>1, <1>3, <2>1, <2>2, <2>4
<1>5. CASE Sends(t) \/ Adds(t)
  <2>1. Pending \subseteq Pending' /\ (\A x \in Pending' : x \in Pending \/ x.traj = t)
    BY <1>5, StepFields DEF Sends, Adds, Brings
  <2>2. phase[t] = "open" /\ phase' = phase /\ t \in Slam
    BY <1>5 DEF Sends, Adds
  <2>3. ~Finished(t) /\ deletion[t] = "NORMAL" /\ tstate[t] # "FROZEN"
    BY <1>2, <2>2 DEF Life, Slam
  <2>4. Life(t)'
    BY <1>0, <2>2, <2>3 DEF Life, Finished, Slam
  <2>. QED
    BY <1>1, <1>3, <2>1, <2>2, <2>4
<1>6. CASE Finishes(t)
  <2>1. Pending \subseteq Pending' /\ (\A x \in Pending' : x \in Pending \/ x.traj = t)
        /\ Item("finish", t) \in Pending'
    BY <1>6, StepFields DEF Finishes, Brings
  <2>2. phase[t] = "open" /\ phase'[t] = "finished" /\ t \in Slam /\ \A r \in Trajs : r # t => phase'[r] = phase[r]
    BY <1>0, <1>6 DEF Finishes
  <2>3. ~Finished(t) /\ deletion[t] = "NORMAL" /\ tstate[t] # "FROZEN"
    BY <1>2, <2>2 DEF Life, Slam
  <2>4. Life(t)'
    BY <1>0, <2>1, <2>2, <2>3 DEF Life, Finished, Slam
  <2>. QED
    BY <1>1, <1>3, <2>1, <2>2, <2>4
<1>7. CASE Deletes(t)
  <2>1. /\ Pending \subseteq Pending'
        /\ \A x \in Pending' : x \in Pending \/ (x.traj = t /\ x.op = "delete")
        /\ \A op \in {"finish", "freeze"} : Item(op, t) \in Pending' => Item(op, t) \in Pending
    <3>1. Pending' = Pending \cup {Item("delete", t)}
      BY <1>7 DEF Deletes, Brings
    <3>2. \A op \in {"finish", "freeze"} : Item(op, t) # Item("delete", t)
      BY ItemsDiffer
    <3>. QED
      BY <3>1, <3>2, StepFields
  <2>2. phase[t] \in {"finished", "loaded"} /\ phase'[t] = "deleted"
        /\ \A r \in Trajs : r # t => phase'[r] = phase[r]
    BY <1>0, <1>7 DEF Deletes
  <2>3. deletion[t] = "NORMAL" /\ (t \in Loaded => tstate[t] # "DELETED")
    BY <1>2, <2>2 DEF Life
  <2>4. t \in Slam => phase[t] = "finished"
    BY <1>0, <2>2 DEF ItemInv
  <2>5. /\ Finished(t)' => \A x \in Pending' : x.traj = t => x.op = "delete"
        /\ Finished(t)' <=> Finished(t)
    BY <1>0, <1>2, <2>1 DEF Life, Finished
  <2>6. t \in Slam /\ Item("finish", t) \notin Pending' => Finished(t)'
    BY <1>2, <2>1, <2>4, <2>5 DEF Life
  <2>7. t \in Loaded => (Item("freeze", t) \in Pending' <=> tstate'[t] \in {"unknown", "ACTIVE"})
    BY <1>0, <1>2, <2>1, <2>2 DEF Life
  <2>8. /\ tstate'[t] = "FINISHED" => t \in Slam
        /\ tstate'[t] = "FROZEN" => t \in Loaded
        /\ deletion'[t] = "NORMAL" /\ (t \in Loaded => tstate'[t] # "DELETED")
    BY <1>0, <1>2, <2>3 DEF Life
  <2>9. Life(t)'
    BY <2>2, <2>5, <2>6, <2>7, <2>8 DEF Life
  <2>. QED
    BY <1>1, <1>3, <2>1, <2>2, <2>9
<1>8. CASE Loads(t)
  <2>1. Pending \subseteq Pending' /\ (\A x \in Pending' : x \in Pending \/ x.traj = t)
        /\ Item("freeze", t) \in Pending'
    BY <1>8, StepFields DEF Loads, Brings
  <2>2. phase[t] = "new" /\ phase'[t] = "loaded" /\ t \in Loaded /\ \A r \in Trajs : r # t => phase'[r] = phase[r]
    BY <1>0, <1>8 DEF Loads
  <2>3. tstate'[t] = "unknown" /\ deletion'[t] = "NORMAL"
    <3>1. deletion[t] = "NORMAL"
      BY <1>2, <2>2 DEF Life
    <3>. QED
      BY <1>0, <1>2, <2>2, <3>1 DEF Life
  <2>4. Life(t)'
    BY <2>1, <2>2, <2>3 DEF Life, Finished, Slam
  <2>. QED
    BY <1>1, <1>3, <2>1, <2>2, <2>4
<1>. QED
  BY <1>4, <1>5, <1>6, <1>7, <1>8 DEF Calls

LEMMA LifeMarks ==
  ASSUME IInv, LifeInv, NEW t \in Trajs, Marks(t)
  PROVE  LifeInv'
<1>0. /\ GraphType /\ UNCHANGED << tstate, phase, nodes, submaps, trimmers >>
      /\ Pending' \subseteq Pending
      /\ \A r \in Trajs, op \in {"finish", "freeze"} : Item(op, r) \in Pending => Item(op, r) \in Pending'
      /\ deletion \in [Trajs -> {"NORMAL", "SCHEDULED_FOR_DELETION", "WAIT_FOR_DELETION"}]
  BY StepFields DEF IInv, TypeInv, Marks, SameGraph, StateType
<1>1. ASSUME \A r \in Trajs : Life(r)' PROVE LifeInv'
  BY <1>0, <1>1, LifeKept DEF LifeInv
<1>2. ASSUME NEW r \in Trajs, deletion'[r] = deletion[r] PROVE Life(r)'
  BY <1>0, <1>2, LifeFrame DEF LifeSame, LifeInv
<1>3. CASE UNCHANGED deletion
  BY <1>1, <1>2, <1>3
<1>4. CASE deletion' = [deletion EXCEPT ![t] = "SCHEDULED_FOR_DELETION"] /\ tstate[t] # "unknown"
  <2>1. deletion'[t] = "SCHEDULED_FOR_DELETION" /\ \A r \in Trajs : r # t => deletion'[r] = deletion[r]
    BY <1>0, <1>4
  <2>2. phase[t] = "deleted" /\ Life(t)
    BY DEF Marks, LifeInv
  <2>3. Life(t)'
    <3>1. /\ \A x \in Pending' : x \in Pending
          /\ Item("finish", t) \in Pending <=> Item("finish", t) \in Pending'
          /\ Item("freeze", t) \in Pending <=> Item("freeze", t) \in Pending'
      BY <1>0
    <3>. QED
      BY <1>0, <1>4, <2>1, <2>2, <3>1 DEF Life, Finished
  <2>. QED
    BY <1>1, <1>2, <2>1, <2>3
<1>. QED
  BY <1>3, <1>4 DEF Marks

LEMMA LifeCleans ==
  ASSUME IInv, LifeInv, Cleans
  PROVE  LifeInv'
<1>0. /\ GraphType
      /\ tstate' = [t \in Trajs |-> IF t \in Deleted \cup Ended THEN "DELETED" ELSE tstate[t]]
      /\ deletion' = [t \in Trajs |-> IF t \in Deleted THEN "NORMAL" ELSE deletion[t]]
      /\ nodes' \subseteq nodes /\ submaps' \subseteq submaps /\ trimmers' \subseteq Localizing
      /\ UNCHANGED phase /\ Pending' = Pending
  BY DEF IInv, TypeInv, Cleans, LifeInv
<1>1. ASSUME NEW t \in Trajs PROVE Life(t)'
  <2>0. Life(t)
    BY DEF LifeInv
  <2>1. CASE t \in Deleted
    <3>1. deletion[t] = "WAIT_FOR_DELETION" /\ tstate'[t] = "DELETED" /\ deletion'[t] = "NORMAL"
      BY <1>0, <2>1 DEF Deleted
    <3>2. /\ phase[t] = "deleted" /\ tstate[t] \in {"FINISHED", "FROZEN"}
          /\ \A x \in Pending : x.traj # t
      BY <2>0, <3>1 DEF Life
    <3>3. Item("freeze", t) \notin Pending
      BY <3>2, StepFields
    <3>. QED
      BY <1>0, <2>0, <3>1, <3>2, <3>3 DEF Life, Finished
  <2>2. CASE t \in Ended
    <3>1. /\ t \in Localizing /\ tstate[t] = "FINISHED" /\ t \notin Deleted
          /\ tstate'[t] = "DELETED" /\ deletion'[t] = deletion[t]
      BY <1>0, <2>2 DEF Ended, LifeInv
    <3>2. t \notin Loaded
      BY <3>1, PoseGraphAssumption
    <3>3. deletion[t] # "WAIT_FOR_DELETION"
      BY <3>1 DEF Deleted
    <3>. QED
      BY <1>0, <2>0, <3>1, <3>2, <3>3 DEF Life, Finished
  <2>3. CASE t \notin Deleted \cup Ended
    BY <1>0, <2>0, <2>3, LifeFrame DEF LifeSame
  <2>. QED
    BY <2>1, <2>2, <2>3
<1>2. \A r \in Trajs : tstate[r] # "unknown" => tstate'[r] # "unknown"
  BY <1>0
<1>. QED
  BY <1>0, <1>1, <1>2, LifeKept

LEMMA StepLife == IInv /\ PipeInv /\ LifeInv /\ Views => LifeInv'
BY LifeRests, LifePuts, LifeRuns, LifeCalls, LifeMarks, LifeCleans DEF Views

\* What is still to be inserted is inserted before its item is enqueued.
LEMMA ToInsert ==
  ASSUME TodoInv
  PROVE  /\ \A n \in NodesToInsert :
              \/ n[1] \in Slam /\ NodeItem(n[1], n[2]) \in TodoItems
              \/ n[1] \in Loaded /\ n[2] = 0 /\ Item("nodeFromProto", n[1]) \in TodoItems
         /\ \A s \in SubmapsToInsert :
              \/ s[1] \in Slam
              \/ s[1] \in Loaded /\ Item("submapFromProto", s[1]) \in TodoItems
<1> DEFINE P == /\ \A n \in NodesToInsert :
                     \/ n[1] \in Slam /\ NodeItem(n[1], n[2]) \in TodoItems
                     \/ n[1] \in Loaded /\ n[2] = 0 /\ Item("nodeFromProto", n[1]) \in TodoItems
                /\ \A s \in SubmapsToInsert :
                     \/ s[1] \in Slam
                     \/ s[1] \in Loaded /\ Item("submapFromProto", s[1]) \in TodoItems
<1>0. /\ \A s \in Inserts : s \in RangeOf(todo) /\ s.do = "insert"
      /\ \A e \in RangeOf(todo) : e.do = "enqueue" => e.item \in TodoItems
      /\ \A n \in NodesToInsert : \E s \in Inserts : n \in s.nodes
      /\ \A n \in SubmapsToInsert : \E s \in Inserts : n \in s.submaps
  BY DEF Inserts, InsertsOf, TodoItems, ItemsOf, NodesToInsert, SubmapsToInsert
<1>1. ASSUME \A s \in RangeOf(todo) : s.do # "insert" PROVE P
  BY <1>0, <1>1
<1>2. ASSUME NEW t \in Slam, NEW i, todo = << InsertNode(t, i), Enqueue(NodeItem(t, i)) >> PROVE P
  <2>1. PICK a, b : a = InsertNode(t, i) /\ b = Enqueue(NodeItem(t, i))
    OBVIOUS
  <2>2. /\ a.nodes = {<<t, i>>} /\ a.submaps = {<<t, BackOf(i)>>} /\ a.do = "insert"
        /\ b.do = "enqueue" /\ b.item = NodeItem(t, i)
    BY <2>1, StepFields
  <2>3. RangeOf(todo) = {a, b}
    BY <1>2, <2>1, RangeShort
  <2>. QED
    BY <1>0, <2>2, <2>3
<1>3. ASSUME NEW t \in Loaded, NEW a, NEW b, NEW c, NEW d,
             a = InsertLoadedSubmap(t), b = Enqueue(Item("submapFromProto", t)),
             c = InsertLoadedNode(t), d = Enqueue(Item("nodeFromProto", t)),
             RangeOf(todo) \subseteq {a, b, c, d} \cup {Enqueue(Item("freeze", t)), Enqueue(Item("nodeToSubmap", t))},
             a \in RangeOf(todo) => b \in RangeOf(todo), c \in RangeOf(todo) => d \in RangeOf(todo)
      PROVE  P
  <2>1. /\ a.nodes = {} /\ a.submaps = {<<t, 0>>}
        /\ c.nodes = {<<t, 0>>} /\ c.submaps = {}
        /\ b.do = "enqueue" /\ b.item = Item("submapFromProto", t)
        /\ d.do = "enqueue" /\ d.item = Item("nodeFromProto", t)
        /\ Enqueue(Item("freeze", t)).do = "enqueue" /\ Enqueue(Item("nodeToSubmap", t)).do = "enqueue"
    BY <1>3, StepFields
  <2>2. \A s \in Inserts : (s = a /\ b \in RangeOf(todo)) \/ (s = c /\ d \in RangeOf(todo))
    BY <1>0, <1>3, <2>1
  <2>3. \A n \in NodesToInsert : n = <<t, 0>> /\ d \in RangeOf(todo)
    BY <1>0, <2>1, <2>2
  <2>4. \A s \in SubmapsToInsert : s = <<t, 0>> /\ b \in RangeOf(todo)
    BY <1>0, <2>1, <2>2
  <2>. QED
    BY <1>0, <2>1, <2>3, <2>4
<1>4. CASE todo = << >>
  BY <1>1, <1>4, RangeShort
<1>5. ASSUME NEW t \in Slam, SlamSteps(t) PROVE P
  <2>1. CASE \E x : todo = << Enqueue(x) >>
    BY <1>1, <2>1, RangeShort, StepFields
  <2>. QED
    BY <1>2, <1>5, <2>1 DEF SlamSteps
<1>6. ASSUME NEW t \in Loaded, LoadSteps(t) PROVE P
  <2>1. PICK a, b, c, d, e, f :
          /\ a = InsertLoadedSubmap(t) /\ b = Enqueue(Item("submapFromProto", t))
          /\ c = InsertLoadedNode(t) /\ d = Enqueue(Item("nodeFromProto", t))
          /\ e = Enqueue(Item("freeze", t)) /\ f = Enqueue(Item("nodeToSubmap", t))
    OBVIOUS
  <2>2. \/ todo = << e, a, b, c, d, f >> \/ todo = << a, b, c, d, f >> \/ todo = << b, c, d, f >>
        \/ todo = << c, d, f >> \/ todo = << d, f >> \/ todo = << f >>
    BY <1>6, <2>1 DEF LoadSteps
  <2>3. \/ RangeOf(todo) = {e, a, b, c, d, f} \/ RangeOf(todo) = {a, b, c, d, f}
        \/ RangeOf(todo) = {b, c, d, f} \/ RangeOf(todo) = {c, d, f} \/ RangeOf(todo) = {d, f}
        \/ RangeOf(todo) = {f}
    BY <2>2, RangeShort
  <2>4. a \notin {b, c, d, f}
    <3>1. /\ a.do = "insert" /\ b.do = "enqueue" /\ d.do = "enqueue" /\ f.do = "enqueue"
          /\ a.nodes = {} /\ c.nodes = {<<t, 0>>}
      BY <2>1, StepFields
    <3>. QED
      BY <3>1
  <2>5. c \notin {d, f}
    <3>1. c.do = "insert" /\ d.do = "enqueue" /\ f.do = "enqueue"
      BY <2>1, StepFields
    <3>. QED
      BY <3>1
  <2>. QED
    BY <1>3, <2>1, <2>3, <2>4, <2>5
<1>7. ASSUME NEW t \in Trajs, DeleteSteps(t) PROVE P
  <2>1. PICK a, b : a = [do |-> "mark", traj |-> t] /\ b = Enqueue(Item("delete", t))
    OBVIOUS
  <2>2. a.do = "mark" /\ b.do = "enqueue"
    BY <2>1, StepFields
  <2>3. RangeOf(todo) \subseteq {a, b}
    BY <1>7, <2>1, RangeShort DEF DeleteSteps
  <2>. QED
    BY <1>1, <2>2, <2>3
<1>8. CASE WaitSteps
  <2>1. PICK a, b, c, d, g, x, y :
          /\ a = Enqueue(Item("final", None)) /\ b = Enqueue(Item("iterations", None))
          /\ c = Sample /\ d = Destroying /\ g = [do |-> "gone"]
          /\ x = [do |-> "await", expected |-> numNodes] /\ y = [do |-> "join", expected |-> numNodes]
    OBVIOUS
  <2>2. \A s \in {a, b, c, d, g, x, y} : s.do # "insert"
    <3>1. /\ a.do = "enqueue" /\ b.do = "enqueue" /\ c.do = "sample" /\ d.do = "destroy"
          /\ g.do = "gone" /\ x.do = "await" /\ y.do = "join"
      BY <2>1, StepFields
    <3>. QED
      BY <3>1
  <2>3. \/ todo \in {<< a, b, c >>, << b, c >>, << c >>, << c, d >>, << d >>, << g >>}
        \/ todo \in {<< x >>, << x, d >>, << y >>, << y, d >>}
    BY <1>8, <2>1 DEF WaitSteps
  <2>4. RangeOf(todo) \subseteq {a, b, c, d, g, x, y}
    BY <2>3, RangeShort
  <2>. QED
    BY <1>1, <2>2, <2>4
<1>. QED
  BY <1>4, <1>5, <1>6, <1>7, <1>8 DEF TodoInv

-----------------------------------------------------------------------------
(* The steps keep GraphInv.                                                *)

\* The items that the graph is made of.
GraphItems(t) ==
  {NodeItem(t, i) : i \in Nat} \cup
  {Item(op, t) : op \in {"submapFromProto", "nodeFromProto", "nodeToSubmap"}}

\* What decides whether nodes and submaps are known is the same.
KnownSame(t) ==
  /\ scans'[t] = scans[t]
  /\ \A x \in GraphItems(t) : x \in Pending' <=> x \in Pending
  /\ Finished(t)' <=> Finished(t)
  /\ tstate'[t] = "DELETED" <=> tstate[t] = "DELETED"

ExecutedSame(t) ==
  /\ \A i \in Nat : Executed(t, i)' <=> Executed(t, i)
  /\ \A op \in {"submapFromProto", "nodeFromProto", "nodeToSubmap"} :
       Item(op, t) \in Pending' <=> Item(op, t) \in Pending
  /\ Finished(t)' <=> Finished(t)
  /\ tstate'[t] = "DELETED" <=> tstate[t] = "DELETED"

LEMMA SameExecuted ==
  ASSUME NEW t, KnownSame(t)
  PROVE  ExecutedSame(t)
<1>1. /\ \A i \in Nat : NodeItem(t, i) \in Pending' <=> NodeItem(t, i) \in Pending
      /\ \A op \in {"submapFromProto", "nodeFromProto", "nodeToSubmap"} :
           Item(op, t) \in Pending' <=> Item(op, t) \in Pending
  BY DEF KnownSame, GraphItems
<1>2. \A i \in Nat : Executed(t, i)' <=> Executed(t, i)
  BY <1>1 DEF Executed, KnownSame
<1>. QED
  BY <1>1, <1>2 DEF ExecutedSame, KnownSame

LEMMA IndexTypes ==
  /\ \A i \in 0 .. MaxNodes - 1 : i \in Nat
  /\ \A t \in Trajs : TypeInv => \A i \in 0 .. scans[t] - 1 : i \in 0 .. MaxNodes - 1
  /\ \A t \in Trajs : TypeInv => scans[t] \in 0 .. MaxNodes /\ MaxNodes \in Nat \ {0}
  /\ NumRangeData \in Nat \ {0}
<1>1. MaxNodes \in Nat \ {0} /\ NumRangeData \in Nat \ {0}
  BY PoseGraphAssumption
<1>2. \A t \in Trajs : TypeInv => scans[t] \in 0 .. MaxNodes
  BY DEF TypeInv, ClientType
<1>. QED
  BY <1>1, <1>2

LEMMA KnownFrame ==
  ASSUME NEW t \in Trajs, ExecutedSame(t)
  PROVE  /\ \A i \in Nat : NodeKnown(<<t, i>>)' <=> NodeKnown(<<t, i>>)
         /\ \A k : SubmapKnown(<<t, k>>)' <=> SubmapKnown(<<t, k>>)
         /\ \A k : SubmapComplete(<<t, k>>)' <=> SubmapComplete(<<t, k>>)
         /\ \A k : MayBeGone(<<t, k>>)' <=> MayBeGone(<<t, k>>)
<1>1. \A i \in 0 .. MaxNodes - 1 : i \in Nat
  BY IndexTypes
<1>2. \A i \in Nat : NodeKnown(<<t, i>>)' <=> NodeKnown(<<t, i>>)
  BY DEF NodeKnown, ExecutedSame
<1>3. \A k : SubmapKnown(<<t, k>>)' <=> SubmapKnown(<<t, k>>)
  BY <1>1 DEF SubmapKnown, ExecutedSame
<1>4. \A k : SubmapComplete(<<t, k>>)' <=> SubmapComplete(<<t, k>>)
  BY <1>1 DEF SubmapComplete, ExecutedSame
<1>5. \A k : MayBeGone(<<t, k>>)' <=> MayBeGone(<<t, k>>)
  BY <1>1 DEF MayBeGone, ExecutedSame
<1>. QED
  BY <1>2, <1>3, <1>4, <1>5

\* Nodes and submaps, as pairs.
LEMMA Ids ==
  /\ \A n \in NodeIds : n = <<n[1], n[2]>> /\ n[1] \in Trajs /\ n[2] \in 0 .. MaxNodes - 1 /\ n[2] \in Nat
  /\ \A s \in SubmapIds : s = <<s[1], s[2]>> /\ s[1] \in Trajs /\ s[2] \in Nat
<1>1. MaxNodes \in Nat
  BY PoseGraphAssumption
<1>2. \A n \in NodeIds : n = <<n[1], n[2]>> /\ n[1] \in Trajs /\ n[2] \in 0 .. MaxNodes - 1 /\ n[2] \in Nat
  BY <1>1 DEF NodeIds
<1>3. \A s \in SubmapIds : s = <<s[1], s[2]>> /\ s[1] \in Trajs /\ s[2] \in Nat
  BY DEF SubmapIds
<1>. QED
  BY <1>2, <1>3

LEMMA KnownAll ==
  ASSUME TypeInv, \A t \in Trajs : ExecutedSame(t)
  PROVE  /\ \A n \in NodeIds : NodeKnown(n)' <=> NodeKnown(n)
         /\ \A s \in SubmapIds : SubmapKnown(s)' <=> SubmapKnown(s)
         /\ \A s \in SubmapIds : SubmapComplete(s)' <=> SubmapComplete(s)
         /\ \A t \in Trajs : \A k : MayBeGone(<<t, k>>)' <=> MayBeGone(<<t, k>>)
<1>1. ASSUME NEW n \in NodeIds PROVE NodeKnown(n)' <=> NodeKnown(n)
  <2>1. PICK t \in Trajs, i \in Nat : n = <<t, i>>
    BY Ids
  <2>. QED
    BY <2>1, KnownFrame
<1>2. ASSUME NEW s \in SubmapIds
      PROVE  (SubmapKnown(s)' <=> SubmapKnown(s)) /\ (SubmapComplete(s)' <=> SubmapComplete(s))
  <2>1. PICK t \in Trajs, k \in Nat : s = <<t, k>>
    BY Ids
  <2>. QED
    BY <2>1, KnownFrame
<1>. QED
  BY <1>1, <1>2, KnownFrame

\* The graph is the same and so is what is known of it.
LEMMA KnownKept ==
  ASSUME TypeInv, GraphInv, SameGraph, \A t \in Trajs : ExecutedSame(t)
  PROVE  KnownInv' /\ MemberInv' /\ DeletedInv'
<1>0. /\ nodes \subseteq NodeIds /\ submaps \subseteq SubmapIds
      /\ UNCHANGED << nodes, submaps, finished, nodeIds, optSubmaps, optNodes, intra >>
  BY DEF TypeInv, GraphType, SameGraph
<1>1. KnownInv'
  BY <1>0, KnownAll DEF GraphInv, KnownInv
<1>2. MemberInv'
  <2>1. \A n \in optNodes : n[1] \in Trajs
    BY <1>0, Ids DEF GraphInv, KnownInv
  <2>. QED
    BY <1>0, <2>1 DEF GraphInv, MemberInv, ExecutedSame
<1>3. DeletedInv'
  BY <1>0 DEF GraphInv, DeletedInv, ExecutedSame
<1>. QED
  BY <1>1, <1>2, <1>3

LEMMA ScanIndex ==
  ASSUME TypeInv, NEW t \in Trajs, NEW i \in 0 .. scans[t] - 1
  PROVE  /\ i \in Nat /\ i \in 0 .. MaxNodes - 1 /\ i < scans[t] /\ BackOf(i) \in Nat
         /\ <<t, i>> \in NodeIds /\ <<t, BackOf(i)>> \in SubmapIds
<1>1. i \in Nat /\ i \in 0 .. MaxNodes - 1 /\ i < scans[t]
  BY IndexTypes
<1>2. BackOf(i) \in Nat
  BY <1>1, IndexTypes DEF BackOf
<1>. QED
  BY <1>1, <1>2, ScanIds

\* A step that leaves the graph alone, and what decides about it.
LEMMA GraphFrame ==
  ASSUME TypeInv, GraphInv, SameGraph, \A t \in Trajs : KnownSame(t),
         NodesToInsert' = NodesToInsert, SubmapsToInsert' = SubmapsToInsert,
         \A t \in Loaded : phase[t] = "new" => phase'[t] = "new"
  PROVE  GraphInv'
<1>0. /\ nodes \subseteq NodeIds /\ submaps \subseteq SubmapIds
      /\ UNCHANGED << nodes, submaps >>
      /\ \A t \in Trajs : /\ scans'[t] = scans[t]
                          /\ tstate'[t] = "DELETED" <=> tstate[t] = "DELETED"
      /\ \A t \in Loaded : t \in Trajs
      /\ \A t \in Slam : t \in Trajs
      /\ \A t \in Trajs : ExecutedSame(t)
  BY SameExecuted, PoseGraphAssumption DEF TypeInv, GraphType, SameGraph, KnownSame, Slam
<1>1. \A t \in Trajs : \A i \in Nat : NodeItem(t, i) \in Pending' <=> NodeItem(t, i) \in Pending
  BY DEF KnownSame, GraphItems
<1>2. ThereInv'
  <2>1. \A t \in Slam : \A i \in 0 .. scans'[t] - 1 :
          /\ scans'[t] = scans[t]
          /\ NodeItem(t, i) \in Pending' <=> NodeItem(t, i) \in Pending
          /\ MayBeGone(<<t, BackOf(i)>>)' <=> MayBeGone(<<t, BackOf(i)>>)
    BY <1>0, <1>1, ScanIndex, KnownAll
  <2>2. ThereInv
    BY DEF GraphInv
  <2>. QED
    BY <1>0, <2>1, <2>2, Ids DEF ThereInv
<1>. QED
  BY <1>0, <1>2, KnownKept DEF GraphInv

LEMMA InsertsSame ==
  ASSUME Inserts' = Inserts
  PROVE  NodesToInsert' = NodesToInsert /\ SubmapsToInsert' = SubmapsToInsert
BY DEF NodesToInsert, SubmapsToInsert

LEMMA GraphItemOps ==
  ASSUME NEW t
  PROVE  /\ \A x \in GraphItems(t) : /\ x.traj = t
                                     /\ x.op \in {"node", "submapFromProto", "nodeFromProto", "nodeToSubmap"}
         /\ \A r : r # t => \A x \in GraphItems(t) : x \notin GraphItems(r)
         /\ \A r, op : op \in {"finish", "delete", "freeze", "data", "trimmer"} => Item(op, r) \notin GraphItems(t)
<1>1. \A r : \A x \in GraphItems(r) : /\ x.traj = r
                               /\ x.op \in {"node", "submapFromProto", "nodeFromProto", "nodeToSubmap"}
  BY StepFields DEF GraphItems
<1>2. \A r, op : Item(op, r).op = op
  BY StepFields
<1>. QED
  BY <1>1, <1>2

\* A finished trajectory stays so, and no other finishes, but by RanFinish.
LEMMA GraphStill ==
  ASSUME IInv, PipeInv, LifeInv, GraphInv,
         \/ Rests
         \/ \E p \in Pairs : Tries(p)
         \/ \E t \in Trajs : \/ Marks(t) \/ RanIdly(t) \/ RanDelete(t) \/ RanFreeze(t)
                             \/ Calls(t) /\ (Builds(t) \/ Sends(t) \/ Finishes(t) \/ Deletes(t))
  PROVE  GraphInv'
<1>0. /\ TypeInv /\ StateType /\ ItemInv
      /\ tstate \in [Trajs -> {"unknown", "ACTIVE", "FINISHED", "FROZEN", "DELETED"}]
      /\ phase \in [Trajs -> {"new", "open", "loaded", "finished", "deleted"}]
  BY DEF IInv, TypeInv, StateType, PipeInv, ClientType
<1>1. ASSUME SameGraph, NodesToInsert' = NodesToInsert, SubmapsToInsert' = SubmapsToInsert,
             scans' = scans, \A t \in Loaded : phase[t] = "new" => phase'[t] = "new",
             \A t \in Trajs : \/ tstate'[t] = tstate[t]
                              \/ {tstate'[t], tstate[t]} \cap {"FINISHED", "DELETED"} = {},
             \A t \in Trajs : \A x \in GraphItems(t) : x \in Pending' <=> x \in Pending
      PROVE  GraphInv'
  <2>1. \A t \in Trajs : KnownSame(t)
    BY <1>1 DEF KnownSame, Finished
  <2>. QED
    BY <1>0, <1>1, <2>1, GraphFrame
<1>2. CASE Rests \/ \E p \in Pairs : Tries(p)
  BY <1>1, <1>2, InsertsSame DEF Rests, Tries
<1>3. ASSUME NEW t \in Trajs, Marks(t) PROVE GraphInv'
  BY <1>1, <1>3, InsertsSame, GraphItemOps DEF Marks
<1>4. ASSUME NEW t \in Trajs, RanIdly(t) \/ RanDelete(t) PROVE GraphInv'
  <2>1. PICK op \in {"data", "trimmer", "delete"} : Ran(Item(op, t))
    BY <1>4 DEF RanIdly, RanDelete
  <2>2. \A r \in Trajs : \A x \in GraphItems(r) : x \in Pending' <=> x \in Pending
    BY <2>1, GraphItemOps DEF Ran
  <2>3. SameGraph /\ UNCHANGED << tstate, phase, scans >> /\ Inserts' = Inserts
    BY <1>4 DEF RanIdly, RanDelete, Ran
  <2>. QED
    BY <1>1, <2>2, <2>3, InsertsSame
<1>5. ASSUME NEW t \in Trajs, RanFreeze(t) PROVE GraphInv'
  <2>1. /\ Ran(Item("freeze", t)) /\ SameGraph /\ t \in Loaded /\ UNCHANGED << phase, scans >>
        /\ tstate' = [tstate EXCEPT ![t] = "FROZEN"] /\ Inserts' = Inserts
        /\ Item("freeze", t) \in Pending
    BY <1>5 DEF RanFreeze, Ran
  <2>2. \A r \in Trajs : \A x \in GraphItems(r) : x \in Pending' <=> x \in Pending
    BY <2>1, GraphItemOps DEF Ran
  <2>3. tstate[t] \in {"unknown", "ACTIVE"}
    <3>1. phase[t] # "new" /\ Life(t)
      BY <1>0, <2>1, StepFields DEF ItemInv, LifeInv
    <3>. QED
      BY <2>1, <3>1 DEF Life
  <2>4. tstate'[t] = "FROZEN" /\ \A r \in Trajs : r # t => tstate'[r] = tstate[r]
    BY <1>0, <2>1
  <2>. QED
    BY <1>1, <2>1, <2>2, <2>3, <2>4, InsertsSame
<1>6. ASSUME NEW t \in Trajs, Calls(t), Builds(t) \/ Sends(t) \/ Finishes(t) \/ Deletes(t)
      PROVE  GraphInv'
  <2>1. /\ SameGraph /\ UNCHANGED << tstate, scans >> /\ Inserts = {} /\ Inserts' = {}
    BY <1>6 DEF Calls, Builds, Sends, Finishes, Deletes, Brings
  <2>2. \/ Pending' = Pending
        \/ \E op \in {"trimmer", "data", "finish", "delete"} : Pending' = Pending \cup {Item(op, t)}
    BY <1>6 DEF Builds, Sends, Finishes, Deletes, Brings
  <2>3. \A r \in Trajs : \A x \in GraphItems(r) : x \in Pending' <=> x \in Pending
    BY <2>2, GraphItemOps
  <2>4. \A r \in Loaded : phase[r] = "new" => phase'[r] = "new"
    <3>1. \/ phase' = phase
          \/ (\E v : phase' = [phase EXCEPT ![t] = v]) /\ (t \in Slam \/ phase[t] # "new")
      BY <1>6 DEF Builds, Sends, Finishes, Deletes
    <3>. QED
      BY <1>0, <3>1, PoseGraphAssumption DEF Slam
  <2>. QED
    BY <1>1, <2>1, <2>3, <2>4, InsertsSame
<1>. QED
  BY <1>2, <1>3, <1>4, <1>5, <1>6

LEMMA GraphAdds ==
  ASSUME IInv, PipeInv, GraphInv, NEW t \in Trajs, Calls(t), Adds(t)
  PROVE  GraphInv'
<1>0. /\ TypeInv /\ ThereInv /\ scans \in [Trajs -> 0 .. MaxNodes]
      /\ SameGraph /\ UNCHANGED << tstate, phase, nodes, submaps >>
      /\ nodes \subseteq NodeIds /\ submaps \subseteq SubmapIds
      /\ NodesToInsert = {} /\ SubmapsToInsert = {}
  BY DEF IInv, TypeInv, ClientType, GraphInv, Calls, SameGraph, Adds, NodesToInsert, SubmapsToInsert,
     GraphType
<1>1. PICK i : i = scans[t]
  OBVIOUS
<1>2. /\ t \in Slam /\ i \in Nat /\ i \in 0 .. MaxNodes - 1
      /\ scans'[t] = i + 1 /\ \A r \in Trajs : r # t => scans'[r] = scans[r]
      /\ Pending' = Pending \cup {NodeItem(t, i)} /\ NodeItem(t, i) \notin Pending
      /\ NodesToInsert' = {<<t, i>>} /\ SubmapsToInsert' = {<<t, BackOf(i)>>}
  BY <1>0, <1>1, IndexTypes DEF Adds
<1>3. \A r \in Trajs, k \in Nat : (r # t \/ k # i) => (NodeItem(r, k) \in Pending' <=> NodeItem(r, k) \in Pending)
  BY <1>2, ItemsDiffer
<1>4. ASSUME NEW r \in Trajs PROVE ExecutedSame(r)
  <2>1. ASSUME NEW k \in Nat PROVE Executed(r, k)' <=> Executed(r, k)
    <3>1. CASE r # t
      BY <1>2, <1>3, <3>1 DEF Executed
    <3>2. CASE r = t /\ k = i
      BY <1>1, <1>2, <3>2 DEF Executed
    <3>3. CASE r = t /\ k # i
      BY <1>1, <1>2, <1>3, <3>3 DEF Executed
    <3>. QED
      BY <3>1, <3>2, <3>3
  <2>2. \A op : Item(op, r) \in Pending' <=> Item(op, r) \in Pending
    BY <1>2, ItemsDiffer
  <2>. QED
    BY <1>0, <2>1, <2>2 DEF ExecutedSame, Finished
<1>5. KnownInv' /\ MemberInv' /\ DeletedInv'
  BY <1>0, <1>4, KnownKept
<1>6. ASSUME NEW n \in nodes PROVE n[2] < scans'[n[1]] \/ (n[1] \in Loaded /\ n[2] = 0)
  <2>1. n[1] \in Trajs /\ n[2] \in Nat /\ scans[n[1]] \in Nat
    BY <1>0, Ids, IndexTypes
  <2>2. n[2] < scans[n[1]] \/ (n[1] \in Loaded /\ n[2] = 0)
    BY <1>0 DEF ThereInv
  <2>. QED
    BY <1>1, <1>2, <2>1, <2>2
<1>7. ASSUME NEW s \in submaps
      PROVE  \/ \E k \in 0 .. scans'[s[1]] - 1 : BackOf(k) = s[2]
             \/ s[1] \in Loaded /\ s[2] = 0
  <2>1. s[1] \in Trajs /\ scans[s[1]] \in Nat /\ scans'[s[1]] \in Nat
    BY <1>0, <1>2, Ids, IndexTypes
  <2>2. scans[s[1]] <= scans'[s[1]]
    BY <1>1, <1>2, <2>1
  <2>3. \A k \in 0 .. scans[s[1]] - 1 : k \in 0 .. scans'[s[1]] - 1
    BY <2>1, <2>2
  <2>. QED
    BY <1>0, <2>3 DEF ThereInv
<1>8. ASSUME NEW r \in Slam, NEW k \in 0 .. scans'[r] - 1
      PROVE  /\ NodeItem(r, k) \in Pending' => <<r, k>> \in nodes \cup NodesToInsert'
             /\ \/ <<r, k>> \in NodesToInsert'
                \/ <<r, BackOf(k)>> \in submaps
                \/ MayBeGone(<<r, BackOf(k)>>)'
  <2>1. r \in Trajs
    BY DEF Slam
  <2>2. CASE r = t /\ k = i
    BY <1>2, <2>2
  <2>3. CASE r # t \/ k # i
    <3>1. k \in 0 .. scans[r] - 1
      BY <1>1, <1>2, <2>1, <2>3, IndexTypes, <1>0
    <3>2. k \in Nat
      BY <3>1, <2>1, <1>0, ScanIndex
    <3>3. MayBeGone(<<r, BackOf(k)>>)' <=> MayBeGone(<<r, BackOf(k)>>)
      BY <1>0, <1>4, <2>1, KnownAll
    <3>. QED
      BY <1>0, <1>3, <2>1, <2>3, <3>1, <3>2, <3>3 DEF ThereInv
  <2>. QED
    BY <2>2, <2>3
<1>9. ThereInv'
  BY <1>0, <1>6, <1>7, <1>8 DEF ThereInv
<1>. QED
  BY <1>5, <1>9 DEF GraphInv

LEMMA GraphLoads ==
  ASSUME IInv, PipeInv, LifeInv, GraphInv, NEW t \in Trajs, Calls(t), Loads(t)
  PROVE  GraphInv'
<1>0. /\ TypeInv /\ ThereInv /\ KnownInv /\ MemberInv /\ ItemInv
      /\ phase \in [Trajs -> {"new", "open", "loaded", "finished", "deleted"}]
      /\ SameGraph
      /\ UNCHANGED << tstate, scans, nodes, submaps, finished, nodeIds, optSubmaps, optNodes, intra >>
      /\ nodes \subseteq NodeIds /\ submaps \subseteq SubmapIds
      /\ NodesToInsert = {} /\ SubmapsToInsert = {}
  BY DEF IInv, TypeInv, ClientType, GraphInv, Calls, SameGraph, Loads, NodesToInsert, SubmapsToInsert,
     GraphType, PipeInv
<1>1. PICK N : /\ N = {Item("freeze", t), Item("submapFromProto", t), Item("nodeFromProto", t),
                       Item("nodeToSubmap", t)}
               /\ Pending' = Pending \cup N
  BY DEF Loads
<1>2. /\ t \in Loaded /\ phase[t] = "new" /\ \A r \in Trajs : r # t => phase'[r] = phase[r]
      /\ NodesToInsert' = {<<t, 0>>} /\ SubmapsToInsert' = {<<t, 0>>}
  BY <1>0 DEF Loads
<1>3. (\A n \in nodes : n[1] # t) /\ (\A s \in submaps : s[1] # t)
  BY <1>2 DEF LifeInv, Life
<1>4. ASSUME NEW r \in Trajs, r # t PROVE ExecutedSame(r)
  <2>1. \A x \in N : \A op : x # Item(op, r)
    BY <1>1, <1>4, ItemsDiffer
  <2>2. \A x \in N : \A i : x # NodeItem(r, i)
    BY <1>1, ItemsDiffer
  <2>3. \A i \in Nat : Executed(r, i)' <=> Executed(r, i)
    BY <1>0, <1>1, <2>2 DEF Executed
  <2>. QED
    BY <1>0, <1>1, <2>1, <2>3 DEF ExecutedSame, Finished
<1>5. /\ \A n \in nodes : NodeKnown(n)' <=> NodeKnown(n)
      /\ \A s \in submaps : SubmapKnown(s)' <=> SubmapKnown(s)
      /\ \A s \in submaps : SubmapComplete(s)' <=> SubmapComplete(s)
  <2>1. ASSUME NEW n \in nodes PROVE NodeKnown(n)' <=> NodeKnown(n)
    <3>1. PICK r \in Trajs, i \in Nat : n = <<r, i>>
      BY <1>0, Ids
    <3>. QED
      BY <1>3, <1>4, <3>1, KnownFrame
  <2>2. ASSUME NEW s \in submaps
        PROVE  (SubmapKnown(s)' <=> SubmapKnown(s)) /\ (SubmapComplete(s)' <=> SubmapComplete(s))
    <3>1. PICK r \in Trajs, k \in Nat : s = <<r, k>>
      BY <1>0, Ids
    <3>. QED
      BY <1>3, <1>4, <3>1, KnownFrame
  <2>. QED
    BY <2>1, <2>2
<1>6. KnownInv'
  BY <1>0, <1>5 DEF KnownInv
<1>7. MemberInv'
  BY <1>0, <1>1 DEF MemberInv
<1>8. DeletedInv'
  BY <1>0 DEF GraphInv, DeletedInv
<1>9. ThereInv'
  <2>1. \A r \in Slam : r # t /\ r \in Trajs
    BY <1>2 DEF Slam
  <2>2. \A r \in Slam, i \in Nat : NodeItem(r, i) \in Pending' <=> NodeItem(r, i) \in Pending
    BY <1>1, ItemsDiffer
  <2>3. \A r \in Slam : \A k : MayBeGone(<<r, k>>)' <=> MayBeGone(<<r, k>>)
    BY <1>4, <2>1, KnownFrame
  <2>4. \A r \in Slam : \A i \in 0 .. scans[r] - 1 : i \in Nat
    BY <1>0, <2>1, ScanIndex
  <2>5. \A r \in Loaded : r # t => phase'[r] = phase[r]
    BY <1>2, PoseGraphAssumption
  <2>. QED
    BY <1>0, <1>2, <2>2, <2>3, <2>4, <2>5 DEF ThereInv
<1>. QED
  BY <1>6, <1>7, <1>8, <1>9 DEF GraphInv

\* A node or a submap that the graph gets is not known to the optimization.
LEMMA PutKeeps ==
  ASSUME IInv, GraphInv, NEW t \in Trajs, NEW N, NEW S, NEW c, Inserted(t, N, S, c),
         Pending' = Pending, N \subseteq NodeIds, S \subseteq SubmapIds,
         \A n \in N : n[1] = t /\ (n \notin nodes => ~NodeKnown(n)),
         \A s \in S : s[1] = t /\ (s \notin submaps => ~SubmapKnown(s) /\ ~SubmapComplete(s))
  PROVE  /\ KnownInv' /\ MemberInv' /\ DeletedInv'
         /\ \A r \in Trajs : ExecutedSame(r)
         /\ nodes' = nodes \cup N /\ submaps' = submaps \cup S /\ UNCHANGED << scans, phase >>
         /\ tstate[t] # "DELETED"
         /\ \A r \in Trajs : tstate'[r] = "DELETED" <=> tstate[r] = "DELETED"
<1>0. /\ TypeInv /\ KnownInv /\ MemberInv /\ DeletedInv
      /\ tstate \in [Trajs -> {"unknown", "ACTIVE", "FINISHED", "FROZEN", "DELETED"}]
      /\ nodes \subseteq NodeIds /\ submaps \subseteq SubmapIds
  BY DEF IInv, TypeInv, StateType, GraphInv, GraphType
<1>1. /\ tstate[t] \notin {"FINISHED", "DELETED"}
      /\ tstate' = [tstate EXCEPT ![t] = StateAfterAdd(t)]
      /\ nodes' = nodes \cup N /\ submaps' = submaps \cup S
      /\ UNCHANGED << finished, nodeIds, optSubmaps, optNodes, intra, scans, phase >>
  BY DEF Inserted, CanAddWorkItemModifying, optVars
<1>2. /\ tstate'[t] \notin {"FINISHED", "DELETED"} /\ \A r \in Trajs : r # t => tstate'[r] = tstate[r]
  BY <1>0, <1>1 DEF StateAfterAdd
<1>3. \A r \in Trajs : ExecutedSame(r)
  BY <1>1, <1>2 DEF ExecutedSame, Executed, Finished
<1>4. KnownInv'
  <2>1. \A n \in nodes' : n \in optNodes <=> NodeKnown(n)'
    <3>1. \A n \in nodes' : NodeKnown(n)' <=> NodeKnown(n)
      BY <1>0, <1>1, <1>3, KnownAll
    <3>2. \A n \in nodes' : n \in nodes \/ (n \in N /\ n \notin nodes)
      BY <1>1
    <3>. QED
      BY <1>0, <3>1, <3>2 DEF KnownInv
  <2>2. \A s \in submaps' : /\ s \in optSubmaps <=> SubmapKnown(s)'
                            /\ s \in finished <=> SubmapComplete(s)'
    <3>1. \A s \in submaps' : /\ SubmapKnown(s)' <=> SubmapKnown(s)
                              /\ SubmapComplete(s)' <=> SubmapComplete(s)
      BY <1>0, <1>1, <1>3, KnownAll
    <3>2. \A s \in submaps' : s \in submaps \/ (s \in S /\ s \notin submaps)
      BY <1>1
    <3>. QED
      BY <1>0, <3>1, <3>2 DEF KnownInv
  <2>. QED
    BY <1>0, <1>1, <2>1, <2>2 DEF KnownInv
<1>5. MemberInv'
  BY <1>0, <1>1 DEF MemberInv
<1>6. DeletedInv'
  BY <1>0, <1>1, <1>2 DEF DeletedInv
<1>. QED
  BY <1>1, <1>2, <1>3, <1>4, <1>5, <1>6

\* Scans reach the submaps in order.
LEMMA BackMonotone ==
  ASSUME NEW i \in Nat, NEW j \in Nat, i <= j
  PROVE  BackOf(i) \in Nat /\ BackOf(j) \in Nat /\ BackOf(i) <= BackOf(j)
<1>1. NumRangeData \in Nat \ {0}
  BY PoseGraphAssumption
<1>2. BackOf(i) <= BackOf(j)
  BY <1>1, DivMonotone DEF BackOf
<1>3. BackOf(i) \in Nat /\ BackOf(j) \in Nat
  BY <1>1 DEF BackOf
<1>. QED
  BY <1>2, <1>3

LEMMA GraphPutsScan ==
  ASSUME IInv, PipeInv, GraphInv, Puts, InsertsScan
  PROVE  GraphInv'
<1>1. PICK t \in Slam, i \in 0 .. MaxNodes - 1 :
        /\ phase[t] = "open" /\ scans[t] = i + 1 /\ NodeItem(t, i) \in Pending
        /\ NodesToInsert = {<<t, i>>} /\ SubmapsToInsert = {<<t, BackOf(i)>>}
        /\ NodesToInsert' = {} /\ SubmapsToInsert' = {}
        /\ Inserted(t, {<<t, i>>}, {<<t, BackOf(i)>>}, 1)
  BY DEF InsertsScan
<1>0. /\ TypeInv /\ ThereInv /\ Pending' = Pending /\ t \in Trajs /\ i \in Nat
      /\ nodes \subseteq NodeIds /\ submaps \subseteq SubmapIds
  BY IndexTypes DEF IInv, TypeInv, GraphType, GraphInv, Puts, Slam
<1>2. <<t, i>> \in NodeIds /\ <<t, BackOf(i)>> \in SubmapIds /\ BackOf(i) \in Nat
  BY <1>0, <1>1, ScanIds, BackMonotone
<1>3. ~NodeKnown(<<t, i>>)
  BY <1>1 DEF NodeKnown, Executed, Slam
<1>4. tstate[t] \notin {"FINISHED", "DELETED"}
  BY <1>1 DEF Inserted, CanAddWorkItemModifying
<1>5. ASSUME NEW j \in 0 .. MaxNodes - 1, Executed(t, j)
      PROVE  j \in Nat /\ j < i /\ j \in 0 .. scans[t] - 1 /\ BackOf(j) \in Nat /\ BackOf(j) <= BackOf(i)
  <2>1. j \in Nat /\ j < i + 1 /\ j # i
    BY <1>1, <1>5, IndexTypes DEF Executed
  <2>2. j < i /\ j \in 0 .. scans[t] - 1
    BY <1>0, <1>1, <2>1
  <2>. QED
    BY <1>0, <2>1, <2>2, BackMonotone
<1>6. ASSUME <<t, BackOf(i)>> \notin submaps
      PROVE  ~SubmapKnown(<<t, BackOf(i)>>) /\ ~SubmapComplete(<<t, BackOf(i)>>)
  <2>1. ~MayBeGone(<<t, BackOf(i)>>)
    BY <1>2, <1>4, <1>5 DEF MayBeGone
  <2>2. ASSUME NEW j \in 0 .. MaxNodes - 1, Executed(t, j) PROVE BackOf(j) # BackOf(i)
    <3>1. SUFFICES ASSUME BackOf(j) = BackOf(i) PROVE FALSE
      OBVIOUS
    <3>2. \/ <<t, j>> \in NodesToInsert
          \/ <<t, BackOf(j)>> \in submaps
          \/ MayBeGone(<<t, BackOf(j)>>)
      BY <1>0, <1>1, <1>5, <2>2 DEF ThereInv
    <3>3. <<t, j>> # <<t, i>>
      BY <1>0, <1>5, <2>2
    <3>. QED
      BY <1>1, <1>6, <2>1, <3>1, <3>2, <3>3
  <2>3. ~SubmapKnown(<<t, BackOf(i)>>)
    BY <1>1, <2>2 DEF SubmapKnown, Slam
  <2>4. ASSUME NEW j \in 0 .. MaxNodes - 1, Executed(t, j) PROVE ~Completes(j, BackOf(i))
    BY <1>2, <1>5, <2>4 DEF Completes
  <2>5. ~SubmapComplete(<<t, BackOf(i)>>)
    BY <1>1, <1>4, <2>4 DEF SubmapComplete, Slam, Finished
  <2>. QED
    BY <2>3, <2>5
<1>7. /\ KnownInv' /\ MemberInv' /\ DeletedInv'
      /\ \A r \in Trajs : ExecutedSame(r)
      /\ nodes' = nodes \cup {<<t, i>>} /\ submaps' = submaps \cup {<<t, BackOf(i)>>}
      /\ UNCHANGED << scans, phase >>
      /\ \A r \in Trajs : tstate'[r] = "DELETED" <=> tstate[r] = "DELETED"
  BY <1>0, <1>1, <1>2, <1>3, <1>6, PutKeeps
<1>8. ThereInv'
  <2>1. \A n \in nodes' : n[2] < scans'[n[1]] \/ (n[1] \in Loaded /\ n[2] = 0)
    BY <1>0, <1>1, <1>7 DEF ThereInv
  <2>2. \A s \in submaps' : \/ \E k \in 0 .. scans'[s[1]] - 1 : BackOf(k) = s[2]
                            \/ s[1] \in Loaded /\ s[2] = 0
    <3>1. i \in 0 .. scans[t] - 1
      BY <1>0, <1>1
    <3>. QED
      BY <1>0, <1>7, <3>1 DEF ThereInv
  <2>3. \A r \in Slam : \A k \in 0 .. scans'[r] - 1 :
          /\ NodeItem(r, k) \in Pending' => <<r, k>> \in nodes' \cup NodesToInsert'
          /\ \/ <<r, k>> \in NodesToInsert'
             \/ <<r, BackOf(k)>> \in submaps'
             \/ MayBeGone(<<r, BackOf(k)>>)'
    <3>1. ASSUME NEW r \in Slam, NEW k \in 0 .. scans'[r] - 1
          PROVE  /\ NodeItem(r, k) \in Pending' => <<r, k>> \in nodes' \cup NodesToInsert'
                 /\ \/ <<r, k>> \in NodesToInsert'
                    \/ <<r, BackOf(k)>> \in submaps'
                    \/ MayBeGone(<<r, BackOf(k)>>)'
      <4>1. r \in Trajs /\ k \in 0 .. scans[r] - 1
        BY <1>7, <3>1 DEF Slam
      <4>2. MayBeGone(<<r, BackOf(k)>>)' <=> MayBeGone(<<r, BackOf(k)>>)
        BY <1>0, <1>7, <4>1, KnownAll
      <4>3. /\ NodeItem(r, k) \in Pending => <<r, k>> \in nodes \cup NodesToInsert
            /\ \/ <<r, k>> \in NodesToInsert
               \/ <<r, BackOf(k)>> \in submaps
               \/ MayBeGone(<<r, BackOf(k)>>)
        BY <1>0, <4>1 DEF ThereInv
      <4>4. <<r, k>> = <<t, i>> => BackOf(k) = BackOf(i) /\ r = t
        OBVIOUS
      <4>. QED
        BY <1>0, <1>1, <1>7, <4>2, <4>3, <4>4
    <3>. QED
      BY <3>1
  <2>4. \A r \in Loaded : phase'[r] # "new" /\ tstate'[r] # "DELETED" =>
          /\ <<r, 0>> \in nodes' \cup NodesToInsert'
          /\ <<r, 0>> \in submaps' \cup SubmapsToInsert'
    BY <1>0, <1>1, <1>7, PoseGraphAssumption DEF ThereInv
  <2>. QED
    BY <2>1, <2>2, <2>3, <2>4 DEF ThereInv
<1>. QED
  BY <1>7, <1>8 DEF GraphInv

LEMMA GraphPutsLoaded ==
  ASSUME IInv, PipeInv, GraphInv, Puts, InsertsLoadedSubmap \/ InsertsLoadedNode
  PROVE  GraphInv'
<1>1. PICK t, N, S :
        /\ t \in Loaded /\ (N = {} \/ N = {<<t, 0>>}) /\ (S = {} \/ S = {<<t, 0>>})
        /\ N # {} => Item("nodeFromProto", t) \in Pending
        /\ S # {} => Item("submapFromProto", t) \in Pending
        /\ NodesToInsert = {<<t, 0>>} /\ SubmapsToInsert = S
        /\ NodesToInsert' \cup N = {<<t, 0>>} /\ SubmapsToInsert' = {}
        /\ Inserted(t, N, S, 0)
  <2>1. CASE InsertsLoadedSubmap
    <3>1. PICK t \in Loaded :
            /\ Item("submapFromProto", t) \in Pending
            /\ NodesToInsert = {<<t, 0>>} /\ SubmapsToInsert = {<<t, 0>>}
            /\ NodesToInsert' = {<<t, 0>>} /\ SubmapsToInsert' = {}
            /\ Inserted(t, {}, {<<t, 0>>}, 0)
      BY <2>1 DEF InsertsLoadedSubmap
    <3>. QED
      BY <3>1
  <2>2. CASE InsertsLoadedNode
    <3>1. PICK t \in Loaded :
            /\ Item("nodeFromProto", t) \in Pending
            /\ NodesToInsert = {<<t, 0>>} /\ SubmapsToInsert = {}
            /\ NodesToInsert' = {} /\ SubmapsToInsert' = {}
            /\ Inserted(t, {<<t, 0>>}, {}, 0)
      BY <2>2 DEF InsertsLoadedNode
    <3>. QED
      BY <3>1
  <2>. QED
    BY <2>1, <2>2
<1>0. /\ TypeInv /\ ThereInv /\ Pending' = Pending /\ t \in Trajs
      /\ nodes \subseteq NodeIds /\ submaps \subseteq SubmapIds
  BY <1>1, PoseGraphAssumption DEF IInv, TypeInv, GraphType, GraphInv, Puts
<1>2. <<t, 0>> \in NodeIds /\ <<t, 0>> \in SubmapIds
  BY <1>0, LoadedIds
<1>3. /\ \A n \in N : n[1] = t /\ ~NodeKnown(n)
      /\ \A s \in S : s[1] = t /\ ~SubmapKnown(s) /\ ~SubmapComplete(s)
  BY <1>1 DEF NodeKnown, SubmapKnown, SubmapComplete
<1>4. N \subseteq NodeIds /\ S \subseteq SubmapIds
  BY <1>1, <1>2
<1>5. /\ KnownInv' /\ MemberInv' /\ DeletedInv'
      /\ \A r \in Trajs : ExecutedSame(r)
      /\ nodes' = nodes \cup N /\ submaps' = submaps \cup S
      /\ UNCHANGED << scans, phase >>
      /\ \A r \in Trajs : tstate'[r] = "DELETED" <=> tstate[r] = "DELETED"
  BY <1>0, <1>1, <1>3, <1>4, PutKeeps
<1>6. ThereInv'
  <2>1. \A n \in nodes' : n[2] < scans'[n[1]] \/ (n[1] \in Loaded /\ n[2] = 0)
    BY <1>0, <1>1, <1>5 DEF ThereInv
  <2>2. \A s \in submaps' : \/ \E k \in 0 .. scans'[s[1]] - 1 : BackOf(k) = s[2]
                            \/ s[1] \in Loaded /\ s[2] = 0
    BY <1>0, <1>1, <1>5 DEF ThereInv
  <2>3. ASSUME NEW r \in Slam, NEW k \in 0 .. scans'[r] - 1
        PROVE  /\ NodeItem(r, k) \in Pending' => <<r, k>> \in nodes' \cup NodesToInsert'
               /\ \/ <<r, k>> \in NodesToInsert'
                  \/ <<r, BackOf(k)>> \in submaps'
                  \/ MayBeGone(<<r, BackOf(k)>>)'
    <3>1. r \in Trajs /\ k \in 0 .. scans[r] - 1 /\ r # t
      BY <1>1, <1>5, <2>3 DEF Slam
    <3>2. MayBeGone(<<r, BackOf(k)>>)' <=> MayBeGone(<<r, BackOf(k)>>)
      BY <1>0, <1>5, <3>1, KnownAll
    <3>3. /\ NodeItem(r, k) \in Pending => <<r, k>> \in nodes \cup NodesToInsert
          /\ \/ <<r, k>> \in NodesToInsert
             \/ <<r, BackOf(k)>> \in submaps
             \/ MayBeGone(<<r, BackOf(k)>>)
      BY <1>0, <3>1 DEF ThereInv
    <3>4. <<r, k>> # <<t, 0>>
      BY <3>1
    <3>. QED
      BY <1>0, <1>1, <1>5, <3>2, <3>3, <3>4
  <2>4. \A r \in Loaded : phase'[r] # "new" /\ tstate'[r] # "DELETED" =>
          /\ <<r, 0>> \in nodes' \cup NodesToInsert'
          /\ <<r, 0>> \in submaps' \cup SubmapsToInsert'
    BY <1>0, <1>1, <1>5, PoseGraphAssumption DEF ThereInv
  <2>. QED
    BY <2>1, <2>2, <2>3, <2>4 DEF ThereInv
<1>. QED
  BY <1>5, <1>6 DEF GraphInv

LEMMA GraphFinishes ==
  ASSUME IInv, PipeInv, LifeInv, GraphInv, NEW t \in Trajs, RanFinish(t)
  PROVE  GraphInv'
<1>0. /\ TypeInv /\ ItemInv /\ GraphInv /\ ThereInv /\ KnownInv /\ MemberInv /\ DeletedInv
      /\ tstate \in [Trajs -> {"unknown", "ACTIVE", "FINISHED", "FROZEN", "DELETED"}]
      /\ nodes \subseteq NodeIds /\ submaps \subseteq SubmapIds
  BY DEF IInv, TypeInv, StateType, PipeInv, GraphInv, GraphType
<1>1. /\ t \in Slam /\ Ran(Item("finish", t)) /\ Item("finish", t) \in Pending
      /\ tstate' = [tstate EXCEPT ![t] = "FINISHED"]
      /\ finished' = finished \cup {s \in submaps : s[1] = t}
      /\ UNCHANGED << deletion, nodes, submaps, nodeIds, optSubmaps, optNodes, intra, trimmers >>
      /\ UNCHANGED << scans, phase >> /\ Inserts' = Inserts
  BY DEF RanFinish, Ran
<1>2. /\ tstate'[t] = "FINISHED" /\ \A r \in Trajs : r # t => tstate'[r] = tstate[r]
  BY <1>0, <1>1
<1>3. ~Finished(t)
  <2>1. Life(t)
    BY DEF LifeInv
  <2>. QED
    BY <1>1, <2>1, StepFields DEF Life
<1>4. \A r \in Trajs : \A x \in GraphItems(r) : x \in Pending' <=> x \in Pending
  BY <1>1, GraphItemOps DEF Ran
<1>5. \A r \in Trajs : \A i \in Nat : NodeItem(r, i) \in Pending' <=> NodeItem(r, i) \in Pending
  BY <1>4 DEF GraphItems
<1>6. \A r \in Trajs : \A op \in {"submapFromProto", "nodeFromProto", "nodeToSubmap"} :
        Item(op, r) \in Pending' <=> Item(op, r) \in Pending
  BY <1>4 DEF GraphItems
<1>7. \A r \in Trajs : \A i \in Nat : Executed(r, i)' <=> Executed(r, i)
  BY <1>1, <1>5 DEF Executed
<1>8. \A i \in 0 .. MaxNodes - 1 : i \in Nat
  BY IndexTypes
<1>9. \A n \in nodes : NodeKnown(n)' <=> NodeKnown(n)
  BY <1>0, <1>6, <1>7, Ids DEF NodeKnown
<1>10. \A s \in submaps : SubmapKnown(s)' <=> SubmapKnown(s)
  BY <1>0, <1>6, <1>7, <1>8, Ids DEF SubmapKnown
<1>11. \A s \in submaps : SubmapComplete(s)' <=> SubmapComplete(s) \/ s[1] = t
  <2>1. ASSUME NEW s \in submaps, s[1] = t PROVE SubmapComplete(s)'
    BY <1>1, <1>2, <2>1 DEF SubmapComplete, Finished, Slam
  <2>2. ASSUME NEW s \in submaps, s[1] # t PROVE SubmapComplete(s)' <=> SubmapComplete(s)
    <3>1. s[1] \in Trajs /\ Finished(s[1])' <=> Finished(s[1])
      BY <1>0, <1>2, <2>2, Ids DEF Finished
    <3>. QED
      BY <1>0, <1>6, <1>7, <1>8, <3>1, Ids DEF SubmapComplete
  <2>. QED
    BY <2>1, <2>2
<1>12. KnownInv'
  BY <1>0, <1>1, <1>9, <1>10, <1>11 DEF KnownInv
<1>13. MemberInv'
  <2>1. \A n \in optNodes : n[1] \in Trajs
    BY <1>0, Ids DEF KnownInv
  <2>. QED
    BY <1>0, <1>1, <1>6, <2>1 DEF MemberInv
<1>14. \A r \in Trajs : tstate'[r] = "DELETED" <=> tstate[r] = "DELETED"
  BY <1>2, <1>3 DEF Finished
<1>15. DeletedInv'
  BY <1>0, <1>1, <1>14 DEF DeletedInv
<1>16. ThereInv'
  <2>1. \A r \in Trajs : \A k : MayBeGone(<<r, k>>)' <=> MayBeGone(<<r, k>>)
    BY <1>7, <1>8, <1>14 DEF MayBeGone
  <2>2. \A r \in Slam : r \in Trajs /\ \A i \in 0 .. scans[r] - 1 : i \in Nat
    BY <1>0, ScanIndex DEF Slam
  <2>3. NodesToInsert' = NodesToInsert /\ SubmapsToInsert' = SubmapsToInsert
    BY <1>1, InsertsSame
  <2>. QED
    BY <1>0, <1>1, <1>5, <1>14, <2>1, <2>2, <2>3, PoseGraphAssumption DEF ThereInv
<1>. QED
  BY <1>12, <1>13, <1>15, <1>16 DEF GraphInv

\* What an item of a trajectory that has been read leaves.
LEMMA LoadedRuns ==
  ASSUME IInv, PipeInv, LifeInv, GraphInv, NEW t \in Loaded,
         NEW op \in {"submapFromProto", "nodeFromProto", "nodeToSubmap"}, Ran(Item(op, t)),
         UNCHANGED << tstate, nodes, submaps >>
  PROVE  /\ ThereInv' /\ DeletedInv' /\ t \in Trajs /\ UNCHANGED << phase, scans >>
         /\ \A r \in Trajs : \A o : (r # t \/ o # op) => (Item(o, r) \in Pending' <=> Item(o, r) \in Pending)
         /\ \A r, i : NodeItem(r, i) \in Pending' <=> NodeItem(r, i) \in Pending
         /\ Item(op, t) \notin Pending' /\ Item(op, t) \in Pending
         /\ \A r \in Trajs : r # t => ExecutedSame(r)
         /\ phase[t] # "new" /\ tstate[t] # "DELETED"
         /\ op = "submapFromProto" => <<t, 0>> \in submaps
         /\ op \in {"nodeFromProto", "nodeToSubmap"} => <<t, 0>> \in nodes
         /\ op = "nodeToSubmap" => /\ Item("submapFromProto", t) \notin Pending
                                   /\ Item("nodeFromProto", t) \notin Pending
                                   /\ <<t, 0>> \in submaps
<1>0. /\ TypeInv /\ ItemInv /\ TodoInv /\ ThereInv /\ DeletedInv /\ t \in Trajs
      /\ nodes \subseteq NodeIds /\ submaps \subseteq SubmapIds
  BY PoseGraphAssumption DEF IInv, TypeInv, PipeInv, GraphInv, GraphType
<1>1. /\ Item(op, t) \in Pending /\ Item(op, t) \notin Pending' /\ Item(op, t) \notin TodoItems
      /\ Pending' \subseteq Pending /\ \A y \in Pending : y \in Pending' \/ y = Item(op, t)
      /\ \A y \in Pending' : Before(Item(op, t), y)
      /\ UNCHANGED << phase, scans >> /\ Inserts' = Inserts
  BY StepFields DEF Ran
<1>2. \A r \in Trajs : \A o : (r # t \/ o # op) => (Item(o, r) \in Pending' <=> Item(o, r) \in Pending)
  BY <1>1, ItemsDiffer
<1>3. \A r, i : NodeItem(r, i) \in Pending' <=> NodeItem(r, i) \in Pending
  BY <1>1, ItemsDiffer
<1>4. \A r \in Trajs : \A i \in Nat : Executed(r, i)' <=> Executed(r, i)
  BY <1>1, <1>3 DEF Executed
<1>5. \A r \in Trajs : r # t => ExecutedSame(r)
  BY <1>2, <1>4 DEF ExecutedSame, Finished
<1>6. phase[t] # "new" /\ tstate[t] # "DELETED"
  <2>1. phase[t] # "new"
    BY <1>0, <1>1, StepFields DEF ItemInv
  <2>2. Life(t)
    BY <1>0 DEF LifeInv
  <2>. QED
    BY <1>1, <2>1, <2>2, StepFields DEF Life
<1>7. <<t, 0>> \in nodes \cup NodesToInsert /\ <<t, 0>> \in submaps \cup SubmapsToInsert
  BY <1>0, <1>6 DEF ThereInv
<1>8. \A y \in Pending : y.traj = t /\ y.op \in {"submapFromProto", "nodeFromProto", "nodeToSubmap"}
        => y \in Pending' \/ y = Item(op, t)
  BY <1>1
<1>9. op = "nodeToSubmap" => /\ Item("submapFromProto", t) \notin Pending
                             /\ Item("nodeFromProto", t) \notin Pending
  <2> SUFFICES ASSUME op = "nodeToSubmap", NEW o \in {"submapFromProto", "nodeFromProto"},
                      Item(o, t) \in Pending
               PROVE  FALSE
    OBVIOUS
  <2>1. Item(o, t) \in Pending'
    BY <1>0, <1>2
  <2>2. Before(Item(op, t), Item(o, t))
    BY <1>1, <2>1
  <2>. QED
    BY <2>2, StepFields DEF Before
<1>10. <<t, 0>> \in NodesToInsert => Item("nodeFromProto", t) \in TodoItems
  <2>1. t \notin Slam
    BY DEF Slam
  <2>. QED
    BY <1>0, <2>1, ToInsert
<1>11. <<t, 0>> \in SubmapsToInsert => Item("submapFromProto", t) \in TodoItems
  <2>1. t \notin Slam
    BY DEF Slam
  <2>. QED
    BY <1>0, <2>1, ToInsert
<1>12. \A y \in TodoItems : y.traj \in Trajs => y \in Pending
  BY DEF Pending, AllItems
<1>13. /\ op = "submapFromProto" => <<t, 0>> \in submaps
       /\ op \in {"nodeFromProto", "nodeToSubmap"} => <<t, 0>> \in nodes
       /\ op = "nodeToSubmap" => <<t, 0>> \in submaps
  BY <1>0, <1>1, <1>7, <1>9, <1>10, <1>11, <1>12, StepFields
<1>14. DeletedInv'
  BY <1>0 DEF DeletedInv
<1>15. ThereInv'
  <2>1. \A r \in Slam : r \in Trajs /\ r # t /\ \A i \in 0 .. scans[r] - 1 : i \in Nat
    BY <1>0, ScanIndex DEF Slam
  <2>2. \A r \in Slam : \A k : MayBeGone(<<r, k>>)' <=> MayBeGone(<<r, k>>)
    BY <1>5, <2>1, KnownFrame
  <2>3. NodesToInsert' = NodesToInsert /\ SubmapsToInsert' = SubmapsToInsert
    BY <1>1, InsertsSame
  <2>. QED
    BY <1>0, <1>1, <1>3, <2>1, <2>2, <2>3 DEF ThereInv
<1>. QED
  BY <1>0, <1>1, <1>2, <1>3, <1>5, <1>6, <1>9, <1>13, <1>14, <1>15

\* What has been read from a file has one submap and one node.
LEMMA LoadedOnes ==
  ASSUME TypeInv, ItemInv, ThereInv, NEW t \in Loaded
  PROVE  /\ \A s \in submaps : s[1] = t => s = <<t, 0>>
         /\ \A n \in nodes : n[1] = t => n = <<t, 0>>
<1>0. /\ scans[t] = 0 /\ nodes \subseteq NodeIds /\ submaps \subseteq SubmapIds
  BY DEF ItemInv, TypeInv, GraphType
<1>1. ASSUME NEW s \in submaps, s[1] = t PROVE s = <<t, 0>>
  <2>1. ~ \E i \in 0 .. scans[t] - 1 : BackOf(i) = s[2]
    BY <1>0
  <2>. QED
    BY <1>0, <1>1, <2>1, Ids DEF ThereInv
<1>2. ASSUME NEW n \in nodes, n[1] = t PROVE n = <<t, 0>>
  <2>1. n[2] \in Nat /\ n = <<n[1], n[2]>>
    BY <1>0, Ids
  <2>2. ~ (n[2] < scans[t])
    BY <1>0, <2>1
  <2>. QED
    BY <1>2, <2>1, <2>2 DEF ThereInv
<1>. QED
  BY <1>1, <1>2

LEMMA GraphRunsLoaded ==
  ASSUME IInv, PipeInv, LifeInv, GraphInv, NEW t \in Trajs,
         RanSubmap(t) \/ RanNode(t) \/ RanMember(t)
  PROVE  GraphInv'
<1>1. PICK op \in {"submapFromProto", "nodeFromProto", "nodeToSubmap"} :
        /\ op = "submapFromProto" => RanSubmap(t)
        /\ op = "nodeFromProto" => RanNode(t)
        /\ op = "nodeToSubmap" => RanMember(t)
        /\ Ran(Item(op, t)) /\ t \in Loaded /\ UNCHANGED << tstate, nodes, submaps >>
  BY DEF RanSubmap, RanNode, RanMember
<1>2. /\ ThereInv' /\ DeletedInv' /\ t \in Trajs /\ UNCHANGED << phase, scans >>
      /\ \A r \in Trajs : \A o : (r # t \/ o # op) => (Item(o, r) \in Pending' <=> Item(o, r) \in Pending)
      /\ Item(op, t) \notin Pending' /\ Item(op, t) \in Pending
      /\ \A r \in Trajs : r # t => ExecutedSame(r)
      /\ op = "submapFromProto" => <<t, 0>> \in submaps
      /\ op \in {"nodeFromProto", "nodeToSubmap"} => <<t, 0>> \in nodes
      /\ op = "nodeToSubmap" => /\ Item("submapFromProto", t) \notin Pending
                                /\ Item("nodeFromProto", t) \notin Pending
                                /\ <<t, 0>> \in submaps
  BY <1>1, LoadedRuns
<1>0. /\ TypeInv /\ KnownInv /\ MemberInv /\ ItemInv
      /\ nodes \subseteq NodeIds /\ submaps \subseteq SubmapIds
      /\ \A s \in submaps : s[1] = t => s = <<t, 0>>
      /\ \A n \in nodes : n[1] = t => n = <<t, 0>>
  BY <1>1, LoadedOnes DEF IInv, TypeInv, PipeInv, GraphInv, GraphType
<1>3. ASSUME NEW n \in nodes
      PROVE  NodeKnown(n)' <=> NodeKnown(n) \/ (op = "nodeFromProto" /\ n = <<t, 0>>)
  <2>1. PICK r \in Trajs, i \in Nat : n = <<r, i>>
    BY <1>0, Ids
  <2>2. CASE r # t
    BY <1>2, <2>1, <2>2, KnownFrame
  <2>3. CASE r = t
    BY <1>0, <1>1, <1>2, <2>1, <2>3 DEF NodeKnown
  <2>. QED
    BY <2>2, <2>3
<1>4. ASSUME NEW s \in submaps
      PROVE  /\ SubmapKnown(s)' <=> SubmapKnown(s) \/ (op = "submapFromProto" /\ s = <<t, 0>>)
             /\ SubmapComplete(s)' <=> SubmapComplete(s) \/ (op = "submapFromProto" /\ s = <<t, 0>>)
  <2>1. PICK r \in Trajs, k \in Nat : s = <<r, k>>
    BY <1>0, Ids
  <2>2. CASE r # t
    BY <1>2, <2>1, <2>2, KnownFrame
  <2>3. CASE r = t
    BY <1>0, <1>1, <1>2, <2>1, <2>3 DEF SubmapKnown, SubmapComplete
  <2>. QED
    BY <2>2, <2>3
<1>5. CASE op = "submapFromProto"
  <2>1. /\ finished' = finished \cup {<<t, 0>>} /\ optSubmaps' = optSubmaps \cup {<<t, 0>>}
        /\ UNCHANGED << nodes, submaps, nodeIds, optNodes, intra >>
    BY <1>1, <1>5 DEF RanSubmap
  <2>2. KnownInv'
    BY <1>0, <1>2, <1>3, <1>4, <1>5, <2>1 DEF KnownInv
  <2>3. \A r \in Trajs : Item("nodeToSubmap", r) \in Pending' <=> Item("nodeToSubmap", r) \in Pending
    BY <1>2, <1>5
  <2>4. MemberInv'
    BY <1>0, <2>1, <2>3, PoseGraphAssumption DEF MemberInv
  <2>. QED
    BY <1>2, <2>2, <2>4 DEF GraphInv
<1>6. CASE op = "nodeFromProto"
  <2>1. /\ optNodes' = optNodes \cup {<<t, 0>>}
        /\ UNCHANGED << nodes, submaps, finished, nodeIds, optSubmaps, intra >>
    BY <1>1, <1>6 DEF RanNode
  <2>2. KnownInv'
    BY <1>0, <1>2, <1>3, <1>4, <1>6, <2>1 DEF KnownInv
  <2>3. \A r \in Trajs : Item("nodeToSubmap", r) \in Pending' <=> Item("nodeToSubmap", r) \in Pending
    BY <1>2, <1>6
  <2>4. Item("nodeToSubmap", t) \in Pending'
    BY <1>0, <1>1, <1>2, <1>6, <2>3 DEF ItemInv
  <2>5. MemberInv'
    BY <1>0, <1>1, <2>1, <2>3, <2>4, PoseGraphAssumption DEF MemberInv
  <2>. QED
    BY <1>2, <2>2, <2>5 DEF GraphInv
<1>7. CASE op = "nodeToSubmap"
  <2>1. /\ nodeIds' = nodeIds \cup {<< <<t, 0>>, <<t, 0>> >>}
        /\ UNCHANGED << nodes, submaps, finished, optNodes, optSubmaps, intra >>
    BY <1>1, <1>7 DEF RanMember
  <2>2. KnownInv'
    BY <1>0, <1>2, <1>3, <1>4, <1>7, <2>1 DEF KnownInv
  <2>3. <<t, 0>> \in optSubmaps /\ <<t, 0>> \in optNodes
    <3>1. SubmapKnown(<<t, 0>>) /\ NodeKnown(<<t, 0>>)
      BY <1>1, <1>2, <1>7 DEF SubmapKnown, NodeKnown
    <3>. QED
      BY <1>0, <1>2, <1>7, <3>1 DEF KnownInv
  <2>4. /\ \A p \in nodeIds' : p[1] \in optSubmaps' /\ p[2] \in optNodes' /\ p[1][1] = p[2][1]
        /\ intra' \subseteq nodeIds'
    BY <1>0, <2>1, <2>3 DEF MemberInv
  <2>5. ASSUME NEW n \in optNodes'
        PROVE  \/ n[1] \in Loaded /\ Item("nodeToSubmap", n[1]) \in Pending'
               \/ \E s \in submaps' : <<s, n>> \in nodeIds'
    <3>1. n \in optNodes /\ n \in nodes
      BY <1>0, <2>1 DEF KnownInv
    <3>2. CASE n[1] = t
      BY <1>0, <1>2, <1>7, <2>1, <3>1, <3>2
    <3>3. CASE n[1] # t
      BY <1>0, <1>2, <2>1, <3>1, <3>3, PoseGraphAssumption DEF MemberInv
    <3>. QED
      BY <3>2, <3>3
  <2>6. MemberInv'
    BY <2>4, <2>5 DEF MemberInv
  <2>. QED
    BY <1>2, <2>2, <2>6 DEF GraphInv
<1>. QED
  BY <1>5, <1>6, <1>7

LEMMA DivRem ==
  ASSUME NEW a \in Nat, NEW n \in Nat \ {0}
  PROVE  /\ a \div n \in Nat /\ a % n \in Nat /\ a % n < n
         /\ a = n * (a \div n) + (a % n)
<1>1. a \div n \in Nat /\ a % n \in Nat /\ a % n < n
  OBVIOUS
<1>2. a \in Int /\ n \in Int /\ n > 0
  OBVIOUS
<1>3. a = n * (a \div n) + (a % n)
  BY <1>2, Z3
<1>. QED
  BY <1>1, <1>3

\* Where a quotient is known from its bounds.
LEMMA DivBounds ==
  ASSUME NEW a \in Nat, NEW n \in Nat \ {0}, NEW q \in Nat
  PROVE  /\ n * q <= a <=> q <= a \div n
         /\ n * q <= a /\ a < n * (q + 1) <=> a \div n = q
<1>1. PICK d \in Nat, r \in Nat : d = a \div n /\ r < n /\ a = n * d + r
  BY DivRem
<1>2. ASSUME NEW x \in Nat, NEW y \in Nat, x <= y PROVE n * x <= n * y
  BY <1>2
<1>3. n * (d + 1) = n * d + n /\ n * (q + 1) = n * q + n /\ n * d \in Nat /\ n * q \in Nat
  OBVIOUS
<1>4. ASSUME q <= d PROVE n * q <= a
  <2>1. n * q <= n * d
    BY <1>2, <1>4
  <2>. QED
    BY <1>1, <1>3, <2>1
<1>5. ASSUME n * q <= a PROVE q <= d
  <2>1. SUFFICES ASSUME d + 1 <= q PROVE FALSE
    OBVIOUS
  <2>2. n * (d + 1) <= n * q
    BY <1>2, <2>1
  <2>. QED
    BY <1>1, <1>3, <1>5, <2>2
<1>6. ASSUME d = q PROVE a < n * (q + 1)
  BY <1>1, <1>3, <1>6
<1>7. ASSUME a < n * (q + 1) PROVE d <= q
  <2>1. SUFFICES ASSUME q + 1 <= d PROVE FALSE
    OBVIOUS
  <2>2. n * (q + 1) <= n * d
    BY <1>2, <2>1
  <2>. QED
    BY <1>1, <1>3, <1>7, <2>2
<1>. QED
  BY <1>1, <1>4, <1>5, <1>6, <1>7

\* The scan that completes submap k is the last of those that are inserted into it.
LastOf(k) == (k + 2) * NumRangeData - 1

LEMMA Lasts ==
  ASSUME NEW k \in Nat
  PROVE  /\ LastOf(k) \in Nat /\ Completes(LastOf(k), k) /\ BackOf(LastOf(k)) = k + 1
         /\ \A i \in Nat : Completes(i, k) => i = LastOf(k)
         /\ \A i \in Nat : BackOf(i) >= k + 2 <=> i > LastOf(k)
<1>1. PICK n \in Nat \ {0} : n = NumRangeData
  BY PoseGraphAssumption
<1>2. PICK l : l = LastOf(k)
  OBVIOUS
<1>3. l + 1 = n * (k + 2) /\ l \in Nat /\ n * (k + 2) = n * (k + 1) + n /\ n * (k + 1) \in Nat
  BY <1>1, <1>2 DEF LastOf
<1>4. BackOf(l) = k + 1
  <2>1. n * (k + 1) <= l /\ l < n * ((k + 1) + 1)
    BY <1>3
  <2>. QED
    BY <1>1, <1>3, <2>1, DivBounds DEF BackOf
<1>5. (l + 1) % n = 0
  <2>1. (l + 1) \div n = k + 2
    <3>1. n * (k + 2) <= l + 1 /\ l + 1 < n * ((k + 2) + 1)
      BY <1>3
    <3>. QED
      BY <1>3, <3>1, DivBounds
  <2>. QED
    BY <1>3, <2>1, DivRem
<1>6. Completes(l, k)
  BY <1>1, <1>4, <1>5 DEF Completes, FinishesFront
<1>7. ASSUME NEW i \in Nat, Completes(i, k) PROVE i = l
  <2>1. BackOf(i) = k + 1 /\ (i + 1) % n = 0
    BY <1>1, <1>7 DEF Completes, FinishesFront
  <2>2. n * (k + 1) <= i /\ i < n * (k + 2)
    <3>1. n * (k + 1) <= i /\ i < n * ((k + 1) + 1)
      BY <1>1, <2>1, DivBounds DEF BackOf
    <3>. QED
      BY <3>1
  <2>3. PICK d \in Nat : d = (i + 1) \div n /\ i + 1 = n * d
    BY <2>1, DivRem
  <2>4. n * (k + 1) < n * d
    BY <1>3, <2>2, <2>3
  <2>5. k + 2 <= d
    <3>1. SUFFICES ASSUME d <= k + 1 PROVE FALSE
      OBVIOUS
    <3>2. n * d <= n * (k + 1)
      BY <3>1
    <3>. QED
      BY <1>3, <2>3, <2>4, <3>2
  <2>6. n * (k + 2) <= n * d
    BY <2>5
  <2>. QED
    BY <1>3, <2>2, <2>3, <2>6
<1>8. ASSUME NEW i \in Nat PROVE BackOf(i) >= k + 2 <=> i > l
  <2>1. n * (k + 2) <= i <=> k + 2 <= BackOf(i)
    BY <1>1, DivBounds DEF BackOf
  <2>2. BackOf(i) \in Nat
    BY <1>1 DEF BackOf
  <2>. QED
    BY <1>3, <2>1, <2>2
<1>. QED
  BY <1>2, <1>3, <1>4, <1>6, <1>7, <1>8

\* Into every submap but the first of those that a scan reaches an earlier one was inserted.
LEMMA Before1 ==
  ASSUME NEW i \in Nat, BackOf(i) > 0
  PROVE  \E j \in Nat : j < i /\ BackOf(j) = BackOf(i) - 1
<1>1. PICK n \in Nat \ {0} : n = NumRangeData
  BY PoseGraphAssumption
<1>2. PICK b \in Nat : b + 1 = BackOf(i)
  <2>1. BackOf(i) \in Nat
    BY <1>1 DEF BackOf
  <2>. QED
    BY <2>1
<1>3. PICK j : j = n * b
  OBVIOUS
<1>4. j \in Nat /\ n * (b + 1) = j + n
  BY <1>3
<1>5. n * (b + 1) <= i
  BY <1>1, <1>2, DivBounds DEF BackOf
<1>6. BackOf(j) = b
  <2>1. n * b <= j /\ j < n * (b + 1)
    BY <1>3, <1>4
  <2>. QED
    BY <1>1, <1>4, <2>1, DivBounds DEF BackOf
<1>. QED
  BY <1>2, <1>4, <1>5, <1>6

\* What the item of a node leaves.
LEMMA ScanRuns ==
  ASSUME IInv, PipeInv, NEW t \in Trajs, NEW i \in 0 .. MaxNodes - 1, RanScan(t, i)
  PROVE  /\ i \in Nat /\ BackOf(i) \in Nat /\ t \notin Loaded
         /\ \A r \in Trajs : r # t => ExecutedSame(r)
         /\ \A j \in Nat : Executed(t, j) <=> j < i
         /\ \A j \in Nat : Executed(t, j)' <=> j <= i
         /\ \A r, op : Item(op, r) \in Pending' <=> Item(op, r) \in Pending
         /\ Finished(t)' <=> Finished(t)
<1>0. /\ t \in Slam /\ i < scans[t] /\ Ran(NodeItem(t, i)) /\ TypeInv /\ ItemInv
      /\ i \in Nat /\ scans[t] \in Nat /\ scans' = scans /\ tstate' = tstate
      /\ NodeItem(t, i) \in Pending /\ Pending' \subseteq Pending
      /\ NodeItem(t, i) \notin Pending'
      /\ \A y \in Pending : y \in Pending' \/ y = NodeItem(t, i)
      /\ \A y \in Pending' : Before(NodeItem(t, i), y)
  BY IndexTypes, StepFields DEF RanScan, Ran, IInv, TypeInv, PipeInv
<1>1. BackOf(i) \in Nat
  BY <1>0, BackMonotone
<1>2. \A r, op : Item(op, r) \in Pending' <=> Item(op, r) \in Pending
  BY <1>0, ItemsDiffer
<1>3. ASSUME NEW r \in Trajs, NEW j \in Nat, r # t \/ j # i
      PROVE  NodeItem(r, j) \in Pending' <=> NodeItem(r, j) \in Pending
  BY <1>0, <1>3, ItemsDiffer
<1>4. ASSUME NEW r \in Trajs, r # t PROVE ExecutedSame(r)
  <2>1. \A j \in Nat : Executed(r, j)' <=> Executed(r, j)
    BY <1>0, <1>3, <1>4 DEF Executed
  <2>. QED
    BY <1>0, <1>2, <2>1 DEF ExecutedSame, Finished
<1>5. ASSUME NEW j \in Nat, j < i PROVE NodeItem(t, j) \notin Pending
  <2>1. SUFFICES ASSUME NodeItem(t, j) \in Pending PROVE FALSE
    OBVIOUS
  <2>2. NodeItem(t, j) \in Pending'
    BY <1>3, <1>5, <2>1
  <2>3. Before(NodeItem(t, i), NodeItem(t, j))
    BY <1>0, <2>2
  <2>4. i < j
    BY <2>3, StepFields DEF Before
  <2>. QED
    BY <1>0, <1>5, <2>4
<1>6. ASSUME NEW j \in Nat, i < j, j < scans[t] PROVE NodeItem(t, j) \in Pending
  <2>1. i \in 0 .. scans[t] - 1 /\ j \in 0 .. scans[t] - 1
    BY <1>0, <1>6
  <2>. QED
    BY <1>0, <1>6, <2>1 DEF ItemInv
<1>7. ASSUME NEW j \in Nat PROVE Executed(t, j) <=> j < i
  BY <1>0, <1>5, <1>6 DEF Executed
<1>8. ASSUME NEW j \in Nat PROVE Executed(t, j)' <=> j <= i
  <2>1. CASE j = i
    BY <1>0, <2>1 DEF Executed
  <2>2. CASE j # i
    <3>1. Executed(t, j)' <=> Executed(t, j)
      BY <1>0, <1>3, <2>2 DEF Executed
    <3>. QED
      BY <1>0, <1>7, <2>2, <3>1
  <2>. QED
    BY <2>1, <2>2
<1>. QED
  BY <1>0, <1>1, <1>2, <1>4, <1>7, <1>8 DEF Finished, Slam

\* What is known of the graph after it.
LEMMA ScanKnows ==
  ASSUME IInv, PipeInv, NEW t \in Trajs, NEW i \in 0 .. MaxNodes - 1, RanScan(t, i)
  PROVE  /\ \A n \in NodeIds : NodeKnown(n)' <=> NodeKnown(n) \/ n = <<t, i>>
         /\ \A s \in SubmapIds : SubmapKnown(s)' <=> SubmapKnown(s) \/ s = <<t, BackOf(i)>>
         /\ \A s \in SubmapIds :
              SubmapComplete(s)' <=> SubmapComplete(s) \/ (s[1] = t /\ Completes(i, s[2]))
         /\ \A r \in Trajs : \A k : MayBeGone(<<r, k>>) => MayBeGone(<<r, k>>)'
         /\ BackOf(i) > 0 => SubmapKnown(<<t, BackOf(i) - 1>>)
<1>0. /\ i \in Nat /\ BackOf(i) \in Nat /\ t \notin Loaded
      /\ \A r \in Trajs : r # t => ExecutedSame(r)
      /\ \A j \in Nat : Executed(t, j) <=> j < i
      /\ \A j \in Nat : Executed(t, j)' <=> j <= i
      /\ Finished(t)' <=> Finished(t)
      /\ tstate' = tstate /\ MaxNodes \in Nat
  BY ScanRuns, PoseGraphAssumption DEF RanScan
<1>1. \A j \in 0 .. MaxNodes - 1 : /\ j \in Nat
                                  /\ Executed(t, j)' <=> Executed(t, j) \/ j = i
  BY <1>0
<1>2. ASSUME NEW n \in NodeIds PROVE NodeKnown(n)' <=> NodeKnown(n) \/ n = <<t, i>>
  <2>1. PICK r \in Trajs, j \in Nat : n = <<r, j>> /\ j \in 0 .. MaxNodes - 1
    BY Ids
  <2>2. CASE r # t
    BY <1>0, <2>1, <2>2, KnownFrame
  <2>3. CASE r = t
    BY <1>0, <1>1, <2>1, <2>3 DEF NodeKnown
  <2>. QED
    BY <2>2, <2>3
<1>3. ASSUME NEW s \in SubmapIds
      PROVE  /\ SubmapKnown(s)' <=> SubmapKnown(s) \/ s = <<t, BackOf(i)>>
             /\ SubmapComplete(s)' <=> SubmapComplete(s) \/ (s[1] = t /\ Completes(i, s[2]))
  <2>1. PICK r \in Trajs, k \in Nat : s = <<r, k>>
    BY Ids
  <2>2. CASE r # t
    BY <1>0, <2>1, <2>2, KnownFrame
  <2>3. CASE r = t
    <3>1. SubmapKnown(s)' <=> SubmapKnown(s) \/ s = <<t, BackOf(i)>>
      BY <1>0, <1>1, <2>1, <2>3 DEF SubmapKnown
    <3>2. SubmapComplete(s)' <=> SubmapComplete(s) \/ Completes(i, s[2])
      BY <1>0, <1>1, <2>1, <2>3 DEF SubmapComplete
    <3>. QED
      BY <2>1, <2>3, <3>1, <3>2
  <2>. QED
    BY <2>2, <2>3
<1>4. ASSUME NEW r \in Trajs, NEW k PROVE MayBeGone(<<r, k>>) => MayBeGone(<<r, k>>)'
  <2>1. CASE r # t
    BY <1>0, <2>1, KnownFrame
  <2>2. CASE r = t
    BY <1>0, <1>1, <2>2 DEF MayBeGone
  <2>. QED
    BY <2>1, <2>2
<1>5. ASSUME BackOf(i) > 0 PROVE SubmapKnown(<<t, BackOf(i) - 1>>)
  <2>1. PICK j \in Nat : j < i /\ BackOf(j) = BackOf(i) - 1
    BY <1>0, <1>5, Before1
  <2>2. j \in 0 .. MaxNodes - 1 /\ Executed(t, j)
    BY <1>0, <2>1
  <2>. QED
    BY <1>0, <2>1, <2>2 DEF SubmapKnown
<1>. QED
  BY <1>2, <1>3, <1>4, <1>5

\* The submaps of a scan, as pairs.
LEMMA ScanSubmaps ==
  ASSUME NEW t, NEW i, BackOf(i) \in Nat
  PROVE  /\ \A s \in InsertionSubmaps(t, i) :
              s = <<t, BackOf(i)>> \/ (BackOf(i) > 0 /\ s = <<t, BackOf(i) - 1>>)
         /\ <<t, BackOf(i)>> \in InsertionSubmaps(t, i)
         /\ FrontOf(t, i) \in InsertionSubmaps(t, i)
         /\ FinishesFront(i) => /\ BackOf(i) > 0 /\ FrontOf(t, i) = <<t, BackOf(i) - 1>>
                                /\ BackOf(i) - 1 \in Nat
         /\ \A k \in Nat : Completes(i, k) <=> FinishesFront(i) /\ <<t, k>> = FrontOf(t, i)
<1>1. PICK b \in Nat : b = BackOf(i)
  OBVIOUS
<1>2. InsertionSubmaps(t, i) = {<<t, k>> : k \in {b} \cup (IF b = 0 THEN {} ELSE {b - 1})}
  BY <1>1 DEF InsertionSubmaps
<1>3. FrontOf(t, i) = <<t, IF b = 0 THEN 0 ELSE b - 1>>
  BY <1>1 DEF FrontOf
<1>4. FinishesFront(i) => b > 0
  BY <1>1 DEF FinishesFront
<1>5. \A s \in InsertionSubmaps(t, i) : s = <<t, b>> \/ (b > 0 /\ s = <<t, b - 1>>)
  BY <1>2
<1>6. <<t, b>> \in InsertionSubmaps(t, i) /\ FrontOf(t, i) \in InsertionSubmaps(t, i)
  BY <1>2, <1>3
<1>7. \A k \in Nat : Completes(i, k) <=> FinishesFront(i) /\ <<t, k>> = FrontOf(t, i)
  <2>1. ASSUME NEW k \in Nat, FinishesFront(i) PROVE Completes(i, k) <=> <<t, k>> = FrontOf(t, i)
    BY <1>1, <1>3, <1>4, <2>1 DEF Completes
  <2>. QED
    BY <2>1 DEF Completes
<1>. QED
  BY <1>1, <1>3, <1>4, <1>5, <1>6, <1>7

LEMMA GraphScans ==
  ASSUME IInv, PipeInv, GraphInv, NEW t \in Slam, NEW i \in 0 .. MaxNodes - 1, RanScan(t, i)
  PROVE  GraphInv'
<1>1. PICK n, into, front : /\ n = <<t, i>> /\ into = InsertionSubmaps(t, i)
                            /\ front = FrontOf(t, i)
  OBVIOUS
<1>2. /\ n \in nodes /\ into \subseteq submaps \ finished
      /\ optSubmaps' = optSubmaps \cup into /\ optNodes' = optNodes \cup {n}
      /\ nodeIds' = nodeIds \cup (into \X {n}) /\ intra' = intra \cup (into \X {n})
      /\ finished' = IF FinishesFront(i) THEN finished \cup {front} ELSE finished
      /\ UNCHANGED << tstate, deletion, nodes, submaps, phase, scans >>
      /\ Inserts' = Inserts /\ Pending' \subseteq Pending
  BY <1>1 DEF RanScan, Ran
<1>0. /\ TypeInv /\ ThereInv /\ KnownInv /\ MemberInv /\ DeletedInv /\ t \in Trajs
      /\ nodes \subseteq NodeIds /\ submaps \subseteq SubmapIds
      /\ i \in Nat /\ BackOf(i) \in Nat
      /\ \A r, op : Item(op, r) \in Pending' <=> Item(op, r) \in Pending
  BY ScanRuns DEF IInv, TypeInv, GraphInv, GraphType, Slam
<1>3. /\ \A m \in NodeIds : NodeKnown(m)' <=> NodeKnown(m) \/ m = n
      /\ \A s \in SubmapIds : SubmapKnown(s)' <=> SubmapKnown(s) \/ s = <<t, BackOf(i)>>
      /\ \A s \in SubmapIds :
           SubmapComplete(s)' <=> SubmapComplete(s) \/ (s[1] = t /\ Completes(i, s[2]))
      /\ \A r \in Trajs : \A k : MayBeGone(<<r, k>>) => MayBeGone(<<r, k>>)'
      /\ BackOf(i) > 0 => SubmapKnown(<<t, BackOf(i) - 1>>)
  BY <1>0, <1>1, ScanKnows
<1>4. /\ \A s \in into : s = <<t, BackOf(i)>> \/ (BackOf(i) > 0 /\ s = <<t, BackOf(i) - 1>>)
      /\ <<t, BackOf(i)>> \in into /\ front \in into
      /\ FinishesFront(i) => front = <<t, BackOf(i) - 1>>
      /\ \A k \in Nat : Completes(i, k) <=> FinishesFront(i) /\ <<t, k>> = front
  BY <1>0, <1>1, ScanSubmaps
<1>5. optSubmaps' = optSubmaps \cup {<<t, BackOf(i)>>}
  <2>1. \A s \in into : s \in optSubmaps \/ s = <<t, BackOf(i)>>
    BY <1>0, <1>2, <1>3, <1>4 DEF KnownInv
  <2>. QED
    BY <1>2, <1>4, <2>1
<1>6. \A s \in submaps : s \in finished' <=> SubmapComplete(s)'
  <2>1. ASSUME NEW s \in submaps PROVE s \in finished' <=> SubmapComplete(s)'
    <3>1. s = <<s[1], s[2]>> /\ s[2] \in Nat /\ s \in SubmapIds
      BY <1>0, Ids
    <3>2. front[1] = t
      BY <1>1 DEF FrontOf
    <3>3. s[1] = t => (Completes(i, s[2]) <=> FinishesFront(i) /\ s = front)
      BY <1>4, <3>1
    <3>4. s[1] # t => s # front
      BY <3>2
    <3>. QED
      BY <1>0, <1>2, <1>3, <3>1, <3>3, <3>4 DEF KnownInv
  <2>. QED
    BY <2>1
<1>7. KnownInv'
  <2>1. \A m \in nodes : m \in optNodes' <=> NodeKnown(m)'
    BY <1>0, <1>2, <1>3 DEF KnownInv
  <2>2. \A s \in submaps : s \in optSubmaps' <=> SubmapKnown(s)'
    BY <1>0, <1>3, <1>5 DEF KnownInv
  <2>3. optNodes' \subseteq nodes /\ optSubmaps' \subseteq submaps /\ finished' \subseteq submaps
    BY <1>0, <1>2, <1>4 DEF KnownInv
  <2>. QED
    BY <1>2, <1>6, <2>1, <2>2, <2>3 DEF KnownInv
<1>8. MemberInv'
  <2>1. \A p \in nodeIds' : p[1] \in optSubmaps' /\ p[2] \in optNodes' /\ p[1][1] = p[2][1]
    <3>1. \A p \in into \X {n} : p[1] \in into /\ p[2] = n
      OBVIOUS
    <3>2. \A s \in into : s[1] = t
      BY <1>4
    <3>. QED
      BY <1>0, <1>1, <1>2, <3>1, <3>2 DEF MemberInv
  <2>2. \A m \in optNodes' : \/ m[1] \in Loaded /\ Item("nodeToSubmap", m[1]) \in Pending'
                             \/ \E s \in submaps' : <<s, m>> \in nodeIds'
    BY <1>0, <1>2, <1>4 DEF MemberInv
  <2>3. intra' \subseteq nodeIds'
    BY <1>0, <1>2 DEF MemberInv
  <2>. QED
    BY <2>1, <2>2, <2>3 DEF MemberInv
<1>9. DeletedInv'
  BY <1>0, <1>2 DEF DeletedInv
<1>10. ThereInv'
  <2>1. \A r \in Slam : r \in Trajs
    BY DEF Slam
  <2>2. NodesToInsert' = NodesToInsert /\ SubmapsToInsert' = SubmapsToInsert
    BY <1>2, InsertsSame
  <2>. QED
    BY <1>0, <1>2, <1>3, <2>1, <2>2 DEF ThereInv
<1>. QED
  BY <1>7, <1>8, <1>9, <1>10 DEF GraphInv

\* Two of a trajectory's submaps that are newer than k: one is at least k + 2.
LEMMA TwoNewer ==
  ASSUME NEW t, NEW k \in Nat, NEW S, \A r \in S : r = <<t, r[2]>> /\ r[2] \in Nat /\ r[2] > k,
         Cardinality(S) >= SubmapsToKeep
  PROVE  \E r \in S : r[2] >= k + 2
<1>1. SUFFICES ASSUME \A r \in S : ~(r[2] >= k + 2) PROVE FALSE
  OBVIOUS
<1>2. \A r \in S : r = <<t, k + 1>>
  <2>1. ASSUME NEW r \in S PROVE r[2] = k + 1
    BY <1>1
  <2>. QED
    BY <2>1
<1>3. S \subseteq {<<t, k + 1>>}
  BY <1>2
<1>4. IsFiniteSet({<<t, k + 1>>}) /\ Cardinality({<<t, k + 1>>}) = 1
  BY FS_Singleton
<1>5. Cardinality(S) \in Nat /\ Cardinality(S) <= 1
  <2>1. IsFiniteSet(S) /\ Cardinality(S) <= Cardinality({<<t, k + 1>>})
    BY <1>3, <1>4, FS_Subset
  <2>. QED
    BY <1>4, <2>1, FS_CardinalityType
<1>. QED
  BY <1>5, PoseGraphAssumption

\* What trimming and deletion remove.
LEMMA GoneOnes ==
  ASSUME IInv, LifeInv, GraphInv, Cleans
  PROVE  /\ Gone \subseteq submaps /\ Gone \subseteq optSubmaps
         /\ \A s \in Gone : MayBeGone(s)'
         /\ \A s \in Gone : s[1] \in Deleted \/ s[1] \in trimmers \ Deleted
         /\ \A s \in optSubmaps : s[1] \in Deleted \cup Ended => s \in Gone
         /\ \A n : n \in NodesGoneWith(Gone) <=>
              /\ \E s \in Gone : <<s, n>> \in nodeIds
              /\ \A s \in submaps : <<s, n>> \in nodeIds => s \in Gone
         /\ \A n \in NodesGoneWith(Gone) : n \in optNodes
<1>0. /\ KnownInv /\ MemberInv /\ TypeInv /\ optSubmaps \subseteq SubmapIds
      /\ nodeIds \subseteq Pairs /\ submaps \subseteq SubmapIds
      /\ Gone \subseteq finished \cap submaps
      /\ tstate' = [t \in Trajs |-> IF t \in Deleted \cup Ended THEN "DELETED" ELSE tstate[t]]
      /\ scans' = scans /\ Pending' = Pending
      /\ trimmers \subseteq Localizing /\ trimmers \subseteq Trajs
      /\ \A t \in trimmers : t \in Slam
  BY PoseGraphAssumption DEF IInv, GraphInv, TypeInv, OptType, GraphType, Cleans, LifeInv, Slam
<1>1. ASSUME NEW s \in Gone
      PROVE  /\ s \in optSubmaps
             /\ s[1] \in Deleted \/ (s[1] \in trimmers \ Deleted /\ s \in Trimmed(s[1]))
  <2>1. \A t, r : r \in Trimmed(t) => r \in optSubmaps /\ r[1] = t
    BY DEF Trimmed
  <2>2. \/ s \in optSubmaps /\ s[1] \in Deleted
        \/ \E t \in trimmers \ Deleted : s \in Trimmed(t)
    BY <1>1, Zenon DEF Gone
  <2>. QED
    BY <2>1, <2>2
<1>2. ASSUME NEW s \in Gone PROVE MayBeGone(s)'
  <2>1. PICK t \in Trajs, k \in Nat : s = <<t, k>>
    BY <1>0, Ids
  <2>2. CASE t \in Deleted \cup Ended
    BY <1>0, <2>1, <2>2 DEF MayBeGone
  <2>3. CASE t \notin Deleted \cup Ended
    <3>1. t \in trimmers \ Deleted /\ s \in Trimmed(t) /\ tstate[t] # "FINISHED" /\ t \in Slam
      BY <1>0, <1>1, <2>1, <2>3 DEF Ended
    <3>2. PICK S : S = {r \in optSubmaps : r[1] = s[1] /\ r[2] > s[2]}
      OBVIOUS
    <3>3. Cardinality(S) >= SubmapsToKeep
      <4>1. s[1] = t
        BY <2>1
      <4>2. S = {r \in optSubmaps : r[1] = t /\ r[2] > s[2]}
        BY <3>2, <4>1
      <4>. QED
        BY <3>1, <4>2, Zenon DEF Trimmed
    <3>4. \A r \in S : r = <<t, r[2]>> /\ r[2] \in Nat /\ r[2] > k
      BY <1>0, <2>1, <3>2, Ids
    <3>5. PICK r \in S : r[2] >= k + 2
      BY <3>3, <3>4, TwoNewer
    <3>6. SubmapKnown(r) /\ r[1] = t
      BY <1>0, <2>1, <3>2, <3>5 DEF KnownInv
    <3>7. PICK i \in 0 .. MaxNodes - 1 : Executed(t, i) /\ BackOf(i) = r[2]
      BY <3>1, <3>6 DEF SubmapKnown, Slam
    <3>8. Executed(t, i)'
      BY <1>0, <3>7 DEF Executed
    <3>. QED
      BY <2>1, <3>5, <3>7, <3>8 DEF MayBeGone
  <2>. QED
    BY <2>2, <2>3
<1>3. ASSUME NEW s \in optSubmaps, s[1] \in Deleted \cup Ended PROVE s \in Gone
  BY <1>3 DEF Gone, Ended, Trimmed
<1>4. \A s, n : n \in NodesIn(s) <=> <<s, n>> \in nodeIds
  BY <1>0 DEF NodesIn, Pairs
<1>5. ASSUME NEW n
      PROVE  n \in NodesGoneWith(Gone) <=> /\ \E s \in Gone : <<s, n>> \in nodeIds
                                           /\ \A s \in submaps : <<s, n>> \in nodeIds => s \in Gone
  <2>1. n \in NodesGoneWith(Gone) <=> /\ \E s \in Gone : n \in NodesIn(s)
                                     /\ ~ \E s \in submaps \ Gone : n \in NodesIn(s)
    BY DEF NodesGoneWith
  <2>. QED
    BY <1>4, <2>1
<1>6. ASSUME NEW n \in NodesGoneWith(Gone) PROVE n \in optNodes
  <2>1. PICK s \in Gone : <<s, n>> \in nodeIds
    BY <1>5
  <2>2. <<s, n>>[2] \in optNodes
    BY <1>0, <2>1 DEF MemberInv
  <2>. QED
    BY <2>2
<1>. QED
  BY <1>0, <1>1, <1>2, <1>3, <1>5, <1>6

\* No thread waits for an item of what is deleted.
LEMMA DeletedKnown ==
  ASSUME IInv, PipeInv, LifeInv, GraphInv, NEW t \in Deleted \cup Ended
  PROVE  /\ \A s \in submaps : s[1] = t => s \in optSubmaps
         /\ \A n \in nodes : n[1] = t => n \in optNodes
         /\ t \in Trajs
         /\ \A x \in Pending : x.traj = t => x.op = "delete"
<1>0. /\ KnownInv /\ ThereInv /\ TypeInv /\ Life(t) /\ t \in Trajs
      /\ nodes \subseteq NodeIds /\ submaps \subseteq SubmapIds
  BY PoseGraphAssumption DEF IInv, GraphInv, TypeInv, GraphType, LifeInv, Deleted, Ended
<1>1. \A x \in Pending : x.traj = t => x.op = "delete"
  BY <1>0 DEF Deleted, Ended, Life, Finished
<1>2. /\ \A i : NodeItem(t, i) \notin Pending
      /\ \A op \in {"submapFromProto", "nodeFromProto"} : Item(op, t) \notin Pending
  BY <1>1, StepFields
<1>3. ASSUME NEW s \in submaps, s[1] = t PROVE SubmapKnown(s)
  <2>1. CASE t \in Loaded
    BY <1>2, <1>3, <2>1 DEF SubmapKnown
  <2>2. CASE t \notin Loaded
    <3>1. PICK i \in 0 .. scans[t] - 1 : BackOf(i) = s[2]
      BY <1>0, <1>3, <2>2 DEF ThereInv
    <3>2. i \in 0 .. MaxNodes - 1 /\ i < scans[t]
      BY <1>0, ScanIndex
    <3>. QED
      BY <1>2, <1>3, <2>2, <3>1, <3>2 DEF SubmapKnown, Executed
  <2>. QED
    BY <2>1, <2>2
<1>4. ASSUME NEW n \in nodes, n[1] = t PROVE NodeKnown(n)
  BY <1>0, <1>2, <1>4 DEF NodeKnown, Executed, ThereInv
<1>. QED
  BY <1>0, <1>1, <1>3, <1>4 DEF KnownInv

LEMMA GraphCleans ==
  ASSUME IInv, PipeInv, LifeInv, GraphInv, Cleans
  PROVE  GraphInv'
<1>0. /\ TypeInv /\ ThereInv /\ KnownInv /\ MemberInv /\ DeletedInv
      /\ nodes \subseteq NodeIds /\ submaps \subseteq SubmapIds /\ nodeIds \subseteq Pairs
      /\ tstate \in [Trajs -> {"unknown", "ACTIVE", "FINISHED", "FROZEN", "DELETED"}]
  BY DEF IInv, TypeInv, GraphInv, GraphType, StateType
<1>1. PICK N : N = NodesGoneWith(Gone)
  OBVIOUS
<1>2. /\ tstate' = [t \in Trajs |-> IF t \in Deleted \cup Ended THEN "DELETED" ELSE tstate[t]]
      /\ submaps' = submaps \ Gone /\ finished' = finished \ Gone
      /\ nodes' = nodes \ N
      /\ nodeIds' = {p \in nodeIds : p[1] \notin Gone}
      /\ intra' = {p \in intra : p[1] \notin Gone /\ p[2] \notin N}
      /\ optSubmaps' = optSubmaps \ Gone /\ optNodes' = optNodes \ N
      /\ UNCHANGED << phase, scans >> /\ Pending' = Pending /\ Inserts' = Inserts
  BY <1>1 DEF Cleans, KeptConstraints
<1>3. /\ Gone \subseteq submaps /\ Gone \subseteq optSubmaps
      /\ \A s \in Gone : MayBeGone(s)'
      /\ \A s \in Gone : s[1] \in Deleted \/ s[1] \in trimmers \ Deleted
      /\ \A s \in optSubmaps : s[1] \in Deleted \cup Ended => s \in Gone
      /\ \A n : n \in N <=>
           /\ \E s \in Gone : <<s, n>> \in nodeIds
           /\ \A s \in submaps : <<s, n>> \in nodeIds => s \in Gone
      /\ \A n \in N : n \in optNodes
  BY <1>1, GoneOnes
<1>4. \A t \in Slam : Finished(t)' <=> Finished(t)
  <2>1. ASSUME NEW t \in Slam, t \in Deleted \cup Ended PROVE Finished(t) /\ Finished(t)'
    <3>1. Life(t) /\ t \in Trajs
      BY DEF LifeInv, Slam
    <3>2. tstate[t] = "FINISHED"
      BY <2>1, <3>1 DEF Life, Deleted, Ended, Slam
    <3>. QED
      BY <1>2, <2>1, <3>1, <3>2 DEF Finished
  <2>2. ASSUME NEW t \in Slam, t \notin Deleted \cup Ended PROVE Finished(t)' <=> Finished(t)
    BY <1>2, <2>2 DEF Finished, Slam
  <2>. QED
    BY <2>1, <2>2
<1>5. \A t, i : Executed(t, i)' <=> Executed(t, i)
  BY <1>2 DEF Executed
<1>6. /\ \A n \in nodes : NodeKnown(n)' <=> NodeKnown(n)
      /\ \A s \in submaps : SubmapKnown(s)' <=> SubmapKnown(s)
      /\ \A s \in submaps : SubmapComplete(s)' <=> SubmapComplete(s)
  <2>1. \A s \in submaps : s[1] \in Trajs
    BY <1>0, Ids
  <2>2. \A s \in submaps : SubmapKnown(s)' <=> SubmapKnown(s)
    BY <1>2, <1>5 DEF SubmapKnown
  <2>3. \A s \in submaps : SubmapComplete(s)' <=> SubmapComplete(s)
    BY <1>2, <1>4, <1>5, <2>1 DEF SubmapComplete, Slam
  <2>4. \A n \in nodes : NodeKnown(n)' <=> NodeKnown(n)
    BY <1>2, <1>5 DEF NodeKnown
  <2>. QED
    BY <2>2, <2>3, <2>4
<1>7. KnownInv'
  BY <1>0, <1>2, <1>6 DEF KnownInv
<1>8. MemberInv'
  <2>1. ASSUME NEW p \in nodeIds'
        PROVE  p[1] \in optSubmaps' /\ p[2] \in optNodes' /\ p[1][1] = p[2][1]
    <3>1. /\ p \in nodeIds /\ p[1] \notin Gone /\ p = <<p[1], p[2]>>
      BY <1>0, <1>2 DEF Pairs
    <3>2. p[1] \in optSubmaps /\ p[2] \in optNodes /\ p[1][1] = p[2][1] /\ p[1] \in submaps
      BY <1>0, <3>1 DEF MemberInv, KnownInv
    <3>3. p[2] \notin N
      BY <1>3, <3>1, <3>2
    <3>. QED
      BY <1>2, <3>1, <3>2, <3>3
  <2>2. ASSUME NEW n \in optNodes'
        PROVE  \/ n[1] \in Loaded /\ Item("nodeToSubmap", n[1]) \in Pending'
               \/ \E s \in submaps' : <<s, n>> \in nodeIds'
    <3>1. n \in optNodes /\ n \notin N
      BY <1>2
    <3>2. SUFFICES ASSUME ~(n[1] \in Loaded /\ Item("nodeToSubmap", n[1]) \in Pending)
                   PROVE  \E s \in submaps' : <<s, n>> \in nodeIds'
      BY <1>2
    <3>3. PICK s \in submaps : <<s, n>> \in nodeIds
      BY <1>0, <3>1, <3>2 DEF MemberInv
    <3>4. PICK r \in submaps : <<r, n>> \in nodeIds /\ r \notin Gone
      BY <1>3, <3>1, <3>3
    <3>. QED
      BY <1>2, <3>4
  <2>3. intra' \subseteq nodeIds'
    BY <1>0, <1>2 DEF MemberInv
  <2>. QED
    BY <2>1, <2>2, <2>3 DEF MemberInv
<1>9. DeletedInv'
  <2>1. ASSUME NEW t \in Trajs, tstate'[t] = "DELETED"
        PROVE  (\A s \in submaps' : s[1] # t) /\ (\A n \in nodes' : n[1] # t)
    <3>1. CASE tstate[t] = "DELETED"
      BY <1>0, <1>2, <3>1 DEF DeletedInv
    <3>2. CASE t \in Deleted \cup Ended
      <4>1. /\ \A s \in submaps : s[1] = t => s \in optSubmaps
            /\ \A n \in nodes : n[1] = t => n \in optNodes
            /\ \A x \in Pending : x.traj = t => x.op = "delete"
        BY <3>2, DeletedKnown
      <4>2. \A s \in submaps : s[1] = t => s \in Gone
        BY <1>3, <3>2, <4>1
      <4>3. ASSUME NEW n \in nodes, n[1] = t PROVE n \in N
        <5>1. n \in optNodes /\ Item("nodeToSubmap", t) \notin Pending
          BY <4>1, <4>3, StepFields
        <5>2. PICK s \in submaps : <<s, n>> \in nodeIds
          BY <1>0, <4>3, <5>1 DEF MemberInv
        <5>3. \A r \in submaps : <<r, n>> \in nodeIds => r[1] = t
          BY <1>0, <4>3 DEF MemberInv
        <5>. QED
          BY <1>3, <4>2, <5>2, <5>3
      <4>. QED
        BY <1>2, <4>2, <4>3
    <3>. QED
      BY <1>2, <2>1, <3>1, <3>2
  <2>. QED
    BY <2>1 DEF DeletedInv
<1>10. \A r \in Trajs : \A k : MayBeGone(<<r, k>>) => MayBeGone(<<r, k>>)'
  BY <1>2, <1>5 DEF MayBeGone
<1>11. ThereInv'
  <2>0. NodesToInsert' = NodesToInsert /\ SubmapsToInsert' = SubmapsToInsert
    BY <1>2, InsertsSame
  <2>1. ASSUME NEW t \in Slam, NEW i \in 0 .. scans'[t] - 1
        PROVE  /\ NodeItem(t, i) \in Pending' => <<t, i>> \in nodes' \cup NodesToInsert'
               /\ \/ <<t, i>> \in NodesToInsert'
                  \/ <<t, BackOf(i)>> \in submaps'
                  \/ MayBeGone(<<t, BackOf(i)>>)'
    <3>1. i \in 0 .. scans[t] - 1 /\ t \in Trajs
      BY <1>2 DEF Slam
    <3>2. ASSUME NodeItem(t, i) \in Pending, <<t, i>> \in nodes PROVE <<t, i>> \notin N
      <4>1. ~NodeKnown(<<t, i>>)
        BY <3>2 DEF NodeKnown, Executed, Slam
      <4>. QED
        BY <1>0, <1>3, <3>2, <4>1 DEF KnownInv
    <3>. QED
      BY <1>0, <1>2, <1>3, <1>10, <2>0, <3>1, <3>2 DEF ThereInv
  <2>2. ASSUME NEW t \in Loaded, phase'[t] # "new", tstate'[t] # "DELETED"
        PROVE  /\ <<t, 0>> \in nodes' \cup NodesToInsert'
               /\ <<t, 0>> \in submaps' \cup SubmapsToInsert'
    <3>1. t \in Trajs /\ tstate[t] # "DELETED" /\ t \notin Deleted /\ t \notin trimmers
      BY <1>2, <2>2, PoseGraphAssumption DEF LifeInv
    <3>2. <<t, 0>> \notin Gone
      BY <1>3, <3>1
    <3>3. <<t, 0>> \notin N
      <4>1. SUFFICES ASSUME NEW s \in Gone, <<s, <<t, 0>> >> \in nodeIds PROVE FALSE
        BY <1>3
      <4>2. s[1] = t
        BY <1>0, <4>1 DEF MemberInv
      <4>. QED
        BY <1>3, <3>1, <4>1, <4>2
    <3>. QED
      BY <1>0, <1>2, <2>0, <2>2, <3>1, <3>2, <3>3 DEF ThereInv
  <2>3. \A n \in nodes' : n[2] < scans'[n[1]] \/ (n[1] \in Loaded /\ n[2] = 0)
    BY <1>0, <1>2 DEF ThereInv
  <2>4. \A s \in submaps' : \/ \E i \in 0 .. scans'[s[1]] - 1 : BackOf(i) = s[2]
                            \/ s[1] \in Loaded /\ s[2] = 0
    BY <1>0, <1>2 DEF ThereInv
  <2>. QED
    BY <2>1, <2>2, <2>3, <2>4 DEF ThereInv
<1>. QED
  BY <1>7, <1>8, <1>9, <1>11 DEF GraphInv

LEMMA StepGraph == IInv /\ PipeInv /\ LifeInv /\ GraphInv /\ Views => GraphInv'
<1> SUFFICES ASSUME IInv, PipeInv, LifeInv, GraphInv, Views PROVE GraphInv'
  OBVIOUS
<1>1. ASSUME RanAny PROVE GraphInv'
  <2>1. ASSUME NEW t \in Slam, NEW i \in 0 .. MaxNodes - 1, RanScan(t, i) PROVE GraphInv'
    BY <2>1, GraphScans
  <2>. QED
    BY <1>1, <2>1, GraphStill, GraphFinishes, GraphRunsLoaded DEF RanAny, RanItem
<1>2. ASSUME Puts PROVE GraphInv'
  BY <1>2, GraphPutsScan, GraphPutsLoaded DEF Puts
<1>3. ASSUME NEW t \in Trajs, Calls(t) \/ Marks(t) PROVE GraphInv'
  BY <1>3, GraphStill, GraphAdds, GraphLoads DEF Calls
<1>. QED
  BY <1>1, <1>2, <1>3, GraphStill, GraphCleans DEF Views

-----------------------------------------------------------------------------
(* The steps keep SearchInv.                                               *)

\* What has been executed remains so.
Forward ==
  \A t \in Slam : /\ \A i \in Nat : Executed(t, i) => Executed(t, i)'
                  /\ Finished(t) => Finished(t)'

LEMMA GoesForward ==
  ASSUME IInv, Views
  PROVE  Forward
<1>0. /\ tstate \in [Trajs -> {"unknown", "ACTIVE", "FINISHED", "FROZEN", "DELETED"}]
      /\ scans \in [Trajs -> 0 .. MaxNodes] /\ MaxNodes \in Nat
      /\ \A t \in Slam : t \in Trajs /\ t \notin Loaded
      /\ \A t \in Loaded : t \in Trajs
  BY PoseGraphAssumption DEF IInv, TypeInv, StateType, ClientType, Slam
<1>1. ASSUME \A t \in Slam : Finished(t) => Finished(t)', scans' = scans, Pending' \subseteq Pending
      PROVE  Forward
  BY <1>1 DEF Forward, Executed
<1>2. CASE Rests \/ \E p \in Pairs : Tries(p)
  BY <1>1, <1>2 DEF Rests, Tries, Finished
<1>3. CASE Puts
  <2>1. PICK t \in Trajs : \E N, S, c : Inserted(t, N, S, c)
    BY <1>0, <1>3 DEF Puts, InsertsScan, InsertsLoadedSubmap, InsertsLoadedNode
  <2>2. \A r \in Trajs : Finished(r) => Finished(r)'
    BY <1>0, <2>1 DEF Inserted, CanAddWorkItemModifying, Finished
  <2>. QED
    BY <1>0, <1>1, <1>3, <2>1, <2>2 DEF Puts, Inserted
<1>4. CASE RanAny
  <2>1. \A x : Ran(x) => scans' = scans /\ Pending' \subseteq Pending
    BY DEF Ran
  <2>2. scans' = scans /\ Pending' \subseteq Pending
    BY <1>4, <2>1 DEF RanAny, RanItem, RanIdly, RanFinish, RanDelete, RanFreeze, RanSubmap, RanNode,
       RanMember, RanScan
  <2>3. \/ UNCHANGED tstate
        \/ \E t \in Trajs : tstate' = [tstate EXCEPT ![t] = "FINISHED"]
        \/ \E t \in Loaded : tstate' = [tstate EXCEPT ![t] = "FROZEN"]
    BY <1>4 DEF RanAny, RanItem, RanIdly, RanFinish, RanDelete, RanFreeze, RanSubmap, RanNode,
       RanMember, RanScan
  <2>4. \A t \in Slam : Finished(t) => Finished(t)'
    BY <1>0, <2>3 DEF Finished
  <2>. QED
    BY <1>1, <2>2, <2>4
<1>5. ASSUME NEW t \in Trajs, Marks(t) PROVE Forward
  BY <1>1, <1>5 DEF Marks, Finished
<1>6. ASSUME NEW t \in Trajs, Calls(t) PROVE Forward
  <2>1. \A r \in Trajs : Finished(r) => Finished(r)'
    BY <1>6 DEF Calls, Finished
  <2>2. CASE Adds(t)
    <3>1. /\ Pending' = Pending \cup {NodeItem(t, scans[t])}
          /\ scans' = [scans EXCEPT ![t] = @ + 1]
      BY <2>2 DEF Adds
    <3>2. ASSUME NEW r \in Slam, NEW i \in Nat, Executed(r, i) PROVE Executed(r, i)'
      <4>1. scans[r] \in Nat /\ scans'[r] \in {scans[r], scans[r] + 1} /\ i < scans[r]
        BY <1>0, <3>1, <3>2 DEF Executed
      <4>2. i < scans'[r]
        BY <4>1
      <4>3. NodeItem(r, i) # NodeItem(t, scans[t])
        BY <4>1, ItemsDiffer
      <4>. QED
        BY <3>1, <3>2, <4>2, <4>3 DEF Executed
    <3>. QED
      BY <1>0, <2>1, <3>2 DEF Forward
  <2>3. CASE ~Adds(t)
    <3>1. \/ Pending' = Pending
          \/ \E op \in {"trimmer", "data", "finish", "delete"} : Pending' = Pending \cup {Item(op, t)}
          \/ Pending' = Pending \cup {Item("freeze", t), Item("submapFromProto", t),
                                     Item("nodeFromProto", t), Item("nodeToSubmap", t)}
      BY <1>6, <2>3 DEF Calls, Builds, Sends, Finishes, Deletes, Loads, Brings
    <3>2. scans' = scans
      BY <1>6, <2>3 DEF Calls, Builds, Sends, Finishes, Deletes, Loads
    <3>3. \A r, i : NodeItem(r, i) \in Pending' => NodeItem(r, i) \in Pending
      BY <3>1, ItemsDiffer
    <3>. QED
      BY <1>0, <2>1, <3>2, <3>3 DEF Forward, Executed
  <2>. QED
    BY <2>2, <2>3
<1>7. CASE Cleans
  <2>1. /\ tstate' = [t \in Trajs |-> IF t \in Deleted \cup Ended THEN "DELETED" ELSE tstate[t]]
        /\ scans' = scans /\ Pending' = Pending
    BY <1>7 DEF Cleans
  <2>2. \A r \in Trajs : Finished(r) => Finished(r)'
    BY <2>1 DEF Finished
  <2>. QED
    BY <1>0, <1>1, <2>1, <2>2
<1>. QED
  BY <1>2, <1>3, <1>4, <1>5, <1>6, <1>7 DEF Views

LEMMA CompleteForward ==
  ASSUME Forward, NEW s, s[1] \in Slam, SubmapComplete(s)
  PROVE  SubmapComplete(s)'
<1>1. \A i \in 0 .. MaxNodes - 1 : i \in Nat
  BY IndexTypes
<1>2. s[1] \notin Loaded
  BY DEF Slam
<1>3. CASE Finished(s[1])
  BY <1>2, <1>3 DEF SubmapComplete, Forward
<1>4. CASE ~Finished(s[1])
  <2>1. PICK i \in 0 .. MaxNodes - 1 : Executed(s[1], i) /\ Completes(i, s[2])
    BY <1>2, <1>4 DEF SubmapComplete
  <2>2. Executed(s[1], i)'
    BY <1>1, <2>1 DEF Forward
  <2>3. Completes(i, s[2])
    BY <2>1
  <2>. QED
    BY <1>2, <2>2, <2>3 DEF SubmapComplete
<1>. QED
  BY <1>3, <1>4

\* What has been tried remains as it was.
LEMMA TriedKept ==
  ASSUME TypeInv, Forward, TriedInv, NEW p \in tried
  PROVE  /\ p[2][1] \in Slam => Executed(p[2][1], p[2][2])'
         /\ p[1][1] \in Slam => SubmapComplete(p[1])'
         /\ p[1][1] \in Slam \/ p[2][1] \in Slam
<1>1. p \in Pairs
  BY DEF TypeInv, MiscType
<1>2. p[2] \in NodeIds /\ p[2][2] \in Nat
  BY <1>1, Ids DEF Pairs
<1>. QED
  BY <1>2, CompleteForward DEF TriedInv, Forward

\* A step that takes nothing from the graph, gives it nothing of a trajectory that
\* takes part, and tries nothing.
LEMMA SearchFrame ==
  ASSUME TypeInv, SearchInv, Forward, Keeps, tried' = tried, OpenPairs' = OpenPairs,
         nodes \subseteq nodes', submaps \subseteq submaps',
         finished \subseteq finished', optNodes \subseteq optNodes', nodeIds \subseteq nodeIds',
         \A p \in nodeIds' : p \in nodeIds \/ (p[1][1] \in Loaded /\ p[2][1] \in Loaded),
         \A n \in optNodes' : n \in optNodes \/ n[1] \in Loaded,
         \A s \in finished' : s[1] \in Slam /\ InsertionFinished(s)' => s \in finished /\ InsertionFinished(s)
  PROVE  SearchInv'
<1>0. TriedInv /\ OpenInv /\ CoverInv /\ ResultInv /\ (\A t \in Slam : t \notin Loaded)
  BY DEF SearchInv, Slam
<1>1. TriedInv'
  <2>1. ASSUME NEW p \in tried PROVE p \notin nodeIds'
    BY <1>0 DEF TriedInv
  <2>. QED
    BY <1>0, <2>1, TriedKept DEF TriedInv
<1>2. OpenInv'
  <2>1. ASSUME NEW p \in OpenPairs PROVE p \notin nodeIds' /\ p \notin tried'
    BY <1>0 DEF OpenInv
  <2>2. \A p \in OpenPairs' : /\ p[1] \in finished' /\ p[2] \in optNodes'
                              /\ p[1][1] \in Slam \/ p[2][1] \in Slam
    BY <1>0 DEF OpenInv
  <2>. QED
    BY <2>1, <2>2 DEF OpenInv
<1>3. CoverInv'
  <2>1. SUFFICES ASSUME NEW s \in finished', NEW n \in optNodes',
                        InsertionFinished(s)', s[1] \in Slam, n[1] \in Slam
                 PROVE  <<s, n>> \in tried' \cup nodeIds' \cup OpenPairs'
    BY DEF CoverInv
  <2>2. s \in finished /\ InsertionFinished(s) /\ n \in optNodes
    BY <1>0, <2>1
  <2>. QED
    BY <1>0, <2>1, <2>2 DEF CoverInv
<1>4. ResultInv'
  BY <1>0 DEF ResultInv, Keeps, Resolves
<1>. QED
  BY <1>1, <1>2, <1>3, <1>4 DEF SearchInv

\* A submap that has all its scans: the last of them is LastOf.
LEMMA AllScans ==
  ASSUME TypeInv, NEW s \in SubmapIds, s[1] \in Slam
  PROVE  /\ InsertionFinished(s) <=> LastOf(s[2]) < scans[s[1]]
         /\ LastOf(s[2]) \in Nat /\ s[2] \in Nat /\ s[1] \in Trajs
         /\ Completes(LastOf(s[2]), s[2])
         /\ InsertionFinished(s) => LastOf(s[2]) \in 0 .. MaxNodes - 1
<1>1. s[2] \in Nat /\ s[1] \in Trajs /\ s[1] \notin Loaded
  BY Ids DEF Slam
<1>2. LastOf(s[2]) \in Nat /\ Completes(LastOf(s[2]), s[2])
  BY <1>1, Lasts
<1>3. scans[s[1]] \in 0 .. MaxNodes /\ MaxNodes \in Nat
  BY <1>1, IndexTypes
<1>4. PICK m : m = (s[2] + 2) * NumRangeData
  OBVIOUS
<1>5. m - 1 = LastOf(s[2]) /\ m \in Nat
  <2>1. NumRangeData \in Nat
    BY PoseGraphAssumption
  <2>. QED
    BY <1>1, <1>4, <2>1 DEF LastOf
<1>6. InsertionFinished(s) <=> scans[s[1]] >= m
  BY <1>1, <1>4 DEF InsertionFinished
<1>. QED
  BY <1>1, <1>2, <1>3, <1>5, <1>6

LEMMA SearchFinishes ==
  ASSUME IInv, PipeInv, LifeInv, GraphInv, SearchInv, Forward, Keeps, NEW t \in Trajs, RanFinish(t)
  PROVE  SearchInv'
<1>0. /\ TypeInv /\ KnownInv /\ submaps \subseteq SubmapIds /\ t \in Slam
      /\ Ran(Item("finish", t))
      /\ finished' = finished \cup {s \in submaps : s[1] = t}
      /\ UNCHANGED << nodes, submaps, nodeIds, optSubmaps, optNodes, scans, tried >>
      /\ OpenPairs = {} /\ OpenPairs' = {}
  BY DEF IInv, TypeInv, GraphInv, GraphType, RanFinish, Ran
<1>1. ASSUME NEW s \in submaps, s[1] = t, InsertionFinished(s) PROVE s \in finished
  <2>1. PICK i : i = LastOf(s[2])
    OBVIOUS
  <2>2. /\ s \in SubmapIds /\ i < scans[t] /\ Completes(i, s[2]) /\ i \in 0 .. MaxNodes - 1
    BY <1>0, <1>1, <2>1, AllScans
  <2>3. NodeItem(t, i) \notin Pending
    <3>1. SUFFICES ASSUME NodeItem(t, i) \in Pending PROVE FALSE
      OBVIOUS
    <3>2. NodeItem(t, i) \in Pending'
      BY <1>0, <3>1, ItemsDiffer DEF Ran
    <3>3. Before(Item("finish", t), NodeItem(t, i))
      BY <1>0, <3>2 DEF Ran
    <3>. QED
      BY <3>3, StepFields DEF Before
  <2>4. SubmapComplete(s)
    BY <1>0, <1>1, <2>2, <2>3 DEF SubmapComplete, Executed, Slam
  <2>. QED
    BY <1>0, <2>4 DEF KnownInv
<1>2. \A s : InsertionFinished(s)' <=> InsertionFinished(s)
  BY <1>0 DEF InsertionFinished
<1>. QED
  BY <1>0, <1>1, <1>2, SearchFrame

LEMMA SearchStill ==
  ASSUME IInv, PipeInv, LifeInv, GraphInv, SearchInv, Forward, Keeps,
         \/ Rests \/ Puts
         \/ \E t \in Trajs : \/ Calls(t) \/ Marks(t) \/ RanIdly(t) \/ RanDelete(t) \/ RanFreeze(t)
                             \/ RanSubmap(t) \/ RanNode(t) \/ RanMember(t)
  PROVE  SearchInv'
<1>0. TypeInv /\ KnownInv /\ finished \subseteq SubmapIds
  BY DEF IInv, TypeInv, GraphInv, GraphType
<1>1. ASSUME UNCHANGED << finished, nodeIds, optNodes, scans, tried >>, OpenPairs' = OpenPairs,
             nodes \subseteq nodes', submaps \subseteq submaps'
      PROVE  SearchInv'
  <2>1. \A s : InsertionFinished(s)' <=> InsertionFinished(s)
    BY <1>1 DEF InsertionFinished
  <2>. QED
    BY <1>0, <1>1, <2>1, SearchFrame
<1>2. CASE Rests
  BY <1>1, <1>2 DEF Rests, SameGraph
<1>3. CASE Puts
  <2>1. PICK t, N, S, c : Inserted(t, N, S, c)
    BY <1>3 DEF Puts, InsertsScan, InsertsLoadedSubmap, InsertsLoadedNode
  <2>. QED
    BY <1>1, <1>3, <2>1 DEF Puts, Inserted, optVars
<1>4. ASSUME NEW t \in Trajs, Marks(t) PROVE SearchInv'
  BY <1>1, <1>4 DEF Marks, SameGraph
<1>5. ASSUME NEW t \in Trajs, RanIdly(t) \/ RanDelete(t) \/ RanFreeze(t) PROVE SearchInv'
  <2>1. \A x : Ran(x) => UNCHANGED << scans, tried >> /\ OpenPairs = {}
    BY DEF Ran
  <2>. QED
    BY <1>1, <1>5, <2>1 DEF RanIdly, RanDelete, RanFreeze, SameGraph
<1>6. ASSUME NEW t \in Trajs, RanSubmap(t) \/ RanNode(t) \/ RanMember(t) PROVE SearchInv'
  <2>1. \A x : Ran(x) => UNCHANGED << scans, tried >> /\ OpenPairs = {}
    BY DEF Ran
  <2>2. /\ t \in Loaded /\ UNCHANGED << scans, tried, nodes, submaps >> /\ OpenPairs' = OpenPairs
        /\ finished' \in {finished, finished \cup {<<t, 0>>}}
        /\ optNodes' \in {optNodes, optNodes \cup {<<t, 0>>}}
        /\ nodeIds' \in {nodeIds, nodeIds \cup {<< <<t, 0>>, <<t, 0>> >>}}
    BY <1>6, <2>1 DEF RanSubmap, RanNode, RanMember
  <2>3. \A s : InsertionFinished(s)' <=> InsertionFinished(s)
    BY <2>2 DEF InsertionFinished
  <2>4. \A s \in finished' : s \in finished \/ s[1] \in Loaded
    BY <2>2
  <2>. QED
    BY <1>0, <2>2, <2>3, <2>4, SearchFrame DEF Slam
<1>7. ASSUME NEW t \in Trajs, Calls(t) PROVE SearchInv'
  <2>1. /\ SameGraph /\ tried' = tried /\ OpenPairs' = OpenPairs
        /\ UNCHANGED << nodes, submaps, finished, nodeIds, optNodes >>
    BY <1>7 DEF Calls, SameGraph
  <2>2. CASE ~Adds(t)
    <3>1. scans' = scans
      BY <1>7, <2>2 DEF Calls, Builds, Sends, Finishes, Deletes, Loads
    <3>. QED
      BY <1>1, <2>1, <3>1
  <2>3. CASE Adds(t)
    <3>1. t \in Slam /\ phase[t] = "open" /\ scans' = [scans EXCEPT ![t] = @ + 1]
      BY <2>3 DEF Adds
    <3>2. scans \in [Trajs -> 0 .. MaxNodes]
      BY <1>0 DEF TypeInv, ClientType
    <3>3. ASSUME NEW s \in finished, s[1] \in Slam, InsertionFinished(s)' PROVE InsertionFinished(s)
      <4>1. CASE s[1] # t
        <5>1. scans'[s[1]] = scans[s[1]]
          BY <3>1, <3>2, <3>3, <4>1 DEF Slam
        <5>. QED
          BY <3>3, <5>1 DEF InsertionFinished
      <4>2. CASE s[1] = t
        <5>1. SubmapComplete(s)
          BY <1>0 DEF KnownInv
        <5>2. ~Finished(t)
          <6>1. Life(t)
            BY DEF LifeInv
          <6>. QED
            BY <3>1, <6>1 DEF Life
        <5>3. PICK i \in 0 .. MaxNodes - 1 : Executed(t, i) /\ Completes(i, s[2])
          BY <3>1, <4>2, <5>1, <5>2 DEF SubmapComplete, Slam
        <5>4. i \in Nat /\ s \in SubmapIds /\ s[2] \in Nat
          BY <1>0, IndexTypes, Ids
        <5>5. i = LastOf(s[2]) /\ i < scans[t]
          BY <5>3, <5>4, Lasts DEF Executed
        <5>. QED
          BY <1>0, <3>3, <4>2, <5>4, <5>5, AllScans
      <4>. QED
        BY <4>1, <4>2
    <3>. QED
      BY <1>0, <2>1, <3>3, SearchFrame
  <2>. QED
    BY <2>2, <2>3
<1>. QED
  BY <1>2, <1>3, <1>4, <1>5, <1>6, <1>7

LEMMA SearchScans ==
  ASSUME IInv, PipeInv, GraphInv, SearchInv, Forward, Keeps,
         NEW t \in Slam, NEW i \in 0 .. MaxNodes - 1, RanScan(t, i)
  PROVE  SearchInv'
<1>1. PICK n, into, front : /\ n = <<t, i>> /\ into = InsertionSubmaps(t, i)
                            /\ front = FrontOf(t, i)
  OBVIOUS
<1>2. PICK F : F = IF FinishesFront(i) THEN {front} ELSE {}
  OBVIOUS
<1>3. /\ n \in nodes /\ into \subseteq submaps \ finished
      /\ optNodes' = optNodes \cup {n}
      /\ nodeIds' = nodeIds \cup (into \X {n})
      /\ finished' = finished \cup F
      /\ OpenPairs' = (finished \X {n}) \cup (F \X ((optNodes \ NodesIn(front)) \ {n}))
      /\ UNCHANGED << nodes, submaps, scans, tried >>
      /\ OpenPairs = {} /\ NodeItem(t, i) \in Pending
  BY <1>1, <1>2 DEF RanScan, Ran
<1>0. /\ TypeInv /\ KnownInv /\ MemberInv /\ TriedInv /\ OpenInv /\ CoverInv /\ ResultInv
      /\ t \in Trajs /\ i \in Nat /\ BackOf(i) \in Nat /\ t \notin Loaded /\ nodeIds \subseteq Pairs
  BY ScanRuns DEF IInv, TypeInv, GraphInv, GraphType, SearchInv, Slam
<1>4. /\ front \in into /\ \A s \in F : s = front
      /\ front[1] = t /\ n[1] = t /\ n[2] = i
      /\ \A s \in into : s[1] = t
  <2>1. front \in into
    BY <1>0, <1>1, ScanSubmaps
  <2>2. \A s \in into : s[1] = t
    BY <1>1 DEF InsertionSubmaps
  <2>. QED
    BY <1>1, <1>2, <2>1, <2>2
<1>5. ~Executed(t, i) /\ n \notin optNodes
  <2>1. ~Executed(t, i)
    BY <1>3 DEF Executed
  <2>. QED
    BY <1>0, <1>1, <1>3, <2>1 DEF NodeKnown, KnownInv
<1>6. ~SubmapComplete(front) /\ front \notin finished
  BY <1>0, <1>3, <1>4 DEF KnownInv
<1>7. \A p \in tried : p[2] # n /\ p[1] # front
  BY <1>0, <1>4, <1>5, <1>6 DEF TriedInv
<1>8. \A p \in nodeIds : p[2] # n
  BY <1>0, <1>5 DEF MemberInv
<1>9. \A m : m \in NodesIn(front) <=> <<front, m>> \in nodeIds
  BY <1>0 DEF NodesIn, Pairs
<1>10. TriedInv'
  <2>1. \A p \in into \X {n} : p[2] = n
    OBVIOUS
  <2>2. \A p \in tried : p \notin nodeIds'
    BY <1>0, <1>3, <1>7, <2>1 DEF TriedInv
  <2>. QED
    BY <1>0, <1>3, <2>2, TriedKept DEF TriedInv
<1>11. ASSUME NEW p \in OpenPairs'
       PROVE  /\ p[1] \in finished' /\ p[2] \in optNodes'
              /\ p[1][1] \in Slam \/ p[2][1] \in Slam
              /\ p \notin tried' /\ p \notin nodeIds'
  <2>1. CASE p \in finished \X {n}
    <3>1. p[1] \in finished /\ p[2] = n /\ p = <<p[1], n>>
      BY <2>1
    <3>2. p \notin into \X {n}
      BY <1>3, <3>1
    <3>. QED
      BY <1>3, <1>4, <1>7, <1>8, <3>1, <3>2
  <2>2. CASE p \in F \X ((optNodes \ NodesIn(front)) \ {n})
    <3>1. p[1] \in F /\ p[1] = front /\ p[2] \in optNodes /\ p[2] \notin NodesIn(front) /\ p[2] # n
          /\ p = <<front, p[2]>>
      BY <1>4, <2>2
    <3>2. p \notin nodeIds /\ p \notin into \X {n}
      BY <1>9, <3>1
    <3>. QED
      BY <1>3, <1>4, <1>7, <3>1, <3>2
  <2>. QED
    BY <1>3, <2>1, <2>2
<1>12. OpenInv'
  BY <1>11 DEF OpenInv
<1>13. CoverInv'
  <2>1. SUFFICES ASSUME NEW s \in finished', NEW m \in optNodes',
                        InsertionFinished(s)', s[1] \in Slam, m[1] \in Slam
                 PROVE  <<s, m>> \in tried' \cup nodeIds' \cup OpenPairs'
    BY DEF CoverInv
  <2>2. InsertionFinished(s)
    BY <1>3, <2>1 DEF InsertionFinished
  <2>3. CASE s \in finished /\ m = n
    BY <1>3, <2>3
  <2>4. CASE s \in finished /\ m # n
    BY <1>0, <1>3, <2>1, <2>2, <2>4 DEF CoverInv
  <2>5. CASE s = front /\ m = n
    BY <1>3, <1>4, <2>5
  <2>6. CASE s \in F /\ s = front /\ m # n
    <3>1. m \in optNodes
      BY <1>3, <2>6
    <3>. QED
      BY <1>3, <1>9, <2>6, <3>1
  <2>. QED
    BY <1>3, <1>4, <2>1, <2>3, <2>4, <2>5, <2>6
<1>14. ResultInv'
  BY <1>0, <1>3 DEF ResultInv, Keeps, Resolves
<1>. QED
  BY <1>10, <1>12, <1>13, <1>14 DEF SearchInv

LEMMA SearchTries ==
  ASSUME IInv, GraphInv, SearchInv, Forward, NEW p \in Pairs, Tries(p), Spent => Spent',
         Results' = Results
  PROVE  SearchInv'
<1>0. /\ TypeInv /\ KnownInv /\ TriedInv /\ OpenInv /\ CoverInv /\ ResultInv
  BY DEF IInv, GraphInv, SearchInv
<1>1. /\ p \in OpenPairs /\ p[1] \in finished /\ p[1] \in submaps /\ p[2] \in nodes
      /\ tried' = tried \cup {p} /\ OpenPairs' = OpenPairs \ {p}
      /\ slots' \subseteq slots \cup {p}
      /\ UNCHANGED << nodes, submaps, finished, nodeIds, optNodes, scans, found, inter >>
      /\ Pending' = Pending /\ UNCHANGED tstate
  BY DEF Tries, SameGraph
<1>2. /\ p[2][1] \in Slam => Executed(p[2][1], p[2][2])
      /\ p[1][1] \in Slam => SubmapComplete(p[1])
      /\ p[1][1] \in Slam \/ p[2][1] \in Slam
      /\ p \notin nodeIds /\ p[2] \in optNodes
  BY <1>0, <1>1 DEF OpenInv, KnownInv, NodeKnown, Slam
<1>3. /\ p[2][1] \in Slam => Executed(p[2][1], p[2][2])'
      /\ p[1][1] \in Slam => SubmapComplete(p[1])'
  BY <1>1, <1>2, CompleteForward DEF Executed
<1>4. TriedInv'
  <2>1. \A q \in tried' : q \in tried \/ q = p
    BY <1>1
  <2>2. \A q \in tried' : q \notin nodeIds'
    BY <1>0, <1>1, <1>2, <2>1 DEF TriedInv
  <2>. QED
    BY <1>0, <1>2, <1>3, <2>1, <2>2, TriedKept DEF TriedInv
<1>5. OpenInv'
  BY <1>0, <1>1 DEF OpenInv
<1>6. CoverInv'
  BY <1>0, <1>1 DEF CoverInv, InsertionFinished
<1>7. ResultInv'
  <2>1. Matches' \subseteq Matches \cup {p}
    BY <1>1 DEF Matches
  <2>2. \A q : Resolves(q)' <=> Resolves(q)
    BY <1>1 DEF Resolves
  <2>3. Resolves(p)
    BY <1>1 DEF Resolves
  <2>4. Matches' \subseteq tried'
    BY <1>0, <1>1, <2>1 DEF ResultInv
  <2>5. \A q \in Matches' : Resolves(q)'
    BY <1>0, <2>1, <2>2, <2>3 DEF ResultInv
  <2>. QED
    BY <1>0, <2>4, <2>5 DEF ResultInv
<1>. QED
  BY <1>4, <1>5, <1>6, <1>7 DEF SearchInv

LEMMA SearchCleans ==
  ASSUME IInv, SearchInv, Forward, Cleans, Spent => slots = {} /\ found = {} /\ Spent'
  PROVE  SearchInv'
<1>0. TypeInv /\ TriedInv /\ CoverInv /\ ResultInv /\ nodeIds \subseteq Pairs
  BY DEF IInv, SearchInv, TypeInv, GraphType
<1>1. PICK N : N = NodesGoneWith(Gone)
  OBVIOUS
<1>2. /\ submaps' = submaps \ Gone /\ finished' = finished \ Gone
      /\ nodes' = nodes \ N
      /\ nodeIds' = {p \in nodeIds : p[1] \notin Gone}
      /\ inter' = {p \in inter : p[1] \notin Gone /\ p[2] \notin N}
      /\ optNodes' = optNodes \ N
      /\ UNCHANGED << scans, tried, slots, found >>
      /\ OpenPairs = {} /\ OpenPairs' = {} /\ Results' = {}
  BY <1>1 DEF Cleans, KeptConstraints
<1>3. TriedInv'
  <2>1. \A p \in tried : p \notin nodeIds'
    BY <1>0, <1>2 DEF TriedInv
  <2>. QED
    BY <1>0, <1>2, <2>1, TriedKept DEF TriedInv
<1>4. OpenInv'
  BY <1>2 DEF OpenInv
<1>5. CoverInv'
  <2>1. SUFFICES ASSUME NEW s \in finished', NEW m \in optNodes',
                        InsertionFinished(s)', s[1] \in Slam, m[1] \in Slam
                 PROVE  <<s, m>> \in tried' \cup nodeIds'
    BY DEF CoverInv
  <2>2. s \in finished /\ s \notin Gone /\ m \in optNodes /\ InsertionFinished(s)
    BY <1>2, <2>1 DEF InsertionFinished
  <2>3. <<s, m>> \in tried \cup nodeIds
    BY <1>0, <1>2, <2>1, <2>2 DEF CoverInv
  <2>. QED
    BY <1>2, <2>2, <2>3
<1>6. ResultInv'
  <2>1. slots' = {} /\ found' = {} /\ Spent'
    BY <1>0, <1>2 DEF ResultInv
  <2>2. Matches' = inter'
    BY <1>2, <2>1 DEF Matches
  <2>3. ASSUME NEW p \in inter' PROVE p \in tried' /\ Resolves(p)'
    <3>1. p \in Matches /\ p[1] \notin Gone /\ p[2] \notin N
      BY <1>2 DEF Matches
    <3>. QED
      BY <1>0, <1>2, <3>1 DEF ResultInv, Resolves
  <2>. QED
    BY <2>1, <2>2, <2>3 DEF ResultInv
<1>. QED
  BY <1>3, <1>4, <1>5, <1>6 DEF SearchInv

LEMMA StepSearch ==
  IInv /\ PipeInv /\ LifeInv /\ GraphInv /\ SearchInv /\ Views => SearchInv'
<1> SUFFICES ASSUME IInv, PipeInv, LifeInv, GraphInv, SearchInv, Views PROVE SearchInv'
  OBVIOUS
<1>0. Forward
  BY GoesForward
<1>1. ASSUME RanAny, Keeps PROVE SearchInv'
  <2>1. ASSUME NEW t \in Slam, NEW i \in 0 .. MaxNodes - 1, RanScan(t, i) PROVE SearchInv'
    BY <1>0, <1>1, <2>1, SearchScans
  <2>. QED
    BY <1>0, <1>1, <2>1, SearchStill, SearchFinishes DEF RanAny, RanItem
<1>2. ASSUME NEW p \in Pairs, Tries(p), Spent => Spent', Results' = Results PROVE SearchInv'
  BY <1>0, <1>2, SearchTries
<1>. QED
  BY <1>0, <1>1, <1>2, SearchStill, SearchCleans DEF Views

-----------------------------------------------------------------------------
(* The invariant of the graph, and what follows.                           *)

WholeInv == PipeInv /\ LifeInv /\ GraphInv /\ SearchInv

LEMMA InitWhole == Init => WholeInv
<1> SUFFICES ASSUME Init PROVE WholeInv
  OBVIOUS
<1>. USE DEF Init
<1>0. \A w \in Workers : job[w].at = "idle"
  BY DEF Idle
<1>1. /\ Inserts = {} /\ TodoItems = {} /\ QueueItems = {} /\ ExecItems = {}
      /\ OpenPairs = {} /\ Results = {} /\ Searching = {}
  <2>1. RangeOf(<< >>) = {}
    BY RangeShort
  <2>2. Inserts = {} /\ TodoItems = {}
    BY <2>1, PartsOf DEF Inserts, TodoItems
  <2>3. ExecItems = {} /\ Results = {} /\ Searching = {}
    BY <1>0 DEF ExecItems, ExecItemsOf, Results, ResultsOf, Searching, SearchingOf
  <2>4. OpenPairs = {}
    BY <1>0 DEF OpenPairs, OpenPairsOf, SearchingOf
  <2>. QED
    BY <2>1, <2>2, <2>3, <2>4 DEF QueueItems
<1>2. Pending = {} /\ AllItems = {}
  BY <1>1 DEF Pending, AllItems
<1>3. PipeInv
  <2>1. TodoInv
    BY DEF TodoInv
  <2>2. OrderInv
    BY <1>1 DEF OrderInv
  <2>3. ItemInv
    <3>1. \A t \in Slam \cup Loaded : t \in Trajs
      BY PoseGraphAssumption DEF Slam
    <3>2. \A t \in Slam \cup Loaded : phase[t] = "new" /\ scans[t] = 0
      BY <3>1
    <3>. QED
      BY <1>2, <3>1, <3>2 DEF ItemInv
  <2>. QED
    BY <2>1, <2>2, <2>3 DEF PipeInv
<1>4. LifeInv
  BY <1>2 DEF LifeInv, Life, Finished
<1>5. GraphInv
  <2>1. \A t \in Slam : scans[t] = 0
    BY DEF Slam
  <2>2. \A t \in Loaded : phase[t] = "new"
    BY PoseGraphAssumption
  <2>3. ThereInv
    BY <2>1, <2>2 DEF ThereInv
  <2>. QED
    BY <2>3 DEF GraphInv, KnownInv, MemberInv, DeletedInv
<1>6. SearchInv
  BY <1>0, <1>1 DEF SearchInv, TriedInv, OpenInv, CoverInv, ResultInv, Matches, Spent, CB!CBInit
<1>. QED
  BY <1>3, <1>4, <1>5, <1>6 DEF WholeInv

LEMMA StepWhole == IInv /\ WholeInv /\ [Next]_vars => WholeInv'
BY NextView, StepLife, StepGraph, StepSearch DEF WholeInv

\* What the client has still to insert, the items on their way, the life of each
\* trajectory, the graph with its optimization problem and the searches fit together,
\* at every moment of every run.
THEOREM WholeInvariance == Spec => []WholeInv
<1>1. Init => WholeInv
  BY InitWhole
<1>2. IInv /\ WholeInv /\ [Next]_vars => WholeInv'
  BY StepWhole
<1>. QED
  BY <1>1, <1>2, Invariance, PTL DEF Spec

\* Trimming and deletion leave no reference behind: each constraint and each entry of
\* the optimization problem leads to a submap and a node of the graph, and of a
\* DELETED trajectory nothing is left.
THEOREM ReferencesStay == Spec => []ReferencesResolve
<1>1. IInv /\ WholeInv => ReferencesResolve
  <2> SUFFICES ASSUME IInv, WholeInv PROVE ReferencesResolve
    OBVIOUS
  <2>0. KnownInv /\ MemberInv /\ DeletedInv /\ ResultInv
    BY DEF WholeInv, GraphInv, SearchInv
  <2>1. \A p \in inter : p[1] \in submaps /\ p[2] \in nodes
    BY <2>0 DEF ResultInv, Matches, Resolves
  <2>2. \A p \in intra \cup nodeIds : p[1] \in submaps /\ p[2] \in nodes
    BY <2>0 DEF MemberInv, KnownInv
  <2>3. ASSUME NEW t \in Trajs, tstate[t] = "DELETED"
        PROVE  /\ \A id \in submaps \cup optSubmaps \cup nodes \cup optNodes : id[1] # t
               /\ \A p \in intra \cup inter : p[1][1] # t /\ p[2][1] # t
    <3>1. (\A s \in submaps : s[1] # t) /\ (\A n \in nodes : n[1] # t)
      BY <2>0, <2>3 DEF DeletedInv
    <3>. QED
      BY <2>0, <2>1, <2>2, <3>1 DEF KnownInv
  <2>. QED
    BY <2>0, <2>1, <2>2, <2>3 DEF ReferencesResolve, KnownInv
<1>. QED
  BY <1>1, Invariance, WholeInvariance, PTL

\* ComputeConstraintsForNode hands a pair to the constraint builder once, whether the
\* node or the end of the submap came first; and once a submap is complete and no node is
\* being searched, none has been missed.
THEOREM SearchesComplete == Spec => []EveryPairOnce
<1>1. IInv /\ WholeInv => EveryPairOnce
  <2> SUFFICES ASSUME IInv, WholeInv PROVE EveryPairOnce
    OBVIOUS
  <2>0. TypeInv /\ KnownInv /\ MemberInv /\ TriedInv /\ OpenInv /\ CoverInv /\ ResultInv
    BY DEF IInv, WholeInv, GraphInv, SearchInv
  <2>1. inter \cap intra = {}
    BY <2>0 DEF ResultInv, Matches, TriedInv, MemberInv
  <2>2. ASSUME NEW w \in Workers, job[w].at = "search"
        PROVE  job[w].pairs \cap (tried \cup nodeIds) = {}
    <3>1. job[w].pairs \subseteq OpenPairs
      BY <2>2 DEF OpenPairs, OpenPairsOf, SearchingOf
    <3>. QED
      BY <2>0, <3>1 DEF OpenInv
  <2>3. ASSUME \A w \in Workers : job[w].at # "search", NEW s \in finished, NEW n \in optNodes,
               InsertionFinished(s), {s[1], n[1]} \cap Loaded = {}
        PROVE  <<s, n>> \in tried \cup nodeIds
    <3>1. OpenPairs = {}
      BY <2>3 DEF OpenPairs, OpenPairsOf, SearchingOf
    <3>2. s[1] \in Slam /\ n[1] \in Slam
      <4>1. finished \subseteq SubmapIds /\ optNodes \subseteq NodeIds
        BY <2>0 DEF TypeInv, GraphType, OptType
      <4>. QED
        BY <2>3, <4>1, Ids DEF Slam
    <3>. QED
      BY <2>0, <2>3, <3>1, <3>2 DEF CoverInv
  <2>. QED
    BY <2>1, <2>2, <2>3 DEF EveryPairOnce
<1>. QED
  BY <1>1, Invariance, WholeInvariance, PTL

-----------------------------------------------------------------------------
(* Counting nodes: the ends of node, and what the client waits for.        *)

\* What the builder counts changes at the end of a node and in its task.
LEMMA BuilderCounts ==
  ASSUME IInv, [Next]_vars
  PROVE  \/ UNCHANGED << finishing, numStarted, numFinished >>
         \/ \E w \in Workers : EndOfNode(w)
         \/ /\ \E f \in finishing : finishing' = finishing \ {f}
            /\ numFinished' = numFinished + 1 /\ UNCHANGED numStarted
<1>0. /\ TypeInv /\ DrainInv /\ WaitInv /\ HeldInv /\ CycleInv
  BY DEF IInv
<1>. USE DEF CB!doneVars, CB!nodeVars, CB!searchVars
<1>1. ASSUME UNCHANGED cbVars PROVE UNCHANGED << finishing, numStarted, numFinished >>
  BY <1>1 DEF cbVars
<1>2. ASSUME ClientOnly \/ AddWorkItem \/ UNCHANGED vars
      PROVE  UNCHANGED << finishing, numStarted, numFinished >>
  BY <1>1, <1>2 DEF ClientOnly, AddWorkItem, vars
<1>3. CASE AwaitQueue
  BY <1>0, <1>3, AwaitEffect
<1>4. ASSUME NEW w \in Workers, WorkerKind(w), ~EndOfNode(w)
      PROVE  UNCHANGED << finishing, numStarted, numFinished >>
  <2>1. CASE StartDrain(w) \/ Moves(w) \/ Closes(w) \/ Notify(w) \/ ClientOnly
    BY <1>1, <1>2, <2>1 DEF StartDrain, Moves, Closes, Notify
  <2>2. CASE CallWhenDone(w)
    BY <1>0, <2>2, CallEffect
  <2>3. CASE Searched(w)
    <3>1. CASE \E p \in Pairs : CB!MaybeAddConstraint(p)
      BY <3>1 DEF CB!MaybeAddConstraint
    <3>. QED
      BY <1>1, <2>3, <3>1 DEF Searched
  <2>4. CASE TakeCallback(w)
    BY <2>4 DEF TakeCallback, CB!RunWhenDone
  <2>5. CASE Optimized(w)
    BY <2>5 DEF Optimized, CB!DeleteScanMatchers
  <2>. QED
    BY <1>4, <2>1, <2>2, <2>3, <2>4, <2>5 DEF WorkerKind
<1>5. CASE BuilderTask
  <2>1. CASE \E s \in building : CB!BuildMatcher(s)
    BY <2>1 DEF CB!BuildMatcher
  <2>2. CASE \E p \in outstanding : CB!Compute(p)
    BY <2>2 DEF CB!Compute
  <2>3. CASE \E f \in finishing : CB!FinishNode(f)
    BY <2>3 DEF CB!FinishNode
  <2>. QED
    BY <1>5, <2>1, <2>2, <2>3 DEF BuilderTask, CB!CBTask
<1>. QED
  BY <1>0, <1>2, <1>3, <1>4, <1>5, ClientKinds, WorkerKinds DEF Next, Stopped

LEMMA StepEnded == IInv /\ EndedInv /\ [Next]_vars => EndedInv'
<1> SUFFICES ASSUME IInv, EndedInv, [Next]_vars PROVE EndedInv'
  OBVIOUS
<1>0. /\ finishing \subseteq CB!FinishTasks /\ numStarted \in Nat /\ numFinished \in Nat
      /\ \A f \in finishing : f.id \in Nat
  BY DEF IInv, TypeInv, BuilderType, CB!CBTypeOK, CB!FinishTasks
<1>1. CASE UNCHANGED << finishing, numStarted, numFinished >>
  BY <1>1 DEF EndedInv
<1>2. CASE \E w \in Workers : EndOfNode(w)
  <2>1. PICK f : f = [id |-> numStarted, deps |-> nodeDeps] /\ f.id = numStarted
    <3>1. [id |-> numStarted, deps |-> nodeDeps].id = numStarted
      OBVIOUS
    <3>. QED
      BY <3>1, Zenon
  <2>2. finishing' = finishing \cup {f} /\ numStarted' = numStarted + 1 /\ numFinished' = numFinished
    BY <1>2, <2>1 DEF EndOfNode, CB!NotifyEndOfNode
  <2>3. f \notin finishing
    BY <1>0, <2>1 DEF EndedInv
  <2>4. IsFiniteSet(finishing') /\ Cardinality(finishing') = Cardinality(finishing) + 1
        /\ Cardinality(finishing) \in Nat
    BY <2>2, <2>3, FS_AddElement, FS_CardinalityType DEF EndedInv
  <2>5. \A g \in finishing' : g.id < numStarted'
    BY <1>0, <2>1, <2>2 DEF EndedInv
  <2>. QED
    BY <1>0, <2>2, <2>4, <2>5 DEF EndedInv
<1>3. CASE /\ \E f \in finishing : finishing' = finishing \ {f}
           /\ numFinished' = numFinished + 1 /\ UNCHANGED numStarted
  <2>1. PICK f \in finishing : finishing' = finishing \ {f}
    BY <1>3
  <2>2. IsFiniteSet(finishing') /\ Cardinality(finishing') = Cardinality(finishing) - 1
        /\ Cardinality(finishing) \in Nat
    BY <2>1, FS_RemoveElement, FS_CardinalityType DEF EndedInv
  <2>. QED
    BY <1>0, <1>3, <2>1, <2>2 DEF EndedInv
<1>. QED
  BY <1>1, <1>2, <1>3, BuilderCounts

\* A call that does not wait for a notification, and does not destroy.
Waitless(a) == a.do \in {"enqueue", "insert", "mark", "sample", "await"}
Harmless(s) == s = << >> \/ Waitless(Head(s))

LEMMA HarmlessForms ==
  /\ Harmless(<< >>)
  /\ \A a : Waitless(a) => Harmless(<< a >>)
  /\ \A a, b : Waitless(a) => Harmless(<< a, b >>)
  /\ \A a, b, c : Waitless(a) => Harmless(<< a, b, c >>)
  /\ \A a, b, c, d : Waitless(a) => Harmless(<< a, b, c, d >>)
  /\ \A a, b, c, d, e : Waitless(a) => Harmless(<< a, b, c, d, e >>)
  /\ \A a, b, c, d, e, f : Waitless(a) => Harmless(<< a, b, c, d, e, f >>)
BY HeadShort DEF Harmless, Waitless

LEMMA WaitlessSteps ==
  /\ \A x : Waitless(Enqueue(x))
  /\ \A t, i : Waitless(InsertNode(t, i))
  /\ \A t : Waitless(InsertLoadedSubmap(t)) /\ Waitless(InsertLoadedNode(t))
  /\ \A t : Waitless([do |-> "mark", traj |-> t])
  /\ Waitless(Sample)
BY StepFields DEF Waitless

LEMMA HarmlessQuiet == Harmless(todo) => ~Joined /\ ~Destroyed
<1> SUFFICES ASSUME Harmless(todo) PROVE ~Joined /\ ~Destroyed
  OBVIOUS
<1>1. ~Joined
  BY DEF Harmless, Waitless, Joined
<1>2. todo # << Destroying >>
  BY HeadShort, StepFields DEF Harmless, Waitless
<1>3. todo # << [do |-> "gone"] >>
  BY HeadShort DEF Harmless, Waitless
<1>. QED
  BY <1>1, <1>2, <1>3 DEF Destroyed

\* What the client has to do after a call, and after a step.
LEMMA CallHarmless ==
  ASSUME ClientCalls
  PROVE  Harmless(todo')
<1>2. ASSUME NEW t, AddTrajectoryBuilder(t) \/ AddSensorData(t) \/ FinishTrajectory(t)
      PROVE  Harmless(todo')
  BY WaitlessSteps, <1>2, HarmlessForms
     DEF AddTrajectoryBuilder, AddSensorData, FinishTrajectory
<1>3. ASSUME NEW t, AddNode(t) PROVE Harmless(todo')
  <2>1. PICK a, b : Waitless(a) /\ todo' = << a, b >>
    BY <1>3, WaitlessSteps DEF AddNode, InsertNode
  <2>. QED
    BY <2>1, HarmlessForms
<1>4. ASSUME NEW t, LoadState(t) PROVE Harmless(todo')
  <2>1. PICK a, b, c, d, e, f : Waitless(a) /\ todo' = << a, b, c, d, e, f >>
    BY WaitlessSteps, <1>4 DEF LoadState
  <2>. QED
    BY <2>1, HarmlessForms
<1>5. ASSUME NEW t, DeleteTrajectory(t) PROVE Harmless(todo')
  <2>1. PICK a, b : Waitless(a) /\ todo' = << a, b >>
    BY <1>5, WaitlessSteps DEF DeleteTrajectory
  <2>. QED
    BY <2>1, HarmlessForms
<1>6. CASE RunFinalOptimization
  <2>1. PICK a, b : Waitless(a) /\ todo' = << a, b >> \o << Sample >>
    BY WaitlessSteps, <1>6 DEF RunFinalOptimization, Wait, Sample
  <2>2. todo' = << a, b, Sample >>
    BY <2>1, ConcatShort
  <2>. QED
    BY <2>1, <2>2, HarmlessForms
<1>7. CASE Destroy
  <2>1. todo' = << Sample, Destroying >>
    BY <1>7, ConcatShort DEF Destroy, Wait, Sample, Destroying
  <2>. QED
    BY <2>1, HarmlessForms, WaitlessSteps
<1>. QED
  BY <1>2, <1>3, <1>4, <1>5, <1>6, <1>7 DEF ClientCalls

LEMMA TailHarmless ==
  ASSUME TodoInv, todo # << >>, Head(todo).do \in {"enqueue", "insert", "mark"}
  PROVE  Harmless(Tail(todo))
<1>3. CASE EnqueueStep
  <2>1. \/ Tail(todo) = << >>
        \/ \E a, b, c, d, e : Waitless(a) /\ Tail(todo) = << a, b, c, d, e >>
        \/ \E a, b, c : Waitless(a) /\ Tail(todo) = << a, b, c >>
        \/ \E a : Waitless(a) /\ Tail(todo) = << a >>
        \/ \E a, b : Waitless(a) /\ Tail(todo) = << a, b >>
    BY <1>3, WaitlessSteps DEF EnqueueStep
  <2>. QED
    BY <2>1, HarmlessForms
<1>4. CASE InsertStep
  <2>1. \/ \E a, b, c, d : Waitless(a) /\ Tail(todo) = << a, b, c, d >>
        \/ \E a : Waitless(a) /\ Tail(todo) = << a >>
        \/ \E a, b : Waitless(a) /\ Tail(todo) = << a, b >>
    BY WaitlessSteps, <1>4 DEF InsertStep
  <2>. QED
    BY <2>1, HarmlessForms
<1>5. CASE MarkStep
  BY WaitlessSteps, <1>5, HarmlessForms DEF MarkStep
<1>. QED
  BY <1>3, <1>4, <1>5, TodoForms

\* The client is told, or goes on; only when all is quiet does it go on past a
\* notification or destroy.
LEMMA TodoCounts ==
  ASSUME IInv, PipeInv, [Next]_vars
  PROVE  \/ UNCHANGED << todo, notified >>
         \/ \E w \in Workers : Notify(w)
         \/ ~Joined' /\ ~Destroyed'
         \/ /\ Joined \/ Destroyed
            /\ UNCHANGED << queueOpen, finishing, slots, callback >>
<1>0. TypeInv /\ TodoInv /\ DrainInv /\ WaitInv /\ CycleInv
  BY DEF IInv, PipeInv
<1>1. ASSUME NEW function, Abort(function) PROVE UNCHANGED << todo, notified >>
  BY <1>1 DEF Abort, clientVars
<1>2. ASSUME Harmless(todo') PROVE ~Joined' /\ ~Destroyed'
  <2>1. (Harmless(todo) => ~Joined /\ ~Destroyed)'
    BY HarmlessQuiet, PTL
  <2>. QED
    BY <1>2, <2>1
<1>3. CASE ClientCalls
  BY <1>2, <1>3, CallHarmless
<1>4. CASE AddWorkItem \/ MarkForDeletion \/ (Insert /\ ~ \E function : Abort(function))
  <2>1. todo # << >> /\ Head(todo).do \in {"enqueue", "insert", "mark"}
    BY <1>4 DEF AddWorkItem, MarkForDeletion, Insert
  <2>2. todo' = Tail(todo) \/ todo' = << >>
    BY <1>4 DEF AddWorkItem, MarkForDeletion, Insert, StepDone
  <2>. QED
    BY <1>0, <1>2, <2>1, <2>2, TailHarmless, HarmlessForms
<1>5. CASE SampleNumNodes
  <2>1. PICK A, a : A = << a >> /\ a = [do |-> "await", expected |-> numNodes]
    OBVIOUS
  <2>2. todo # << >> /\ Head(todo).do = "sample" /\ todo' = << a >> \o Tail(todo)
    BY <1>5, <2>1 DEF SampleNumNodes
  <2>3. todo' = << a >> \/ todo' = << a, Destroying >>
    <3>1. CASE todo = << Sample >>
      BY <2>2, <3>1, TailShort, ConcatShort
    <3>2. CASE todo = << Sample, Destroying >>
      BY <2>2, <3>2, TailShort, ConcatShort
    <3>. QED
      BY <1>0, <2>2, <3>1, <3>2, WaitForms
  <2>4. Waitless(a)
    BY <2>1 DEF Waitless
  <2>. QED
    BY <1>2, <2>3, <2>4, HarmlessForms
<1>6. CASE AwaitQueue
  <2>1. Joining' /\ ~notified'
    BY <1>0, <1>6, AwaitEffect DEF AwaitQueue
  <2>2. Head(todo').do = "join" /\ ~Joined'
    BY <2>1 DEF Joining, Joined
  <2>3. todo' # << Destroying >>
    BY <2>2, HeadShort, StepFields
  <2>4. todo' # << [do |-> "gone"] >>
    BY <2>2, HeadShort
  <2>. QED
    BY <2>2, <2>3, <2>4 DEF Destroyed
<1>7. CASE (AwaitNotification \/ Destruct) /\ ~ \E function : Abort(function)
  <2>1. Joined \/ Destroyed
    BY <1>7 DEF AwaitNotification, Destruct, Joined, Destroyed, Destroying
  <2>2. UNCHANGED << queueOpen, finishing, slots, callback >>
    BY <1>7 DEF AwaitNotification, Destruct, NoEffect, queueVars, cbVars
  <2>. QED
    BY <2>1, <2>2
<1>9. ASSUME NEW w \in Workers, Worker(w), ~Notify(w) PROVE UNCHANGED << todo, notified >>
  <2>1. CASE \E function : Abort(function)
    BY <1>1, <2>1
  <2>2. CASE ~ \E function : Abort(function)
    BY <1>9, <2>2 DEF Worker, StartDrain, PopWorkItem, CallWhenDone, ExecuteData, ExecuteFinish,
       ExecuteDelete, ExecuteFreeze, ExecuteFromProto, ExecuteNodeToSubmap, ExecuteTrimmer,
       ExecuteFinal, ExecuteNode, ComputeConstraint, EndOfNode, TakeCallback, HandleWorkQueue,
       EndSolve, AfterOptimization, clientVars
  <2>. QED
    BY <2>1, <2>2
<1>10. CASE BuilderTask \/ UNCHANGED vars
  BY <1>10, TaskEffect DEF vars, clientVars
<1>. QED
  BY <1>1, <1>3, <1>4, <1>5, <1>6, <1>7, <1>9, <1>10 DEF Next, Stopped, ClientSteps

\* The queue, the entries and the callback change where the code says so.
LEMMA QueueCounts ==
  ASSUME IInv, [Next]_vars
  PROVE  \/ UNCHANGED << queue, queueOpen >>
         \/ todo # << >> /\ Head(todo).do = "enqueue" /\ queueOpen'
         \/ \E w \in Workers : job[w].at = "drain" /\ (~queueOpen' => queue' = << >>)
<1>0. TypeInv
  BY DEF IInv
<1>. USE DEF queueVars
<1>1. ASSUME NEW function, Abort(function) PROVE UNCHANGED << queue, queueOpen >>
  BY <1>1 DEF Abort
<1>2. CASE ClientCalls \/ BuilderTask \/ UNCHANGED vars
  BY <1>2 DEF ClientCalls, NoEffect, BuilderTask, vars
<1>3. CASE AddWorkItem
  BY <1>3 DEF AddWorkItem
<1>4. CASE ClientSteps /\ ~AddWorkItem /\ ~ \E function : Abort(function)
  BY <1>4 DEF ClientSteps, Insert, MarkForDeletion, SampleNumNodes, AwaitQueue, AwaitNotification,
     Destruct, NoEffect
<1>5. ASSUME NEW w \in Workers, PopWorkItem(w)
      PROVE  job[w].at = "drain" /\ (~queueOpen' => queue' = << >>)
  <2>1. queueOpen
    BY <1>5, Alone DEF IInv, PopWorkItem
  <2>. QED
    BY <1>5, <2>1 DEF PopWorkItem
<1>6. ASSUME NEW w \in Workers, Worker(w), ~PopWorkItem(w), ~ \E function : Abort(function)
      PROVE  UNCHANGED << queue, queueOpen >>
  BY <1>6 DEF Worker, StartDrain, CallWhenDone, ExecuteData, ExecuteFinish,
     ExecuteDelete, ExecuteFreeze, ExecuteFromProto, ExecuteNodeToSubmap, ExecuteTrimmer,
     ExecuteFinal, ExecuteNode, ComputeConstraint, EndOfNode, TakeCallback, Notify, HandleWorkQueue,
     EndSolve, AfterOptimization
<1>. QED
  BY <1>1, <1>2, <1>3, <1>4, <1>5, <1>6 DEF Next, Stopped

LEMMA BuilderChanges ==
  ASSUME IInv, [Next]_vars
  PROVE  /\ slots' \subseteq slots \/ \E w \in Workers : job[w].at = "search"
         /\ \/ callback' = callback \/ \E w \in Workers : CallWhenDone(w) \/ TakeCallback(w)
            \/ todo # << >> /\ Head(todo).do = "await"
         /\ \A w \in Workers : job'[w].at = "wait" => job[w].at = "wait" \/ TakeCallback(w)
<1>0. /\ TypeInv /\ DrainInv /\ WaitInv /\ HeldInv /\ CycleInv /\ JobType
  BY DEF IInv, TypeInv
<1>. DEFINE Goal == /\ slots' \subseteq slots \/ \E w \in Workers : job[w].at = "search"
                    /\ \/ callback' = callback \/ \E w \in Workers : CallWhenDone(w) \/ TakeCallback(w)
                       \/ todo # << >> /\ Head(todo).do = "await"
                    /\ \A w \in Workers : job'[w].at = "wait" => job[w].at = "wait" \/ TakeCallback(w)
<1>1. ASSUME UNCHANGED cbVars, UNCHANGED job PROVE Goal
  BY <1>1 DEF cbVars
<1>2. ASSUME ClientOnly \/ AddWorkItem \/ UNCHANGED vars PROVE Goal
  BY <1>1, <1>2 DEF ClientOnly, AddWorkItem, vars
<1>3. CASE AwaitQueue
  <2>1. UNCHANGED << slots, job >>
    BY <1>0, <1>3, AwaitEffect
  <2>. QED
    BY <1>3, <2>1 DEF AwaitQueue
<1>4. CASE BuilderTask
  BY <1>4, TaskEffect
<1>5. ASSUME NEW w \in Workers, WorkerKind(w), ~ClientOnly PROVE Goal
  <2>1. CASE StartDrain(w)
    <3>1. job'[w].at # "wait" /\ \A v \in Workers : v # w => job'[v] = job[v]
      BY <1>0, <2>1, JobsMade, GotoType DEF StartDrain
    <3>. QED
      BY <2>1, <3>1 DEF StartDrain, cbVars
  <2>2. CASE \/ Moves(w) \/ Searched(w) \/ EndOfNode(w) \/ Closes(w)
             \/ job[w].at = "optimized" /\ Optimized(w)
    <3>1. callback' = callback /\ \A v \in Workers : job'[v].at = "wait" => job[v].at = "wait"
      BY <1>0, <2>2, DrainerStep
    <3>2. slots' \subseteq slots \/ job[w].at = "search"
      BY <2>2 DEF Moves, Searched, EndOfNode, Closes, Optimized, cbVars, CB!DeleteScanMatchers
    <3>. QED
      BY <3>1, <3>2
  <2>3. CASE CallWhenDone(w)
    <3>1. /\ slots' = slots
          /\ job'[w] = Idle /\ \A v \in Workers : v # w => job'[v] = job[v]
      BY <1>0, <2>3, CallEffect, JobsMade, GotoType DEF Idle
    <3>. QED
      BY <2>3, <3>1 DEF Idle
  <2>4. CASE TakeCallback(w)
    <3>1. slots' = {} /\ Goto(w, [at |-> callback, result |-> found])
      BY <1>0, <2>4, EverythingDone
    <3>2. \A v \in Workers : v # w => job'[v] = job[v]
      BY <1>0, <3>1 DEF Goto, JobType
    <3>. QED
      BY <2>4, <3>1, <3>2
  <2>5. CASE Notify(w)
    <3>1. job'[w].at = "idle" /\ \A v \in Workers : v # w => job'[v] = job[v]
      BY <1>0, <2>5, JobsMade, GotoType DEF Notify, Idle
    <3>2. UNCHANGED << slots, callback >>
      BY <2>5 DEF Notify, cbVars
    <3>. QED
      BY <3>1, <3>2
  <2>. QED
    BY <1>5, <2>1, <2>2, <2>3, <2>4, <2>5 DEF WorkerKind
<1>. QED
  BY <1>0, <1>2, <1>3, <1>4, <1>5, ClientKinds, WorkerKinds DEF Next, Stopped

\* While no thread drains, nothing is added to a cycle.
LEMMA QuietStays ==
  ASSUME IInv, [Next]_vars, ~queueOpen
  PROVE  /\ finishing' \subseteq finishing /\ slots' \subseteq slots
         /\ \A w \in Workers : job[w].at \in {"idle", "wait"}
<1>0. TypeInv /\ DrainInv
  BY DEF IInv
<1>1. Draining = {}
  BY <1>0 DEF DrainInv
<1>2. \A w \in Workers : job[w].at \in {"idle", "wait"}
  BY <1>1, NoDrainer
<1>3. slots' \subseteq slots
  BY <1>2, BuilderChanges
<1>4. \A w \in Workers : ~EndOfNode(w)
  BY <1>2 DEF EndOfNode
<1>5. finishing' \subseteq finishing
  BY <1>4, BuilderCounts
<1>. QED
  BY <1>2, <1>3, <1>5

LEMMA StepQuiet == IInv /\ PipeInv /\ QuietInv /\ [Next]_vars => QuietInv'
<1> SUFFICES ASSUME IInv, PipeInv, QuietInv, [Next]_vars PROVE QuietInv'
  OBVIOUS
<1>0. /\ TypeInv /\ DrainInv /\ WaitInv /\ HeldInv /\ CycleInv
      /\ None \notin {"handle", "wait"}
  BY PoseGraphAssumption DEF IInv
<1>1. ~queueOpen' => queue' = << >>
  BY QueueCounts DEF QuietInv
<1>2. ASSUME NEW w \in Workers, job'[w].at = "wait" PROVE finishing' = {} /\ slots' = {}
  <2>1. CASE job[w].at = "wait"
    <3>1. ~queueOpen
      BY <1>0, <2>1 DEF WaitInv, Joining
    <3>. QED
      BY <2>1, <3>1, QuietStays DEF QuietInv
  <2>2. CASE TakeCallback(w)
    BY <1>0, <2>2, EverythingDone
  <2>. QED
    BY <1>2, <2>1, <2>2, BuilderChanges
<1>3. ASSUME Quiet, Joined \/ Destroyed, UNCHANGED << todo, notified >> PROVE Quiet'
  <2>1. ~queueOpen /\ finishing' = {} /\ slots' = {} /\ \A w \in Workers : job[w].at \in {"idle", "wait"}
    BY <1>3, QuietStays DEF Quiet
  <2>2. todo # << >> => Head(todo).do \notin {"enqueue", "await"}
    <3>1. CASE Joined
      BY <3>1 DEF Joined
    <3>2. CASE Destroyed
      BY <3>2, HeadShort, StepFields DEF Destroyed
    <3>. QED
      BY <1>3, <3>1, <3>2
  <2>3. queueOpen' = queueOpen
    BY <2>1, <2>2, QueueCounts
  <2>4. doneTasks = {}
    BY <1>0, <1>3 DEF Quiet, CycleInv
  <2>5. callback' = callback
    BY <2>1, <2>2, <2>4, BuilderChanges DEF CallWhenDone, TakeCallback
  <2>. QED
    BY <1>3, <2>1, <2>3, <2>5 DEF Quiet
<1>4. ASSUME NEW w \in Workers, Notify(w) PROVE Quiet'
  <2>1. job[w].at = "wait" /\ UNCHANGED << queueOpen, finishing, slots, callback >>
    BY <1>4 DEF Notify, queueVars, cbVars
  <2>2. finishing = {} /\ slots = {} /\ ~queueOpen /\ callback # "wait"
    BY <1>0, <2>1 DEF QuietInv, WaitInv, Joining
  <2>3. callback # "handle"
    BY <1>0, <2>2 DEF DrainInv
  <2>. QED
    BY <1>0, <2>1, <2>2, <2>3 DEF Quiet, TypeInv, BuilderType
<1>5. ASSUME Joined' \/ Destroyed' PROVE Quiet'
  <2>1. CASE UNCHANGED << todo, notified >>
    <3>1. Joined \/ Destroyed
      BY <1>5, <2>1 DEF Joined, Destroyed
    <3>. QED
      BY <1>3, <2>1, <3>1 DEF QuietInv
  <2>2. CASE (Joined \/ Destroyed) /\ UNCHANGED << queueOpen, finishing, slots, callback >>
    BY <2>2 DEF QuietInv, Quiet
  <2>. QED
    BY <1>4, <1>5, <2>1, <2>2, TodoCounts
<1>. QED
  BY <1>1, <1>2, <1>5 DEF QuietInv

\* Which thread lists the searches of a node, and how many nodes there are.
Counted == UNCHANGED << numNodes, numStarted >> /\ Searching' = Searching

LEMMA WorkerCounts ==
  ASSUME IInv, NEW w \in Workers, Worker(w), ~ExecuteNode(w), ~EndOfNode(w)
  PROVE  Counted
<1>0. JobType /\ JobType' /\ \A v \in Workers : v # w => job[v].at = "idle"
  <2>1. TypeInv'
    BY ItemTypes, ThreadTypes, NodeTypes DEF IInv, Worker
  <2>. QED
    BY <2>1, OthersIdle DEF IInv, TypeInv
<1>. USE DEF CB!searchVars, CB!nodeVars, CB!doneVars, miscVars, cbVars
<1>1. ASSUME UNCHANGED job PROVE Searching' = Searching
  BY <1>1 DEF Searching
<1>2. ASSUME NEW j, Goto(w, j), j.at = "search" <=> job[w].at = "search"
      PROVE  Searching' = Searching
  <2>1. job'[w] = j /\ j \in Jobs
    BY <1>0, <1>2 DEF Goto, JobType
  <2>. QED
    BY <1>0, <1>2, <2>1, JobMove
<1>3. CASE \E function : Abort(function)
  BY <1>1, <1>3 DEF Abort, Counted
<1>4. CASE ~ \E function : Abort(function)
  <2>1. CASE StartDrain(w)
    <3>1. \E j : Goto(w, j) /\ j.at = "drain"
      BY <2>1, JobsMade DEF StartDrain
    <3>. QED
      BY <1>2, <2>1, <3>1 DEF StartDrain, Counted, Idle
  <2>2. CASE PopWorkItem(w)
    <3>1. \E j : Goto(w, j) /\ j.at \in {"idle", "exec"}
      BY <2>2 DEF PopWorkItem, Idle
    <3>. QED
      BY <1>2, <2>2, <3>1 DEF PopWorkItem, Counted
  <2>3. CASE CallWhenDone(w)
    <3>1. Goto(w, Idle) /\ UNCHANGED numStarted /\ job[w].at = "whendone"
      BY <2>3, CallEffect DEF IInv
    <3>. QED
      BY <1>2, <2>3, <3>1 DEF CallWhenDone, Counted, Idle
  <2>4. CASE \/ ExecuteData(w) \/ ExecuteFinish(w) \/ ExecuteDelete(w) \/ ExecuteFreeze(w)
             \/ ExecuteFromProto(w) \/ ExecuteNodeToSubmap(w) \/ ExecuteTrimmer(w)
             \/ ExecuteFinal(w)
    <3>1. job[w].at = "exec" /\ \E r \in BOOLEAN : AfterItem(w, r)
      <4>1. (job[w].item.op = "final") \in BOOLEAN
        OBVIOUS
      <4>. QED
        BY <1>4, <2>4, <4>1 DEF ExecuteData, ExecuteFinish, ExecuteDelete, ExecuteFreeze,
           ExecuteFromProto, ExecuteNodeToSubmap, ExecuteTrimmer, ExecuteFinal, Executing
    <3>2. \E j : Goto(w, j) /\ j.at \in {"drain", "whendone"}
      BY <3>1 DEF AfterItem
    <3>3. UNCHANGED << numNodes, numStarted >>
      BY <1>4, <2>4 DEF ExecuteData, ExecuteFinish, ExecuteDelete, ExecuteFreeze,
         ExecuteFromProto, ExecuteNodeToSubmap, ExecuteTrimmer, ExecuteFinal
    <3>. QED
      BY <1>2, <3>1, <3>2, <3>3 DEF Counted
  <2>5. ASSUME NEW p, ComputeConstraint(w, p) PROVE Counted
    <3>1. PICK j : Goto(w, j) /\ j = [job[w] EXCEPT !.pairs = @ \ {p}]
      BY <1>4, <2>5 DEF ComputeConstraint
    <3>2. job[w].at = "search" /\ "at" \in DOMAIN job[w]
      BY <1>0, <2>5, JobShapes DEF ComputeConstraint, Jobs
    <3>3. j.at = "search"
      BY <3>1, <3>2
    <3>4. UNCHANGED numNodes
      BY <1>4, <2>5 DEF ComputeConstraint
    <3>5. UNCHANGED numStarted
      <4>1. UNCHANGED cbVars \/ CB!MaybeAddConstraint(p)
        BY <1>4, <2>5 DEF ComputeConstraint
      <4>. QED
        BY <4>1 DEF CB!MaybeAddConstraint
    <3>. QED
      BY <1>2, <3>1, <3>2, <3>3, <3>4, <3>5 DEF Counted
  <2>6. CASE TakeCallback(w)
    <3>1. callback \in {"handle", "wait"} /\ Goto(w, [at |-> callback, result |-> found]) /\ job[w] = Idle
      BY <2>6, EverythingDone DEF IInv
    <3>2. \E j : Goto(w, j) /\ j.at \in {"handle", "wait"}
      BY <3>1
    <3>3. UNCHANGED << numNodes, numStarted >>
      BY <2>6 DEF TakeCallback, CB!RunWhenDone
    <3>. QED
      BY <1>2, <3>1, <3>2, <3>3 DEF Counted, Idle
  <2>7. CASE Notify(w)
    BY <1>2, <2>7 DEF Notify, Counted, Idle
  <2>8. CASE HandleWorkQueue(w) \/ EndSolve(w)
    <3>1. PICK j, a : Goto(w, j) /\ j = [job[w] EXCEPT !.at = a] /\ a \in {"optimized", "solving"}
      BY <1>4, <2>8 DEF HandleWorkQueue, EndSolve
    <3>2. job[w].at \in {"handle", "solving"} /\ "at" \in DOMAIN job[w]
      BY <1>0, <2>8, JobShapes DEF HandleWorkQueue, EndSolve, Jobs
    <3>3. j.at \in {"optimized", "solving"}
      BY <3>1, <3>2
    <3>4. UNCHANGED << numNodes, numStarted >>
      BY <1>4, <2>8 DEF HandleWorkQueue, EndSolve
    <3>. QED
      BY <1>2, <3>1, <3>2, <3>3, <3>4 DEF Counted
  <2>9. CASE AfterOptimization(w)
    <3>1. Optimized(w) /\ job[w].at = "optimized"
      BY <1>4, <2>9, OptimizedEffect DEF AfterOptimization
    <3>2. \E j : Goto(w, j) /\ j.at = "drain"
      BY <3>1, JobsMade DEF Optimized
    <3>. QED
      BY <1>2, <3>1, <3>2 DEF Optimized, CB!DeleteScanMatchers, Counted
  <2>. QED
    BY <2>1, <2>2, <2>3, <2>4, <2>5, <2>6, <2>7, <2>8, <2>9 DEF Worker
<1>. QED
  BY <1>3, <1>4

LEMMA BalanceFrame ==
  ASSUME BalanceInv, NodesPending' = NodesPending, Counted, Appending' <=> Appending
  PROVE  BalanceInv'
BY DEF BalanceInv, Counted

LEMMA RestBalances ==
  ASSUME BalanceInv, Pending' = Pending, Inserts' = Inserts, Counted
  PROVE  BalanceInv'
BY BalanceFrame DEF NodesPending, Appending

LEMMA RanBalances ==
  ASSUME BalanceInv, NEW x, Ran(x), x.op # "node", Counted
  PROVE  BalanceInv'
<1>1. NodesPending' = NodesPending
  BY DEF Ran, NodesPending
<1>2. Appending' <=> Appending
  BY DEF Ran, Appending
<1>. QED
  BY <1>1, <1>2, BalanceFrame

LEMMA ScanBalances ==
  ASSUME IInv, PipeInv, BalanceInv, NEW w \in Workers, ExecuteNode(w),
         ~ \E function : Abort(function)
  PROVE  BalanceInv'
<1>0. /\ TypeInv /\ JobType /\ JobType' /\ \A v \in Workers : v # w => job[v].at = "idle"
      /\ numNodes \in Nat /\ numStarted \in Nat
  BY OthersIdle, NodeTypes DEF IInv, TypeInv, Worker, MiscType, BuilderType, CB!CBTypeOK
<1>1. PICK t \in Slam, i \in 0 .. MaxNodes - 1 : RanScan(t, i)
  BY ScanView
<1>2. PICK x : x = NodeItem(t, i) /\ x.op = "node"
  BY StepFields
<1>3. Ran(x)
  BY <1>1, <1>2 DEF RanScan
<1>4. x \in NodesPending /\ NodesPending' = NodesPending \ {x}
  BY <1>2, <1>3 DEF Ran, NodesPending
<1>5. /\ IsFiniteSet(NodesPending') /\ Cardinality(NodesPending') = Cardinality(NodesPending) - 1
      /\ Cardinality(NodesPending) \in Nat
  BY <1>4, FS_RemoveElement, FS_CardinalityType DEF BalanceInv
<1>6. Appending' <=> Appending
  BY <1>3 DEF Ran, Appending
<1>7. UNCHANGED << numNodes, numStarted >>
  BY DEF ExecuteNode, miscVars, cbVars
<1>8. Searching = {} /\ Searching' # {}
  <2>1. PICK j : Goto(w, j) /\ j.at = "search"
    BY DEF ExecuteNode
  <2>2. job'[w] = j /\ j \in Jobs
    BY <1>0, <2>1 DEF Goto, JobType
  <2>3. job[w].at = "exec"
    BY DEF ExecuteNode, Executing
  <2>. QED
    BY <1>0, <2>1, <2>2, <2>3, JobMove
<1>. QED
  BY <1>0, <1>5, <1>6, <1>7, <1>8 DEF BalanceInv

LEMMA EndBalances ==
  ASSUME IInv, PipeInv, BalanceInv, NEW w \in Workers, EndOfNode(w)
  PROVE  BalanceInv'
<1>0. /\ TypeInv /\ JobType /\ \A v \in Workers : v # w => job[v].at = "idle"
      /\ numNodes \in Nat /\ numStarted \in Nat
  BY OthersIdle DEF IInv, TypeInv, Worker, MiscType, BuilderType, CB!CBTypeOK
<1>1. Pending' = Pending /\ Inserts' = Inserts
  BY WorkerRests DEF Rests
<1>2. NodesPending' = NodesPending /\ (Appending' <=> Appending)
  BY <1>1 DEF NodesPending, Appending
<1>3. numNodes' = numNodes /\ numStarted' = numStarted + 1
  BY DEF EndOfNode, CB!NotifyEndOfNode
<1>4. Searching # {} /\ Searching' = {}
  <2>1. PICK a \in {"drain", "whendone"} : Goto(w, [at |-> a])
    BY DEF EndOfNode, AfterItem
  <2>2. PICK j \in Jobs : j = [at |-> a] /\ j.at = a
    BY JobsMade
  <2>3. job[w].at = "search"
    BY DEF EndOfNode
  <2>. QED
    BY <1>0, <2>1, <2>2, <2>3, JobMove
<1>5. Cardinality(NodesPending) \in Nat
  BY FS_CardinalityType DEF BalanceInv
<1>. QED
  BY <1>0, <1>2, <1>3, <1>4, <1>5 DEF BalanceInv

LEMMA WorkerBalances ==
  ASSUME IInv, PipeInv, BalanceInv, NEW w \in Workers, Worker(w)
  PROVE  BalanceInv'
<1>1. CASE EndOfNode(w)
  BY <1>1, EndBalances
<1>2. CASE ExecuteNode(w) /\ ~ \E function : Abort(function)
  BY <1>2, ScanBalances
<1>3. CASE \E function : Abort(function)
  <2>1. Pending' = Pending /\ Inserts' = Inserts
    BY <1>3, AbortRests DEF Rests
  <2>2. Counted
    BY <1>3 DEF Abort, miscVars, cbVars, Counted, Searching
  <2>. QED
    BY <2>1, <2>2, RestBalances
<1>4. CASE ~EndOfNode(w) /\ ~ExecuteNode(w) /\ ~ \E function : Abort(function)
  <2>1. Counted
    BY <1>4, WorkerCounts
  <2>2. CASE \/ ExecuteData(w) \/ ExecuteFinish(w) \/ ExecuteDelete(w) \/ ExecuteFreeze(w)
             \/ ExecuteFromProto(w) \/ ExecuteNodeToSubmap(w) \/ ExecuteTrimmer(w)
             \/ ExecuteFinal(w)
    <3>1. Rests \/ RanItem
      BY <1>4, <2>2, ItemViews
    <3>2. CASE Rests
      BY <2>1, <3>2, RestBalances DEF Rests
    <3>3. ASSUME NEW op, NEW t, Ran(Item(op, t)), op # "node" PROVE BalanceInv'
      BY <2>1, <3>3, StepFields, RanBalances
    <3>4. ASSUME NEW t, \/ RanIdly(t) \/ RanFinish(t) \/ RanDelete(t) \/ RanFreeze(t) \/ RanSubmap(t)
                        \/ RanNode(t) \/ RanMember(t)
          PROVE  BalanceInv'
      BY <3>3, <3>4 DEF RanIdly, RanFinish, RanDelete, RanFreeze, RanSubmap, RanNode, RanMember
    <3>. QED
      BY <3>1, <3>2, <3>4 DEF RanItem
  <2>3. CASE \/ StartDrain(w) \/ PopWorkItem(w) \/ CallWhenDone(w)
             \/ TakeCallback(w) \/ Notify(w) \/ HandleWorkQueue(w) \/ EndSolve(w)
    BY <2>1, <2>3, WorkerRests, RestBalances DEF Rests
  <2>4. ASSUME NEW p \in SubmapIds \X NodeIds, ComputeConstraint(w, p) PROVE BalanceInv'
    BY <1>4, <2>1, <2>4, TryView, RestBalances DEF Tries
  <2>5. CASE AfterOptimization(w)
    BY <1>4, <2>1, <2>5, CleanView, RestBalances DEF Cleans
  <2>. QED
    BY <1>4, <2>2, <2>3, <2>4, <2>5 DEF Worker
<1>. QED
  BY <1>1, <1>2, <1>3, <1>4

LEMMA CallBalances ==
  ASSUME IInv, PipeInv, BalanceInv, ClientCalls
  PROVE  BalanceInv'
<1>0. /\ Inserts = {}
      /\ UNCHANGED << stateVars, graphVars, optVars, queueVars, miscVars, job, failed, cbVars >>
      /\ \/ \E t \in Trajs : Builds(t) \/ Sends(t) \/ Finishes(t) \/ Deletes(t) \/ Adds(t) \/ Loads(t)
         \/ Waits
  BY PipeCalls
<1>1. Counted
  BY <1>0 DEF Counted, miscVars, cbVars, Searching
<1>2. ~Appending
  BY <1>0 DEF Appending
<1>3. ASSUME NEW S, Pending' = Pending \cup S, \A x \in S : x.op # "node",
             \A s \in Inserts' : s.count # 1
      PROVE  BalanceInv'
  <2>1. NodesPending' = NodesPending
    BY <1>3 DEF NodesPending
  <2>2. ~Appending'
    BY <1>3 DEF Appending
  <2>. QED
    BY <1>1, <1>2, <2>1, <2>2, BalanceFrame
<1>4. ASSUME NEW t \in Trajs, Builds(t) \/ Sends(t) \/ Finishes(t) \/ Deletes(t) PROVE BalanceInv'
  <2>1. \E S : Brings(S) /\ \A x \in S : x.op # "node"
    BY <1>4, StepFields DEF Builds, Sends, Finishes, Deletes
  <2>. QED
    BY <1>3, <2>1 DEF Brings
<1>5. ASSUME NEW t \in Trajs, Loads(t) PROVE BalanceInv'
  <2>1. PICK S : S = {Item("freeze", t), Item("submapFromProto", t), Item("nodeFromProto", t),
                      Item("nodeToSubmap", t)}
    OBVIOUS
  <2>2. Pending' = Pending \cup S /\ (\A x \in S : x.op # "node") /\ \A s \in Inserts' : s.count # 1
    BY <1>5, <2>1, StepFields DEF Loads
  <2>. QED
    BY <1>3, <2>2
<1>6. CASE Waits
  BY <1>3, <1>6 DEF Waits, Brings
<1>7. ASSUME NEW t \in Trajs, Adds(t) PROVE BalanceInv'
  <2>1. PICK x : x = NodeItem(t, scans[t]) /\ x.op = "node"
    BY StepFields
  <2>2. Pending' = Pending \cup {x} /\ x \notin Pending /\ Inserts' = {InsertNode(t, scans[t])}
    BY <1>7, <2>1 DEF Adds
  <2>3. NodesPending' = NodesPending \cup {x} /\ x \notin NodesPending
    BY <2>1, <2>2 DEF NodesPending
  <2>4. /\ IsFiniteSet(NodesPending') /\ Cardinality(NodesPending') = Cardinality(NodesPending) + 1
        /\ Cardinality(NodesPending) \in Nat
    BY <2>3, FS_AddElement, FS_CardinalityType DEF BalanceInv
  <2>5. Appending'
    BY <2>2, StepFields DEF Appending
  <2>6. numNodes \in Nat /\ numStarted \in Nat
    BY DEF IInv, TypeInv, MiscType, BuilderType, CB!CBTypeOK
  <2>. QED
    BY <1>1, <1>2, <2>4, <2>5, <2>6 DEF BalanceInv, Counted
<1>. QED
  BY <1>0, <1>4, <1>5, <1>6, <1>7

LEMMA InsertBalances ==
  ASSUME IInv, PipeInv, BalanceInv, Insert, ~ \E function : Abort(function)
  PROVE  BalanceInv'
<1>0. Pending' = Pending /\ (InsertsScan \/ InsertsLoadedSubmap \/ InsertsLoadedNode)
  BY PipeInserts
<1>1. NodesPending' = NodesPending
  BY <1>0 DEF NodesPending
<1>2. CASE InsertsScan
  <2>1. PICK t, i : /\ Inserts = {InsertNode(t, i)} /\ Inserts' = {}
                    /\ Inserted(t, {<<t, i>>}, {<<t, BackOf(i)>>}, 1)
    BY <1>2 DEF InsertsScan
  <2>2. Appending /\ ~Appending'
    BY <2>1, StepFields DEF Appending
  <2>3. numNodes' = numNodes + 1 /\ numStarted' = numStarted /\ Searching' = Searching
    BY <2>1 DEF Inserted, cbVars, Searching
  <2>4. numNodes \in Nat
    BY DEF IInv, TypeInv, MiscType
  <2>. QED
    BY <1>1, <2>2, <2>3, <2>4 DEF BalanceInv
<1>3. CASE InsertsLoadedSubmap \/ InsertsLoadedNode
  <2>0. \A s \in Inserts \cup Inserts' : s.count = 0
    BY <1>3 DEF InsertsLoadedSubmap, InsertsLoadedNode
  <2>5. (\A s \in Inserts : s.count # 1) /\ (\A s \in Inserts' : s.count # 1)
    BY <2>0
  <2>1. ~Appending /\ ~Appending'
    BY <2>5 DEF Appending
  <2>2. numNodes \in Nat
    BY DEF IInv, TypeInv, MiscType
  <2>3. Counted
    BY <1>3, <2>2 DEF InsertsLoadedSubmap, InsertsLoadedNode, Inserted, Counted, cbVars, Searching
  <2>. QED
    BY <1>1, <2>1, <2>3, BalanceFrame
<1>. QED
  BY <1>0, <1>2, <1>3

LEMMA StepBalance == IInv /\ PipeInv /\ BalanceInv /\ [Next]_vars => BalanceInv'
<1> SUFFICES ASSUME IInv, PipeInv, BalanceInv, [Next]_vars PROVE BalanceInv'
  OBVIOUS
<1>1. ASSUME NEW function, Abort(function) PROVE BalanceInv'
  <2>1. Pending' = Pending /\ Inserts' = Inserts
    BY <1>1, AbortRests DEF Rests
  <2>2. Counted
    BY <1>1 DEF Abort, miscVars, cbVars, Counted, Searching
  <2>. QED
    BY <2>1, <2>2, RestBalances
<1>2. CASE ClientSteps /\ ~Insert /\ ~MarkForDeletion /\ ~ \E function : Abort(function)
  <2>1. Pending' = Pending /\ Inserts' = Inserts
    BY <1>2, ClientRests DEF ClientSteps, Rests
  <2>2. UNCHANGED << numNodes, job >>
    BY <1>2 DEF ClientSteps, AddWorkItem, SampleNumNodes, AwaitQueue, AwaitNotification, Destruct,
       NoEffect, miscVars
  <2>3. UNCHANGED numStarted
    <3>1. CASE AwaitQueue
      BY <3>1, AwaitEffect DEF IInv
    <3>. QED
      BY <1>2, <3>1 DEF ClientSteps, AddWorkItem, SampleNumNodes, AwaitNotification, Destruct,
         NoEffect, cbVars
  <2>. QED
    BY <2>1, <2>2, <2>3, RestBalances DEF Counted, Searching
<1>3. CASE MarkForDeletion
  <2>1. /\ Inserts' = Inserts /\ Pending' \subseteq Pending
        /\ \A y \in Pending : y \in Pending' \/ y.op = "delete"
    BY <1>3, PipeMarks
  <2>2. NodesPending' = NodesPending /\ (Appending' <=> Appending)
    BY <2>1 DEF NodesPending, Appending
  <2>3. Counted
    BY <1>3 DEF MarkForDeletion, miscVars, cbVars, Counted, Searching
  <2>. QED
    BY <2>2, <2>3, BalanceFrame
<1>4. CASE BuilderTask
  <2>1. Pending' = Pending /\ Inserts' = Inserts
    BY <1>4, TaskRests DEF Rests
  <2>2. UNCHANGED << numNodes, job >>
    BY <1>4 DEF BuilderTask, miscVars
  <2>3. UNCHANGED numStarted
    BY <1>4 DEF BuilderTask, CB!CBTask, CB!BuildMatcher, CB!Compute, CB!FinishNode, CB!nodeVars
  <2>. QED
    BY <2>1, <2>2, <2>3, RestBalances DEF Counted, Searching
<1>5. CASE UNCHANGED vars
  <2>1. UNCHANGED << todo, queue, job, numNodes, numStarted >>
    BY <1>5 DEF vars, queueVars, clientVars, miscVars, cbVars
  <2>2. Pending' = Pending /\ Inserts' = Inserts
    BY <2>1 DEF Pending, AllItems, QueueItems, ExecItems, TodoItems, Inserts
  <2>. QED
    BY <2>1, <2>2, RestBalances DEF Counted, Searching
<1>. QED
  BY <1>1, <1>2, <1>3, <1>4, <1>5, CallBalances, InsertBalances, WorkerBalances
     DEF Next, Stopped

LEMMA StepCount == IInv /\ PipeInv /\ CountInv /\ [Next]_vars => CountInv'
BY StepBalance, StepEnded, StepQuiet DEF CountInv

LEMMA InitCount == Init => CountInv
<1> SUFFICES ASSUME Init PROVE CountInv
  OBVIOUS
<1>1. RangeOf(todo) = {} /\ RangeOf(queue) = {}
  BY RangeShort DEF Init
<1>2. \A w \in Workers : job[w].at = "idle"
  BY DEF Init, Idle
<1>3. Pending = {} /\ Inserts = {} /\ Searching = {}
  BY <1>1, <1>2, PartsOf DEF Pending, AllItems, QueueItems, ExecItems, ExecItemsOf, TodoItems,
     Inserts, Searching, SearchingOf
<1>4. NodesPending = {} /\ ~Appending
  BY <1>3 DEF NodesPending, Appending
<1>5. BalanceInv
  BY <1>3, <1>4, FS_EmptySet DEF Init, CB!CBInit, BalanceInv
<1>6. EndedInv
  BY FS_EmptySet DEF Init, CB!CBInit, EndedInv
<1>7. ~Joined /\ ~Destroyed
  BY HarmlessForms, HarmlessQuiet DEF Init
<1>8. QuietInv
  BY <1>2, <1>7 DEF Init, QuietInv
<1>. QED
  BY <1>5, <1>6, <1>8 DEF CountInv

-----------------------------------------------------------------------------
(* The steps keep PatientInv.                                              *)

\* Only a call brings an item.
LEMMA ViewsPending ==
  ASSUME Views
  PROVE  \/ Pending' \subseteq Pending /\ UNCHANGED phase
         \/ \E t \in Trajs : Calls(t) /\ UNCHANGED << tstate, deletion >>
<1>1. CASE Rests \/ (\E p \in Pairs : Tries(p)) \/ Cleans
  BY <1>1 DEF Rests, Tries, Cleans
<1>2. CASE Puts
  BY <1>2 DEF Puts, InsertsScan, InsertsLoadedSubmap, InsertsLoadedNode, Inserted
<1>3. CASE RanAny
  <2>1. PICK x : Ran(x)
    BY <1>3 DEF RanAny, RanItem, RanIdly, RanFinish, RanDelete, RanFreeze, RanSubmap, RanNode,
       RanMember, RanScan
  <2>. QED
    BY <2>1 DEF Ran
<1>4. CASE \E t \in Trajs : Marks(t)
  BY <1>4 DEF Marks
<1>5. CASE \E t \in Trajs : Calls(t)
  BY <1>5 DEF Calls
<1>. QED
  BY <1>1, <1>2, <1>3, <1>4, <1>5 DEF Views

\* It is an item of a trajectory whose deletion was not yet asked for.
LEMMA CallsPending ==
  ASSUME TypeInv, NEW t \in Trajs, Calls(t)
  PROVE  /\ phase[t] # "deleted" /\ \A r \in Trajs : r # t => phase'[r] = phase[r]
         /\ \A y \in Pending' : y \in Pending \/ y.traj = t
         /\ \/ phase'[t] # "deleted" /\ \A y \in Pending' : y \in Pending \/ y.op # "delete"
            \/ Deletes(t) /\ \A y \in Pending' : y \in Pending \/ y = Item("delete", t)
<1>0. phase \in [Trajs -> {"new", "open", "loaded", "finished", "deleted"}]
  BY DEF TypeInv, ClientType
<1>1. CASE Builds(t)
  BY <1>0, <1>1, StepFields DEF Builds, Brings
<1>2. CASE Sends(t)
  BY <1>0, <1>2, StepFields DEF Sends, Brings
<1>3. CASE Finishes(t)
  BY <1>0, <1>3, StepFields DEF Finishes, Brings
<1>4. CASE Deletes(t)
  BY <1>0, <1>4, StepFields DEF Deletes, Brings
<1>5. CASE Adds(t)
  BY <1>0, <1>5, StepFields DEF Adds
<1>6. CASE Loads(t)
  BY <1>0, <1>6, StepFields DEF Loads
<1>. QED
  BY <1>1, <1>2, <1>3, <1>4, <1>5, <1>6 DEF Calls

\* What Processed says of the items on their way.
LEMMA ProcessedItems ==
  ASSUME TodoItems = {}, NEW t \in Trajs, Processed(t), NEW x \in Pending, x.traj = t
  PROVE  x.op = "finish"
<1>1. x \in QueueItems \/ x \in ExecItems
  BY DEF Pending, AllItems
<1>2. CASE x \in QueueItems
  BY <1>2 DEF QueueItems, RangeOf, Processed
<1>3. CASE x \in ExecItems
  BY <1>3 DEF ExecItems, ExecItemsOf, Processed
<1>. QED
  BY <1>1, <1>2, <1>3

LEMMA StepOnlyEnds == Patient /\ IInv /\ OnlyEnds /\ Views => OnlyEnds'
<1> SUFFICES ASSUME Patient, IInv, OnlyEnds, Views, NEW x \in Pending', phase'[x.traj] = "deleted"
             PROVE  x.op \in {"finish", "delete"}
  BY DEF OnlyEnds
<1>1. CASE Pending' \subseteq Pending /\ UNCHANGED phase
  BY <1>1 DEF OnlyEnds
<1>2. ASSUME NEW t \in Trajs, Calls(t) PROVE x.op \in {"finish", "delete"}
  <2>0. TypeInv /\ x.traj \in Trajs /\ TodoItems = {}
    BY <1>2 DEF IInv, Pending, Calls
  <2>1. CASE x.traj # t
    BY <1>2, <2>0, <2>1, CallsPending DEF OnlyEnds
  <2>2. CASE x.traj = t
    <3>1. Deletes(t) /\ (x \in Pending \/ x = Item("delete", t))
      BY <1>2, <2>0, <2>2, CallsPending
    <3>2. Processed(t)
      BY <3>1 DEF Deletes
    <3>. QED
      BY <2>0, <2>2, <3>1, <3>2, ProcessedItems, StepFields
  <2>. QED
    BY <2>1, <2>2
<1>. QED
  BY <1>1, <1>2, ViewsPending

\* What becomes DELETED.
LEMMA ViewsDelete ==
  ASSUME IInv, Views, NEW t \in Trajs, tstate'[t] = "DELETED"
  PROVE  tstate[t] = "DELETED" \/ (Cleans /\ t \in Deleted \cup Ended)
<1>0. StateType
  BY DEF IInv, TypeInv
<1>1. CASE \/ Rests \/ (\E p \in Pairs : Tries(p)) \/ (\E r \in Trajs : Calls(r) \/ Marks(r))
  BY <1>1 DEF Rests, Tries, Calls, Marks
<1>2. CASE Puts
  <2>1. PICK r, N, S, c : Inserted(r, N, S, c)
    BY <1>2 DEF Puts, InsertsScan, InsertsLoadedSubmap, InsertsLoadedNode
  <2>. QED
    BY <1>0, <2>1 DEF Inserted, StateAfterAdd, StateType
<1>3. CASE RanAny
  BY <1>0, <1>3 DEF StateType, RanAny, RanItem, RanIdly, RanFinish, RanDelete, RanFreeze, RanSubmap,
     RanNode, RanMember, RanScan, SameGraph
<1>4. CASE Cleans
  BY <1>4 DEF Cleans
<1>. QED
  BY <1>1, <1>2, <1>3, <1>4 DEF Views

LEMMA StepAsked == IInv /\ LifeInv /\ AskedInv /\ Views => AskedInv'
<1> SUFFICES ASSUME IInv, LifeInv, AskedInv, Views, NEW t \in Trajs, tstate'[t] = "DELETED",
                    t \notin Localizing
             PROVE  phase'[t] = "deleted" /\ \A x \in Pending' : x.traj # t
  BY DEF AskedInv
<1>1. phase[t] = "deleted" /\ \A x \in Pending : x.traj # t
  <2>1. CASE tstate[t] = "DELETED"
    BY <2>1 DEF AskedInv
  <2>2. CASE t \in Deleted
    BY <2>2 DEF Deleted, LifeInv, Life
  <2>3. CASE t \in Ended
    BY <2>3 DEF Ended, LifeInv
  <2>. QED
    BY <2>1, <2>2, <2>3, ViewsDelete
<1>2. ASSUME NEW r \in Trajs, Calls(r) PROVE phase'[t] = "deleted" /\ \A x \in Pending' : x.traj # t
  BY <1>1, <1>2, CallsPending DEF IInv
<1>. QED
  BY <1>1, <1>2, ViewsPending

\* A step of the client that deletes nothing.
Plain(a) == a.do # "mark"
Markless(s) == \A a \in RangeOf(s) : Plain(a)

LEMMA MarklessForms ==
  /\ Markless(<< >>)
  /\ \A a : Plain(a) => Markless(<< a >>)
  /\ \A a, b : Plain(a) /\ Plain(b) => Markless(<< a, b >>)
  /\ \A a, b, c : Plain(a) /\ Plain(b) /\ Plain(c) => Markless(<< a, b, c >>)
  /\ \A a, b, c, d : Plain(a) /\ Plain(b) /\ Plain(c) /\ Plain(d) => Markless(<< a, b, c, d >>)
  /\ \A a, b, c, d, e :
       Plain(a) /\ Plain(b) /\ Plain(c) /\ Plain(d) /\ Plain(e) => Markless(<< a, b, c, d, e >>)
BY RangeShort DEF Markless

LEMMA PlainSteps ==
  /\ \A x : Plain(Enqueue(x))
  /\ \A t : Plain(InsertLoadedSubmap(t)) /\ Plain(InsertLoadedNode(t))
  /\ Plain(Sample) /\ Plain(Destroying)
BY StepFields DEF Plain

\* The mark is the first step of its call.
LEMMA MarkFirst ==
  ASSUME IInv, TodoInv, NEW t, Marking(t)
  PROVE  /\ todo # << >> /\ Head(todo).do = "mark"
         /\ \A r : Marking(r) => r = t
<1>0. todo \in Seq(Steps)
  BY DEF IInv, TypeInv, ClientType
<1>1. todo # << >>
  BY RangeShort DEF Marking
<1>2. RangeOf(todo) = {Head(todo)} \cup RangeOf(Tail(todo))
  BY <1>0, <1>1, RangeTail
<1>3. \A r : [do |-> "mark", traj |-> r].do = "mark" /\ [do |-> "mark", traj |-> r].traj = r
  OBVIOUS
<1>4. CASE Head(todo).do = "mark"
  <2>1. PICK s \in MayDelete : /\ Head(todo) = [do |-> "mark", traj |-> s]
                               /\ Tail(todo) = << Enqueue(Item("delete", s)) >>
    BY <1>1, <1>4, TodoForms DEF MarkStep
  <2>2. RangeOf(Tail(todo)) = {Enqueue(Item("delete", s))} /\ Enqueue(Item("delete", s)).do = "enqueue"
    BY <2>1, RangeShort, StepFields
  <2>3. ASSUME NEW r, Marking(r) PROVE r = s
    BY <1>2, <1>3, <2>1, <2>2, <2>3 DEF Marking
  <2>. QED
    BY <1>1, <1>4, <2>3
<1>5. CASE Head(todo).do # "mark"
  <2>1. [do |-> "mark", traj |-> t] \in RangeOf(Tail(todo))
    BY <1>2, <1>3, <1>5 DEF Marking
  <2>2. CASE Head(todo).do = "enqueue"
    <3>1. EnqueueStep
      BY <1>1, <2>2, TodoForms
    <3>2. Markless(Tail(todo))
      BY <3>1, MarklessForms, PlainSteps DEF EnqueueStep
    <3>. QED
      BY <1>3, <2>1, <3>2 DEF Markless, Plain
  <2>3. CASE Head(todo).do = "insert"
    <3>1. InsertStep
      BY <1>1, <2>3, TodoForms
    <3>2. Markless(Tail(todo))
      BY <3>1, MarklessForms, PlainSteps DEF InsertStep
    <3>. QED
      BY <1>3, <2>1, <3>2 DEF Markless, Plain
  <2>4. CASE Head(todo).do \notin {"enqueue", "insert"}
    <3>1. WaitSteps
      BY <1>1, <1>5, <2>4, TodoForms
    <3>2. [do |-> "gone"].do = "gone" /\ \A a, n : [do |-> a, expected |-> n].do = a
      OBVIOUS
    <3>3. \A a \in RangeOf(todo) : a.do # "mark"
      BY <3>1, <3>2, RangeShort, StepFields DEF WaitSteps
    <3>. QED
      BY <1>3, <3>3 DEF Marking
  <2>. QED
    BY <2>2, <2>3, <2>4
<1>. QED
  BY <1>4, <1>5

\* Nothing but MarkForDeletion takes it.
LEMMA MarkKept ==
  ASSUME IInv, TodoInv, [Next]_vars, NEW t, Marking(t)
  PROVE  UNCHANGED todo \/ MarkForDeletion
<1>1. todo # << >> /\ Head(todo).do = "mark"
  BY MarkFirst
<1>2. CASE ClientSteps
  <2>1. todo # << [do |-> "destroy"] >>
    BY <1>1, HeadShort, StepFields DEF Destroying
  <2>. QED
    BY <1>1, <1>2, <2>1 DEF ClientSteps, AddWorkItem, Insert, SampleNumNodes, AwaitQueue,
       AwaitNotification, Destruct
<1>3. ASSUME NEW w \in Workers, Worker(w) PROVE UNCHANGED todo
  BY <1>3 DEF Worker, StartDrain, PopWorkItem, CallWhenDone, ExecuteData, ExecuteFinish,
     ExecuteDelete, ExecuteFreeze, ExecuteFromProto, ExecuteNodeToSubmap, ExecuteTrimmer,
     ExecuteFinal, ExecuteNode, ComputeConstraint, EndOfNode, TakeCallback, Notify,
     HandleWorkQueue, EndSolve, AfterOptimization, Abort, clientVars
<1>4. CASE BuilderTask
  BY <1>4 DEF BuilderTask, clientVars
<1>5. CASE UNCHANGED vars
  BY <1>5 DEF vars, clientVars
<1>. QED
  BY <1>1, <1>2, <1>3, <1>4, <1>5 DEF Next, Stopped, ClientCalls

\* A deletion stays scheduled until it is executed.
LEMMA ViewsSchedule ==
  ASSUME IInv, LifeInv, Views, NEW t \in Trajs, deletion[t] = "SCHEDULED_FOR_DELETION",
         Item("delete", t) \in Pending'
  PROVE  deletion'[t] = "SCHEDULED_FOR_DELETION"
<1>0. StateType
  BY DEF IInv, TypeInv
<1>1. CASE Rests \/ (\E p \in Pairs : Tries(p)) \/ \E r \in Trajs : Calls(r)
  BY <1>1 DEF Rests, Tries, Calls
<1>2. CASE Puts
  BY <1>2 DEF Puts, InsertsScan, InsertsLoadedSubmap, InsertsLoadedNode, Inserted
<1>3. CASE RanAny
  <2>1. CASE \E r \in Trajs : RanDelete(r)
    <3>1. PICK r \in Trajs : RanDelete(r)
      BY <2>1
    <3>2. Item("delete", r) \notin Pending'
      BY <3>1, StepFields DEF RanDelete, Ran
    <3>3. r # t
      BY <3>2
    <3>. QED
      BY <1>0, <3>1, <3>3 DEF RanDelete, StateType
  <2>. QED
    BY <1>3, <2>1 DEF RanAny, RanItem, RanIdly, RanFinish, RanFreeze, RanSubmap, RanNode,
       RanMember, RanScan
<1>4. CASE \E r \in Trajs : Marks(r)
  BY <1>0, <1>4 DEF Marks, StateType
<1>5. CASE Cleans
  BY <1>5 DEF Cleans, Deleted
<1>. QED
  BY <1>1, <1>2, <1>3, <1>4, <1>5 DEF Views

LEMMA StepScheduled == IInv /\ PipeInv /\ LifeInv /\ ScheduledInv /\ [Next]_vars => ScheduledInv'
<1> SUFFICES ASSUME IInv, PipeInv, LifeInv, ScheduledInv, [Next]_vars, NEW t \in Trajs,
                    Item("delete", t) \in Pending'
             PROVE  deletion'[t] = "SCHEDULED_FOR_DELETION" \/ Marking(t)'
  BY DEF ScheduledInv
<1>0. Views /\ StateType /\ TodoInv
  BY NextView DEF IInv, TypeInv, PipeInv
<1>1. CASE Item("delete", t) \in Pending
  <2>1. CASE deletion[t] = "SCHEDULED_FOR_DELETION"
    BY <1>0, <2>1, ViewsSchedule
  <2>2. CASE Marking(t) /\ UNCHANGED todo
    BY <2>2 DEF Marking
  <2>3. CASE Marking(t) /\ MarkForDeletion
    <3>1. PICK r \in MayDelete :
            /\ [do |-> "mark", traj |-> r] \in RangeOf(todo)
            /\ \/ Item("delete", r) \notin Pending'
               \/ deletion' = [deletion EXCEPT ![r] = "SCHEDULED_FOR_DELETION"]
      BY <2>3, PipeMarks
    <3>2. r = t
      BY <1>0, <2>3, <3>1, MarkFirst DEF Marking
    <3>. QED
      BY <1>0, <3>1, <3>2 DEF StateType
  <2>. QED
    BY <1>0, <1>1, <2>1, <2>2, <2>3, MarkKept DEF ScheduledInv
<1>2. CASE Item("delete", t) \notin Pending
  <2>1. PICK r \in Trajs : Calls(r)
    BY <1>0, <1>2, ViewsPending
  <2>2. Deletes(r) /\ Item("delete", t) = Item("delete", r)
    BY <1>2, <2>1, CallsPending, StepFields DEF IInv
  <2>3. r = t
    BY <2>2, ItemsDiffer
  <2>. QED
    BY <2>2, <2>3 DEF Deletes, Marking
<1>. QED
  BY <1>1, <1>2

LEMMA StepPatient ==
  Patient /\ IInv /\ PipeInv /\ LifeInv /\ PatientInv /\ [Next]_vars => PatientInv'
BY NextView, StepOnlyEnds, StepAsked, StepScheduled DEF PatientInv

LEMMA InitPatient == Init => PatientInv
<1> SUFFICES ASSUME Init PROVE PatientInv
  OBVIOUS
<1>1. Pending = {}
  BY RangeShort DEF Init, Idle, Pending, AllItems, QueueItems, ExecItems, ExecItemsOf, TodoItems, ItemsOf
<1>2. \A t \in Trajs : tstate[t] = "unknown"
  BY DEF Init
<1>. QED
  BY <1>1, <1>2 DEF PatientInv, OnlyEnds, ScheduledInv, AskedInv

-----------------------------------------------------------------------------
(* No CHECK fails.                                                         *)

\* What the CHECKs stand on.
SafeInv == IInv /\ WholeInv /\ CountInv /\ PatientInv

\* The item that a thread executes comes before the others of its trajectory.
LEMMA ExecFirst ==
  ASSUME IInv, PipeInv, NEW w \in Workers, job[w].at = "exec", job[w].item.traj \in Trajs
  PROVE  /\ job[w].item \in Pending /\ job[w].item \in ExecItems
         /\ \A y \in Pending : y = job[w].item \/ Before(job[w].item, y)
<1>0. TypeInv /\ JobType /\ OrderInv
  BY DEF IInv, TypeInv, PipeInv
<1>1. \A v \in Workers : v # w => job[v].at = "idle"
  BY <1>0, Alone DEF IInv
<1>2. ExecItems = {job[w].item}
  BY <1>1, JobView DEF ExecItems, ExecItemOf
<1>3. job[w].item \in Pending
  BY <1>2 DEF Pending, AllItems
<1>. QED
  BY <1>0, <1>2, <1>3 DEF Pending, AllItems, OrderInv

\* A trajectory that still has sensor data to process can take it.
LEMMA DataGo ==
  ASSUME SafeInv, NEW x \in Pending, x.op \notin {"finish", "delete"}
  PROVE  CanAddWorkItemModifying(x.traj)
<1>1. x.traj \in Trajs /\ Life(x.traj) /\ StateType
  BY DEF Pending, SafeInv, WholeInv, LifeInv, IInv, TypeInv
<1>2. ~Finished(x.traj)
  BY <1>1 DEF Life
<1>3. phase[x.traj] # "deleted"
  BY DEF SafeInv, PatientInv, OnlyEnds
<1>4. deletion[x.traj] = "NORMAL"
  BY <1>1, <1>3 DEF Life
<1>. QED
  BY <1>2, <1>4 DEF CanAddWorkItemModifying, Finished

\* The deletion of a trajectory that has been marked, is no longer ACTIVE and
\* not yet DELETED.
LEMMA DeleteGoes ==
  ASSUME SafeInv, PatientClient, NEW w \in Workers, NEW t \in Trajs,
         job[w].at = "exec", job[w].item = Item("delete", t)
  PROVE  tstate[t] \notin {"ACTIVE", "DELETED"} /\ deletion[t] = "SCHEDULED_FOR_DELETION"
<1>0. /\ IInv /\ PipeInv /\ ItemInv /\ OrderInv /\ TodoInv /\ Life(t) /\ StateType
      /\ ScheduledInv /\ AskedInv /\ Item("delete", t).op = "delete" /\ Item("delete", t).traj = t
  BY StepFields DEF SafeInv, WholeInv, PipeInv, LifeInv, IInv, TypeInv, PatientInv
<1>1. /\ Item("delete", t) \in Pending /\ Item("delete", t) \in ExecItems
      /\ \A y \in Pending : y = Item("delete", t) \/ y.traj # t
  BY <1>0, ExecFirst DEF Before
<1>2. phase[t] = "deleted" /\ t \in MayDelete
  BY <1>0, <1>1 DEF ItemInv
<1>3. Item("finish", t) \notin Pending /\ Item("freeze", t) \notin Pending
  BY <1>1, ItemsDiffer, StepFields
<1>4. tstate[t] # "ACTIVE"
  BY <1>0, <1>2, <1>3 DEF Life, Finished, Slam
<1>5. tstate[t] # "DELETED"
  BY <1>0, <1>1, <1>2 DEF AskedInv, PatientClient
<1>6. ASSUME Marking(t) PROVE FALSE
  <2>1. todo # << >> /\ Head(todo).do = "mark" /\ todo \in Seq(Steps)
    BY <1>0, <1>6, MarkFirst DEF IInv, TypeInv, ClientType
  <2>2. PICK s \in MayDelete : /\ Head(todo) = [do |-> "mark", traj |-> s]
                               /\ Tail(todo) = << Enqueue(Item("delete", s)) >>
    BY <1>0, <2>1, TodoForms DEF MarkStep
  <2>7. RangeOf(todo) = {Head(todo)} \cup RangeOf(Tail(todo))
    BY <2>1, RangeTail
  <2>8. RangeOf(Tail(todo)) = {Enqueue(Item("delete", s))}
    BY <2>2, RangeShort
  <2>3. RangeOf(todo) = {Head(todo), Enqueue(Item("delete", s))}
    BY <2>7, <2>8
  <2>4. Marking(s)
    BY <2>2, <2>3 DEF Marking
  <2>5. s = t
    BY <1>0, <1>6, <2>4, MarkFirst
  <2>6. Item("delete", t) \in TodoItems
    BY <2>3, <2>5, StepFields DEF TodoItems, ItemsOf
  <2>. QED
    BY <1>0, <1>1, <2>6 DEF OrderInv, Before
<1>. QED
  BY <1>0, <1>1, <1>4, <1>5, <1>6 DEF ScheduledInv

\* The work items that search for nothing do not fail.
LEMMA ItemsGo ==
  ASSUME SafeInv, PatientClient, NEW w \in Workers,
         \/ ExecuteData(w) \/ ExecuteFinish(w) \/ ExecuteDelete(w) \/ ExecuteFreeze(w)
         \/ ExecuteFromProto(w) \/ ExecuteNodeToSubmap(w) \/ ExecuteTrimmer(w)
         \/ ExecuteFinal(w)
  PROVE  UNCHANGED failed
<1>0. IInv /\ PipeInv /\ ItemInv /\ JobType /\ \A t \in Trajs : Life(t)
  BY DEF SafeInv, WholeInv, PipeInv, LifeInv, IInv, TypeInv
<1>1. job[w].at = "exec"
  BY DEF ExecuteData, ExecuteFinish, ExecuteDelete, ExecuteFreeze,
     ExecuteFromProto, ExecuteNodeToSubmap, ExecuteTrimmer, ExecuteFinal, Executing
<1>2. PICK x \in Items : x = job[w].item
  BY <1>0, <1>1, JobShapes
<1>3. x.op \in {"data", "finish", "delete", "freeze", "nodeToSubmap"} =>
        x.traj \in Trajs /\ x \in Pending /\ x = Item(x.op, x.traj)
  <2>1. x.op \in {"data", "finish", "delete", "freeze", "nodeToSubmap"} =>
          x.traj \in Trajs /\ x = Item(x.op, x.traj)
    BY DEF Items, Item
  <2>. QED
    BY <1>0, <1>1, <1>2, <2>1, ExecFirst
<1>4. CASE ExecuteData(w) \/ ExecuteNodeToSubmap(w)
  <2>1. x.op \in {"data", "nodeToSubmap"}
    BY <1>2, <1>4 DEF ExecuteData, ExecuteNodeToSubmap, Executing
  <2>2. CanAddWorkItemModifying(x.traj)
    BY <1>3, <2>1, DataGo
  <2>. QED
    BY <1>2, <1>4, <2>2 DEF ExecuteData, ExecuteNodeToSubmap
<1>5. CASE ExecuteFinish(w)
  <2>1. x.op = "finish"
    BY <1>2, <1>5 DEF ExecuteFinish, Executing
  <2>2. tstate[x.traj] # "FINISHED"
    BY <1>0, <1>3, <2>1 DEF Life, Finished
  <2>. QED
    BY <1>2, <1>5, <2>2 DEF ExecuteFinish
<1>6. CASE ExecuteDelete(w)
  <2>1. x.op = "delete"
    BY <1>2, <1>6 DEF ExecuteDelete, Executing
  <2>2. tstate[x.traj] \notin {"ACTIVE", "DELETED"} /\ deletion[x.traj] = "SCHEDULED_FOR_DELETION"
    BY <1>1, <1>2, <1>3, <2>1, DeleteGoes
  <2>. QED
    BY <1>2, <1>6, <2>2 DEF ExecuteDelete
<1>7. CASE ExecuteFreeze(w)
  <2>1. x.op = "freeze"
    BY <1>2, <1>7 DEF ExecuteFreeze, Executing
  <2>2. x.traj \in Loaded /\ phase[x.traj] # "new"
    BY <1>0, <1>3, <2>1 DEF ItemInv
  <2>3. tstate[x.traj] \in {"unknown", "ACTIVE"}
    BY <1>0, <1>3, <2>1, <2>2 DEF Life
  <2>. QED
    BY <1>2, <1>7, <2>3 DEF ExecuteFreeze
<1>. QED
  BY <1>4, <1>5, <1>6, <1>7 DEF ExecuteFromProto, ExecuteTrimmer, ExecuteFinal

\* A trajectory to which the client adds takes what is added.
LEMMA InsertGoes ==
  ASSUME SafeInv, Insert
  PROVE  UNCHANGED failed
<1>0. /\ TodoInv /\ todo \in Seq(Steps) /\ StateType /\ \A t \in Trajs : Life(t)
      /\ todo # << >> /\ Head(todo).do = "insert"
  BY DEF SafeInv, WholeInv, PipeInv, LifeInv, IInv, TypeInv, ClientType, Insert
<1>1. PICK t \in Trajs :
        /\ Head(todo).traj = t
        /\ \/ phase[t] = "open"
           \/ phase[t] = "loaded" /\ \E y : Enqueue(Item("nodeFromProto", t)) \in RangeOf(Tail(todo))
  <2>1. InsertStep
    BY <1>0, TodoForms
  <2>2. Slam \cup Loaded \subseteq Trajs
    BY PoseGraphAssumption DEF Slam
  <2>3. CASE \E t \in Slam, i \in 0 .. MaxNodes - 1 : phase[t] = "open" /\ Head(todo) = InsertNode(t, i)
    BY <2>2, <2>3, StepFields
  <2>4. CASE \E t \in Loaded :
               /\ phase[t] = "loaded"
               /\ \/ /\ Head(todo) = InsertLoadedSubmap(t)
                     /\ Tail(todo) = << Enqueue(Item("submapFromProto", t)),
                                        InsertLoadedNode(t), Enqueue(Item("nodeFromProto", t)),
                                        Enqueue(Item("nodeToSubmap", t)) >>
                  \/ /\ Head(todo) = InsertLoadedNode(t)
                     /\ Tail(todo) = << Enqueue(Item("nodeFromProto", t)),
                                        Enqueue(Item("nodeToSubmap", t)) >>
    <3>1. PICK t \in Loaded :
            /\ phase[t] = "loaded" /\ Head(todo).traj = t
            /\ \/ Tail(todo) = << Enqueue(Item("submapFromProto", t)), InsertLoadedNode(t),
                                  Enqueue(Item("nodeFromProto", t)), Enqueue(Item("nodeToSubmap", t)) >>
               \/ Tail(todo) = << Enqueue(Item("nodeFromProto", t)), Enqueue(Item("nodeToSubmap", t)) >>
      BY <2>4, StepFields
    <3>2. PICK a, b, c, d : /\ a = Enqueue(Item("submapFromProto", t)) /\ b = InsertLoadedNode(t)
                            /\ c = Enqueue(Item("nodeFromProto", t))
                            /\ d = Enqueue(Item("nodeToSubmap", t))
      OBVIOUS
    <3>4. Tail(todo) = << a, b, c, d >> \/ Tail(todo) = << c, d >>
      BY <3>1, <3>2
    <3>3. RangeOf(Tail(todo)) = {a, b, c, d} \/ RangeOf(Tail(todo)) = {c, d}
      <4>1. RangeOf(<< a, b, c, d >>) = {a, b, c, d} /\ RangeOf(<< c, d >>) = {c, d}
        BY RangeShort
      <4>. QED
        BY <3>4, <4>1
    <3>. QED
      BY <2>2, <3>1, <3>2, <3>3
  <2>. QED
    BY <2>1, <2>3, <2>4 DEF InsertStep
<1>2. CanAddWorkItemModifying(t)
  <2>1. CASE phase[t] = "open"
    BY <1>0, <2>1 DEF Life, Finished, CanAddWorkItemModifying, StateType
  <2>2. CASE phase[t] = "loaded" /\ Enqueue(Item("nodeFromProto", t)) \in RangeOf(Tail(todo))
    <3>1. Enqueue(Item("nodeFromProto", t)) \in RangeOf(todo)
      BY <1>0, <2>2, RangeTail
    <3>2. Item("nodeFromProto", t) \in Pending
      BY <3>1, StepFields DEF Pending, AllItems, TodoItems, ItemsOf
    <3>. QED
      BY <3>2, StepFields, DataGo
  <2>. QED
    BY <1>1, <2>1, <2>2
<1>. QED
  BY <1>0, <1>1, <1>2 DEF Insert

\* When the item of a node is executed, those before it have been, and no other.
LEMMA ScanTurn ==
  ASSUME IInv, WholeInv, NEW w \in Workers, NEW t \in Slam, NEW i \in 0 .. MaxNodes - 1,
         job[w].at = "exec", job[w].item = NodeItem(t, i)
  PROVE  /\ t \in Trajs /\ t \notin Loaded /\ i \in Nat /\ scans[t] \in Nat /\ i < scans[t]
         /\ \A j \in Nat : Executed(t, j) <=> j < i
         /\ NodeItem(t, i) \in Pending /\ ~Finished(t)
         /\ \A j \in 0 .. i : <<t, j>> \notin NodesToInsert
<1>0. /\ PipeInv /\ TypeInv /\ ItemInv /\ OrderInv /\ TodoInv /\ t \in Trajs /\ t \notin Loaded
      /\ i \in Nat /\ Life(t) /\ scans[t] \in Nat
  BY IndexTypes DEF WholeInv, PipeInv, LifeInv, IInv, Slam
<1>1. /\ NodeItem(t, i) \in Pending /\ NodeItem(t, i) \in ExecItems
      /\ \A y \in Pending : y = NodeItem(t, i) \/ Before(NodeItem(t, i), y)
  BY <1>0, ExecFirst, StepFields
<1>2. i < scans[t]
  BY <1>0, <1>1, StepFields DEF ItemInv
<1>3. ASSUME NEW j \in Nat, j < i PROVE NodeItem(t, j) \notin Pending
  <2>1. SUFFICES ASSUME NodeItem(t, j) \in Pending PROVE FALSE
    OBVIOUS
  <2>2. NodeItem(t, j) # NodeItem(t, i)
    BY <1>0, <1>3, ItemsDiffer
  <2>3. Before(NodeItem(t, i), NodeItem(t, j))
    BY <1>1, <2>1, <2>2
  <2>4. i < j
    BY <2>3, StepFields DEF Before
  <2>. QED
    BY <1>0, <1>3, <2>4
<1>4. ASSUME NEW j \in Nat, i < j, j < scans[t] PROVE NodeItem(t, j) \in Pending
  <2>1. i \in 0 .. scans[t] - 1 /\ j \in 0 .. scans[t] - 1
    BY <1>0, <1>4
  <2>. QED
    BY <1>0, <1>1, <1>4, <2>1 DEF ItemInv
<1>5. ASSUME NEW j \in Nat PROVE Executed(t, j) <=> j < i
  <2>1. CASE j < i
    BY <1>0, <1>2, <1>3, <2>1 DEF Executed
  <2>2. CASE j = i
    BY <1>0, <1>1, <2>2 DEF Executed
  <2>3. CASE i < j
    BY <1>0, <1>4, <2>3 DEF Executed
  <2>. QED
    BY <1>0, <2>1, <2>2, <2>3
<1>6. ~Finished(t)
  BY <1>0, <1>1, StepFields DEF Life
<1>7. ASSUME NEW j \in 0 .. i PROVE <<t, j>> \notin NodesToInsert
  <2>1. SUFFICES ASSUME <<t, j>> \in NodesToInsert PROVE FALSE
    OBVIOUS
  <2>2. NodeItem(t, j) \in TodoItems
    BY <1>0, <2>1, ToInsert
  <2>3. Before(NodeItem(t, i), NodeItem(t, j))
    BY <1>0, <1>1, <2>2 DEF OrderInv
  <2>4. i < j
    BY <2>3, StepFields DEF Before
  <2>. QED
    BY <1>0, <2>4
<1>. QED
  BY <1>0, <1>1, <1>2, <1>5, <1>6, <1>7

\* The submaps of the scan are there, and not complete.
LEMMA ScanFindsSubmaps ==
  ASSUME IInv, WholeInv, NEW w \in Workers, NEW t \in Slam, NEW i \in 0 .. MaxNodes - 1,
         job[w].at = "exec", job[w].item = NodeItem(t, i)
  PROVE  /\ <<t, i>> \in nodes
         /\ InsertionSubmaps(t, i) \subseteq submaps \ finished
         /\ BackOf(i) > 0 => SubmapKnown(<<t, BackOf(i) - 1>>)
<1>0. /\ t \in Trajs /\ t \notin Loaded /\ i \in Nat /\ scans[t] \in Nat /\ i < scans[t]
      /\ \A j \in Nat : Executed(t, j) <=> j < i
      /\ NodeItem(t, i) \in Pending /\ ~Finished(t)
      /\ \A j \in 0 .. i : <<t, j>> \notin NodesToInsert
  BY ScanTurn
<1>1. ThereInv /\ KnownInv /\ BackOf(i) \in Nat /\ MaxNodes \in Nat
  BY <1>0, BackMonotone, PoseGraphAssumption DEF WholeInv, GraphInv
<1>2. <<t, i>> \in nodes
  <2>1. i \in 0 .. scans[t] - 1 /\ i \in 0 .. i
    BY <1>0
  <2>2. <<t, i>> \in nodes \cup NodesToInsert
    BY <1>0, <1>1, <2>1 DEF ThereInv
  <2>. QED
    BY <1>0, <2>1, <2>2
<1>3. ASSUME NEW k \in Nat, k <= BackOf(i), BackOf(i) <= k + 1,
             NEW j \in Nat, j <= i, BackOf(j) = k
      PROVE  <<t, k>> \in submaps \ finished
  <2>1. ~MayBeGone(<<t, k>>)
    <3>1. SUFFICES ASSUME NEW m \in 0 .. MaxNodes - 1, Executed(t, m), BackOf(m) >= k + 2
                   PROVE  FALSE
      BY <1>0 DEF MayBeGone, Finished
    <3>2. m \in Nat /\ m <= i
      BY <1>0, <3>1
    <3>3. BackOf(m) <= BackOf(i) /\ BackOf(m) \in Nat
      BY <1>0, <3>2, BackMonotone
    <3>. QED
      BY <1>1, <1>3, <3>1, <3>3
  <2>2. j \in 0 .. scans[t] - 1 /\ j \in 0 .. i
    BY <1>0, <1>3
  <2>3. <<t, k>> \in submaps
    BY <1>0, <1>1, <1>3, <2>1, <2>2 DEF ThereInv
  <2>4. ~SubmapComplete(<<t, k>>)
    <3>1. SUFFICES ASSUME NEW m \in 0 .. MaxNodes - 1, Executed(t, m), Completes(m, k) PROVE FALSE
      BY <1>0 DEF SubmapComplete
    <3>2. m \in Nat /\ m < i /\ m = LastOf(k)
      BY <1>0, <3>1, Lasts
    <3>3. BackOf(i) >= k + 2
      BY <1>0, <3>2, Lasts
    <3>. QED
      BY <1>1, <1>3, <3>3
  <2>. QED
    BY <1>1, <2>3, <2>4 DEF KnownInv
<1>4. <<t, BackOf(i)>> \in submaps \ finished
  BY <1>0, <1>1, <1>3
<1>5. ASSUME BackOf(i) > 0
      PROVE  <<t, BackOf(i) - 1>> \in submaps \ finished /\ SubmapKnown(<<t, BackOf(i) - 1>>)
  <2>1. PICK j \in Nat : j < i /\ BackOf(j) = BackOf(i) - 1
    BY <1>0, <1>5, Before1
  <2>2. BackOf(i) - 1 \in Nat
    BY <1>1, <1>5
  <2>3. <<t, BackOf(i) - 1>> \in submaps \ finished
    BY <1>0, <1>1, <1>3, <2>1, <2>2
  <2>4. j \in 0 .. MaxNodes - 1 /\ Executed(t, j)
    <3>1. i <= MaxNodes - 1 /\ j <= MaxNodes - 1
      BY <1>0, <1>1, <2>1
    <3>. QED
      BY <1>0, <1>1, <2>1, <3>1
  <2>. QED
    BY <1>0, <2>1, <2>3, <2>4 DEF SubmapKnown
<1>6. InsertionSubmaps(t, i) \subseteq submaps \ finished
  BY <1>1, <1>4, <1>5, ScanSubmaps
<1>. QED
  BY <1>2, <1>5, <1>6

\* The optimization problem knows one of them as the last of the trajectory, or
\* the scan is the first.
LEMMA ScanFindsLast ==
  ASSUME IInv, WholeInv, NEW w \in Workers, NEW t \in Slam, NEW i \in 0 .. MaxNodes - 1,
         job[w].at = "exec", job[w].item = NodeItem(t, i)
  PROVE  InsertionKnown(t, i)
<1>0. /\ t \in Trajs /\ t \notin Loaded /\ i \in Nat
      /\ \A j \in Nat : Executed(t, j) <=> j < i
  BY ScanTurn
<1>1. /\ KnownInv /\ GraphType /\ OptType /\ BackOf(i) \in Nat
  BY <1>0, BackMonotone DEF WholeInv, GraphInv, IInv, TypeInv
<1>2. ASSUME NEW s \in optSubmaps, s[1] = t
      PROVE  s = <<t, s[2]>> /\ s[2] \in Nat /\ s[2] <= BackOf(i)
  <2>1. s = <<t, s[2]>> /\ s[2] \in Nat /\ s \in submaps
    BY <1>1, <1>2, Ids DEF OptType, KnownInv
  <2>2. SubmapKnown(s)
    BY <1>1, <2>1 DEF KnownInv
  <2>3. PICK j \in 0 .. MaxNodes - 1 : Executed(t, j) /\ BackOf(j) = s[2]
    BY <1>0, <1>2, <2>2 DEF SubmapKnown
  <2>4. j \in Nat /\ j < i
    BY <1>0, <2>3
  <2>5. BackOf(j) <= BackOf(i)
    BY <1>0, <2>4, BackMonotone
  <2>. QED
    BY <2>1, <2>3, <2>5
<1>3. CASE BackOf(i) = 0
  <2>1. \A s \in optSubmaps : s[1] = t => s = FrontOf(t, i)
    BY <1>2, <1>3 DEF FrontOf
  <2>. QED
    BY <1>3, <2>1 DEF InsertionKnown
<1>4. CASE BackOf(i) > 0
  <2>1. /\ <<t, BackOf(i) - 1>> \in submaps /\ SubmapKnown(<<t, BackOf(i) - 1>>)
        /\ <<t, BackOf(i) - 1>> \in InsertionSubmaps(t, i)
        /\ <<t, BackOf(i)>> \in InsertionSubmaps(t, i)
    <3>1. SubmapKnown(<<t, BackOf(i) - 1>>) /\ InsertionSubmaps(t, i) \subseteq submaps
      BY <1>4, ScanFindsSubmaps
    <3>2. BackOf(i) # 0 /\ BackOf(i) \in {BackOf(i)} \cup {BackOf(i) - 1}
      BY <1>1, <1>4
    <3>3. <<t, BackOf(i) - 1>> \in InsertionSubmaps(t, i) /\ <<t, BackOf(i)>> \in InsertionSubmaps(t, i)
      BY <3>2 DEF InsertionSubmaps
    <3>. QED
      BY <3>1, <3>3
  <2>2. <<t, BackOf(i) - 1>> \in optSubmaps
    BY <1>1, <2>1 DEF KnownInv
  <2>3. \E s \in InsertionSubmaps(t, i) :
          s \in optSubmaps /\ s[1] = t /\ \A r \in optSubmaps : r[1] = t => r[2] <= s[2]
    <3>1. CASE <<t, BackOf(i)>> \in optSubmaps
      BY <1>2, <2>1, <3>1
    <3>2. CASE <<t, BackOf(i)>> \notin optSubmaps
      <4>1. \A r \in optSubmaps : r[1] = t => r[2] <= BackOf(i) - 1
        <5>1. SUFFICES ASSUME NEW r \in optSubmaps, r[1] = t PROVE r[2] <= BackOf(i) - 1
          OBVIOUS
        <5>2. r = <<t, r[2]>> /\ r[2] \in Nat /\ r[2] <= BackOf(i)
          BY <1>2, <5>1
        <5>3. r[2] # BackOf(i)
          BY <3>2, <5>2
        <5>. QED
          BY <1>1, <5>2, <5>3
      <4>. QED
        BY <2>1, <2>2, <4>1
    <3>. QED
      BY <3>1, <3>2
  <2>. QED
    BY <1>1, <1>4, <2>3 DEF InsertionKnown
<1>. QED
  BY <1>1, <1>3, <1>4

\* No complete submap has the node yet.
LEMMA ScanIsNew ==
  ASSUME IInv, WholeInv, NEW w \in Workers, NEW t \in Slam, NEW i \in 0 .. MaxNodes - 1,
         job[w].at = "exec", job[w].item = NodeItem(t, i), NEW s
  PROVE  <<t, i>> \notin NodesIn(s)
<1>1. t \notin Loaded /\ i \in Nat /\ \A j \in Nat : Executed(t, j) <=> j < i
  BY ScanTurn
<1>2. MemberInv /\ KnownInv
  BY DEF WholeInv, GraphInv
<1>3. SUFFICES ASSUME <<t, i>> \in NodesIn(s) PROVE FALSE
  OBVIOUS
<1>4. PICK p \in nodeIds : p[2] = <<t, i>>
  BY <1>3 DEF NodesIn
<1>5. <<t, i>> \in optNodes
  BY <1>2, <1>4 DEF MemberInv
<1>6. NodeKnown(<<t, i>>)
  BY <1>2, <1>5 DEF KnownInv
<1>. QED
  BY <1>1, <1>6 DEF NodeKnown

\* The item of a node does not fail.
LEMMA NodeGoes ==
  ASSUME IInv, WholeInv, NEW w \in Workers, ExecuteNode(w)
  PROVE  UNCHANGED failed
<1>0. IInv /\ PipeInv /\ ItemInv /\ JobType
  BY DEF WholeInv, PipeInv, IInv, TypeInv
<1>1. job[w].at = "exec" /\ job[w].item.op = "node"
  BY DEF ExecuteNode, Executing
<1>2. PICK x \in Items : x = job[w].item
  BY <1>0, <1>1, JobShapes
<1>3. x.traj \in Trajs /\ x.index \in 0 .. MaxNodes - 1 /\ x \in Pending
  BY <1>0, <1>1, <1>2, ItemShapes, ExecFirst
<1>4. PICK t, i : t = x.traj /\ i = x.index
  OBVIOUS
<1>5. t \in Slam /\ i \in 0 .. MaxNodes - 1 /\ x = NodeItem(t, i)
  BY <1>0, <1>1, <1>2, <1>3, <1>4 DEF ItemInv
<1>6. /\ <<t, i>> \in nodes /\ InsertionSubmaps(t, i) \subseteq submaps \ finished
      /\ InsertionKnown(t, i) /\ \A s : <<t, i>> \notin NodesIn(s)
  BY <1>1, <1>2, <1>5, ScanFindsSubmaps, ScanFindsLast, ScanIsNew
<1>. QED
  BY <1>2, <1>4, <1>6 DEF ExecuteNode

LEMMA TryGoes ==
  ASSUME WholeInv, NEW w \in Workers, NEW p, ComputeConstraint(w, p)
  PROVE  UNCHANGED failed
<1>1. KnownInv /\ OpenInv
  BY DEF WholeInv, GraphInv, SearchInv
<1>2. job[w].at = "search" /\ p \in job[w].pairs
  BY DEF ComputeConstraint
<1>3. p \in OpenPairs
  BY <1>2 DEF OpenPairs, OpenPairsOf, SearchingOf
<1>4. p[1] \in finished /\ p[1] \in submaps /\ p[2] \in nodes
  BY <1>1, <1>3 DEF OpenInv, KnownInv
<1>. QED
  BY <1>4 DEF ComputeConstraint

LEMMA SolveGoes ==
  ASSUME WholeInv, NEW w \in Workers, EndSolve(w)
  PROVE  UNCHANGED failed
BY DEF WholeInv, GraphInv, KnownInv, EndSolve

\* A submap that is followed by two others has all its scans.
LEMMA FollowedComplete ==
  ASSUME IInv, WholeInv, NEW t \in Slam, NEW k \in Nat, NEW r \in optSubmaps, r[1] = t, r[2] >= k + 2
  PROVE  SubmapComplete(<<t, k>>)
<1>0. /\ TypeInv /\ KnownInv /\ ItemInv /\ t \in Trajs /\ t \notin Loaded /\ MaxNodes \in Nat
      /\ scans[t] \in Nat
  BY IndexTypes, PoseGraphAssumption DEF WholeInv, GraphInv, PipeInv, IInv, Slam
<1>1. SubmapKnown(r)
  BY <1>0 DEF KnownInv
<1>2. PICK i \in 0 .. MaxNodes - 1 : Executed(t, i) /\ BackOf(i) = r[2]
  BY <1>0, <1>1 DEF SubmapKnown
<1>3. i \in Nat /\ i < scans[t] /\ NodeItem(t, i) \notin Pending
  BY <1>0, <1>2 DEF Executed
<1>4. LastOf(k) \in Nat /\ Completes(LastOf(k), k) /\ LastOf(k) < i
  BY <1>2, <1>3, Lasts
<1>5. LastOf(k) \in 0 .. scans[t] - 1 /\ i \in 0 .. scans[t] - 1 /\ LastOf(k) \in 0 .. MaxNodes - 1
  BY <1>0, <1>2, <1>3, <1>4
<1>6. Executed(t, LastOf(k))
  BY <1>0, <1>3, <1>4, <1>5 DEF Executed, ItemInv
<1>. QED
  BY <1>0, <1>4, <1>5, <1>6 DEF SubmapComplete

\* Deletion and trimming remove complete submaps only.
LEMMA GoneComplete ==
  ASSUME IInv, WholeInv
  PROVE  Gone \subseteq finished \cap submaps
<1>0. /\ KnownInv /\ OptType /\ (\A t \in Trajs : Life(t)) /\ trimmers \subseteq Localizing
      /\ Localizing \cap Loaded = {} /\ Localizing \subseteq Trajs
  BY PoseGraphAssumption DEF WholeInv, GraphInv, LifeInv, IInv, TypeInv
<1>1. ASSUME NEW s \in optSubmaps
      PROVE  /\ s \in submaps /\ s = <<s[1], s[2]>> /\ s[1] \in Trajs /\ s[2] \in Nat
             /\ SubmapComplete(s) => s \in finished
  BY <1>0, Ids DEF KnownInv, OptType
<1>2. ASSUME NEW s \in optSubmaps, s[1] \in Deleted PROVE SubmapComplete(s)
  <2>1. /\ tstate[s[1]] \in {"FINISHED", "FROZEN"} /\ (\A x \in Pending : x.traj # s[1])
        /\ tstate[s[1]] = "FROZEN" => s[1] \in Loaded
    BY <1>0, <1>1, <1>2 DEF Deleted, Life
  <2>2. CASE s[1] \in Loaded
    BY <2>1, <2>2, StepFields DEF SubmapComplete
  <2>3. CASE s[1] \notin Loaded
    BY <2>1, <2>3 DEF SubmapComplete, Finished
  <2>. QED
    BY <2>2, <2>3
<1>3. ASSUME NEW t \in trimmers, NEW s \in Trimmed(t) PROVE s \in optSubmaps /\ SubmapComplete(s)
  <2>1. t \in Slam /\ t \notin Loaded
    BY <1>0 DEF Slam
  <2>2. PICK S : S = {r \in optSubmaps : r[1] = t /\ r[2] > s[2]}
    OBVIOUS
  <2>3. s \in optSubmaps /\ s[1] = t /\ (tstate[t] = "FINISHED" \/ Cardinality(S) >= SubmapsToKeep)
    BY <2>2 DEF Trimmed
  <2>4. s = <<t, s[2]>> /\ s[2] \in Nat
    BY <1>1, <2>3
  <2>5. CASE tstate[t] = "FINISHED"
    BY <2>1, <2>3, <2>5 DEF SubmapComplete, Finished
  <2>6. CASE Cardinality(S) >= SubmapsToKeep
    <3>1. \A r \in S : r = <<t, r[2]>> /\ r[2] \in Nat /\ r[2] > s[2]
      BY <1>1, <2>2
    <3>2. PICK r \in S : r[2] >= s[2] + 2
      BY <2>4, <2>6, <3>1, TwoNewer
    <3>3. SubmapComplete(<<t, s[2]>>)
      BY <2>1, <2>2, <2>4, <3>2, FollowedComplete
    <3>. QED
      BY <2>3, <2>4, <3>3
  <2>. QED
    BY <2>3, <2>5, <2>6
<1>4. ASSUME NEW s \in Gone PROVE s \in finished \cap submaps
  <2>1. s \in optSubmaps /\ SubmapComplete(s)
    BY <1>2, <1>3 DEF Gone
  <2>. QED
    BY <1>1, <2>1
<1>. QED
  BY <1>4

LEMMA CleanGoes ==
  ASSUME IInv, WholeInv, NEW w \in Workers, AfterOptimization(w)
  PROVE  UNCHANGED failed
<1>1. Gone \subseteq finished \cap submaps
  BY GoneComplete
<1>2. job[w].at = "optimized"
  BY DEF AfterOptimization
<1>3. job[w].result \subseteq Matches
  BY <1>2 DEF Matches, Results, ResultsOf
<1>4. \A p \in job[w].result : p[1] \in submaps /\ p[2] \in nodes
  BY <1>3 DEF WholeInv, SearchInv, ResultInv, Resolves
<1>. QED
  BY <1>1, <1>4 DEF AfterOptimization, Gone, Deleted

\* When WaitForAllComputations has been notified every node has been finished.
LEMMA JoinGoes ==
  ASSUME SafeInv, AwaitNotification
  PROVE  UNCHANGED failed
<1>0. /\ IInv /\ TodoInv /\ BalanceInv /\ EndedInv /\ QuietInv /\ DrainInv
      /\ numNodes \in Nat /\ numStarted \in Nat /\ numFinished \in Nat
  BY DEF SafeInv, WholeInv, PipeInv, CountInv, IInv, TypeInv, MiscType, BuilderType, CB!CBTypeOK
<1>1. todo # << >> /\ Head(todo).do = "join" /\ Joined
  BY DEF AwaitNotification, Joined
<1>2. PICK a : a = [do |-> "join", expected |-> numNodes]
  OBVIOUS
<1>3. todo = << a >> \/ todo = << a, Destroying >>
  BY <1>0, <1>1, <1>2, WaitForms
<1>4. Head(todo).expected = numNodes
  <2>1. Head(todo) = a
    BY <1>3, HeadShort
  <2>. QED
    BY <1>2, <2>1
<1>5. TodoItems = {} /\ Inserts = {}
  BY <1>2, <1>3, WaitParts DEF TodoItems, Inserts
<1>6. Quiet /\ QueueItems = {} /\ Draining = {}
  <2>1. Quiet /\ queue = << >>
    BY <1>0, <1>1 DEF QuietInv, Quiet
  <2>. QED
    BY <1>0, <2>1, RangeShort DEF Quiet, DrainInv, QueueItems
<1>7. \A w \in Workers : job[w].at \in {"idle", "wait"}
  BY <1>6, NoDrainer
<1>8. ExecItems = {} /\ Searching = {}
  BY <1>7 DEF ExecItems, ExecItemsOf, Searching, SearchingOf
<1>9. NodesPending = {} /\ ~Appending
  BY <1>5, <1>6, <1>8 DEF NodesPending, Pending, AllItems, Appending
<1>10. Cardinality(NodesPending) = 0 /\ Cardinality(finishing) = 0
  BY <1>6, <1>9, FS_EmptySet DEF Quiet
<1>11. numNodes = numStarted /\ numStarted = numFinished
  BY <1>0, <1>8, <1>9, <1>10 DEF BalanceInv, EndedInv
<1>. QED
  BY <1>4, <1>11 DEF AwaitNotification, NoEffect

\* And when the destructor of ConstraintBuilder2D runs it has nothing to do.
LEMMA DestructGoes ==
  ASSUME SafeInv, Destruct
  PROVE  UNCHANGED failed
<1>0. /\ EndedInv /\ QuietInv /\ numStarted \in Nat /\ numFinished \in Nat
  BY DEF SafeInv, CountInv, IInv, TypeInv, BuilderType, CB!CBTypeOK
<1>1. Quiet
  BY <1>0 DEF Destruct, Destroying, Destroyed, QuietInv
<1>2. Cardinality(finishing) = 0
  BY <1>1, FS_EmptySet DEF Quiet
<1>3. ~queueOpen /\ CB!DestructorChecks
  BY <1>0, <1>1, <1>2 DEF Quiet, EndedInv, CB!DestructorChecks
<1>. QED
  BY <1>3 DEF Destruct, NoEffect

LEMMA WorkerGoes ==
  ASSUME SafeInv, PatientClient, NEW w \in Workers, Worker(w)
  PROVE  UNCHANGED failed
<1>0. IInv /\ WholeInv
  BY DEF SafeInv
<1>1. CASE \/ ExecuteData(w) \/ ExecuteFinish(w) \/ ExecuteDelete(w) \/ ExecuteFreeze(w)
           \/ ExecuteFromProto(w) \/ ExecuteNodeToSubmap(w) \/ ExecuteTrimmer(w)
           \/ ExecuteFinal(w)
  BY <1>1, ItemsGo
<1>2. CASE ExecuteNode(w)
  BY <1>0, <1>2, NodeGoes
<1>3. CASE \E p \in SubmapIds \X NodeIds : ComputeConstraint(w, p)
  BY <1>0, <1>3, TryGoes
<1>4. CASE EndSolve(w)
  BY <1>0, <1>4, SolveGoes
<1>5. CASE AfterOptimization(w)
  BY <1>0, <1>5, CleanGoes
<1>6. CASE \/ StartDrain(w) \/ PopWorkItem(w) \/ CallWhenDone(w) \/ EndOfNode(w) \/ TakeCallback(w)
           \/ Notify(w) \/ HandleWorkQueue(w)
  BY <1>6 DEF StartDrain, PopWorkItem, CallWhenDone, EndOfNode, TakeCallback, Notify, HandleWorkQueue
<1>. QED
  BY <1>1, <1>2, <1>3, <1>4, <1>5, <1>6 DEF Worker

LEMMA StepGoes == SafeInv /\ PatientClient /\ [Next]_vars => UNCHANGED failed
<1> SUFFICES ASSUME SafeInv, PatientClient, [Next]_vars PROVE UNCHANGED failed
  OBVIOUS
<1>1. CASE ClientCalls
  BY <1>1 DEF ClientCalls, NoEffect
<1>2. CASE AddWorkItem \/ MarkForDeletion \/ SampleNumNodes \/ AwaitQueue
  BY <1>2 DEF AddWorkItem, MarkForDeletion, SampleNumNodes, AwaitQueue, NoEffect
<1>3. CASE ClientSteps
  BY <1>2, <1>3, InsertGoes, JoinGoes, DestructGoes DEF ClientSteps
<1>4. CASE BuilderTask
  BY <1>4 DEF BuilderTask
<1>5. CASE UNCHANGED vars
  BY <1>5 DEF vars
<1>. QED
  BY <1>1, <1>3, <1>4, <1>5, WorkerGoes DEF Next, Stopped

CalmInv == SafeInv /\ failed = "none"

LEMMA StepCalm == PatientClient /\ CalmInv /\ [Next]_vars => CalmInv'
<1> SUFFICES ASSUME PatientClient, CalmInv, [Next]_vars PROVE CalmInv'
  OBVIOUS
<1>1. /\ SafeInv /\ failed = "none" /\ Patient
      /\ IInv /\ WholeInv /\ CountInv /\ PatientInv /\ PipeInv /\ LifeInv
  BY DEF CalmInv, SafeInv, WholeInv, PatientClient
<1>2. IInv' /\ WholeInv' /\ CountInv' /\ PatientInv'
  BY <1>1, StepIInv, StepWhole, StepCount, StepPatient
<1>3. failed' = "none"
  BY <1>1, StepGoes
<1>. QED
  BY <1>2, <1>3 DEF CalmInv, SafeInv

\* No CHECK and no LOG(FATAL) of the pose graph or of its constraint builder fails,
\* whatever the threads do, as long as the client lets the sensor data of a
\* trajectory be processed before it deletes it and does not ask for the deletion of a
\* trajectory that localization removes by itself.
THEOREM ChecksHold == PatientClient => (Spec => []NoCheckFails)
<1> SUFFICES ASSUME PatientClient PROVE Spec => []NoCheckFails
  OBVIOUS
<1>1. Init => CalmInv
  BY InitIInv, InitWhole, InitCount, InitPatient DEF CalmInv, SafeInv, Init
<1>2. CalmInv /\ [Next]_vars => CalmInv'
  BY StepCalm
<1>3. CalmInv => NoCheckFails
  BY DEF CalmInv, SafeInv, IInv, CycleInv, NoCheckFails, Running
<1>. QED
  BY <1>1, <1>2, <1>3, PTL DEF Spec
=============================================================================
