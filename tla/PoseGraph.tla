------------------------------- MODULE PoseGraph -------------------------------
(***************************************************************************)
(* cartographer's pose graph, mapping/internal/2d/pose_graph_2d.cc: the    *)
(* work queue through which every change reaches the background threads,   *)
(* the life of a trajectory (ACTIVE, FINISHED or FROZEN, DELETED), the     *)
(* searches it starts, the optimization, and the trimming and deletion     *)
(* that follow it.                                                         *)
(*                                                                         *)
(* One client thread calls the public operations, as MapBuilder and the    *)
(* ROS node do (they serialize their callers).  The pool's threads run     *)
(* DrainWorkQueue and the callbacks of ConstraintBuilder, whose own tasks  *)
(* run when they are ready.  Every critical section of mutex_ and of       *)
(* work_queue_mutex_ is one action, so is the Solve that runs without a    *)
(* lock: it begins in one action and ends in another.                      *)
(*                                                                         *)
(* Poses, times and samplers are left out: a sampler may always decline.   *)
(* A CHECK or LOG(FATAL) that fails stops everything and leaves the name   *)
(* of its function in 'failed'.                                            *)
(***************************************************************************)
EXTENDS Naturals, Sequences, FiniteSets

CONSTANTS
  Trajs,          \* trajectory ids
  Localizing,     \* those with a PureLocalizationTrimmer
  Loaded,         \* those LoadState reads, frozen, from a file
  MayDelete,      \* those the client may delete
  Patient,        \* the client lets the sensor data of a trajectory be
                  \* processed before it deletes the trajectory
  Workers,        \* the threads of the pool
  NumRangeData,   \* scans after which a submap gets a successor
  OptimizeEvery,  \* optimize_every_n_nodes
  SubmapsToKeep,  \* max_submaps_to_keep
  MaxNodes,       \* bound on the nodes of a trajectory, for TLC
  MaxAllNodes,    \* bound on the nodes of all of them
  MaxData,        \* bound on the calls that add other sensor data
  MaxFinals,      \* bound on the calls of RunFinalOptimization
  None

NodeIds == Trajs \X (0 .. MaxNodes - 1)
SubmapIds == Trajs \X (0 .. MaxNodes \div NumRangeData)

ASSUME PoseGraphAssumption ==
  /\ Localizing \cup Loaded \cup MayDelete \subseteq Trajs
  /\ Localizing \cap Loaded = {}
  /\ Patient \in BOOLEAN
  /\ NumRangeData \in Nat \ {0}
  /\ OptimizeEvery \in Nat
  /\ SubmapsToKeep \in Nat /\ SubmapsToKeep >= 2
  /\ MaxNodes \in Nat \ {0}
  /\ None \notin Trajs /\ None \notin {"handle", "wait"}

VARIABLES
  \* PoseGraphData, under mutex_
  tstate,       \* trajectories_state: InternalTrajectoryState::state
  deletion,     \* InternalTrajectoryState::deletion_state
  nodes,        \* trajectory_nodes
  submaps,      \* submap_data
  finished,     \* the submaps in state kFinished
  nodeIds,      \* InternalSubmapData::node_ids, as pairs <<submap, node>>
  intra, inter, \* constraints, by tag, as pairs <<submap, node>>
  numNodes,     \* num_trajectory_nodes
  \* the rest of PoseGraph2D
  optSubmaps,   \* optimization_problem_->submap_data()
  optNodes,     \* optimization_problem_->node_data()
  sinceLoop,    \* num_nodes_since_last_loop_closure_
  trimmers,     \* trimmers_: the trajectories that have one
  queueOpen,    \* work_queue_ # nullptr
  queue,        \* the items of work_queue_
  \* threads
  drainTasks,   \* scheduled tasks that will call DrainWorkQueue
  job,          \* what each thread of the pool is doing
  phase,        \* what the client has done to each trajectory
  scans,        \* the scans its local SLAM has inserted into submaps
  todo,         \* the steps of the call the client is in
  notified,     \* 'notification' of WaitForAllComputations
  dataCalls, finalCalls, \* calls made, for the bounds
  tried,        \* history: the pairs given to ComputeConstraint
  failed,       \* the function whose CHECK failed, or "none"
  \* ConstraintBuilder2D
  slots, found, outstanding, matchers, building, nodeDeps, finishing,
  doneDeps, callback, doneTasks, numStarted, numFinished, checkFailed

cbVars == << slots, found, outstanding, matchers, building, nodeDeps, finishing,
             doneDeps, callback, doneTasks, numStarted, numFinished, checkFailed >>

CB == INSTANCE ConstraintBuilder WITH Submaps <- SubmapIds, Nodes <- NodeIds,
                                       NoCallback <- None

stateVars  == << tstate, deletion >>
graphVars  == << nodes, submaps, finished, nodeIds >>
optVars    == << optSubmaps, optNodes, intra, inter >>
queueVars  == << queueOpen, queue, drainTasks >>
clientVars == << phase, scans, todo, notified, dataCalls, finalCalls >>
miscVars   == << numNodes, sinceLoop, trimmers, tried >>
vars == << stateVars, graphVars, optVars, queueVars, clientVars, miscVars,
           job, failed, cbVars >>

Idle == [at |-> "idle"]

Init ==
  /\ tstate = [t \in Trajs |-> "unknown"]
  /\ deletion = [t \in Trajs |-> "NORMAL"]
  /\ nodes = {} /\ submaps = {} /\ finished = {} /\ nodeIds = {}
  /\ intra = {} /\ inter = {} /\ optSubmaps = {} /\ optNodes = {}
  /\ numNodes = 0 /\ sinceLoop = 0 /\ trimmers = {} /\ tried = {}
  /\ queueOpen = FALSE /\ queue = << >> /\ drainTasks = 0
  /\ job = [w \in Workers |-> Idle]
  /\ phase = [t \in Trajs |-> "new"] /\ scans = [t \in Trajs |-> 0]
  /\ todo = << >> /\ notified = FALSE /\ dataCalls = 0 /\ finalCalls = 0
  /\ failed = "none"
  /\ CB!CBInit

Abort(function) ==
  /\ failed' = function
  /\ UNCHANGED << stateVars, graphVars, optVars, queueVars, clientVars, miscVars,
                  job, cbVars >>

(***************************************************************************)
(* Submaps.  ActiveSubmaps2D inserts a scan into the newest submap and the *)
(* one before it; a submap gets a successor after NumRangeData scans and   *)
(* is finished after twice as many.                                        *)
(***************************************************************************)

BackOf(index) == index \div NumRangeData
InsertionSubmaps(t, index) ==
  {<<t, k>> : k \in {BackOf(index)} \cup (IF BackOf(index) = 0 THEN {} ELSE {BackOf(index) - 1})}
FrontOf(t, index) == <<t, IF BackOf(index) = 0 THEN 0 ELSE BackOf(index) - 1>>

FinishesFront(index) == BackOf(index) > 0 /\ (index + 1) % NumRangeData = 0

\* Submap2D::insertion_finished.
InsertionFinished(s) == s[1] \in Loaded \/ scans[s[1]] >= (s[2] + 2) * NumRangeData

(***************************************************************************)
(* The client.  A call is a sequence of steps, 'todo'; each step is one    *)
(* critical section.                                                       *)
(***************************************************************************)

Enqueue(item) == [do |-> "enqueue", item |-> item]
Inserting(t, N, S, count) ==
  [do |-> "insert", traj |-> t, nodes |-> N, submaps |-> S, count |-> count]
Item(op, t) == [op |-> op, traj |-> t]
NodeItem(t, i) ==
  [op |-> "node", traj |-> t, index |-> i, finishes |-> FinishesFront(i)]

NoEffect == UNCHANGED << stateVars, graphVars, optVars, queueVars, miscVars,
                         job, failed, cbVars >>

\* MapBuilder::AddTrajectoryBuilder.
AddTrajectoryBuilder(t) ==
  /\ t \notin Loaded
  /\ phase[t] = "new"
  /\ phase' = [phase EXCEPT ![t] = "open"]
  /\ todo' = IF t \in Localizing THEN << Enqueue(Item("trimmer", t)) >> ELSE << >>
  /\ UNCHANGED << scans, notified, dataCalls, finalCalls >>

\* AddNode, after local SLAM has inserted the scan.
AddNode(t) ==
  /\ phase[t] = "open"
  /\ scans[t] < MaxNodes
  /\ numNodes < MaxAllNodes
  /\ scans' = [scans EXCEPT ![t] = @ + 1]
  /\ todo' = << Inserting(t, {<<t, scans[t]>>}, {<<t, BackOf(scans[t])>>}, 1),
                Enqueue(NodeItem(t, scans[t])) >>
  /\ UNCHANGED << phase, notified, dataCalls, finalCalls >>

\* AddImuData, AddOdometryData, AddFixedFramePoseData, AddLandmarkData.
AddSensorData(t) ==
  /\ phase[t] = "open"
  /\ dataCalls < MaxData
  /\ dataCalls' = dataCalls + 1
  /\ todo' = << Enqueue(Item("data", t)) >>
  /\ UNCHANGED << phase, scans, notified, finalCalls >>

\* MapBuilder::LoadState of a file with one trajectory of one submap and one
\* node, load_frozen_state.
LoadState(t) ==
  /\ t \in Loaded
  /\ phase[t] = "new"
  /\ phase' = [phase EXCEPT ![t] = "loaded"]
  /\ todo' = << Enqueue(Item("freeze", t)),
                Inserting(t, {}, {<<t, 0>>}, 0), Enqueue(Item("submapFromProto", t)),
                Inserting(t, {<<t, 0>>}, {}, 0), Enqueue(Item("nodeFromProto", t)),
                Enqueue(Item("nodeToSubmap", t)) >>
  /\ UNCHANGED << scans, notified, dataCalls, finalCalls >>

FinishTrajectory(t) ==
  /\ phase[t] = "open"
  /\ phase' = [phase EXCEPT ![t] = "finished"]
  /\ todo' = << Enqueue(Item("finish", t)) >>
  /\ UNCHANGED << scans, notified, dataCalls, finalCalls >>

\* Nothing but the finish of t is on its way: what a patient client knows from
\* RunFinalOptimization, or from GetTrajectoryStates.
Processed(t) ==
  /\ \A i \in DOMAIN queue : queue[i].traj = t => queue[i].op = "finish"
  /\ \A w \in Workers :
       job[w].at \in {"exec", "search"} /\ job[w].item.traj = t
         => job[w].item.op = "finish"

DeleteTrajectory(t) ==
  /\ t \in MayDelete
  /\ phase[t] \in {"finished", "loaded"}
  /\ Patient => Processed(t)
  /\ phase' = [phase EXCEPT ![t] = "deleted"]
  /\ todo' = << [do |-> "mark", traj |-> t], Enqueue(Item("delete", t)) >>
  /\ UNCHANGED << scans, notified, dataCalls, finalCalls >>

Wait == << [do |-> "sample"] >>

RunFinalOptimization ==
  /\ finalCalls < MaxFinals
  /\ finalCalls' = finalCalls + 1
  /\ todo' = << Enqueue(Item("final", None)), Enqueue(Item("iterations", None)) >> \o Wait
  /\ UNCHANGED << phase, scans, notified, dataCalls >>

\* ~PoseGraph2D, then the destructors of its members.
Destroy ==
  /\ todo' = Wait \o << [do |-> "destroy"] >>
  /\ UNCHANGED << phase, scans, notified, dataCalls, finalCalls >>

ClientCalls ==
  /\ todo = << >>
  /\ \/ \E t \in Trajs :
          \/ AddTrajectoryBuilder(t)
          \/ AddNode(t)
          \/ AddSensorData(t)
          \/ LoadState(t)
          \/ FinishTrajectory(t)
          \/ DeleteTrajectory(t)
     \/ RunFinalOptimization
     \/ Destroy
  /\ NoEffect

StepDone == /\ todo' = Tail(todo)
            /\ UNCHANGED << phase, scans, notified, dataCalls, finalCalls >>

\* Mutant: every item schedules a DrainWorkQueue.
AddWorkItem_Always ==
  /\ todo # << >> /\ Head(todo).do = "enqueue"
  /\ queue' = Append(queue, Head(todo).item)
  /\ queueOpen' = TRUE
  /\ drainTasks' = drainTasks + 1
  /\ StepDone
  /\ UNCHANGED << stateVars, graphVars, optVars, miscVars, job, failed, cbVars >>

\* AddWorkItem.
AddWorkItem ==
  /\ todo # << >> /\ Head(todo).do = "enqueue"
  /\ queue' = Append(queue, Head(todo).item)
  /\ queueOpen' = TRUE
  /\ drainTasks' = IF queueOpen THEN drainTasks ELSE drainTasks + 1
  /\ StepDone
  /\ UNCHANGED << stateVars, graphVars, optVars, miscVars, job, failed, cbVars >>

StateAfterAdd(t) == IF tstate[t] = "unknown" THEN "ACTIVE" ELSE tstate[t]

\* Where this fails CanAddWorkItemModifying does not return false, as its
\* message says: it aborts.  AddTrajectoryIfNeeded CHECKs the same.
CanAddWorkItemModifying(t) ==
  tstate[t] \notin {"FINISHED", "DELETED"} /\ deletion[t] = "NORMAL"

\* The first critical section of AddNode (AppendNode), of AddSubmapFromProto and
\* of AddNodeFromProto.
Insert ==
  /\ todo # << >> /\ Head(todo).do = "insert"
  /\ LET step == Head(todo)
         t == step.traj
     IN IF ~CanAddWorkItemModifying(t)
        THEN Abort("AddTrajectoryIfNeeded")
        ELSE /\ tstate' = [tstate EXCEPT ![t] = StateAfterAdd(t)]
             /\ nodes' = nodes \cup step.nodes
             /\ submaps' = submaps \cup step.submaps
             /\ numNodes' = numNodes + step.count
             /\ StepDone
             /\ UNCHANGED << deletion, finished, nodeIds, optVars, queueVars,
                             sinceLoop, trimmers, tried, job, failed, cbVars >>

\* The first critical section of DeleteTrajectory.
MarkForDeletion ==
  /\ todo # << >> /\ Head(todo).do = "mark"
  /\ LET t == Head(todo).traj
     IN IF tstate[t] = "unknown"
        THEN /\ todo' = << >>
             /\ UNCHANGED deletion
        ELSE /\ todo' = Tail(todo)
             /\ deletion' = [deletion EXCEPT ![t] = "SCHEDULED_FOR_DELETION"]
  /\ UNCHANGED << tstate, phase, scans, notified, dataCalls, finalCalls, graphVars,
                  optVars, queueVars, miscVars, job, failed, cbVars >>

(***************************************************************************)
(* WaitForAllComputations: num_trajectory_nodes is read first, then the    *)
(* work queue must drain, then the constraint builder must be done.        *)
(***************************************************************************)

SampleNumNodes ==
  /\ todo # << >> /\ Head(todo).do = "sample"
  /\ todo' = << [do |-> "await", expected |-> numNodes] >> \o Tail(todo)
  /\ UNCHANGED << phase, scans, notified, dataCalls, finalCalls >>
  /\ NoEffect

\* Mutant: WhenDone without waiting for the work queue.
AwaitQueue_NoWait ==
  /\ todo # << >> /\ Head(todo).do = "await"
  /\ CB!WhenDone("wait")
  /\ notified' = FALSE
  /\ todo' = << [Head(todo) EXCEPT !.do = "join"] >> \o Tail(todo)
  /\ UNCHANGED << phase, scans, dataCalls, finalCalls, stateVars, graphVars, optVars,
                  queueVars, miscVars, job, failed >>

AwaitQueue ==
  /\ todo # << >> /\ Head(todo).do = "await"
  /\ ~queueOpen
  /\ CB!WhenDone("wait")
  /\ notified' = FALSE
  /\ todo' = << [Head(todo) EXCEPT !.do = "join"] >> \o Tail(todo)
  /\ UNCHANGED << phase, scans, dataCalls, finalCalls, stateVars, graphVars, optVars,
                  queueVars, miscVars, job, failed >>

AwaitNotification ==
  /\ todo # << >> /\ Head(todo).do = "join"
  /\ notified
  /\ IF numFinished = Head(todo).expected
     THEN StepDone /\ NoEffect
     ELSE Abort("WaitForAllComputations")

\* The CHECKs of the destructors; afterwards the object is gone.
Destruct ==
  /\ todo = << [do |-> "destroy"] >>
  /\ IF ~queueOpen /\ CB!DestructorChecks
     THEN /\ todo' = << [do |-> "gone"] >>
          /\ UNCHANGED << phase, scans, notified, dataCalls, finalCalls >>
          /\ NoEffect
     ELSE Abort("~PoseGraph2D")

ClientSteps ==
  \/ AddWorkItem
  \/ Insert
  \/ MarkForDeletion
  \/ SampleNumNodes
  \/ AwaitQueue
  \/ AwaitNotification
  \/ Destruct

(***************************************************************************)
(* DrainWorkQueue, on a thread of the pool.                                *)
(***************************************************************************)

Goto(w, j) == job' = [job EXCEPT ![w] = j]

StartDrain(w) ==
  /\ job[w] = Idle
  /\ drainTasks > 0
  /\ drainTasks' = drainTasks - 1
  /\ Goto(w, [at |-> "drain"])
  /\ UNCHANGED << stateVars, graphVars, optVars, queueOpen, queue, clientVars,
                  miscVars, failed, cbVars >>

\* The critical section of work_queue_mutex_ in the loop of DrainWorkQueue.
PopWorkItem(w) ==
  /\ job[w].at = "drain"
  /\ IF queue = << >>
     THEN /\ queueOpen' = FALSE
          /\ Goto(w, Idle)
          /\ UNCHANGED queue
     ELSE /\ queue' = Tail(queue)
          /\ Goto(w, [at |-> "exec", item |-> Head(queue)])
          /\ UNCHANGED queueOpen
  /\ UNCHANGED << stateVars, graphVars, optVars, drainTasks, clientVars, miscVars,
                  failed, cbVars >>

\* What the loop does with the result of a work item.
AfterItem(w, runOptimization) ==
  Goto(w, [at |-> IF runOptimization THEN "whendone" ELSE "drain"])

\* Mutant: the loop goes on after WhenDone.
CallWhenDone_Draining(w) ==
  /\ job[w].at = "whendone"
  /\ CB!WhenDone("handle")
  /\ Goto(w, [at |-> "drain"])
  /\ UNCHANGED << stateVars, graphVars, optVars, queueVars, clientVars, miscVars,
                  failed >>

CallWhenDone(w) ==
  /\ job[w].at = "whendone"
  /\ CB!WhenDone("handle")
  /\ Goto(w, Idle)
  /\ UNCHANGED << stateVars, graphVars, optVars, queueVars, clientVars, miscVars,
                  failed >>

Executing(w, op) == job[w].at = "exec" /\ job[w].item.op = op

\* The items of AddImuData and its like, whose data no property looks at.
ExecuteData(w) ==
  /\ Executing(w, "data")
  /\ IF CanAddWorkItemModifying(job[w].item.traj)
     THEN /\ AfterItem(w, FALSE)
          /\ UNCHANGED << stateVars, graphVars, optVars, queueVars, clientVars,
                          miscVars, failed, cbVars >>
     ELSE Abort("CanAddWorkItemModifying")

ExecuteFinish(w) ==
  /\ Executing(w, "finish")
  /\ LET t == job[w].item.traj
     IN IF tstate[t] = "FINISHED"
        THEN Abort("FinishTrajectory")
        ELSE /\ tstate' = [tstate EXCEPT ![t] = "FINISHED"]
             /\ finished' = finished \cup {s \in submaps : s[1] = t}
             /\ AfterItem(w, TRUE)
             /\ UNCHANGED << deletion, nodes, submaps, nodeIds, optVars, queueVars,
                             clientVars, miscVars, failed, cbVars >>

\* Mutant: the trajectory counts as deleted at once.
ExecuteDelete_Early(w) ==
  /\ Executing(w, "delete")
  /\ LET t == job[w].item.traj
     IN IF tstate[t] \in {"ACTIVE", "DELETED"} \/ deletion[t] # "SCHEDULED_FOR_DELETION"
        THEN Abort("DeleteTrajectory")
        ELSE /\ tstate' = [tstate EXCEPT ![t] = "DELETED"]
             /\ AfterItem(w, FALSE)
             /\ UNCHANGED << deletion, graphVars, optVars, queueVars, clientVars,
                             miscVars, failed, cbVars >>

ExecuteDelete(w) ==
  /\ Executing(w, "delete")
  /\ LET t == job[w].item.traj
     IN IF tstate[t] \in {"ACTIVE", "DELETED"} \/ deletion[t] # "SCHEDULED_FOR_DELETION"
        THEN Abort("DeleteTrajectory")
        ELSE /\ deletion' = [deletion EXCEPT ![t] = "WAIT_FOR_DELETION"]
             /\ AfterItem(w, FALSE)
             /\ UNCHANGED << tstate, graphVars, optVars, queueVars, clientVars,
                             miscVars, failed, cbVars >>

ExecuteFreeze(w) ==
  /\ Executing(w, "freeze")
  /\ LET t == job[w].item.traj
     IN IF tstate[t] = "FROZEN"
        THEN Abort("FreezeTrajectory")
        ELSE /\ tstate' = [tstate EXCEPT ![t] = "FROZEN"]
             /\ AfterItem(w, FALSE)
             /\ UNCHANGED << deletion, graphVars, optVars, queueVars, clientVars,
                             miscVars, failed, cbVars >>

\* The items of AddSubmapFromProto and AddNodeFromProto.
ExecuteFromProto(w) ==
  /\ job[w].at = "exec"
  /\ job[w].item.op \in {"submapFromProto", "nodeFromProto"}
  /\ LET id == <<job[w].item.traj, 0>>
     IN \/ /\ Executing(w, "submapFromProto")
           /\ finished' = finished \cup {id}
           /\ optSubmaps' = optSubmaps \cup {id}
           /\ UNCHANGED optNodes
        \/ /\ Executing(w, "nodeFromProto")
           /\ optNodes' = optNodes \cup {id}
           /\ UNCHANGED << finished, optSubmaps >>
  /\ AfterItem(w, FALSE)
  /\ UNCHANGED << stateVars, nodes, submaps, nodeIds, intra, inter, queueVars,
                  clientVars, miscVars, failed, cbVars >>

\* AddNodeToSubmap.
ExecuteNodeToSubmap(w) ==
  /\ Executing(w, "nodeToSubmap")
  /\ LET t == job[w].item.traj
     IN IF CanAddWorkItemModifying(t)
        THEN /\ nodeIds' = nodeIds \cup {<< <<t, 0>>, <<t, 0>> >>}
             /\ AfterItem(w, FALSE)
             /\ UNCHANGED << stateVars, nodes, submaps, finished, optVars, queueVars,
                             clientVars, miscVars, failed, cbVars >>
        ELSE Abort("CanAddWorkItemModifying")

ExecuteTrimmer(w) ==
  /\ Executing(w, "trimmer")
  /\ trimmers' = trimmers \cup {job[w].item.traj}
  /\ AfterItem(w, FALSE)
  /\ UNCHANGED << stateVars, graphVars, optVars, queueVars, clientVars, numNodes,
                  sinceLoop, tried, failed, cbVars >>

\* The two items of RunFinalOptimization: only the first runs the optimization.
ExecuteFinal(w) ==
  /\ job[w].at = "exec" /\ job[w].item.op \in {"final", "iterations"}
  /\ AfterItem(w, job[w].item.op = "final")
  /\ UNCHANGED << stateVars, graphVars, optVars, queueVars, clientVars, miscVars,
                  failed, cbVars >>

(***************************************************************************)
(* The item of AddNode: ComputeConstraintsForNode.                         *)
(***************************************************************************)

\* Mutant: the nodes of the next submap.
NodesIn_Next(s) == {p[2] : p \in {q \in nodeIds : q[1] = <<s[1], s[2] + 1>>}}

NodesIn(s) == {p[2] : p \in {q \in nodeIds : q[1] = s}}

\* InitializeGlobalSubmapPoses: the submaps the optimization problem knows must
\* end with one of those the scan was inserted into.
InsertionKnown(t, index) ==
  LET known == {s \in optSubmaps : s[1] = t}
      last(s) == s \in known /\ \A r \in known : r[2] <= s[2]
  IN IF BackOf(index) = 0
     THEN known \subseteq {FrontOf(t, index)}
     ELSE \E s \in InsertionSubmaps(t, index) : last(s)

\* The first critical section: the node joins the optimization problem and its
\* submaps, the front submap may become kFinished, and the searches are listed.
ExecuteNode(w) ==
  /\ Executing(w, "node")
  /\ LET item == job[w].item
         t == item.traj
         n == <<t, item.index>>
         into == InsertionSubmaps(t, item.index)
         front == FrontOf(t, item.index)
         joins == into \X {n}
         oldNodes == optNodes \ NodesIn(front)
     IN IF \/ n \notin nodes
           \/ ~ into \subseteq submaps \ finished
           \/ ~ InsertionKnown(t, item.index)
           \/ \E s \in finished : n \in NodesIn(s)
        THEN Abort("ComputeConstraintsForNode")
        ELSE /\ optSubmaps' = optSubmaps \cup into
             /\ optNodes' = optNodes \cup {n}
             /\ nodeIds' = nodeIds \cup joins
             /\ intra' = intra \cup joins
             /\ finished' = IF item.finishes THEN finished \cup {front} ELSE finished
             /\ Goto(w, [at |-> "search", item |-> item,
                         pairs |-> (finished \X {n}) \cup
                                   (IF item.finishes THEN {front} \X (oldNodes \ {n}) ELSE {})])
             /\ UNCHANGED << stateVars, nodes, submaps, inter, queueVars, clientVars,
                             miscVars, failed, cbVars >>

\* ComputeConstraint: a submap that is not complete yet is skipped, a sampler
\* or the distance may rule the pair out.
ComputeConstraint(w, p) ==
  /\ job[w].at = "search" /\ p \in job[w].pairs
  /\ IF p[1] \notin finished \/ p[1] \notin submaps \/ p[2] \notin nodes
     THEN Abort("ComputeConstraint")
     ELSE /\ tried' = tried \cup {p}
          /\ Goto(w, [job[w] EXCEPT !.pairs = @ \ {p}])
          /\ \/ InsertionFinished(p[1]) /\ CB!MaybeAddConstraint(p)
             \/ UNCHANGED cbVars
          /\ UNCHANGED << stateVars, graphVars, optVars, queueVars, clientVars,
                          numNodes, sinceLoop, trimmers, failed >>

\* NotifyEndOfNode, and whether it is time to optimize.
EndOfNode(w) ==
  /\ job[w].at = "search" /\ job[w].pairs = {}
  /\ CB!NotifyEndOfNode
  /\ sinceLoop' = sinceLoop + 1
  /\ AfterItem(w, OptimizeEvery > 0 /\ sinceLoop + 1 > OptimizeEvery)
  /\ UNCHANGED << stateVars, graphVars, optVars, queueVars, clientVars, numNodes,
                  trimmers, tried, failed >>

(***************************************************************************)
(* The callbacks of ConstraintBuilder: HandleWorkQueue, and the one of     *)
(* WaitForAllComputations.                                                 *)
(***************************************************************************)

TakeCallback(w) ==
  /\ job[w] = Idle
  /\ \E d \in doneTasks : CB!RunWhenDone(d)
  /\ Goto(w, [at |-> callback, result |-> found])
  /\ UNCHANGED << stateVars, graphVars, optVars, queueVars, clientVars, miscVars,
                  failed >>

\* Mutant: the waiting thread is not told.
Notify_Silent(w) ==
  /\ job[w].at = "wait"
  /\ inter' = inter \cup job[w].result
  /\ notified' = notified
  /\ Goto(w, Idle)
  /\ UNCHANGED << stateVars, graphVars, optSubmaps, optNodes, intra, queueVars, phase,
                  scans, todo, dataCalls, finalCalls, miscVars, failed, cbVars >>

Notify(w) ==
  /\ job[w].at = "wait"
  /\ inter' = inter \cup job[w].result
  /\ notified' = TRUE
  /\ Goto(w, Idle)
  /\ UNCHANGED << stateVars, graphVars, optSubmaps, optNodes, intra, queueVars, phase,
                  scans, todo, dataCalls, finalCalls, miscVars, failed, cbVars >>

\* HandleWorkQueue takes the result; RunOptimization begins unless there is
\* nothing to optimize.
HandleWorkQueue(w) ==
  /\ job[w].at = "handle"
  /\ inter' = inter \cup job[w].result
  /\ Goto(w, [job[w] EXCEPT !.at = IF optSubmaps = {} THEN "optimized" ELSE "solving"])
  /\ UNCHANGED << stateVars, graphVars, optSubmaps, optNodes, intra, queueVars,
                  clientVars, miscVars, failed, cbVars >>

\* Solve returns; the poses are written back to the nodes under the lock.
EndSolve(w) ==
  /\ job[w].at = "solving"
  /\ IF optNodes \subseteq nodes
     THEN /\ Goto(w, [job[w] EXCEPT !.at = "optimized"])
          /\ UNCHANGED << stateVars, graphVars, optVars, queueVars, clientVars,
                          miscVars, failed, cbVars >>
     ELSE Abort("RunOptimization")

\* PureLocalizationTrimmer::Trim, which keeps the newest submaps of a
\* trajectory and, once it has finished, none.
Trimmed(t) ==
  LET newer(s) == {r \in optSubmaps : r[1] = t /\ r[2] > s[2]}
  IN {s \in optSubmaps : /\ s[1] = t
                         /\ \/ tstate[t] = "FINISHED"
                            \/ Cardinality(newer(s)) >= SubmapsToKeep}

\* Mutant: nodes go that another submap still has.
NodesGoneWith_All(gone) == UNION {NodesIn(s) : s \in gone}

\* TrimmingHandle::TrimSubmap, for a set of submaps: with them go the nodes that
\* are in no other submap, ...
NodesGoneWith(gone) ==
  (UNION {NodesIn(s) : s \in gone}) \ (UNION {NodesIn(s) : s \in submaps \ gone})

\* Mutant: only the constraints of the submaps go.
KeptConstraints_Nodes(C, gone) == {p \in C : p[1] \notin gone}

\* ... their constraints, ...
KeptConstraints(C, gone) ==
  {p \in C : p[1] \notin gone /\ p[2] \notin NodesGoneWith(gone)}

\* ... and the scan matchers, also of submaps that lose a constraint and have
\* no match left.
MatchersGoneWith(gone) ==
  LET losing == {p[1] : p \in {q \in intra \cup inter : q[2] \in NodesGoneWith(gone)}}
      matched == {p[1] : p \in KeptConstraints(inter, gone)}
  IN gone \cup (losing \ matched)

\* The rest of HandleWorkQueue: DeleteTrajectoriesIfNeeded, then the trimmers.
AfterOptimization(w) ==
  /\ job[w].at = "optimized"
  /\ LET deleted == {t \in Trajs : deletion[t] = "WAIT_FOR_DELETION"}
         ended == {t \in trimmers \ deleted : tstate[t] = "FINISHED"}
         gone == {s \in optSubmaps : s[1] \in deleted} \cup
                 UNION {Trimmed(t) : t \in trimmers \ deleted}
     IN IF \/ ~ gone \subseteq finished \cap submaps
           \/ \E p \in job[w].result : p[1] \notin submaps \/ p[2] \notin nodes
        THEN Abort("HandleWorkQueue")
        ELSE /\ tstate' = [t \in Trajs |-> IF t \in deleted \cup ended
                                            THEN "DELETED" ELSE tstate[t]]
             /\ deletion' = [t \in Trajs |-> IF t \in deleted THEN "NORMAL"
                                             ELSE deletion[t]]
             /\ submaps' = submaps \ gone
             /\ finished' = finished \ gone
             /\ nodes' = nodes \ NodesGoneWith(gone)
             /\ nodeIds' = {p \in nodeIds : p[1] \notin gone}
             /\ intra' = KeptConstraints(intra, gone)
             /\ inter' = KeptConstraints(inter, gone)
             /\ optSubmaps' = optSubmaps \ gone
             /\ optNodes' = optNodes \ NodesGoneWith(gone)
             /\ CB!DeleteScanMatchers(MatchersGoneWith(gone))
             /\ trimmers' = trimmers \ ended
             /\ sinceLoop' = 0
             /\ Goto(w, [at |-> "drain"])
             /\ UNCHANGED << queueVars, clientVars, numNodes, tried, failed >>

Worker(w) ==
  \/ StartDrain(w)
  \/ PopWorkItem(w)
  \/ CallWhenDone(w)
  \/ ExecuteData(w)
  \/ ExecuteFinish(w)
  \/ ExecuteDelete(w)
  \/ ExecuteFreeze(w)
  \/ ExecuteFromProto(w)
  \/ ExecuteNodeToSubmap(w)
  \/ ExecuteTrimmer(w)
  \/ ExecuteFinal(w)
  \/ ExecuteNode(w)
  \/ \E p \in SubmapIds \X NodeIds : ComputeConstraint(w, p)
  \/ EndOfNode(w)
  \/ TakeCallback(w)
  \/ Notify(w)
  \/ HandleWorkQueue(w)
  \/ EndSolve(w)
  \/ AfterOptimization(w)

\* Tasks of the constraint builder that end without a callback.
BuilderTask ==
  /\ CB!CBTask
  /\ UNCHANGED << stateVars, graphVars, optVars, queueVars, clientVars, miscVars,
                  job, failed >>

Running == failed = "none" /\ ~checkFailed

\* The object has been destroyed, or the process has aborted.
Stopped ==
  /\ ~Running \/ todo = << [do |-> "gone"] >>
  /\ UNCHANGED vars

Next ==
  \/ Running /\ ClientCalls
  \/ Running /\ ClientSteps
  \/ Running /\ \E w \in Workers : Worker(w)
  \/ Running /\ BuilderTask
  \/ Stopped

Spec == Init /\ [][Next]_vars

\* Every thread keeps running and the pool runs every task that is ready; the
\* client goes on with a call it has begun, but need not make another.
Fairness ==
  /\ WF_vars(Running /\ ClientSteps)
  /\ WF_vars(Running /\ BuilderTask)
  /\ \A w \in Workers : WF_vars(Running /\ Worker(w))

LiveSpec == Spec /\ Fairness

(***************************************************************************)
(* Properties.                                                             *)
(***************************************************************************)

Ops == {"node", "data", "finish", "delete", "freeze", "submapFromProto",
        "nodeFromProto", "nodeToSubmap", "trimmer", "final", "iterations"}

\* The state of the graph, of the queue and of the threads is well typed.
TypeOK ==
  /\ tstate \in [Trajs -> {"unknown", "ACTIVE", "FINISHED", "FROZEN", "DELETED"}]
  /\ deletion \in [Trajs -> {"NORMAL", "SCHEDULED_FOR_DELETION", "WAIT_FOR_DELETION"}]
  /\ nodes \subseteq NodeIds /\ optNodes \subseteq NodeIds
  /\ finished \cup optSubmaps \cup submaps \subseteq SubmapIds
  /\ nodeIds \cup intra \cup inter \cup tried \subseteq SubmapIds \X NodeIds
  /\ \A i \in DOMAIN queue : queue[i].op \in Ops
  /\ queueOpen \in BOOLEAN
  /\ drainTasks \in Nat
  /\ \A w \in Workers : job[w].at \in {"idle", "drain", "exec", "search", "whendone",
                                       "handle", "solving", "optimized", "wait"}
  /\ callback \in {None, "handle", "wait"}
  /\ CB!CBTypeOK

\* No CHECK and no LOG(FATAL) fails, whatever the client asks for in an order
\* that the interface allows, as long as it is patient with deletions.
NoCheckFails == Running

Draining == {w \in Workers : job[w].at \notin {"idle", "wait"}}

\* work_queue_ exists exactly while one thread drains it, or will: the task of
\* AddWorkItem or the callback HandleWorkQueue is pending, or a thread is in
\* one of them.  Two would run items, and optimizations, at the same time;
\* none would leave the queue to fill for ever.
OneDrainer ==
  Cardinality(Draining) + drainTasks + (IF callback = "handle" THEN 1 ELSE 0)
    = (IF queueOpen THEN 1 ELSE 0)

\* "No other thread is accessing the optimization_problem_, data_.constraints
\* ... when executing the Solve" (pose_graph_2d.cc:866), as far as writing
\* goes: Solve holds no lock.
SolveUndisturbed ==
  [][\A w \in Workers : job[w].at = "solving" /\ job'[w].at = "solving"
                          => UNCHANGED << optVars, finished >>]_vars

\* The raw pointers of the searches that wait or run stay valid: to the entry
\* of constraints_ and the matcher, and to the submap and the node's data
\* ("must stay valid until all computations are finished",
\* constraint_builder_2d.h:78).
SearchesReachable ==
  /\ CB!PointeesAlive
  /\ \A p \in outstanding : p[1] \in submaps /\ p[2] \in nodes

\* Trimming and deletion leave no reference behind: what the optimization
\* problem and the constraints name, the graph still has, and of a deleted
\* trajectory there is no submap, node or constraint.
ReferencesResolve ==
  /\ optNodes \subseteq nodes
  /\ optSubmaps \subseteq submaps
  /\ \A p \in intra \cup inter \cup nodeIds : p[1] \in submaps /\ p[2] \in nodes
  /\ finished \subseteq submaps
  /\ \A t \in Trajs : tstate[t] = "DELETED" =>
       /\ \A id \in submaps \cup optSubmaps \cup nodes \cup optNodes : id[1] # t
       /\ \A p \in intra \cup inter : p[1][1] # t /\ p[2][1] # t

\* A pair is matched at most once, and never if the node was inserted into the
\* submap: the constraints are a vector, so a second match would count double.
\* Nor does the search for loop closures miss a pair: once no node is being
\* processed, every node has been given to ComputeConstraint with every
\* complete submap that takes part (those read from a file aside).
EveryPairOnce ==
  /\ \A w \in Workers : job[w].at = "search" =>
       /\ job[w].pairs \cap (tried \cup nodeIds) = {}
       /\ inter \cap intra = {}
  /\ (\A w \in Workers : job[w].at # "search") =>
       \A s \in finished, n \in optNodes :
         InsertionFinished(s) /\ {s[1], n[1]} \cap Loaded = {}
         => <<s, n>> \in tried \cup nodeIds

\* Whatever is queued is eventually executed, and a call that waits for the
\* queue (RunFinalOptimization, the destructor) eventually returns.
CallsReturn ==
  /\ queueOpen ~> ~queueOpen
  /\ todo # << >> ~> todo = << >> \/ todo = << [do |-> "gone"] >>

\* "but modification is requested, skipping" (pose_graph_2d.cc:920): the
\* request is skipped, not fatal.
ModificationSkipped == failed # "CanAddWorkItemModifying"
=============================================================================
