---------------------------- MODULE TrajectoryNode ----------------------------
(***************************************************************************)
(* The life of trajectories in cartographer_node: the services and sensor  *)
(* callbacks of Node (cartographer_ros/src/node.cpp) over MapBuilderBridge,*)
(* MapBuilder and the collator, from loading a state to the shutdown in    *)
(* node_main.cpp.                                                          *)
(*                                                                         *)
(* One thread spins the node, so that callbacks exclude each other; the    *)
(* pose graph works off its queue in the background.  Of the pose graph    *)
(* the model keeps the states of the trajectories and the work items that  *)
(* change them (PoseGraph.tla has the rest), of local SLAM whether a scan  *)
(* becomes a node, of the options which sensors are subscribed to.         *)
(***************************************************************************)
EXTENDS Collator, SequencesExt

CONSTANTS
  RangeSensors,  \* the sensors whose data may become a node
  SensorSets,    \* what StartTrajectory may subscribe to
  DefaultTopics, \* what the first trajectory subscribes to, {} if none is started
  Loaded,        \* "no": no state is loaded; "active", "frozen" or, with the
                 \* work item still queued, "freezing": how its trajectory is
  Trimmer        \* the option pure_localization_trimmer is set

\* The id of the first trajectory that the node starts: a state that is loaded
\* is trajectory 0.
FirstId(loaded) == IF loaded = "no" THEN 0 ELSE 1

ASSUME NodeAssumption ==
  /\ RangeSensors \subseteq Sensors
  /\ SensorSets \subseteq SUBSET Sensors /\ DefaultTopics \subseteq Sensors
  /\ Loaded \in {"no", "active", "frozen", "freezing"}
  /\ Trimmer \in BOOLEAN
  /\ Trajectories = 0 .. Cardinality(Trajectories) - 1
  /\ FirstId(Loaded) \in Trajectories

States == {"none", "active", "finished", "frozen", "deleted"}
Codes  == {"OK", "INVALID_ARGUMENT", "NOT_FOUND"}

VARIABLES
  builders,     \* trajectory_builders_.size(), the id of the next trajectory
  trajState,    \* trajectories_state of the pose graph, "none" if it has none
  pgQueue,      \* its work items that finish or freeze a trajectory
  bridges,      \* sensor_bridges_ of MapBuilderBridge
  subscribers,  \* subscribers_: the topics each trajectory listens to
  topics,       \* subscribed_topics_
  scheduled,    \* trajectories_scheduled_for_finish_
  finishing,    \* the trajectory that FinishTrajectoryUnderLock is finishing
  response,     \* what a service has answered and its client has not taken
  phase,        \* where the main thread is
  toFinish,     \* the active trajectories its loop still has to finish
  crashed       \* a CHECK of these classes or an at() failed

slamVars == << builders, trajState, pgQueue >>
nodeVars == << bridges, subscribers, topics, scheduled >>
mainVars == << phase, toFinish >>
tnVars == << collatorVars, slamVars, nodeVars, mainVars, finishing, response, crashed >>

Running == ~checkFailed /\ ~crashed

\* The thread that spins can take the next callback.
Free == Running /\ Idle /\ finishing = None /\ response = None /\ phase = "spin"

(***************************************************************************)
(* Status of a trajectory.                                                 *)
(***************************************************************************)

\* GetTrajectoryStates of MapBuilderBridge.
StateOf(tr) ==
  IF trajState[tr] = "none" /\ tr \in bridges THEN "active" ELSE trajState[tr]

TrajectoryStateToStatus(tr, valid) ==
  IF StateOf(tr) = "none" THEN "NOT_FOUND"
  ELSE IF StateOf(tr) \in valid THEN "OK" ELSE "INVALID_ARGUMENT"

(***************************************************************************)
(* Starting.                                                               *)
(***************************************************************************)

\* Mutant: the topics in use are not looked at.
StartCode_AnyTopics(sensors, rel) ==
  IF rel # None /\ TrajectoryStateToStatus(rel, {"active", "frozen", "finished"}) # "OK"
  THEN TrajectoryStateToStatus(rel, {"active", "frozen", "finished"})
  ELSE "OK"

\* What handleStartTrajectory answers; rel is relative_to_trajectory_id where an
\* initial pose is used.
StartCode(sensors, rel) ==
  IF rel # None /\ TrajectoryStateToStatus(rel, {"active", "frozen", "finished"}) # "OK"
  THEN TrajectoryStateToStatus(rel, {"active", "frozen", "finished"})
  ELSE IF sensors \cap topics # {} THEN "INVALID_ARGUMENT" ELSE "OK"

\* Node::AddTrajectory, with what it calls in MapBuilderBridge and MapBuilder.
AddNodeTrajectory(sensors) ==
  /\ AddTrajectory(builders, sensors)
  /\ builders' = builders + 1
  /\ bridges' = bridges \cup {builders}
  /\ subscribers' = [subscribers EXCEPT ![builders] = sensors]
  /\ topics' = topics \cup sensors
  /\ crashed' = (builders \in bridges)

HandleStart(sensors, rel) ==
  LET code == StartCode(sensors, rel) IN
  /\ Free
  /\ builders \in Trajectories
  /\ IF code = "OK"
     THEN AddNodeTrajectory(sensors)
     ELSE UNCHANGED << collatorVars, builders, bridges, subscribers, topics, crashed >>
  /\ response' = [service |-> "start", code |-> code,
                  id |-> IF code = "OK" THEN builders ELSE 0]
  /\ UNCHANGED << trajState, pgQueue, scheduled, finishing, mainVars >>

(***************************************************************************)
(* Finishing.                                                              *)
(***************************************************************************)

\* Mutant: a trajectory that is pending to finish is finished again.
FinishCode_Twice(tr) == TrajectoryStateToStatus(tr, {"active"})

FinishCode(tr) ==
  IF tr \in scheduled THEN "OK" ELSE TrajectoryStateToStatus(tr, {"active"})

\* Mutant: the topics stay in use.
BeginFinish_KeepsTopics(tr) ==
  /\ finishing' = tr
  /\ topics' = topics
  /\ subscribers' = [subscribers EXCEPT ![tr] = {}]
  /\ \E order \in Orders({q \in open : q[1] = tr}) : FinishTrajectory(order)

\* Mutant: the subscribers outlive the sensor bridge.
BeginFinish_KeepsSubscribers(tr) ==
  /\ finishing' = tr
  /\ topics' = topics
  /\ subscribers' = subscribers
  /\ \E order \in Orders({q \in open : q[1] = tr}) : FinishTrajectory(order)

\* FinishTrajectoryUnderLock up to the collator, which dispatches what it holds.
BeginFinish(tr) ==
  /\ finishing' = tr
  /\ topics' = topics \ subscribers[tr]
  /\ subscribers' = [subscribers EXCEPT ![tr] = {}]
  /\ \E order \in Orders({q \in open : q[1] = tr}) : FinishTrajectory(order)

\* Mutant: the pose graph is not told.
EndFinish_NoItem ==
  /\ Running /\ Idle /\ finishing # None
  /\ pgQueue' = pgQueue
  /\ bridges' = bridges \ {finishing}
  /\ scheduled' = scheduled \cup {finishing}
  /\ finishing' = None
  /\ response' = IF phase = "spin"
                 THEN [service |-> "finish", code |-> "OK", id |-> finishing]
                 ELSE response
  /\ UNCHANGED << collatorVars, builders, trajState, subscribers, topics, mainVars, crashed >>

\* The rest of it: the pose graph's work item, the sensor bridge, the note that
\* the trajectory is pending to finish.
EndFinish ==
  /\ Running /\ Idle /\ finishing # None
  /\ pgQueue' = Append(pgQueue, [do |-> "finish", tr |-> finishing])
  /\ bridges' = bridges \ {finishing}
  /\ scheduled' = scheduled \cup {finishing}
  /\ finishing' = None
  /\ response' = IF phase = "spin"
                 THEN [service |-> "finish", code |-> "OK", id |-> finishing]
                 ELSE response
  /\ UNCHANGED << collatorVars, builders, trajState, subscribers, topics, mainVars, crashed >>

HandleFinish(tr) ==
  /\ Free
  /\ IF FinishCode(tr) = "OK" /\ tr \notin scheduled
     THEN BeginFinish(tr) /\ UNCHANGED response
     ELSE /\ response' = [service |-> "finish", code |-> FinishCode(tr), id |-> tr]
          /\ UNCHANGED << collatorVars, finishing, topics, subscribers >>
  /\ UNCHANGED << slamVars, bridges, scheduled, mainVars, crashed >>

\* handleWriteState; serialized is what SerializeState returns: whether the file
\* could be written.
HandleWriteState(serialized) ==
  /\ Free
  /\ response' = [service |-> "write", id |-> 0,
                  code |-> IF serialized THEN "OK" ELSE "INVALID_ARGUMENT"]
  /\ UNCHANGED << collatorVars, slamVars, nodeVars, mainVars, finishing, crashed >>

(***************************************************************************)
(* Sensor data.                                                            *)
(***************************************************************************)

\* A handler of Node: sensor_bridges_.at() throws where there is no bridge.
HandleSensorData(q, t) ==
  /\ Free
  /\ q[2] \in subscribers[q[1]]
  /\ IF q[1] \in bridges
     THEN AddSensorData(q, t) /\ UNCHANGED crashed
     ELSE crashed' = TRUE /\ UNCHANGED collatorVars
  /\ UNCHANGED << slamVars, nodeVars, mainVars, finishing, response >>

\* AddTrajectoryIfNeeded of the pose graph, for a new node.
AddTrajectoryIfNeeded(tr) ==
  IF trajState[tr] \in {"finished", "deleted"}
  THEN crashed' = TRUE /\ UNCHANGED trajState
  ELSE /\ trajState' = [trajState EXCEPT ![tr] = IF @ = "none" THEN "active" ELSE @]
       /\ UNCHANGED crashed

\* An iteration of Dispatch; data of a range sensor may become a node.
CollateStep(c) ==
  /\ Running
  /\ Dispatch(c)
  /\ \/ /\ Delivers(c) /\ Earliest(c)[2] \in RangeSensors
        /\ AddTrajectoryIfNeeded(Earliest(c)[1])
     \/ UNCHANGED << trajState, crashed >>
  /\ UNCHANGED << builders, pgQueue, nodeVars, mainVars, finishing, response >>

MarkStep ==
  /\ Running
  /\ MarkQueueAsFinished
  /\ UNCHANGED << slamVars, nodeVars, mainVars, finishing, response, crashed >>

(***************************************************************************)
(* The pose graph's thread.                                                *)
(***************************************************************************)

WorkItem ==
  /\ Running /\ pgQueue # << >>
  /\ LET item == Head(pgQueue)
         to == IF item.do = "finish" THEN "finished" ELSE "frozen" IN
     IF trajState[item.tr] = to
     THEN crashed' = TRUE /\ UNCHANGED << trajState, pgQueue >>
     ELSE /\ trajState' = [trajState EXCEPT ![item.tr] = to]
          /\ pgQueue' = Tail(pgQueue)
          /\ UNCHANGED crashed
  /\ UNCHANGED << collatorVars, builders, nodeVars, mainVars, finishing, response >>

\* PureLocalizationTrimmer, for a trajectory that was added with it.
Trim(tr) ==
  /\ Running /\ Trimmer
  /\ trajState[tr] = "finished"
  /\ Loaded # "no" => tr # 0
  /\ trajState' = [trajState EXCEPT ![tr] = "deleted"]
  /\ UNCHANGED << collatorVars, builders, pgQueue, nodeVars, mainVars, finishing,
                  response, crashed >>

(***************************************************************************)
(* The main thread: the start, and what follows rclcpp::spin.              *)
(***************************************************************************)

TNInit ==
  /\ CollatorInit
  /\ builders = FirstId(Loaded)
  /\ trajState = [tr \in Trajectories |->
                    IF tr # 0 \/ Loaded = "no" THEN "none"
                    ELSE IF Loaded = "frozen" THEN "frozen" ELSE "active"]
  /\ pgQueue = IF Loaded = "freezing" THEN << [do |-> "freeze", tr |-> 0] >> ELSE << >>
  /\ bridges = {} /\ topics = {} /\ scheduled = {}
  /\ subscribers = [tr \in Trajectories |-> {}]
  /\ finishing = None /\ response = None
  /\ phase = "start" /\ toFinish = {}
  /\ crashed = FALSE

\* StartTrajectoryWithDefaultTopics, if the flag is set.
StartWithDefaultTopics ==
  /\ phase = "start"
  /\ phase' = "spin"
  /\ IF DefaultTopics # {}
     THEN AddNodeTrajectory(DefaultTopics)
     ELSE UNCHANGED << collatorVars, builders, bridges, subscribers, topics, crashed >>
  /\ UNCHANGED << trajState, pgQueue, scheduled, finishing, response, toFinish >>

Active == {tr \in Trajectories : StateOf(tr) = "active"}

\* Interrupt: FinishAllTrajectories, RunFinalOptimization, ~Node.
PhaseAfter == [spin |-> "finishAll", finishAll |-> "final", final |-> "destroy"]

Proceed ==
  /\ Running /\ Idle /\ finishing = None /\ response = None
  /\ phase \in DOMAIN PhaseAfter
  /\ toFinish = {}
  /\ phase = "final" => pgQueue = << >>
  /\ phase' = PhaseAfter[phase]
  /\ toFinish' = Active
  /\ UNCHANGED << collatorVars, slamVars, nodeVars, finishing, response, crashed >>

\* An iteration of the loops over the active trajectories, which CHECK that each
\* can be finished.
FinishNext ==
  /\ Running /\ Idle /\ finishing = None
  /\ toFinish # {}
  /\ LET tr == Min(toFinish) IN
     /\ toFinish' = toFinish \ {tr}
     /\ IF FinishCode(tr) = "OK" /\ tr \notin scheduled
        THEN BeginFinish(tr)
        ELSE UNCHANGED << collatorVars, finishing, topics, subscribers >>
     /\ crashed' = (FinishCode(tr) # "OK")
  /\ UNCHANGED << slamVars, bridges, scheduled, phase, response >>

Finished == phase = "destroy" /\ toFinish = {} /\ finishing = None /\ Idle

(***************************************************************************)
(* Properties of the state.                                                *)
(***************************************************************************)

TNTypeOK ==
  /\ CollatorTypeOK
  /\ builders \in Nat
  /\ trajState \in [Trajectories -> States]
  /\ pgQueue \in Seq([do : {"finish", "freeze"}, tr : Trajectories])
  /\ bridges \subseteq Trajectories /\ scheduled \subseteq Trajectories
  /\ subscribers \in [Trajectories -> SUBSET Sensors] /\ topics \subseteq Sensors
  /\ finishing \in Trajectories \cup {None}
  /\ response \in [service : {"start", "finish", "write"}, code : Codes, id : Trajectories] \cup {None}
  /\ phase \in {"start", "spin", "finishAll", "final", "destroy"}
  /\ toFinish \subseteq Trajectories
  /\ crashed \in BOOLEAN
=============================================================================
