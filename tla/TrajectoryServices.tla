-------------------------- MODULE TrajectoryServices --------------------------
(***************************************************************************)
(* cartographer_node under any clients: services are called in any order   *)
(* and with any trajectory, sensors publish, the node is interrupted.      *)
(***************************************************************************)
EXTENDS TrajectoryNode

CONSTANTS
  Skew,      \* a sensor's first data may be older than what was dispatched
  Horizon,   \* bound on times, for TLC
  MaxQueue   \* bound on the length of a queue, for TLC

ASSUME ServicesAssumption ==
  Skew \in BOOLEAN /\ Horizon \in Nat /\ MaxQueue \in Nat

\* What a trajectory may subscribe to.
Subscriptions == SensorSets \cup ({DefaultTopics} \ {{}})

\* Any two trajectories need a topic in common, as on the car, where each needs
\* "scan" (num_laser_scans of its options): the node refuses to start one before
\* the other is finished.
CommonTopic == \A S, T \in Subscriptions : S \cap T # {}

VARIABLE clock  \* the time of the last message of each sensor

vars == << tnVars, clock >>

Init == TNInit /\ clock = [s \in Sensors |-> 0]

Start ==
  /\ \E sensors \in SensorSets, rel \in Trajectories \cup {None} : HandleStart(sensors, rel)
  /\ UNCHANGED clock

Finish ==
  /\ \E tr \in Trajectories : HandleFinish(tr)
  /\ UNCHANGED clock

WriteState ==
  /\ \E serialized \in BOOLEAN : HandleWriteState(serialized)
  /\ UNCHANGED clock

TakeResponse ==
  /\ response # None
  /\ response' = None
  /\ UNCHANGED << collatorVars, slamVars, nodeVars, mainVars, finishing, crashed, clock >>

\* Messages of a sensor come in the order of their times.
Data(q, t) ==
  /\ t >= clock[q[2]]
  /\ Len(queue[q]) < MaxQueue
  /\ ~Skew => t >= lastTime[CollatorOf(q[1])]
  /\ HandleSensorData(q, t)
  /\ clock' = [clock EXCEPT ![q[2]] = t]

NodeStep ==
  /\ \/ \E c \in Collators : CollateStep(c)
     \/ MarkStep
     \/ EndFinish
     \/ WorkItem
     \/ \E tr \in Trajectories : Trim(tr)
     \/ StartWithDefaultTopics
     \/ Proceed
     \/ FinishNext
  /\ UNCHANGED clock

Next ==
  \/ Start
  \/ Finish
  \/ WriteState
  \/ TakeResponse
  \/ \E q \in Queues, t \in 1 .. Horizon : Data(q, t)
  \/ NodeStep

Spec == Init /\ [][Next]_vars

\* The pose graph's thread and the thread that spins run.
Fairness ==
  /\ WF_vars(WorkItem /\ UNCHANGED clock)
  /\ WF_vars((EndFinish \/ MarkStep \/ \E c \in Collators : CollateStep(c)) /\ UNCHANGED clock)

LiveSpec == Spec /\ Fairness

(***************************************************************************)
(* Properties.                                                             *)
(***************************************************************************)

\* The state of the node is well typed.
TypeOK == TNTypeOK /\ clock \in [Sensors -> Nat]

\* No CHECK and no at() of the node, the map builder, the collator or the pose
\* graph fails: no trajectory is finished twice, none gets a message or a node
\* after it was finished, and data is dispatched in order.  That holds with the
\* collator that all trajectories share, as on the car (map_builder.lua:22), where
\* they have a topic in common (CommonTopic) and the data of a new trajectory is
\* not older than what was dispatched (~Skew); or, whatever they subscribe to and
\* send, with a collator for each (map_builder_server.lua:28).
NoCheckFails == ~checkFailed /\ ~crashed

\* A topic is in use exactly while one trajectory listens to it, though the set
\* of topics and the subscribers are kept apart.
TopicsInUse ==
  /\ topics = UNION {subscribers[tr] : tr \in Trajectories}
  /\ \A tr, other \in Trajectories :
       tr # other => subscribers[tr] \cap subscribers[other] = {}

\* At the shutdown the final optimization has run without active trajectories
\* and every queue of the collator is finished, as its destructor CHECKs
\* (ordered_multi_queue.cc:43-47), whatever the pose graph had worked off
\* when the loops looked.
ShutdownIsClean ==
  Finished => Active = {} /\ open \subseteq finished

\* A trajectory that is pending to finish is eventually finished, unless a CHECK
\* fails.
FinishTakesEffect ==
  \A tr \in Trajectories :
    tr \in scheduled ~> trajState[tr] \in {"finished", "deleted"} \/ ~Running

=============================================================================
