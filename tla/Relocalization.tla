----------------------------- MODULE Relocalization -----------------------------
(***************************************************************************)
(* Setting the pose in localization (stack_master/scripts/                 *)
(* set_initial_pose_node.py): a click in RViz finishes the current         *)
(* trajectory of cartographer_node and, half a second after the answer,    *)
(* starts a new one at the pose that was clicked last.                     *)
(*                                                                         *)
(* The client node is spun by one thread.  A request and its answer may    *)
(* take any time; a service's requests are answered in their order.  All   *)
(* timers have the same period, so that they fire in turn.  Sensor data is *)
(* left out: TrajectoryServices.tla has it.                                *)
(***************************************************************************)
EXTENDS TrajectoryNode

CONSTANTS
  Patient,    \* the user waits until the last click has had its effect
  MaxClicks   \* bound on the clicks, for TLC

VARIABLES
  trajectoryNum,  \* trajectory_num
  pose,           \* current_pose_msg: the number of the click, or 0
  timers,         \* the node's timers in the order in which they fire next
  startTimer,     \* _start_timer, or 0
  numTimers,      \* how many have been created
  fired,          \* the timers whose callback has run
  finishReqs, finishResps,  \* what is on its way for /finish_trajectory
  startReqs, startResps,    \* and for /start_trajectory
  startedAt,      \* the pose of the last trajectory that was started, or 0
  alive           \* no exception has ended the client's spin

clientVars == << trajectoryNum, pose, timers, startTimer, numTimers, fired, alive >>
networkVars == << finishReqs, finishResps, startReqs, startResps >>
vars == << tnVars, clientVars, networkVars, startedAt >>

Init ==
  /\ TNInit
  /\ trajectoryNum = 1 /\ pose = 0
  /\ timers = << >> /\ startTimer = 0 /\ numTimers = 0 /\ fired = {}
  /\ finishReqs = << >> /\ finishResps = << >>
  /\ startReqs = << >> /\ startResps = << >>
  /\ startedAt = 0 /\ alive = TRUE

\* Nothing of an earlier click is under way.
Quiet ==
  /\ timers = << >>
  /\ finishReqs = << >> /\ finishResps = << >>
  /\ startReqs = << >> /\ startResps = << >>
  /\ finishing = None /\ response = None

(***************************************************************************)
(* The client's callbacks.                                                 *)
(***************************************************************************)

\* Mutant: the map's trajectory is finished.
initial_pose_callback_Map ==
  /\ alive /\ pose < MaxClicks
  /\ Patient => Quiet /\ phase = "spin"
  /\ pose' = pose + 1
  /\ finishReqs' = Append(finishReqs, 0)
  /\ UNCHANGED << tnVars, trajectoryNum, timers, startTimer, numTimers, fired, alive,
                  finishResps, startReqs, startResps, startedAt >>

initial_pose_callback ==
  /\ alive /\ pose < MaxClicks
  /\ Patient => Quiet /\ phase = "spin"
  /\ pose' = pose + 1
  /\ finishReqs' = Append(finishReqs, trajectoryNum)
  /\ UNCHANGED << tnVars, trajectoryNum, timers, startTimer, numTimers, fired, alive,
                  finishResps, startReqs, startResps, startedAt >>

\* Whatever the status says, since a result is never None.
finish_trajectory_callback ==
  /\ alive /\ finishResps # << >>
  /\ finishResps' = Tail(finishResps)
  /\ numTimers' = numTimers + 1
  /\ startTimer' = numTimers + 1
  /\ timers' = Append(timers, numTimers + 1)
  /\ UNCHANGED << tnVars, trajectoryNum, pose, fired, alive,
                  finishReqs, startReqs, startResps, startedAt >>

\* _start_trajectory_once of the timer that is due.  It cancels and destroys
\* _start_timer, which may be another one; to cancel a timer that has been
\* destroyed raises an exception, which ends the client.
start_trajectory_once ==
  /\ alive /\ timers # << >>
  /\ LET inTurn == Append(Tail(timers), Head(timers)) IN
     timers' = RemoveFirst(inTurn, startTimer)
  /\ fired' = fired \cup {Head(timers)}
  /\ IF startTimer \in Range(timers)
     THEN startReqs' = Append(startReqs, pose) /\ UNCHANGED alive
     ELSE alive' = FALSE /\ UNCHANGED startReqs
  /\ UNCHANGED << tnVars, trajectoryNum, pose, startTimer, numTimers,
                  finishReqs, finishResps, startResps, startedAt >>

\* Mutant: the number stays that of the trajectory that was finished.
start_trajectory_callback_Stale ==
  /\ alive /\ startResps # << >>
  /\ startResps' = Tail(startResps)
  /\ trajectoryNum' = trajectoryNum
  /\ UNCHANGED << tnVars, pose, timers, startTimer, numTimers, fired, alive,
                  finishReqs, finishResps, startReqs, startedAt >>

start_trajectory_callback ==
  /\ alive /\ startResps # << >>
  /\ startResps' = Tail(startResps)
  /\ trajectoryNum' = trajectoryNum + 1
  /\ UNCHANGED << tnVars, pose, timers, startTimer, numTimers, fired, alive,
                  finishReqs, finishResps, startReqs, startedAt >>

(***************************************************************************)
(* cartographer_node.                                                      *)
(***************************************************************************)

ServeFinish ==
  /\ finishReqs # << >>
  /\ HandleFinish(Head(finishReqs))
  /\ finishReqs' = Tail(finishReqs)
  /\ UNCHANGED << clientVars, finishResps, startReqs, startResps, startedAt >>

\* relative_to_trajectory_id is 0, the trajectory of the map.
ServeStart ==
  /\ startReqs # << >>
  /\ \E sensors \in SensorSets :
       /\ HandleStart(sensors, 0)
       /\ startedAt' = IF StartCode(sensors, 0) = "OK" THEN Head(startReqs) ELSE startedAt
  /\ startReqs' = Tail(startReqs)
  /\ UNCHANGED << clientVars, finishReqs, finishResps, startResps >>

Respond ==
  /\ response # None
  /\ response' = None
  /\ IF response.service = "finish"
     THEN finishResps' = Append(finishResps, response) /\ UNCHANGED startResps
     ELSE startResps' = Append(startResps, response) /\ UNCHANGED finishResps
  /\ UNCHANGED << collatorVars, slamVars, nodeVars, mainVars, finishing, crashed,
                  clientVars, finishReqs, startReqs, startedAt >>

NodeStep ==
  /\ \/ \E c \in Collators : CollateStep(c)
     \/ MarkStep
     \/ EndFinish
     \/ WorkItem
     \/ \E tr \in Trajectories : Trim(tr)
     \/ StartWithDefaultTopics
  /\ UNCHANGED << clientVars, networkVars, startedAt >>

Next ==
  \/ initial_pose_callback
  \/ finish_trajectory_callback
  \/ start_trajectory_once
  \/ start_trajectory_callback
  \/ ServeFinish
  \/ ServeStart
  \/ Respond
  \/ NodeStep

Spec == Init /\ [][Next]_vars

\* Both nodes spin and the services answer.
Fairness ==
  /\ WF_vars(finish_trajectory_callback)
  /\ WF_vars(start_trajectory_once)
  /\ WF_vars(start_trajectory_callback)
  /\ WF_vars(ServeFinish)
  /\ WF_vars(ServeStart)
  /\ WF_vars(Respond)
  /\ WF_vars(NodeStep)

LiveSpec == Spec /\ Fairness

(***************************************************************************)
(* Properties.                                                             *)
(***************************************************************************)

\* "Finish current trajectory" (set_initial_pose_node.py:55): while nothing is
\* under way the number the client counts is the id of the only trajectory that
\* listens to the sensors, though it never reads an id from an answer.
NumberIsCurrent ==
  Quiet /\ phase = "spin" =>
    {tr \in Trajectories : subscribers[tr] # {}} = {trajectoryNum}

\* "Click the '2D Pose Estimate' button in RViz to set the robot's pose"
\* (set_initial_pose_node.py:46): time and again the trajectory that was started
\* last is at the pose that was clicked last.
LastPoseIsSet == []<>(startedAt = pose)

\* "One-shot timer callback" (set_initial_pose_node.py:77): no timer's callback
\* runs twice.
OneShot ==
  [][start_trajectory_once => Head(timers) \notin fired]_vars
=============================================================================
