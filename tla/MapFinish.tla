------------------------------- MODULE MapFinish -------------------------------
(***************************************************************************)
(* Saving the map (stack_master/scripts/finish_map.py): after a click in   *)
(* RViz the mapping trajectory of cartographer_node is finished, its state *)
(* is written, the occupancy grid saved and the workspace rebuilt; then    *)
(* the script ends.  It waits five seconds for the services when it        *)
(* starts and goes on without them; a request that nobody serves is lost.  *)
(***************************************************************************)
EXTENDS TrajectoryNode

CONSTANT LateNode  \* cartographer_node may come up after the script

VARIABLES
  up,          \* cartographer_node serves
  clicked,     \* the user has clicked
  shouldSave,  \* should_save
  timerOn,     \* the timer is not cancelled
  step,        \* what the script waits for, or where it is
  request,     \* what is on its way to the node, or None
  answer,      \* what is on its way to the script, or None
  written,     \* what write_state answered, and whether the map was finished
  writable     \* the script's file can be written

scriptVars == << shouldSave, timerOn, step >>
vars == << tnVars, up, clicked, scriptVars, request, answer, written, writable >>

Init ==
  /\ TNInit
  /\ up = ~LateNode
  /\ clicked = FALSE /\ shouldSave = FALSE /\ timerOn = TRUE
  /\ step = "idle"
  /\ request = None /\ answer = None /\ written = None
  /\ writable \in BOOLEAN

(***************************************************************************)
(* The script.                                                             *)
(***************************************************************************)

goal_pose_callback ==
  /\ step # "ended"
  /\ clicked' = TRUE /\ shouldSave' = TRUE
  /\ UNCHANGED << tnVars, up, timerOn, step, request, answer, written, writable >>

Send(service) == request' = IF up THEN service ELSE None

\* Mutant: the timer is cancelled before there is anything to save.
check_and_save_Cancels ==
  /\ timerOn /\ step = "idle"
  /\ timerOn' = FALSE
  /\ IF shouldSave
     THEN step' = "finish" /\ Send("finish")
     ELSE UNCHANGED << step, request >>
  /\ UNCHANGED << tnVars, up, clicked, shouldSave, answer, written, writable >>

\* check_and_save and finish_and_save_map: the timer is cancelled for good.
check_and_save ==
  /\ timerOn /\ shouldSave
  /\ timerOn' = FALSE
  /\ step' = "finish"
  /\ Send("finish")
  /\ UNCHANGED << tnVars, up, clicked, shouldSave, answer, written, writable >>

\* finish_trajectory_callback and save_pbstream, whatever the status says.
finish_trajectory_callback ==
  /\ step = "finish" /\ answer # None
  /\ answer' = None
  /\ step' = "write"
  /\ Send("write")
  /\ UNCHANGED << tnVars, up, clicked, shouldSave, timerOn, written, writable >>

\* write_state_callback, save_occupancy_grid and rebuild_workspace, whatever
\* the status says and however the two commands end.
write_state_callback ==
  /\ step = "write" /\ answer # None
  /\ answer' = None
  /\ step' = "ended"
  /\ UNCHANGED << tnVars, up, clicked, shouldSave, timerOn, request, written,
                  writable >>

(***************************************************************************)
(* cartographer_node.                                                      *)
(***************************************************************************)

ComeUp ==
  /\ ~up
  /\ up' = TRUE
  /\ UNCHANGED << tnVars, clicked, scriptVars, request, answer, written, writable >>

Serve ==
  /\ up /\ request # None
  /\ \/ request = "finish" /\ HandleFinish(0)
     \/ request = "write" /\ HandleWriteState(writable)
  /\ request' = None
  /\ UNCHANGED << up, clicked, scriptVars, answer, written, writable >>

Respond ==
  /\ response # None
  /\ response' = None
  /\ answer' = response
  /\ written' = IF response.service = "write"
                THEN [code |-> response.code, finished |-> 0 \in scheduled]
                ELSE written
  /\ UNCHANGED << collatorVars, slamVars, nodeVars, mainVars, finishing, crashed,
                  up, clicked, scriptVars, request, writable >>

NodeStep ==
  /\ up
  /\ \/ \E c \in Collators : CollateStep(c)
     \/ MarkStep
     \/ EndFinish
     \/ WorkItem
     \/ StartWithDefaultTopics
     \/ \E q \in Queues : Len(queue[q]) < 2 /\ HandleSensorData(q, 1)
  /\ UNCHANGED << up, clicked, scriptVars, request, answer, written, writable >>

Next ==
  \/ goal_pose_callback
  \/ check_and_save
  \/ finish_trajectory_callback
  \/ write_state_callback
  \/ ComeUp
  \/ Serve
  \/ Respond
  \/ NodeStep

Spec == Init /\ [][Next]_vars

\* The script spins, the node serves and does what is queued.
Fairness ==
  /\ WF_vars(check_and_save)
  /\ WF_vars(finish_trajectory_callback)
  /\ WF_vars(write_state_callback)
  /\ WF_vars(ComeUp)
  /\ SF_vars(Serve)
  /\ WF_vars(Respond)
  /\ WF_vars(NodeStep)

LiveSpec == Spec /\ Fairness

(***************************************************************************)
(* Properties.                                                             *)
(***************************************************************************)

\* A click saves the map if the node is up by then, whether it came up before
\* the script or after it has stopped waiting: the requests follow each other
\* until write_state is answered.  What is written is the finished map: the
\* trajectory gets no data any more and its end is queued in the pose graph,
\* though the status that finish_trajectory answers is not looked at.  It is
\* written if the file can be; else the script, which does not look at that
\* status either, ends just the same.
SavedIfServed ==
  [](clicked => up) =>
    (clicked ~> /\ written # None /\ written.finished
                /\ writable => written.code = "OK")

\* "Click '2D Goal Pose' in RViz to finish mapping and save the map"
\* (finish_map.py:67): once clicked, write_state is answered.
ClickSaves == clicked ~> written # None
=============================================================================
