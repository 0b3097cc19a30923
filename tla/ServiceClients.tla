---------------------------- MODULE ServiceClients ----------------------------
(***************************************************************************)
(* The two clients of cartographer_node's services.  One launch file       *)
(* (stack_master/launch/middle_level.launch.xml) starts finish_map.py when *)
(* the car maps (MapFinish.tla) and set_initial_pose_node.py when it       *)
(* localizes itself in a map (Relocalization.tla): never both.             *)
(***************************************************************************)
EXTENDS TrajectoryNode

CONSTANTS
  LateNode,   \* when mapping, cartographer_node may come up after the script
  Patient,    \* the user waits until the last click has had its effect
  MaxClicks   \* bound on the clicks when localizing, for TLC

\* What the node may answer.
Answers == [service : {"start", "finish", "write"}, code : Codes, id : Trajectories]

ASSUME ClientsAssumption ==
  /\ LateNode \in BOOLEAN /\ Patient \in BOOLEAN /\ MaxClicks \in Nat
  /\ None \notin Answers

VARIABLES
  session,    \* "mapping" or "localization"
  up, clicked, shouldSave, timerOn, step, request, answer, written, writable,
  trajectoryNum, pose, timers, startTimer, numTimers, fired,
  finishReqs, finishResps, startReqs, startResps, startedAt, alive

\* No state is loaded, nothing is trimmed, and no trajectory is added.
Mapping == INSTANCE MapFinish
  WITH SensorSets <- {}, Loaded <- "no", Trimmer <- FALSE

Localizing == INSTANCE Relocalization

mappingVars ==
  << up, clicked, shouldSave, timerOn, step, request, answer, written, writable >>
localizingVars ==
  << trajectoryNum, pose, timers, startTimer, numTimers, fired,
     finishReqs, finishResps, startReqs, startResps, startedAt, alive >>
clientsVars == << session, tnVars, mappingVars, localizingVars >>

\* Of the client that is not started nothing happens.
ClientsInit ==
  \/ /\ session = "mapping" /\ Mapping!Init
     /\ trajectoryNum = 1 /\ pose = 0 /\ timers = << >> /\ startTimer = 0
     /\ numTimers = 0 /\ fired = {} /\ finishReqs = << >> /\ finishResps = << >>
     /\ startReqs = << >> /\ startResps = << >> /\ startedAt = 0 /\ alive = FALSE
  \/ /\ session = "localization" /\ Localizing!Init
     /\ up = TRUE /\ clicked = FALSE /\ shouldSave = FALSE /\ timerOn = FALSE
     /\ step = "ended" /\ request = None /\ answer = None /\ written = None
     /\ writable = TRUE

ClientsNext ==
  \/ session = "mapping" /\ Mapping!Next /\ UNCHANGED << session, localizingVars >>
  \/ session = "localization" /\ Localizing!Next /\ UNCHANGED << session, mappingVars >>

ClientsSpec == ClientsInit /\ [][ClientsNext]_clientsVars

LiveClientsSpec ==
  /\ ClientsSpec
  /\ session = "mapping" => Mapping!Fairness
  /\ session = "localization" => Localizing!Fairness

(***************************************************************************)
(* Properties: those of the client that is started.                        *)
(***************************************************************************)

\* When mapping, a click that comes when the node is up has the finished map
\* written if the file can be, also if the node came up after the script had
\* stopped waiting for it: the requests of finish_map.py follow each other, the
\* trajectory gets no data any more when write_state is served, and write_state
\* answers OK, though the script looks at neither status.
SavedIfServed == session = "mapping" => Mapping!SavedIfServed

\* When localizing, while nothing is under way the number that
\* set_initial_pose_node.py counts is the id of the only trajectory that
\* listens to the sensors, though it never reads an id from an answer.
NumberIsCurrent == session = "localization" => Localizing!NumberIsCurrent

\* When localizing, time and again the trajectory that was started last is at
\* the pose that was clicked last.
LastPoseIsSet == session = "localization" => Localizing!LastPoseIsSet
=============================================================================
