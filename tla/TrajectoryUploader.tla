-------------------------- MODULE TrajectoryUploader ---------------------------
(***************************************************************************)
(* A Cartographer server on the car and the server in the cloud that it    *)
(* uploads its local SLAM results to: cloud/internal/                      *)
(* local_trajectory_uploader.cc and map_builder_server.cc on the car, the  *)
(* handlers, the submap controller and the checks of PoseGraph2D in the    *)
(* cloud.                                                                  *)
(*                                                                         *)
(* The uploader's thread sends batches; when a call fails it tries to      *)
(* recover: wait for the connection, skip to the next new submap, forget   *)
(* the cloud's trajectories and register all anew.  The cloud may crash    *)
(* and restart, and a call may be lost or its answer.                      *)
(*                                                                         *)
(* A result is told from others by its submaps and their range data.       *)
(* Submap indices are kept modulo Indices.  The cloud's queue of incoming  *)
(* data is left out: the SLAM thread inserts a result when the handler     *)
(* gets it.  IMU and odometry data, which go the same way, are left out.   *)
(***************************************************************************)
EXTENDS Integers, Sequences, FiniteSetsExt, SequencesExt

CONSTANTS
  NumTrajectories, \* bound of the local trajectories, 1, 2, ..., one after another
  NumRangeData,    \* num_range_data of the submaps
  Indices,         \* submaps are numbered modulo this
  BatchSize,       \* upload_batch_size
  MaxQueue,        \* bound of send_queue_, which the code does not bound
  ShortOutages,    \* the connection is only away for the 60 s of a recovery when
                   \* the cloud's server is down
  None

Trajectories == 1 .. NumTrajectories

\* One more than the uploader can know at a time: see Named.
CloudIds == 0 .. NumTrajectories

SubmapIndices == 0 .. Indices - 1

\* The insertion of the local trajectory, a local SLAM result, a trajectory of
\* the cloud.
Insertions == [t : Trajectories, two : BOOLEAN, count : 0 .. NumRangeData]
Results ==
  [t : Trajectories, count : 1 .. NumRangeData,
   front : SubmapIndices \union {None}, back : SubmapIndices]
CloudTrajectories ==
  [of : Trajectories, finished : BOOLEAN, submaps : Seq(SubmapIndices),
   unfinished : SUBSET SubmapIndices, latest : Results \union {None}, gap : BOOLEAN]

ASSUME UploaderAssumption ==
  /\ NumTrajectories \in Nat /\ NumRangeData \in Nat \ {0}
  /\ Indices \in Nat /\ Indices > 2
  /\ BatchSize \in Nat \ {0} /\ MaxQueue \in Nat \ {0}
  /\ ShortOutages \in BOOLEAN
  /\ None \notin Nat \union Insertions \union Results \union CloudTrajectories

VARIABLES
  active,    \* the local trajectory: [t, two, count] of its last result, or None
  adding,    \* the one whose AddTrajectory is in progress, or None
  starting,  \* starting_submap_index_
  queue,     \* send_queue_
  known,     \* keys of local_trajectory_id_to_trajectory_info_
  uplink,    \* their uplink_trajectory_id, or None
  pc,        \* where the uploader's thread is
  todo,      \* the trajectories that TryRecovery has not yet registered
  batch,     \* batch_request: pairs of a result and the id it goes to
  server,    \* MapBuilderServer: "up", "stopping", "down"
  net,       \* "good", "bad": calls may be lost, "dead": no server in the cloud
  cloud,     \* its trajectories
  failed     \* a CHECK of the cloud's server has failed

carVars == << active, adding, starting, queue >>
uploaderVars == << known, uplink, pc, todo, batch >>
cloudVars == << cloud, failed >>
vars == << carVars, uploaderVars, server, net, cloudVars >>

-----------------------------------------------------------------------------
(***************************************************************************)
(* Local SLAM results.                                                     *)
(***************************************************************************)

NextIndex(i) == (i + 1) % Indices

\* ActiveSubmaps2D::InsertRangeData: count is num_range_data of the last
\* submap; the one before it has NumRangeData more.
InsertRangeData(a) ==
  IF a.count < NumRangeData THEN [a EXCEPT !.count = @ + 1]
                            ELSE [a EXCEPT !.count = 1, !.two = a.count > 0]

FrontFinished(r) == r.front # None /\ r.count = NumRangeData

\* CreateSensorDataForLocalSlamResult, for the insertion a.
LocalSlamResult(a) ==
  [t |-> a.t, count |-> a.count,
   front |-> IF a.two THEN starting ELSE None,
   back |-> IF a.two THEN NextIndex(starting) ELSE starting]

\* The insertion of q is the one after that of r.
Follows(q, r) ==
  IF r.count < NumRangeData
  THEN q = [r EXCEPT !.count = @ + 1]
  ELSE q = [t |-> r.t, count |-> 1, front |-> r.back, back |-> NextIndex(r.back)]

\* Mutant: the submap that is filled longer is asked.
IsNewSubmap_First(r) == r.front = None /\ r.count = 1

\* Of the last submap of the result.
IsNewSubmap(r) == r.count = 1

(***************************************************************************)
(* The cloud.  Of a trajectory: whose results it expects, the last two     *)
(* submaps of its pose graph, unfinished_submaps_; and, for the            *)
(* properties, the last result it got and if it has missed one between.    *)
(***************************************************************************)

NewTrajectory(t) ==
  [of |-> t, finished |-> FALSE, submaps |-> << >>, unfinished |-> {},
   latest |-> None, gap |-> FALSE]

\* Mutant: a submap that is not known is created with what it has.
CreateSubmap_Any(count) == TRUE

CreateSubmap(count) == count = 1

\* UpdateSubmap gives a submap, and not the null pointer.
IsAccepted(tr, index, count) == index \in tr.unfinished \/ CreateSubmap(count)

\* The submaps of r that LocalSlamResult2D::AddToPoseGraph goes on with.
Accepted(tr, r) ==
  (IF r.front # None /\ IsAccepted(tr, r.front, NumRangeData + r.count)
   THEN << r.front >> ELSE << >>)
  \o (IF IsAccepted(tr, r.back, r.count) THEN << r.back >> ELSE << >>)

\* The CHECKs of InitializeGlobalSubmapPoses, for the submaps of a node.
SubmapsFit(tr, s) ==
  IF Len(s) = 1
  THEN tr.submaps = << >> \/ tr.submaps = s
  ELSE tr.submaps # << >> /\ (Last(tr.submaps) = s[1] \/ tr.submaps = s)

LastTwo(s) == IF Len(s) > 2 THEN Tail(s) ELSE s

\* AppendNode: the last submap of the node may be new.
AppendSubmap(tr, s) ==
  IF tr.submaps # << >> /\ Last(tr.submaps) = Last(s)
  THEN tr.submaps ELSE LastTwo(Append(tr.submaps, Last(s)))

\* LocalSlamResult2D::AddToPoseGraph.
AddToPoseGraph(tr, r) ==
  LET s == Accepted(tr, r)
      done == {i \in tr.unfinished : i = r.front /\ FrontFinished(r)}
  IN  [tr EXCEPT !.unfinished = (@ \union ToSet(s)) \ done,
                 !.submaps = IF s = << >> THEN @ ELSE AppendSubmap(tr, s),
                 !.latest = r,
                 !.gap = @ \/ (tr.latest # None /\ ~ Follows(r, tr.latest))]

\* An item [r, id] of a batch.  The collator has a queue for the id of the
\* sensor of one local trajectory, until the trajectory is finished, and
\* ignores what is for another.
AddSensorData(acc, item) ==
  LET tr == acc.cloud[item.id]
  IN  IF ~ acc.ok THEN acc
      ELSE IF tr = None THEN [acc EXCEPT !.ok = FALSE]
      ELSE IF tr.of # item.r.t \/ tr.finished THEN acc
      ELSE LET s == Accepted(tr, item.r)
           IN  [acc EXCEPT !.cloud[item.id] = AddToPoseGraph(tr, item.r),
                           !.failed = @ \/ (s # << >> /\ ~ SubmapsFit(tr, s))]

\* AddSensorDataBatchHandler::OnRequest: ok, or NOT_FOUND after some.
AddSensorDataBatch(items) ==
  LET after[n \in 0 .. Len(items)] ==
        IF n = 0 THEN [cloud |-> cloud, failed |-> failed, ok |-> TRUE]
                 ELSE AddSensorData(after[n - 1], items[n])
  IN  after[Len(items)]

NextCloudId == Min({i \in CloudIds : cloud[i] = None})

\* The trajectories of the cloud that the uploader knows.  No call reaches
\* the others any more, and their numbers are used again.
Named(c, u) ==
  [i \in CloudIds |-> IF \E t \in Trajectories : u[t] = i THEN c[i] ELSE None]

(***************************************************************************)
(* What can become of a call: "lost" before the cloud's server, its        *)
(* answer "unheard" until the deadline, or "answered".                     *)
(***************************************************************************)
Outcomes ==
  CASE net = "dead" -> { "lost" }
    [] net = "good" -> { "answered" }
    [] net = "bad" -> { "lost", "unheard", "answered" }

\* If the answer is not heard, the cloud has a trajectory nobody knows.
RegisterTrajectory(t, o) ==
  IF o # "answered" THEN UNCHANGED << cloud, uplink >>
  ELSE /\ uplink' = [uplink EXCEPT ![t] = NextCloudId]
       /\ cloud' = Named([cloud EXCEPT ![NextCloudId] = NewTrajectory(t)], uplink')

-----------------------------------------------------------------------------
(***************************************************************************)
(* The car's server: handlers and SLAM thread, which hold its lock.        *)
(***************************************************************************)

\* AddTrajectoryHandler, up to LocalTrajectoryUploader::AddTrajectory's call.
\* One trajectory at a time, as starting_submap_index_ assumes.  The map has
\* no lock: a recovery that is registering may see the new entry or not.
AddTrajectory(t) ==
  /\ server = "up" /\ active = None /\ adding = None
  /\ t \notin known /\ \A u \in Trajectories : u < t => u \in known
  /\ known' = known \union {t}
  /\ adding' = t
  /\ \/ UNCHANGED todo
     \/ pc = "register" /\ todo' = todo \union {t}
  /\ UNCHANGED << active, starting, queue, uplink, pc, batch, server, net,
                  cloudVars >>

\* The call returns.  That it failed is only logged.
AddTrajectoryReturns ==
  /\ adding # None
  /\ \E o \in Outcomes : RegisterTrajectory(adding, o)
  /\ active' = [t |-> adding, two |-> FALSE, count |-> 0]
  /\ adding' = None
  /\ UNCHANGED << starting, queue, known, pc, todo, batch, server, net, failed >>

\* OnLocalSlamResult with an insertion.
OnLocalSlamResult ==
  /\ server = "up" /\ active # None
  /\ Len(queue) < MaxQueue
  /\ LET a == InsertRangeData(active)
         r == LocalSlamResult(a)
     IN  /\ active' = a
         /\ queue' = Append(queue, r)
         /\ starting' = IF FrontFinished(r) THEN NextIndex(starting) ELSE starting
  /\ UNCHANGED << adding, uploaderVars, server, net, cloudVars >>

\* FinishTrajectoryHandler, here and, when the call gets there, in the cloud,
\* where a second one would fail a CHECK of the collator.  Nothing is added
\* to the trajectory any more.
FinishTrajectory ==
  /\ server = "up" /\ active # None
  /\ active' = None
  /\ LET id == uplink[active.t]
     IN  IF id = None THEN UNCHANGED cloudVars
         ELSE \E o \in Outcomes :
                IF o = "lost" \/ cloud[id] = None THEN UNCHANGED cloudVars
                ELSE /\ cloud' = [cloud EXCEPT ![id] = [NewTrajectory(@.of) EXCEPT
                                                  !.finished = TRUE, !.gap = cloud[id].gap]]
                     /\ failed' = (failed \/ cloud[id].finished)
  /\ UNCHANGED << adding, starting, queue, uploaderVars, server, net >>

\* MapBuilderServer::Shutdown, to the join of the uploader's thread.
Shutdown ==
  /\ server = "up" /\ adding = None
  /\ server' = "stopping"
  /\ UNCHANGED << carVars, uploaderVars, net, cloudVars >>

Joined ==
  /\ server = "stopping" /\ pc = "ended"
  /\ server' = "down"
  /\ UNCHANGED << carVars, uploaderVars, net, cloudVars >>

shutting_down == server # "up"

(***************************************************************************)
(* The uploader's thread: ProcessSendQueue.                                *)
(***************************************************************************)

Loop ==
  /\ pc = "loop"
  /\ pc' = IF shutting_down THEN "ended" ELSE "pop"
  /\ UNCHANGED << carVars, known, uplink, todo, batch, server, net, cloudVars >>

PopTimesOut ==
  /\ pc = "pop" /\ queue = << >>
  /\ pc' = "loop"
  /\ UNCHANGED << carVars, known, uplink, todo, batch, server, net, cloudVars >>

\* None for a trajectory that is not registered.
TranslateTrajectoryId(r) == uplink[r.t]

Pop ==
  /\ pc = "pop" /\ queue # << >>
  /\ queue' = Tail(queue)
  /\ LET r == Head(queue)
         id == TranslateTrajectoryId(r)
     IN  IF id = None THEN batch' = << >> /\ pc' = "connect"
         ELSE /\ batch' = Append(batch, [r |-> r, id |-> id])
              /\ pc' = IF Len(batch') = BatchSize THEN "write" ELSE "loop"
  /\ UNCHANGED << active, adding, starting, known, uplink, todo, server, net,
                  cloudVars >>

\* client.Write.  What is not answered with OK is an unrecoverable error.
Write ==
  /\ pc = "write"
  /\ \E o \in Outcomes :
       LET got == AddSensorDataBatch(batch)
       IN  /\ IF o = "lost" THEN UNCHANGED cloudVars
              ELSE cloud' = got.cloud /\ failed' = got.failed
           /\ pc' = IF o = "answered" /\ got.ok THEN "loop" ELSE "connect"
  /\ batch' = << >>
  /\ UNCHANGED << carVars, known, uplink, todo, server, net >>

(***************************************************************************)
(* TryRecovery.                                                            *)
(***************************************************************************)

\* The channel is ready, or WaitForConnected sees it so in time.
Connect ==
  /\ pc = "connect" /\ net # "dead"
  /\ pc' = "skip"
  /\ UNCHANGED << carVars, known, uplink, todo, batch, server, net, cloudVars >>

ConnectTimesOut ==
  /\ pc = "connect"
  /\ net = "dead" \/ (net = "bad" /\ ~ ShortOutages)
  /\ pc' = "loop"
  /\ UNCHANGED << carVars, known, uplink, todo, batch, server, net, cloudVars >>

\* Mutant: the wait for a new submap does not look at shutting_down_.
Skip_Forever ==
  /\ pc = "skip"
  /\ pc' = "peek"
  /\ UNCHANGED << carVars, known, uplink, todo, batch, server, net, cloudVars >>

\* The test of shutting_down_ in the loop that skips to a new submap.
Skip ==
  /\ pc = "skip"
  /\ pc' = IF shutting_down THEN "loop" ELSE "peek"
  /\ UNCHANGED << carVars, known, uplink, todo, batch, server, net, cloudVars >>

PeekTimesOut ==
  /\ pc = "peek" /\ queue = << >>
  /\ pc' = "skip"
  /\ UNCHANGED << carVars, known, uplink, todo, batch, server, net, cloudVars >>

SkipResult ==
  /\ pc = "peek" /\ queue # << >> /\ ~ IsNewSubmap(Head(queue))
  /\ queue' = Tail(queue)
  /\ pc' = "skip"
  /\ UNCHANGED << active, adding, starting, known, uplink, todo, batch, server,
                  net, cloudVars >>

\* Mutant: the old trajectories are kept until they are registered anew.
NewSubmap_Keep ==
  /\ pc = "peek" /\ queue # << >> /\ IsNewSubmap(Head(queue))
  /\ todo' = known
  /\ pc' = "register"
  /\ UNCHANGED << carVars, known, uplink, batch, server, net, cloudVars >>

\* The next result starts a submap: all the cloud's trajectories are forgotten.
NewSubmap ==
  /\ pc = "peek" /\ queue # << >> /\ IsNewSubmap(Head(queue))
  /\ uplink' = [t \in Trajectories |-> None]
  /\ cloud' = Named(cloud, uplink')
  /\ todo' = known
  /\ pc' = "register"
  /\ UNCHANGED << carVars, known, batch, server, net, failed >>

\* In the order of the map; the first call that fails ends it.
Register ==
  /\ pc = "register" /\ todo # {}
  /\ \E o \in Outcomes :
       /\ RegisterTrajectory(Min(todo), o)
       /\ todo' = IF o = "answered" THEN todo \ {Min(todo)} ELSE {}
       /\ pc' = IF todo' = {} THEN "loop" ELSE "register"
  /\ UNCHANGED << carVars, known, batch, server, net, failed >>

Uploader ==
  \/ Loop \/ PopTimesOut \/ Pop \/ Write
  \/ Connect \/ ConnectTimesOut \/ Skip \/ PeekTimesOut \/ SkipResult \/ NewSubmap
  \/ Register

(***************************************************************************)
(* The network and the cloud's server.                                     *)
(***************************************************************************)

NetworkFails ==
  /\ net = "good"
  /\ net' = "bad"
  /\ UNCHANGED << carVars, uploaderVars, server, cloudVars >>

NetworkRecovers ==
  /\ net = "bad"
  /\ net' = "good"
  /\ UNCHANGED << carVars, uploaderVars, server, cloudVars >>

CloudCrashes ==
  /\ net # "dead"
  /\ net' = "dead"
  /\ cloud' = [i \in CloudIds |-> None]
  /\ UNCHANGED << carVars, uploaderVars, server, failed >>

CloudRestarts ==
  /\ net = "dead"
  /\ net' \in { "good", "bad" }
  /\ UNCHANGED << carVars, uploaderVars, server, cloudVars >>

-----------------------------------------------------------------------------
Init ==
  /\ active = None /\ adding = None /\ starting = 0 /\ queue = << >>
  /\ known = {} /\ uplink = [t \in Trajectories |-> None]
  /\ pc = "loop" /\ todo = {} /\ batch = << >>
  /\ server = "up"
  /\ net \in { "good", "bad", "dead" }
  /\ cloud = [i \in CloudIds |-> None] /\ failed = FALSE

Next ==
  \/ \E t \in Trajectories : AddTrajectory(t)
  \/ AddTrajectoryReturns \/ OnLocalSlamResult \/ FinishTrajectory
  \/ Shutdown \/ Joined
  \/ Uploader
  \/ NetworkFails \/ NetworkRecovers \/ CloudCrashes \/ CloudRestarts

Spec == Init /\ [][Next]_vars

\* The uploader's thread runs and each of its calls ends, handlers return and
\* the join is left; the car drives on, and so there are results.
LiveSpec ==
  /\ Spec
  /\ WF_vars(Uploader) /\ WF_vars(AddTrajectoryReturns) /\ WF_vars(Joined)
  /\ WF_vars(OnLocalSlamResult)

-----------------------------------------------------------------------------
TypeOK ==
  /\ active \in Insertions \union {None}
  /\ adding \in Trajectories \union {None}
  /\ starting \in SubmapIndices
  /\ queue \in Seq(Results) /\ Len(queue) <= MaxQueue
  /\ known \subseteq Trajectories /\ todo \subseteq known
  /\ uplink \in [Trajectories -> CloudIds \union {None}]
  /\ pc \in { "loop", "pop", "write", "connect", "skip", "peek", "register", "ended" }
  /\ batch \in Seq([r : Results, id : CloudIds]) /\ Len(batch) <= BatchSize
  /\ server \in { "up", "stopping", "down" }
  /\ net \in { "good", "bad", "dead" }
  /\ cloud \in [CloudIds -> CloudTrajectories \union {None}]
  /\ failed \in BOOLEAN

(***************************************************************************)
(* No CHECK of the cloud's server fails, whatever is lost on the way: the  *)
(* submaps of a node are the last one or two of its trajectory, or one is  *)
(* new (pose_graph_2d.cc:80-122), and no trajectory is finished twice.     *)
(***************************************************************************)
NoCheckFails == ~ failed

(***************************************************************************)
(* "Because the trajectories may be interrupted on the uplink side, we can *)
(* no longer upload to those" (local_trajectory_uploader.cc:181): what a   *)
(* trajectory of the cloud gets are results of one local trajectory, each  *)
(* the one after the last: none left out, none twice.                      *)
(***************************************************************************)
NothingLeftOut == \A i \in CloudIds : cloud[i] # None => ~ cloud[i].gap

\* The last submap of the active trajectory in the cloud is number 0.
AtFirstIndex ==
  /\ active # None /\ uplink[active.t] # None
  /\ LET tr == cloud[uplink[active.t]]
     IN  tr # None /\ tr.of = active.t /\ tr.submaps # << >> /\ Last(tr.submaps) = 0

\* No two trajectories are sent to the same number.
Apart == \A t, u \in known : t # u /\ uplink[t] # None => uplink[t] # uplink[u]

(***************************************************************************)
(* Whatever was lost, when the cloud's server is there for good, the       *)
(* network is good and the car goes on with its trajectory, the cloud gets *)
(* submap after submap of it: the recovery succeeds.  Unless the server    *)
(* restarted between two registrations and gave the same number twice: the *)
(* results of one go to the other, which ignores them without an error.    *)
(***************************************************************************)
UploadResumes ==
  <>[](net = "good" /\ active # None /\ server = "up" /\ Apart)
    => []<><<~ AtFirstIndex /\ AtFirstIndex'>>_vars

(***************************************************************************)
(* Shutdown of the car's server returns: neither a cloud that is away nor  *)
(* the wait for a new submap that never comes keeps the uploader's thread  *)
(* (map_builder_server.cc:152).                                            *)
(***************************************************************************)
ShutdownReturns == (server = "stopping") ~> (server = "down")
=============================================================================
