------------------------------ MODULE LivoxDriver ------------------------------
(***************************************************************************)
(* From the Livox SDK to the topics: livox_ros_driver2.  The thread of the *)
(* pub handler puts point frames into a ring without a lock (comm/ldq.cpp, *)
(* lds.cpp), the SDK's thread puts IMU samples into a locked list; a poll  *)
(* thread for each sleeps on a semaphore and publishes (lddc.cpp); the     *)
(* destructor of the node ends both.  One lidar, as in MID360_config.json. *)
(*                                                                         *)
(* The indices of the ring are volatile and shared without a lock.  The    *)
(* outcomes are those of the x86-64 of the container: a store is seen by   *)
(* others later than by its thread, in the order of the stores, and before *)
(* its thread takes or leaves a mutex.  So each index is there twice: as   *)
(* its thread sees it, and as the others do.                               *)
(*                                                                         *)
(* The two paths, of points and of IMU samples, share nothing but          *)
(* connect_state and the exit, which they only read: a behaviour follows   *)
(* one of them.                                                            *)
(***************************************************************************)
EXTENDS Integers, Sequences

CONSTANTS
  QueueSize,  \* slots of the ring, a power of 2
  IndexRange, \* 2^32: the indices wrap here
  Frames,     \* frames are numbered modulo this
  MaxImu      \* bound of the list of IMU samples, which the code does not bound

ASSUME LivoxAssumption ==
  /\ QueueSize \in Nat \ {0}
  /\ IndexRange \in Nat /\ IndexRange > QueueSize
  /\ IndexRange % QueueSize = 0
  /\ Frames \in Nat /\ Frames > QueueSize + 1
  /\ MaxImu \in Nat \ {0}

Torn == -2    \* a slot or a copy of it that is partly old and partly new
None == -1

VARIABLES
  path,      \* what this behaviour follows: "points" or "imu"
  slots,     \* storage_packet: the number of a frame, Torn or None
  wrOwn,     \* wr_idx as its writer sees it
  wrSeen,    \* and as the reader does
  rdOwn,     \* rd_idx as its reader sees it
  rdSeen,    \* and as the writer does
  frame,     \* the number of the frame that is being pushed, or of the next
  writer,    \* the pub handler's thread in PushLidarData
  count,     \* count_ of pcd_semaphore_
  reader,    \* PointCloudDataPollThread
  pkg,       \* what it has copied of the slot
  published, \* the last point cloud
  imuLen,    \* length of imu_data_queue_
  imuWriter, \* the SDK's thread in StorageImuData
  imuCount,  \* count_ of imu_semaphore_
  imuReader, \* ImuDataPollThread
  setBits,   \* set_bits: settings the lidar has not confirmed
  sampling,  \* connect_state is kConnectStateSampling
  offered,   \* the last frame or sample came while sampling
  exit       \* the destructor: "no", "requested", "signalled", "half", "joined"

ringVars == << slots, wrOwn, wrSeen, rdOwn, rdSeen, frame >>
pcdVars == << writer, count, reader, pkg, published >>
imuVars == << imuLen, imuWriter, imuCount, imuReader >>
lidarVars == << path, setBits, sampling, offered >>
vars == << ringVars, pcdVars, imuVars, lidarVars, exit >>

Settings == { "data_type", "scan_pattern" }

-----------------------------------------------------------------------------
(***************************************************************************)
(* The ring.                                                               *)
(***************************************************************************)

Slot(idx) == idx % QueueSize

Used(wr, rd) == (wr - rd) % IndexRange

\* Mutant: one frame too many.
IsFull_Off(wr, rd) == Used(wr, rd) > QueueSize

\* QueueIsFull, with the mask of the ring.
IsFull(wr, rd) == Used(wr, rd) > QueueSize - 1

IsEmpty(wr, rd) == rd = wr

Advance(idx) == (idx + 1) % IndexRange

(***************************************************************************)
(* The writer: PushLidarData.                                              *)
(***************************************************************************)

\* Mutant: a full ring wakes nobody.
PushLidarData_Quiet ==
  /\ path = "points"
  /\ writer = "idle" /\ wrSeen = wrOwn
  /\ IF IsFull(wrOwn, rdSeen)
     THEN frame' = (frame + 1) % Frames /\ UNCHANGED << writer, slots >>
     ELSE /\ writer' = "write"
          /\ slots' = [slots EXCEPT ![Slot(wrOwn)] = Torn]
          /\ UNCHANGED frame
  /\ offered' = sampling
  /\ UNCHANGED << wrOwn, wrSeen, rdOwn, rdSeen, count, reader, pkg, published,
                  imuVars, path, setBits, sampling, exit >>

\* A frame is there; RawDataProcess has had its mutex since the last one.
PushLidarData ==
  /\ path = "points"
  /\ writer = "idle" /\ wrSeen = wrOwn
  /\ IF IsFull(wrOwn, rdSeen)
     THEN /\ writer' = "count"
          /\ frame' = (frame + 1) % Frames
          /\ UNCHANGED slots
     ELSE /\ writer' = "write"
          /\ slots' = [slots EXCEPT ![Slot(wrOwn)] = Torn]
          /\ UNCHANGED frame
  /\ offered' = sampling
  /\ UNCHANGED << wrOwn, wrSeen, rdOwn, rdSeen, count, reader, pkg, published,
                  imuVars, path, setBits, sampling, exit >>

\* The end of QueuePushAny.
QueuePushAny ==
  /\ writer = "write"
  /\ wrOwn' = Advance(wrOwn)
  /\ writer' = "check"
  /\ UNCHANGED << slots, wrSeen, rdOwn, rdSeen, frame, count, reader, pkg,
                  published, imuVars, lidarVars, exit >>

\* The reader sees the slot, and then the index.
WriterStores ==
  /\ wrSeen # wrOwn
  /\ slots' = [slots EXCEPT ![Slot(wrSeen)] = frame]
  /\ wrSeen' = wrOwn
  /\ frame' = (frame + 1) % Frames
  /\ UNCHANGED << wrOwn, rdOwn, rdSeen, pcdVars, imuVars, lidarVars, exit >>

\* Mutant: only the first frame in an empty ring wakes the reader.
CheckNotEmpty_First ==
  /\ writer = "check"
  /\ writer' = IF Used(wrOwn, rdSeen) = 1 THEN "count" ELSE "idle"
  /\ UNCHANGED << ringVars, count, reader, pkg, published, imuVars, lidarVars,
                  exit >>

CheckNotEmpty ==
  /\ writer = "check"
  /\ writer' = IF IsEmpty(wrOwn, rdSeen) THEN "idle" ELSE "count"
  /\ UNCHANGED << ringVars, count, reader, pkg, published, imuVars, lidarVars,
                  exit >>

\* GetCount, without the mutex.
GetCount ==
  /\ writer = "count"
  /\ writer' = IF count <= 0 THEN "signal" ELSE "idle"
  /\ UNCHANGED << ringVars, count, reader, pkg, published, imuVars, lidarVars,
                  exit >>

Signal ==
  /\ writer = "signal" /\ wrSeen = wrOwn
  /\ count' = count + 1
  /\ writer' = "idle"
  /\ UNCHANGED << ringVars, reader, pkg, published, imuVars, lidarVars, exit >>

(***************************************************************************)
(* The reader: PointCloudDataPollThread.                                   *)
(***************************************************************************)

ReaderStores ==
  /\ rdSeen # rdOwn
  /\ rdSeen' = rdOwn
  /\ UNCHANGED << slots, wrOwn, wrSeen, rdOwn, frame, pcdVars, imuVars,
                  lidarVars, exit >>

\* DistributePointCloudData; also the branch of the poll thread on its future.
DistributePointCloudData ==
  /\ reader = "top" /\ path = "points"
  /\ reader' = IF exit # "no" THEN "status" ELSE "wait"
  /\ UNCHANGED << ringVars, writer, count, pkg, published, imuVars, lidarVars,
                  exit >>

Wait ==
  /\ reader = "wait" /\ rdSeen = rdOwn
  /\ count > 0
  /\ count' = count - 1
  /\ reader' = "scan"
  /\ UNCHANGED << ringVars, writer, pkg, published, imuVars, lidarVars, exit >>

CheckConnectState ==
  /\ reader = "scan"
  /\ reader' = IF sampling THEN "poll" ELSE "status"
  /\ UNCHANGED << ringVars, writer, count, pkg, published, imuVars, lidarVars,
                  exit >>

\* PollingLidarPointCloudData and, once inside, PublishPointcloud2, which no
\* more looks at the exit: the loop ends, or a slot begins to be copied.
PollOrPublish ==
  /\ \/ reader = "poll" /\ exit = "no"
     \/ reader = "inner"
  /\ IF IsEmpty(wrSeen, rdOwn)
     THEN /\ reader' = IF reader = "inner" THEN "poll" ELSE "status"
          /\ UNCHANGED pkg
     ELSE /\ reader' = "copy"
          /\ pkg' = slots[Slot(rdOwn)]
  /\ UNCHANGED << ringVars, writer, count, published, imuVars, lidarVars, exit >>

PollExits ==
  /\ reader = "poll" /\ exit # "no"
  /\ reader' = "status"
  /\ UNCHANGED << ringVars, writer, count, pkg, published, imuVars, lidarVars,
                  exit >>

\* The copy is complete; a slot that has changed meanwhile was copied torn.
QueuePop ==
  /\ reader = "copy"
  /\ published' = IF slots[Slot(rdOwn)] = pkg THEN pkg ELSE Torn
  /\ pkg' = None
  /\ rdOwn' = Advance(rdOwn)
  /\ reader' = "publish"
  /\ UNCHANGED << slots, wrOwn, wrSeen, rdSeen, frame, writer, count, imuVars,
                  lidarVars, exit >>

\* Publishing takes mutexes.
PublishPointcloud2 ==
  /\ reader = "publish" /\ rdSeen = rdOwn
  /\ reader' = "inner"
  /\ UNCHANGED << ringVars, writer, count, pkg, published, imuVars, lidarVars,
                  exit >>

PointCloudDataPollThread ==
  /\ reader = "status"
  /\ reader' = IF exit \in { "no", "requested" } THEN "top" ELSE "ended"
  /\ UNCHANGED << ringVars, writer, count, pkg, published, imuVars, lidarVars,
                  exit >>

(***************************************************************************)
(* The IMU: a list with a mutex and a semaphore of its own.                *)
(***************************************************************************)

\* Beyond MaxImu a sample counts like none.
StorageImuData ==
  /\ path = "imu"
  /\ imuWriter = "idle"
  /\ imuLen' = IF imuLen < MaxImu THEN imuLen + 1 ELSE imuLen
  /\ imuWriter' = "check"
  /\ offered' = sampling
  /\ UNCHANGED << ringVars, pcdVars, imuCount, imuReader, path, setBits,
                  sampling, exit >>

ImuCheck ==
  /\ imuWriter = "check"
  /\ imuWriter' = IF imuLen = 0 THEN "idle" ELSE "count"
  /\ UNCHANGED << ringVars, pcdVars, imuLen, imuCount, imuReader, lidarVars, exit >>

ImuGetCount ==
  /\ imuWriter = "count"
  /\ imuWriter' = IF imuCount <= 0 THEN "signal" ELSE "idle"
  /\ UNCHANGED << ringVars, pcdVars, imuLen, imuCount, imuReader, lidarVars, exit >>

ImuSignal ==
  /\ imuWriter = "signal"
  /\ imuCount' = imuCount + 1
  /\ imuWriter' = "idle"
  /\ UNCHANGED << ringVars, pcdVars, imuLen, imuReader, lidarVars, exit >>

DistributeImuData ==
  /\ imuReader = "top" /\ path = "imu"
  /\ imuReader' = IF exit # "no" THEN "status" ELSE "wait"
  /\ UNCHANGED << ringVars, pcdVars, imuLen, imuWriter, imuCount, lidarVars, exit >>

ImuWait ==
  /\ imuReader = "wait" /\ imuCount > 0
  /\ imuCount' = imuCount - 1
  /\ imuReader' = "scan"
  /\ UNCHANGED << ringVars, pcdVars, imuLen, imuWriter, lidarVars, exit >>

ImuCheckConnectState ==
  /\ imuReader = "scan"
  /\ imuReader' = IF sampling THEN "poll" ELSE "status"
  /\ UNCHANGED << ringVars, pcdVars, imuLen, imuWriter, imuCount, lidarVars, exit >>

\* PollingLidarImuData: one sample, or the end.
PollImu ==
  /\ imuReader = "poll"
  /\ IF exit = "no" /\ imuLen > 0
     THEN imuLen' = imuLen - 1 /\ UNCHANGED imuReader
     ELSE imuReader' = "status" /\ UNCHANGED imuLen
  /\ UNCHANGED << ringVars, pcdVars, imuWriter, imuCount, lidarVars, exit >>

ImuDataPollThread ==
  /\ imuReader = "status"
  /\ imuReader' = IF exit \in { "no", "requested" } THEN "top" ELSE "ended"
  /\ UNCHANGED << ringVars, pcdVars, imuLen, imuWriter, imuCount, lidarVars, exit >>

(***************************************************************************)
(* The lidar announces itself and is configured.                           *)
(***************************************************************************)

\* Once connect_state is sampling it stays so, and later announcements have
\* no effect here.
LidarInfoChange ==
  /\ ~sampling
  /\ setBits' = Settings
  /\ UNCHANGED << ringVars, pcdVars, imuVars, path, sampling, offered, exit >>

\* A setting is confirmed; one that timed out is sent again.
SettingConfirmed(s) ==
  /\ s \in setBits
  /\ setBits' = setBits \ {s}
  /\ sampling' = (setBits' = {})
  /\ UNCHANGED << ringVars, pcdVars, imuVars, path, offered, exit >>

(***************************************************************************)
(* The destructor of the node.                                             *)
(***************************************************************************)

RequestExit ==
  /\ exit = "no"
  /\ exit' = "requested"
  /\ UNCHANGED << ringVars, pcdVars, imuVars, lidarVars >>

\* Mutant: the poll threads are joined before they are told.
SetExitSignal_Late ==
  /\ exit = "requested" /\ (path = "points" => reader = "ended")
  /\ exit' = "signalled"
  /\ UNCHANGED << ringVars, pcdVars, imuVars, lidarVars >>

SetExitSignal ==
  /\ exit = "requested"
  /\ exit' = "signalled"
  /\ UNCHANGED << ringVars, pcdVars, imuVars, lidarVars >>

JoinPointCloud ==
  /\ exit = "signalled" /\ (path = "points" => reader = "ended")
  /\ exit' = "half"
  /\ UNCHANGED << ringVars, pcdVars, imuVars, lidarVars >>

JoinImu ==
  /\ exit = "half" /\ (path = "imu" => imuReader = "ended")
  /\ exit' = "joined"
  /\ UNCHANGED << ringVars, pcdVars, imuVars, lidarVars >>

-----------------------------------------------------------------------------
Init ==
  /\ path \in { "points", "imu" }
  /\ slots = [i \in 0 .. QueueSize - 1 |-> None]
  /\ wrOwn = 0 /\ wrSeen = 0 /\ rdOwn = 0 /\ rdSeen = 0
  /\ frame = 0
  /\ writer = "idle" /\ count = 0 /\ reader = "top" /\ pkg = None
  /\ published = None
  /\ imuLen = 0 /\ imuWriter = "idle" /\ imuCount = 0 /\ imuReader = "top"
  /\ setBits = {} /\ sampling = FALSE
  /\ offered = FALSE
  /\ exit = "no"

Writer == QueuePushAny \/ CheckNotEmpty \/ GetCount \/ Signal

Reader ==
  \/ DistributePointCloudData \/ Wait \/ CheckConnectState
  \/ PollOrPublish \/ PollExits \/ QueuePop \/ PublishPointcloud2
  \/ PointCloudDataPollThread

ImuWriter == ImuCheck \/ ImuGetCount \/ ImuSignal

ImuReader ==
  DistributeImuData \/ ImuWait \/ ImuCheckConnectState \/ PollImu
  \/ ImuDataPollThread

Destructor == RequestExit \/ SetExitSignal \/ JoinPointCloud \/ JoinImu

Next ==
  \/ PushLidarData \/ Writer \/ WriterStores
  \/ Reader \/ ReaderStores
  \/ StorageImuData \/ ImuWriter \/ ImuReader
  \/ LidarInfoChange \/ \E s \in Settings : SettingConfirmed(s)
  \/ Destructor

Spec == Init /\ [][Next]_vars

\* Threads run and stores arrive.  No frame has to come.
Fairness ==
  /\ WF_vars(Writer) /\ WF_vars(WriterStores)
  /\ WF_vars(Reader) /\ WF_vars(ReaderStores)
  /\ WF_vars(ImuWriter) /\ WF_vars(ImuReader)
  /\ WF_vars(SetExitSignal) /\ WF_vars(JoinPointCloud) /\ WF_vars(JoinImu)

LiveSpec == Spec /\ Fairness

-----------------------------------------------------------------------------
(***************************************************************************)
(* Properties.                                                             *)
(***************************************************************************)

\* The frames from index rd to index wr.
Inside(wr, rd) == [i \in 1 .. Used(wr, rd) |-> slots[Slot(rd + i - 1)]]

Ring == INSTANCE FrameFifo WITH
  Capacity <- QueueSize,
  Numbers  <- Frames,
  frames   <- Inside(wrSeen, rdOwn),
  coming   <- frame,
  latest   <- published

\* The ring without a lock, its indices wrapping and seen late by the other
\* side, is a bounded queue: clouds are published whole, in order and once,
\* and a frame is thrown away only when at most one slot was free.
ImplementsFrameFifo == Ring!Spec

\* A poll thread that sleeps has missed nothing, although the writer reads
\* the count of the semaphore without its mutex: no IMU sample waits, and of
\* the frames no more than the last one, whose index was not seen in time.
NothingForgotten ==
  offered =>
    /\ reader = "wait" /\ count = 0 /\ writer = "idle" /\ wrSeen = wrOwn
         => Used(wrOwn, rdOwn) <= 1
    /\ imuReader = "wait" /\ imuCount = 0 /\ imuWriter = "idle" => imuLen = 0

\* As long as frames come from a lidar that is configured, clouds are
\* published: also when the ring was full before anybody read it, and
\* whatever wake-up was missed.
StreamFlows ==
  (/\ <>[](sampling /\ exit = "no")
   /\ []<><<PushLidarData>>_vars)
    => []<><<QueuePop>>_vars

\* Publishing keeps up with the frames: the loop of PublishPointcloud2, which
\* does not look at the exit, comes to its end.
KeepsUp == []<>(reader \notin { "inner", "copy", "publish" })

\* The destructor returns while the sensor sends: each poll thread is woken
\* by the next frame or sample and sees the exit, however far it was.
DestructorReturns ==
  (IF path = "points" THEN KeepsUp /\ []<><<PushLidarData>>_vars
                      ELSE []<><<StorageImuData>>_vars)
    => (exit = "requested" ~> exit = "joined")
=============================================================================
