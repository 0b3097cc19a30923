# A verification project for the autonomous car's ROS 2 workspace

This directory holds TLA+ modules, TLC configurations and TLAPS proofs about
the software in `src/`: the stack of a small autonomous car (VESC motor, Hokuyo
or Livox lidar, Cartographer SLAM, simulator, student exercises for planning
and control). Paths below are relative to the repository; `cartographer/` means
`src/slam/cartographer/cartographer/`, `cartographer_ros/` means
`src/slam/cartographer_ros/cartographer_ros/`.

`PROJECT.json` is the index: components, runs, the lines of code each
definition stands for, a mutation of the code that each property catches,
findings, hazards and theorems.

    tlc -workers 2 -config MCPoseGraph.cfg MCPoseGraph     # a run
    tlapm BackgroundWork_proofs.tla                        # the proofs of a module

## 1. Inventory

### What runs on the car

    keyboard / joystick --/joy--> simple_mux --ackermann_cmd--> ackermann_to_vesc --> vesc_driver --serial--> motor
    controllers --high_level/ackermann_cmd--^                         vesc_driver --> vesc_to_odom --/odom-+
    urg_node or livox_ros_driver2 --/scan, imu-------------------------------------> cartographer_node <--+
    RViz click --/initialpose--> set_initial_pose --finish/start_trajectory--> cartographer_node
    RViz click --/goal_pose--> finish_map --finish_trajectory, write_state--> cartographer_node

    cartographer_node: Node -> MapBuilderBridge -> MapBuilder -> collator -> local SLAM -> PoseGraph2D
                                                                   PoseGraph2D -> ConstraintBuilder2D -> ThreadPool

The processes talk over ROS topics and services. Inside `cartographer_node` one
thread spins the callbacks; the pose graph hands work to a pool of threads and
takes results back in callbacks. The two lines at the bottom and the two clients
above them hold most of what is concurrent, ordered or long-lived, so they were
modelled first; then the way of a command from the key to the motor, the driver
of the Livox lidar with its poll threads, the upload of SLAM results to a server
in the cloud, and the telemetry of the motor.

### Components

| component | state | operations | what makes it hard | what makes it correct | module |
|---|---|---|---|---|---|
| background executor, `common/task.cc`, `thread_pool.cc` | task states, dependency counters, dependants, ready queue, map of tasks that are not ready | `AddDependency`, `Schedule`, `Execute`, `DoWork`, destructor | two mutexes taken one after the other, weak pointers, destruction while tasks run | a task runs once and after its dependencies; nothing scheduled is lost | `TaskPool`, `TaskGraph` |
| loop closure search, `constraint_builder_2d.cc` | deque of results, matchers, finish-node and when-done tasks, counters | `MaybeAdd(Global)Constraint`, `NotifyEndOfNode`, `WhenDone`, `DeleteScanMatcher`, destructor | tasks hold raw pointers into containers that a callback clears | pointers stay valid, the callback gets the whole cycle | `ConstraintBuilder`, `ConstraintCycle` |
| pose graph, `pose_graph_2d.cc` | trajectory states, nodes, submaps, constraints, work queue, optimization problem, trimmers | `AddNode`, sensor data, finish/delete/freeze, load, trim, `RunFinalOptimization`, destructor | the draining thread changes, optimization runs without the lock, deletion is marked ahead of the queue | one drainer, the optimizer is alone, every pair is tried once, no reference dangles | `PoseGraph` |
| sensor collation, `sensor/internal/` | a queue per sensor, common start times, last dispatched time, blocker | `AddTrajectory`, `AddSensorData`, `FinishTrajectory`, `Flush` | merge of streams that start and end at different times, queues vanish in the loop | sorted output, nothing stranded, the start is trimmed exactly | `Collator`, `Collation` |
| `cartographer_node`, `node.cpp`, `map_builder_bridge.cpp`, `node_main.cpp` | subscribers, topics in use, bridges, pending finishes, collator queues | start/finish/write services, sensor callbacks, loading, shutdown | a trajectory is kept in six containers of four classes, the pose graph lags behind | no CHECK fails, topics match subscribers, shutdown leaves nothing open | `TrajectoryNode`, `TrajectoryServices` |
| `set_initial_pose_node.py` | trajectory number, last pose, timer | click, two responses, timer | responses and timers of several clicks overlap | the pose clicked last is set | `Relocalization` |
| `finish_map.py` | flag, timer, step | click, timer, two responses | requests may be lost, answers carry a status | what is written is the finished map | `MapFinish` |
| `simple_mux_node.py` | host, last command of each source | joystick, drive command, 50 Hz loop | clocks of two machines, age of commands, sources that die | the car stops in bounded time when its source dies; a human overrides | `DrivePath` |
| `keyboard_joy_node.py` | held keys, speed, mode | key press and release in a listener thread, 50 Hz timer | two threads without a lock, one of which can end alone | a released key stops the car, a held one drives it | `DrivePath` |
| `vesc_driver`, `vesc_ackermann` | mode, last command | timer, commands | no watchdog, commands before the handshake are dropped | what the motor turns on is recent | `DrivePath` (speed only) |
| `livox_ros_driver2` | ring with two indices, semaphores, IMU list, exit | push, poll, publish, configuration, destructor | volatile indices without a lock, count read without its mutex, a semaphore nobody signals at the exit | a FIFO of whole frames, nothing forgotten, the destructor returns | `LivoxDriver`, `FrameFifo` |
| `cloud/internal/`: uploader, server, handlers; `submap_controller` | send queue, map of trajectory ids, batch; in the cloud trajectories, submaps, unfinished submaps | add, finish, local SLAM result, send loop, recovery, shutdown | calls are lost, or their answers; the cloud restarts empty; a recovery fails half way | the cloud gets each trajectory without a gap, no CHECK fails there, the upload resumes | `TrajectoryUploader` |
| VESC framing, `vesc_interface.cpp`, `vesc_packet_factory.cpp` | buffer of bytes, run flag of the thread | receive, find frames, disconnect | frames split over reads, false starts after a lost byte, a thread that sleeps in `receive` at the end | the frames found do not depend on the chunks, telemetry comes back, the join returns | `VescReceiver` |
| `urg_node` | device pointer, error count | scan thread, status service, reconnection | the pointer is reset without the mutex | no use after reset, reconnection happens | no |
| scan matching, grids, 3D, serialization | | | numerical, file formats, not run on the car | | no |
| `lio_mapping_loc`, `particle_filter`, `range_libc` | | | filters on real numbers | | no |
| controllers, planner | | | geometry; the deciding parts are exercises left as TODO | | no |
| simulator, perception | | | differential equations, ray casting, inference, in one thread | | no |
| Livox SDK, messages, tutorials, launch files, third-party code | | | vendor code, or no behaviour of their own | | no |

## 2. The modules

**`TaskPool`** has one action per critical section of `Task::mutex_` and
`ThreadPool::mutex_`. `AddDependency` is two (the dependant's counter is raised,
then the dependency is asked), `Schedule` is two, `DoWork` is pop, start, finish,
one action per dependant that is notified, and dropping the last reference. A
work item is opaque. **`TaskGraph`** is what callers rely on: a set of
tasks with dependencies, no threads and no queue; `TaskPool!Graph` is the
refinement mapping.

**`ConstraintBuilder`** has the operations of the class. The pool is abstracted
to what `TaskPool` is shown to promise: a task runs some time after its
dependencies. Poses and scores are dropped: a search finds a match or does not.
**`ConstraintCycle`** calls the operations as the header asks
(`constraint_builder_2d.h:55-60`); `PoseGraph` calls the same operators as the
pose graph does, so that both contexts share one translation.

**`PoseGraph`** has a client thread, the threads of the pool, the work
queue and the constraint builder (`CB == INSTANCE ConstraintBuilder`). Each
critical section of `mutex_` and `work_queue_mutex_` is an action; `Solve`, which
holds no lock, begins in one action and ends in another. A public call that
waits (`RunFinalOptimization`, the destructor) is a list of steps in `todo`.
Samplers and the distance test may always decline. Landmarks, poses, initial
trajectory poses and inter-trajectory connectivity are left out.

**`Collator`** has `OrderedMultiQueue` under `Collator` and `TrajectoryCollator`. A
datum is its time. An iteration of `Dispatch` is a step, as each calls back into
the map builder; no other call runs before it returns. **`Collation`** is the
client that keeps the contract of the headers. **`TrajectoryNode`** uses the same
operators with the handlers of `Node`, `MapBuilderBridge` and `MapBuilder`, the
trajectory states of the pose graph and the main thread from loading to
shutdown. **`TrajectoryServices`** closes it with arbitrary clients;
**`Relocalization`** and **`MapFinish`** close it with the two scripts, one action
per callback of the script, plus the service requests in flight.
**`ServiceClients`** starts one or the other, as the launch file does by its mode.

**`DrivePath`** has the user, the listener thread and the timer of the keyboard
node, the multiplexer, and of the VESC driver the mode and the speed. Time is in
ticks of 20 ms, the period of both loops; instead of clocks each message has ages,
which grow with `Tick`, and `Tick` waits until the loops have run and no message is
later than its hop allows. A command carries the age it has for the multiplexer (by
the stamp: of the controller for autodrive, of the receipt for the joystick) and the
age since its source gave it, for the properties. Nodes may die, and the keyboard
node may be started again. `StopTime` (the threshold, the longer of the way of `/joy`
and the lead of the controller's clock, the way to the motor) and `ReactionTime` are
tight for the instance: TLC finds a violation with one tick less. Left out: steering,
which is published beside the speed; a restart of the multiplexer; the parameter
`use_estop`, off in the launch files (on, the car never moves, since `estop.py:32` is a
TODO). `_publish` reads the mode twice, for two buttons; the model reads it once.

**`LivoxDriver`** has the writer of point frames, the two poll threads, the SDK's
thread with IMU samples and with the configuration of the lidar, and the
destructor, one action per access to what threads share. The two indices of the
ring are shared without lock or fence, which is undefined in C++: the model has the
outcomes of x86-64, on which the container runs, with each index twice, as its
thread sees it and as the other does. **`FrameFifo`** is what the reader relies
on: a bounded queue that throws frames away only when it is (nearly) full.

**`TrajectoryUploader`** has the server on the car (handlers and SLAM thread), the
uploader's thread, the network and the cloud. The uploader's `while` loops are cut at
each call that may fail and each test of `shutting_down_`. A call to the cloud has
three outcomes: lost, handled without the answer being heard, answered. Of the cloud
the model keeps what `SubmapController` and the CHECKs of the pose graph look at. IMU
and odometry data, which take the same way, and the cloud's queue of incoming data
are left out. There is one trajectory at a time, because `starting_submap_index_` is
one for all (TODO at `map_builder_server.cc:199`). Ids of cloud trajectories that no
call names any more are used again, so that crashes may be many.

**`VescReceiver`** has the timer of `vesc_driver.cpp`, the VESC and the serial line, the
thread of `vesc_interface.cpp` with its buffer, and `disconnect`. Frames are real
sequences of bytes and `createPacket` looks at them as the code does, in its order;
only the numbers are small: bytes below 4, a checksum of one byte (so that the smallest
frame has 4 bytes, not 5), payloads up to 10. A read returns any number of the bytes that
have come. The line may lose or change a byte. `receive` blocks, and no flag wakes it;
`packet_thread_run_` is a plain `bool` that two threads share, which the compiler cannot
keep in a register over the calls in the loop, so that each test sees its value. Left out:
the answers to `requestImuData`, which take the same way; the content of packets; an end
of line that loses a whole answer (see hazard `vesc_interface.cpp:117` and section 6).

A CHECK, `LOG(FATAL)` or uncaught `at()` that fails sets `crashed`, `checkFailed` or
`failed` and stops the model: `NoCheckFails` states that none does. `ConstraintCycle` does not
state it, since its client keeps the CHECKs by its guards; `PoseGraph`, which has to keep
them, does.

Definitions with an underscore and a word after the name of an operator
(`MuxLoop_Silent`) are plausible bugs of it; for each property `PROJECT.json` names
one that TLC finds with it. They are not used by any specification.

## 3. The runs

| run | instance | distinct states | shows |
|---|---|---|---|
| `taskpool` | 3 tasks, 2 threads, 2 clients | 61,528 | no CHECK, order of dependencies, nothing dropped by the destructor, which may come at any point, refinement of `TaskGraph` with its fairness |
| `constraint_cycle` | 2 submaps, 2 nodes, any number of cycles up to 2 ends of node | 40,910 | pointers, completeness of the callback, the callback is called |
| `pose_graph` | 2 trajectories of together 4 nodes, one deletable, one with a trimmer, 2 threads | 1,150,720 | one drainer, solver alone, pairs tried once, trimming leaves no reference behind, no CHECK |
| `pose_graph_localization` | a frozen map, a localizing trajectory of 2 nodes with trimmer, deletion of the map, final optimization | 224,625 | no reference between map and trajectory and no pointer of a search dangles; the queue drains and waiting calls return |
| `collation` | 2 trajectories, 2 sensors each, times up to 3, four data waiting | 859,835 | sorted (a CHECK), start trimmed exactly, nothing stranded |
| `trajectory_services` | 3 trajectory ids, 2 sensors, one of which every trajectory needs, the shared collator, a frozen state, interrupt at any point | 32,149 | no CHECK, topics in use, clean shutdown, finishing takes effect |
| `service_clients` | both modes; the node up before or after `finish_map.py`; up to 3 clicks of a patient user | 1,061 | a click has the finished map written if the node is up by then and the file can be written; the number is current, the last pose is set |
| `drive_path` | freshness of 3 ticks, `/joy` up to one tick late, controller's clock one tick ahead | 781,808 | bounded stop, override, release, and that the car drives |
| `livox_driver` | ring of 2 slots, indices modulo 4 | 143,401 | refinement of `FrameFifo`, no lost wake-up, stream flows, destructor returns |
| `trajectory_upload` | 2 local trajectories, submaps of 2 results, batches of 2 | 100,953 | no CHECK in the cloud, no gap, the upload resumes, shutdown returns |
| `vesc_receiver` | bytes below 4, data that look like a start, one disturbed byte | 23,914 | reads may be cut anywhere, telemetry flows again, disconnect returns |
| `keyboard_quit` | as `drive_path` | violated | the finding of section 5 |

### Properties worth naming

- `DrainedWhenJoined` (`TaskPool`): the destructor drops `tasks_not_ready_`; nothing
  is in it.
- `CalledWithEverything` (`ConstraintCycle`): when `RunWhenDoneCallback` runs, all searches
  and ends of node are complete.
- `OneDrainer`, `SolveUndisturbed`, `SearchesReachable`, `ReferencesResolve` (a deleted
  trajectory leaves nothing), `EveryPairOnce` (a loop closure is neither missed nor
  searched twice) of `PoseGraph`.
- `StartIsCovered` (`Collation`): of the data before the common start time each
  sensor keeps the last one that is not beyond it, and no more.
- `ShutdownIsClean`, `TopicsInUse` (`TrajectoryServices`).
- `SilenceStops`, `HumanOverrides`, `ReleaseStops` (`DrivePath`): how old what moves the
  motor may be, by source; each spans four processes and their delays. `CarFollowsKey`
  is their counterpart: a threshold so tight that the car stutters would satisfy the
  other three.
- `ImplementsFrameFifo`, `NothingForgotten` (`LivoxDriver`): the second allows one frame
  to lie while the reader sleeps, since the writer may not have seen the reader's
  index; the next frame wakes it.
- `NothingLeftOut`, `UploadResumes` (`TrajectoryUploader`).
- `CutsDoNotMatter` (`VescReceiver`): in every state, searching all bytes at once and
  searching them in two reads give the same packets and leave the same bytes, garbage
  included. `TelemetryFlows`: a false start may claim as many bytes as the largest frame
  has, and the buffer still gets through.

`TypeOK` is a theorem where section 4 says so. That of the other modules is stated for the
reader and holds in these instances, too, but is not listed with a run.

### Bounds and why they are enough

All bounds are constants named in the modules ("bound on ..., for TLC"). Where a safety
property is a theorem (section 4) the bounds of the runs do not limit it: it holds for
every value of the constants.

- `TaskPool`: three tasks allow a diamond, a chain and a task that is made
  dependent while its dependency completes; two threads and two clients race on
  it.
- `ConstraintCycle`: two ends of node give cycles with none, one or two finish
  tasks outstanding at `WhenDone`.
- `PoseGraph`: `NumRangeData = 1` makes a submap complete after two nodes, so two
  nodes reach loop closure; `OptimizeEvery = 1` makes every node after the first a
  candidate for an optimization, which is the densest schedule. A trimmer keeps two
  submaps, the least that `PureLocalizationTrimmer` accepts, so that three nodes, and
  with them three submaps, are needed to trim one of a running trajectory: in
  `pose_graph` a trajectory has up to three nodes, both together up to four. One of
  the two nodes of the submap that is trimmed is in its neighbour as well, and the node
  of the other trajectory may have a constraint to it. In `pose_graph_localization`, where
  liveness is checked, a trajectory has two nodes and trimming takes place when it
  has finished. Two threads are enough for a
  drainer, a search and a solver to overlap; `Symmetry` of the threads is used
  only where no liveness is checked.
- `Collation`: with times 1..3 data may come before, at and after a common start,
  with equal times between sensors; four data that wait are two queues of a datum and its
  successor, which is what `Dispatch` looks at, or one for each sensor of two trajectories.
- `DrivePath`: 3 ticks stand for the 50 of one second: enough for a command to be
  fresh, to be kept over a change of host and back, and to become stale while messages
  are under way. One tick of delay lets `/joy` be overtaken by a loop; delays of the
  other hops only add to `StopTime` and `ReactionTime`.
- `LivoxDriver`: two slots are the smallest ring that is neither full nor empty with one
  frame; indices modulo 4 wrap every two rounds, as 2^32 does for the 8 slots and more
  of the code. The IMU list is not bounded in the code; its length beyond 2 is not told
  apart.
- `TrajectoryUploader`: two trajectories allow a failed second registration; submaps of two
  results have one that is new and one that is not, and overlap as the active submaps do;
  indices modulo 3 tell the two active submaps from the one before. `MaxQueue = 1` is
  enough to lose any run of results, since each push waits for nothing else; with
  `MaxQueue = 3`, `Indices = 4` the safety properties hold as well (494,685 states).
- `VescReceiver`: with `Base = 4` the end of a frame and the start of the next, 3 and 2 and a
  length, look like a large frame of 8 bytes and more, as in the code, where they claim 512
  and more; `MaxPayload = 10` lies between lengths that are refused and lengths that are
  waited for. Data of 0, 2 and 3 put each kind of start, and the end, into a payload. The
  timer waits while more than two bytes are unread, so that up to one answer and a
  remainder can be cut anywhere; one disturbed byte is one false start.
- `TrajectoryServices`: sensor 1 is common to all trajectories, as `scan` is on the car,
  sensor 2 to some: the node refuses to start one while another is open. Ids 0..2 are
  the frozen one and two more, one after the other; a queue holds two messages, as in
  `Collation`. A collator for each trajectory, which only the server of the cloud
  has (`map_builder_server.lua:28`), is covered by the theorem and by no run.

### Fairness

Weak fairness of what the operating system and the executors run: threads of
the pool, tasks that are ready, the spinning thread, timers and the delivery of
responses. No client has to make a call; a client that has begun one goes on
(`ClientSteps`, `ClientStep`). `MapFinish` uses strong fairness for `Serve`, because
the spinning thread is free time and again but not always: an executor does not
skip the same ready request for ever. The liveness properties of these are conditional
on no CHECK having failed, which the safety properties state separately.

`DrivePath`: both loops run in their period, messages are delivered, the VESC
answers the firmware request, time passes; nobody has to press a key and no node has
to die or start. `LivoxDriver`: the threads run and stores become visible; frames and
samples only have to come where a property says so (`StreamFlows`, `DestructorReturns`:
without a lidar that sends, the destructor waits for ever, as hazard `lddc.cpp:128`
says). `TrajectoryUploader`: the uploader's thread runs and its calls end, by their
deadline if need be; local SLAM goes on giving results; that the network or the cloud
recovers is a premise of `UploadResumes`, not assumed. `VescReceiver`: the timer and the
thread run, the VESC answers what it is asked, and only finitely many bytes are disturbed
(`MaxNoise`); which bytes a read returns is up to the environment.

### Deadlock

Deadlock is checked for the pool, the constraint builder and the pose graph.
It is checked for the drive path, the Livox driver and the uploader as well; there time,
the sensor and the network go on, so that it says less than the liveness properties.
The other configurations switch it off where the program ends: after the
shutdown of the node, when the script ends, when all trajectories are finished, when the
VESC driver is down.

## 4. What is proved

For every value of the constants; `PROJECT.json` lists the theorems. Each module named
below proves for its specification that an inductive invariant `IInv` holds, and the
properties from it. What follows says what the invariants are and why the properties do
not stand without them. TLC has checked every invariant on the instances of section 3,
or smaller ones, before it was proved.

**`BackgroundWork_proofs`**, the executor and the searches that run on it. `TaskPool`: type correctness (which includes that the unsigned counter
never underflows), `NoCheckFails`, `CounterExact`, `RunsAfterDependencies`, that an expired handle
belongs to a completed task, and that every step of the pool is a step of
`TaskGraph` or a stutter. None is inductive alone. The invariant `IInv` adds where a
task is in each of its states (`PlaceInv`), that the queue holds ready tasks once
(`QueueInv`), what a thread and a client in the middle of a call know of the task in
their hands and that no two hold the same (`WorkerInv`, `ClientInv`), and that a
dependency that is not complete still owes exactly one notification
(`DependencyInv`). The last two are what makes a notification find its dependant in
the map, and the counter positive. `DrainedWhenJoined` needs `DrainInv` as well: a queue
that is not empty has a thread left, a task that waits is owed something, and of any
set of scheduled tasks one depends on none of the others, so that they cannot all wait.
The assumption is `TaskPoolAssumption`: finitely many tasks, at least one thread.

`ConstraintCycle`: type correctness, `NoDanglingPointer`,
`CalledWithEverything`. The invariant `CycleIInv` is the chain of
responsibility: a search that is not complete is held by the finish task of its
node (`SearchesHeld`), a finish task by the when-done task (`NodesHeld`), the cycle is
closed while a callback is set (`CycleClosed`), the counters differ by the finish
tasks (`NodesCounted`), a matcher is only built while a search wants it
(`MatchersWanted`). Hence nothing is outstanding when the callback is taken.

**`PoseGraph_proofs`**: type correctness, every safety property of the two runs and the action
property `SolveUndisturbed`, in three layers.

Control (`IInv`): `OneDrainer`, `SearchesReachable`, `SolveUndisturbed`. What they need of each
other is a circle, so that only the conjunction is inductive. `DrainInv`: the queue is open exactly while a task, a thread or the
callback HandleWorkQueue has it. `WaitInv`: the other callback is only set, or runs, while
the client waits with the queue closed; so that while a thread drains no callback is set (the
CHECK of `WhenDone`) and the other threads are idle. `CycleInv`: searches are only added in
the middle of a node, hence never between `WhenDone` and its callback. `HeldInv` is
the chain of responsibility again, now without the contract that `ConstraintCycle` assumes:
that the pose graph keeps it is what the other parts show. `ReachInv`: while the
graph is optimized or trimmed nothing searches.

Data (`WholeInv`, relative to `IInv`): `ReferencesResolve`, `EveryPairOnce`. Neither says how the
graph came to be what it is, so the invariant does. `PipeInv`: what the client has still to do
of its call, and that the items of a trajectory are in order through `todo`, the queue and the
thread that drains (a node before the next, a finish after all nodes, a deletion last; of
a state that was loaded, submap, node and their connection one after the other). `LifeInv`:
which state a trajectory is in by the items that are left of it; with the order, a finish
that has been executed means that no node comes any more. `GraphInv`: an id is in the graph
from the call that inserts it, and in the optimization problem from the item that has been
executed (`ThereInv`, `KnownInv`), every node that is known was inserted into a submap that
is there (`MemberInv`: hence a trimmer that keeps a node's last submap keeps the node), and a
deleted trajectory has nothing. `SearchInv`: what was searched was known and complete
(`TriedInv`), so that a new node, or a submap that has just been completed, has no pair
among it; what is listed but not yet handed over is still to be searched (`OpenInv`); both
together cover all pairs (`CoverInv`); and each result, from the slot of the builder to the
constraints, leads to a submap and a node that are there, since trimming only takes place
when the builder has handed all over (`ResultInv`).

The CHECKs (`SafeInv`): `NoCheckFails`. `CountInv`: the nodes appended are those whose item is on
its way, the one that is being searched and those whose end the builder was told
(`BalanceInv`, `EndedInv`); so the count for which the client waits is reached when nothing
is left, and what joins the pool or destroys the pose graph finds it quiet (`QuietInv`).
`PatientInv`: a trajectory that is to be deleted has only its finish before it. That is
where the theorem has two premises (`PatientClient`): the client deletes a trajectory only
when its sensor data has been processed, and none that a trimmer deletes. Without either a
CHECK does fail (section 5).

The assumption is `PoseGraphAssumption`. All but `NoCheckFails` assume nothing of the client:
the theorems hold if it deletes trajectories impatiently, too, and after a CHECK has failed.

**`DrivePath_proofs`**: type correctness, `SilenceStops`, `HumanOverrides`, `ReleaseStops`, for
every freshness, every delay of each hop and every lead of the controller's clock. A bound
on the age of what moves the motor is the sum of bounds along its way: what a stored command's
age may exceed its stamp by (`SourceInv`), that the multiplexer sends one command per
tick, so that one that is on its way is as young as its place in the queue says (`CmdInv`,
`MotorInv`). For the two reaction times the invariants follow a message that overtakes nothing:
since the user ended something, what brings it about is gone, or a message that ends it is
behind all of them and no later than its hop allows (`Ended`), and what the multiplexer had
sent before is on the way out (`Leaving`). `KeyboardInv` ties the state of the two threads of
the keyboard node, without a lock, to what the user does.

It also has the serial port of the motor, `VescReceiver`: type correctness and `CutsDoNotMatter`,
for every base of the bytes above 3, every largest payload, every datum and any number of
disturbances. `SearchInTwo` does not need the VESC: it holds for all sequences of bytes, garbage
included, so that the theorem uses no more of the invariant than that the line and the buffer hold bytes.
The search is a recursive function; `FoundExists` shows that there is one, from a
greatest position up to which there is none (`Downward`), and `FoundTyped`, `FoundInRest` and
`FoundInFront` go the same way. What `createPacket` decides of a start, other than that it needs more, it
decides whatever follows (`SamePacket`); hence a search in the first bytes finds what a search in all
finds, up to where it stops (`FoundInFront`), and what it leaves over is where the next goes on
(`FoundInRest`).

**`LivoxDriver_proofs`**: type correctness, `NothingForgotten`, and that every step is a step of
`FrameFifo` or a stutter (`ImplementsFrameFifo`, which is a safety property), for every size of
the ring and every range of the indices that the size divides. `RingInv`: each side sees the
index of the other late by one step at most, so that it sees the ring as full or as empty as
it is, or more so; the writer has a slot for itself while it writes, and what the reader
copies is what the slot has. `AwakeInv`: somebody will still look at what waits, a count or
a thread on its way, or only one frame waits. The lemmas are about indices that wrap:
the difference modulo the range, the slot modulo the size.

**`Collator_proofs`** has the lemmas about the operations of the collator that its two
clients share: that a mark finds its queue (`MarkedInv`), for whom `Dispatch` waits (`BlockedInv`),
that queues are sorted and nothing is dispatched behind what was dispatched (`SortedInv`,
`DispatchedInv`), and least elements.

**`Collation_proofs`**: type correctness, `StartIsCovered`, `NothingStranded`, and `NoCheckFails`
from the premise `~LateStart`: no sensor starts with a datum older than what was
dispatched. The premise is the client's; without it a CHECK does fail (section 5). The
invariant adds that what waits of a sensor is in order and not later than what was
pushed last (`QueueInv`), that only queues of ended trajectories are marked (`MarkInv`), and what
the common start has left (`StartInv`): past its first datum a sensor has nothing before
it, and one that lost a datum has one that is not beyond it.

**`TrajectoryServices_proofs`**: type correctness, `TopicsInUse`, `ShutdownIsClean`, and
`NoCheckFails` from premises: no loaded state that is still to be frozen, and, with the
collator that all trajectories share, a topic that any two of them have in common (`CommonTopic`)
and no data older than what was dispatched (`~Skew`); with a collator for each trajectory the
last two are not needed. The car has the shared collator
(`map_builder.lua:22`; its own Lua files leave it so) and meets the two: every trajectory needs `scan`
(`num_laser_scans = 1`), and `set_initial_pose_node.py` waits half a second before it
starts the next. Without any one of them a CHECK does fail (section 5). The invariant says how the containers of
the four classes follow each other: ids in order (`IdInv`), subscribers (`TopicsInv`), sensor
bridges (`BridgeInv`), queues of the collator (`QueueInv`), the pose graph's items, one for each
trajectory that is pending (`WorkInv`), and what each loop of the shutdown has done
(`PhaseInv`). `ShutdownIsClean` needs all of it: what the loops find depends on what the pose
graph has worked off when they look. `NoCheckFails` adds that no datum is behind what was
dispatched (`TimesInv`), that what the shutdown has not come to can still be finished
(`LeftInv`), and that with the shared collator one trajectory is open at a time
(`OneBridge`): when it is finished nothing else can hold back its data, so that all of it
has been dispatched when the pose graph learns of the end.

The same module has `NumberIsCurrent` of `ServiceClients`, the relocalization client, from the
premise `LocalizationOptions`: a state is loaded, the node starts the first trajectory, no
trajectory is started without sensors, and the user waits until a click has had its effect
(the first three are how the launch file and the configuration set the node up; with a user who
does not wait, see section 5). The invariant is that of one click under way: at each stage
(`Settled`, `Asked`, `Ending`, ...) exactly one of request, trajectory that is being finished,
answer and timer exists, and who listens to the sensors follows from the stage (`StageInv`); the
number is one behind from the start of the new trajectory to its answer. That every request of
the script is granted, so that it may do without reading the answers, follows from `ItemsInv`: the
pose graph only works on trajectories that are pending to finish and on that of the map, which
is therefore there to refer to; and no topic is in use when the start is served.

**`TrajectoryUploader_proofs`**: type correctness whatever is lost, `NothingLeftOut` and `NoCheckFails`
from the premise `ShortOutages`: no outage ends by itself after a recovery has given up. Without it
TLC violates both (section 5). That nothing is left out follows from what comes next, wherever
it is: in the batch, else in the queue, else with the SLAM thread (`Unsent`). Whatever comes next comes
after what went before: it is the next insertion or of a later trajectory (`After`), along the
queue up to the result the SLAM thread will give (`QueueInv`) and from the batch into the queue
(`SentInv`). While the thread is not between an error and the registrations (`Synced`), it comes
after the last result of every trajectory of the cloud as well (`SyncInv`). A batch that is lost, or whose
answer is, leaves this state, and the thread only comes back to it where no trajectory of the cloud
has results: the recovery forgets them, or the server is down and they are gone. That is
`LatestInv`: who has results is named by the trajectory they are of, and nobody while the thread
registers; with it an item of a batch meets the results it comes after, whichever number it goes
to. The CHECKs of `InitializeGlobalSubmapPoses` need `FitsInv` besides: the last submaps of a
trajectory and the unfinished ones are those of its last result, as far as it has got
their first. No trajectory is finished twice since what is finished has no name that may be finished again
(`FinishedInv`); a number that is free is found because the uploader names fewer than there are (`CloudInv`,
a pigeonhole). An `AddTrajectory` in the middle of a recovery is harmless: its results are later
than all others (`Past`).

The assumptions are the `ASSUME`s of the modules, which the runs evaluate: constants have
their types, sets that the code holds in memory are finite, and the size of the ring
divides the range of the indices (2^32 and a power of two in the code).

Where a proof would go by induction over data (an earliest task, the least time
in some queues, the first of two items, the last position of a search), it takes a least counterexample
instead: the
library's well-founded orders give every set of numbers, or of subsets of a finite set, a
least element.

Only model-checked: `MapFinish`, whose one property is a liveness property, and all other
liveness (of `VescReceiver`: `TelemetryFlows`), since fairness is defined by ENABLED, and therefore the
fairness half of `ImplementsTaskGraph`. Every invariant of the passing runs is a theorem.

## 5. Findings

`keyboard_quit` is a run, listed in `PROJECT.json`: Q ends the listener thread of
`keyboard_joy_node.py` and not the node. A key that is held at that moment stays held for
the timer; released, it does not stop the car (`ResetsOnRelease`), against the help text
"resets on release" and "Quit".

Also seen while modelling, and reproducible with the constants named (of the
configuration of the run of the module unless said otherwise); they are not runs of
their own:

- `PoseGraph` with `Patient = FALSE`, `Trajs = MayDelete = {1}`, `Loaded = {}`, `MaxData = 1`:
  `ModificationSkipped` is violated. `DeleteTrajectory` right after `FinishTrajectory`, with
  sensor data of the trajectory still queued, aborts the process in
  `CanAddWorkItemModifying`, whose message promises to skip the request.
- `TrajectoryServices` with `Loaded = "no"`, `Trajectories = {0, 1}`, `SensorSets = {{1}, {2}}`:
  `NoCheckFails` is violated. With the shared collator and two trajectories at a time,
  data of a finished trajectory is dispatched later and its node aborts the process.
  Each `collate_by_trajectory = false` configuration in the repository is exposed once
  two trajectories overlap; on the car they cannot, since both need the topic of the lidar.
- `TrajectoryServices` with `Skew = TRUE`: `NoCheckFails` is violated. The first datum of a
  trajectory is older than what the shared collator has dispatched of the last one.
- `Relocalization` with `Patient = FALSE`, `MaxClicks = 2`: `OneShot` is violated. Two clicks
  of "2D Pose Estimate" before the first restart is done leave a timer of
  `set_initial_pose_node.py` that fires for ever; and the trajectory stays at the first
  pose (`LastPoseIsSet`).
- `MapFinish` with `LateNode = TRUE`: `ClickSaves` is violated. A click for `finish_map.py`
  before the node serves is lost and cannot be repeated.
- `TrajectoryUploader` with `ShortOutages = FALSE`: `NothingLeftOut` is violated. A recovery that
  gives up after 60 s (`local_trajectory_uploader.cc:152`) leaves the ids of the cloud as
  they are. If the connection comes back, the next batch goes to the trajectory that has
  missed results, against the comment at line 181 that one "can no longer upload to those";
  `NoCheckFails` is violated as well, which means that the cloud's server ends.
- `TrajectoryUploader` without the premise `Apart`: if the cloud restarts between two
  registrations, two local trajectories have the same id there, and the results of one
  are ignored for ever without an error (`UploadResumes`).
- `TrajectoryUploader`: each recovery registers finished trajectories anew, empty, and
  leaves the old ones in the cloud (TODO at `local_trajectory_uploader.cc:186`);
  `FinishTrajectory` overtakes what is queued, so that the tail of a trajectory is lost.
- `DrivePath`: "Space: Stop" sets the speed to zero for one period at most; a key that is
  held drives on with the next (`keyboard_joy_node.py:57`, `74`).
- `DrivePath` without the premise `mux`: the motor keeps the last command when the
  multiplexer dies (`SilenceStops`; a TODO at `vesc_driver.cpp:116`).
- `PoseGraph` with `Localizing = MayDelete = {1}`: deleting a finished trajectory that
  has a trimmer aborts, since the trimmer deletes it as well (`NoCheckFails`).
- `PoseGraph`: a deletion only takes place after the next optimization
  (`pose_graph_2d.cc:631`); if nothing is added afterwards it never does.
- `PoseGraph`: `EveryPairOnce` leaves out submaps that `FinishTrajectory` marks `kFinished`
  before they are full: without the conjunct `InsertionFinished` it is violated, though
  `pose_graph_data.h:34` says that all nodes are matched against a finished submap.
- `Collation` with `LateStart = TRUE`: a client that adds each sensor's data in order, as
  `collator_interface.h:52` asks, and adds a trajectory whose first datum is older than
  what was dispatched, aborts (`NoCheckFails`).
- `Collator`: `GetBlocker` (`ordered_multi_queue.cc:87`) may name a queue that is gone, or
  none, after `AddQueue`: `blocker` is only set where `Dispatch` stops for want of data.
- `TrajectoryServices` with `Loaded = "freezing"`: an interrupt while the frozen state is still
  being worked off aborts the shutdown (`NoCheckFails`, `node.cpp:756`).
- `MapFinish` without the premise `writable` in `SavedIfServed`: it is violated. The script
  says that the map was saved whatever status was answered (`finish_map.py:124`), also
  when the file cannot be written.

## 6. Not modelled

Hazards without a property, with their reasons, are in `PROJECT.json`. The components:

- Of the VESC's serial line: a VESC that falls silent. `disconnect` then waits for ever for
  the thread that sleeps in `receive`, by construction of the code. The time a false start
  costs: it is as many bytes as it claims, up to 1024, at the rate of the answers.
- `urg_node`: what its threads do to each other depends on the device library `urg_c`,
  whose directory is an empty submodule. By reading only: the scan thread resets `urg_`
  without the mutex that the status service holds while it uses it.
- Of the VESC driver: servo, duty cycle, current and brake commands, the fields of the
  telemetry and the odometry, which are arithmetic on one message.
- Of the Livox driver: assembling frames of packets, the configuration of the device
  beyond two settings, several lidars.
- Of the cloud: the handlers of queries and of IMU, odometry and landmark data, the queue of
  incoming data, `RunFinalOptimization` while data is added (a hazard on the list).
- Of `PoseGraph2D`: a reader of the optimization problem beside `Solve`, which would need a
  history of reads; landmarks, poses, `AddSerializedConstraints`.
- Of `cartographer_node`: queries and publishers, conversions, samplers, TF, offline bags.
- Scan matching, filters, registration, grids, planners, controllers, simulator,
  perception: numbers without concurrency, which TLC cannot evaluate and for which a
  rounded model would show nothing. They are by far the most lines of the repository.

## 7. Plan

Done, in this order: `TaskPool`, `ConstraintBuilder`/`ConstraintCycle`, their proofs,
`PoseGraph`, `Collator`/`Collation`, `TrajectoryNode` with its three clients, `DrivePath`,
`LivoxDriver`/`FrameFifo`, `TrajectoryUploader`, `ServiceClients`, `VescReceiver`.

Proved since, in this order: `DrivePath`, `TaskPool.DrainedWhenJoined`, `LivoxDriver` with its
refinement, `Collation`, `TrajectoryServices`, and `PoseGraph`: first its threads, then the graph
and the searches, last the CHECKs; `TrajectoryUploader`, `ServiceClients.NumberIsCurrent`, and `VescReceiver.CutsDoNotMatter`.
