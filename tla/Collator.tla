-------------------------------- MODULE Collator --------------------------------
(***************************************************************************)
(* cartographer's sensor collation: OrderedMultiQueue                      *)
(* (sensor/internal/ordered_multi_queue.cc), shared by all trajectories in *)
(* Collator or one for each in TrajectoryCollator.  Data of many sensors   *)
(* wait in queues and leave in the order of their times.                   *)
(*                                                                         *)
(* A datum is its time, at least 1: Time::min() is 0.  An iteration of     *)
(* Dispatch is one step, since it calls back into the map builder; nothing *)
(* else of the class runs until Dispatch has returned.                     *)
(*                                                                         *)
(* This module has the operations; Collation.tla calls them as the headers *)
(* ask to, TrajectoryNode.tla as cartographer_node does.                   *)
(***************************************************************************)
EXTENDS Naturals, Sequences, FiniteSetsExt, Functions

CONSTANTS
  Trajectories,         \* trajectory ids
  Sensors,              \* sensor ids, ordered as the strings are
  CollateByTrajectory,  \* the option collate_by_trajectory
  None

ASSUME CollatorAssumption ==
  /\ Trajectories \subseteq Nat /\ IsFiniteSet(Trajectories)
  /\ Sensors \subseteq Nat /\ IsFiniteSet(Sensors)
  /\ CollateByTrajectory \in BOOLEAN
  /\ None \notin Nat \cup (Trajectories \X Sensors)

Queues == Trajectories \X Sensors

\* The OrderedMultiQueue that a trajectory's data goes through.
CollatorOf(tr) == IF CollateByTrajectory THEN tr ELSE 0
Collators == {CollatorOf(tr) : tr \in Trajectories}

VARIABLES
  open,        \* the keys of queues_
  finished,    \* those that are marked as finished
  queue,       \* the data that waits in each
  startTime,   \* common_start_time_per_trajectory_, 0 where there is none
  lastTime,    \* last_dispatched_time_ of each OrderedMultiQueue
  blocker,     \* blocker_, None while it is uninitialized
  running,     \* the OrderedMultiQueue that runs Dispatch, or None
  marking,     \* the queues that FinishTrajectory or Flush still has to mark
  checkFailed  \* a CHECK of these classes failed

collatorVars ==
  << open, finished, queue, startTime, lastTime, blocker, running, marking, checkFailed >>

CollatorInit ==
  /\ open = {} /\ finished = {}
  /\ queue = [q \in Queues |-> << >>]
  /\ startTime = [tr \in Trajectories |-> 0]
  /\ lastTime = [c \in Collators |-> 0]
  /\ blocker = [c \in Collators |-> None]
  /\ running = None /\ marking = << >>
  /\ checkFailed = FALSE

\* No call is under way.
Idle == running = None /\ marking = << >> /\ ~checkFailed

(***************************************************************************)
(* The calls.                                                              *)
(***************************************************************************)

\* AddTrajectory, with the sensors that are expected.
AddTrajectory(tr, sensors) ==
  /\ Idle
  /\ IF ({tr} \X sensors) \cap open # {}
     THEN checkFailed' = TRUE /\ UNCHANGED open
     ELSE open' = open \cup ({tr} \X sensors) /\ UNCHANGED checkFailed
  /\ UNCHANGED << finished, queue, startTime, lastTime, blocker, running, marking >>

\* AddSensorData: data for a queue that is not there is ignored.
AddSensorData(q, t) ==
  /\ Idle
  /\ IF q \in open
     THEN /\ queue' = [queue EXCEPT ![q] = Append(@, t)]
          /\ running' = CollatorOf(q[1])
     ELSE UNCHANGED << queue, running >>
  /\ UNCHANGED << open, finished, startTime, lastTime, blocker, marking, checkFailed >>

\* The orders in which a hash set may give its elements.
Orders(S) == {s \in [1 .. Cardinality(S) -> S] : IsInjective(s)}

\* FinishTrajectory: the queues are marked one after the other.
FinishTrajectory(order) ==
  /\ Idle
  /\ marking' = order
  /\ UNCHANGED << open, finished, queue, startTime, lastTime, blocker, running, checkFailed >>

\* Mutant: the queues that are marked next are dispatched together.
MarkQueueAsFinished_Late ==
  /\ running = None /\ marking # << >> /\ ~checkFailed
  /\ marking' = Tail(marking)
  /\ IF Head(marking) \notin open \/ Head(marking) \in finished
     THEN checkFailed' = TRUE /\ UNCHANGED << finished, running >>
     ELSE /\ finished' = finished \cup {Head(marking)}
          /\ UNCHANGED << running, checkFailed >>
  /\ UNCHANGED << open, queue, startTime, lastTime, blocker >>

MarkQueueAsFinished ==
  /\ running = None /\ marking # << >> /\ ~checkFailed
  /\ marking' = Tail(marking)
  /\ IF Head(marking) \notin open \/ Head(marking) \in finished
     THEN checkFailed' = TRUE /\ UNCHANGED << finished, running >>
     ELSE /\ finished' = finished \cup {Head(marking)}
          /\ running' = CollatorOf(Head(marking)[1])
          /\ UNCHANGED checkFailed
  /\ UNCHANGED << open, queue, startTime, lastTime, blocker >>

(***************************************************************************)
(* Dispatch.  It goes through the queues in the order of their keys up to  *)
(* the first that has to wait for data, and removes those that will not    *)
(* get any.                                                                *)
(***************************************************************************)

Before(q, r) == q[1] < r[1] \/ (q[1] = r[1] /\ q[2] < r[2])

FirstOf(S) == CHOOSE q \in S : \A r \in S \ {q} : Before(q, r)

Mine(c) == {q \in open : CollatorOf(q[1]) = c}

Waiting(c) == {q \in Mine(c) \ finished : queue[q] = << >>}

Scanned(c) ==
  LET waiting == Waiting(c)
      first   == FirstOf(waiting) IN
  IF waiting = {} THEN Mine(c) ELSE {q \in Mine(c) : Before(q, first)}

Exhausted(c) == {q \in Scanned(c) : queue[q] = << >>}

Candidates(c) == Scanned(c) \ Exhausted(c)

Peek(q) == Head(queue[q])

\* Mutant: the last queue, whatever the times are.
Earliest_Last(c) ==
  LET candidates == Candidates(c) IN
  CHOOSE q \in candidates : \A r \in candidates \ {q} : Before(r, q)

\* next_queue_key: the earliest data, in the first queue that has it.
Earliest(c) ==
  LET candidates == Candidates(c) IN
  FirstOf({q \in candidates : \A r \in candidates : Peek(q) <= Peek(r)})

\* GetCommonStartTime, when every queue of the trajectory has data.
CommonStartTime(tr) ==
  IF startTime[tr] # 0
  THEN startTime[tr]
  ELSE Max({Peek(q) : q \in {r \in open : r[1] = tr /\ queue[r] # << >>}})

\* CHECK_LE(last_dispatched_time_, next_data->GetTime()).
Sorted(c) == \A q \in Candidates(c) : lastTime[c] <= Peek(q)

Selects(c) == Sorted(c) /\ Waiting(c) = {} /\ Candidates(c) # {}

\* The only datum before the start: the next one decides what becomes of it.
Undecided(q) ==
  /\ Peek(q) < CommonStartTime(q[1])
  /\ Len(queue[q]) < 2
  /\ q \notin finished

\* Mutant: data before the start is dropped even if it is the last one before.
Drops_Early(q) ==
  /\ Peek(q) < CommonStartTime(q[1])
  /\ Len(queue[q]) >= 2

\* Data is dropped when the next one is not beyond the start either.
Drops(q) ==
  /\ Peek(q) < CommonStartTime(q[1])
  /\ Len(queue[q]) >= 2
  /\ queue[q][2] <= CommonStartTime(q[1])

\* This iteration gives the datum to the callback.
Delivers(c) ==
  LET q == Earliest(c) IN
  Selects(c) /\ ~Undecided(q) /\ ~Drops(q)

RemoveExhausted(c) ==
  LET exhausted == Exhausted(c) IN
  /\ open' = {q \in open : q \notin exhausted}
  /\ finished' = {q \in finished : q \notin exhausted}

Stop(c) ==
  \/ /\ ~Sorted(c)
     /\ checkFailed' = TRUE
     /\ UNCHANGED << open, finished, startTime, blocker, running >>
  \/ /\ Sorted(c) /\ Waiting(c) # {}
     /\ RemoveExhausted(c)
     /\ blocker' = [blocker EXCEPT ![c] = FirstOf(Waiting(c))]
     /\ running' = None
     /\ UNCHANGED << startTime, checkFailed >>
  \/ /\ Waiting(c) = {} /\ Candidates(c) = {}
     /\ RemoveExhausted(c)
     /\ running' = None
     /\ UNCHANGED << startTime, blocker, checkFailed >>
  \/ LET q == Earliest(c) IN
     /\ Selects(c) /\ Undecided(q)
     /\ RemoveExhausted(c)
     /\ startTime' = [startTime EXCEPT ![q[1]] = CommonStartTime(q[1])]
     /\ blocker' = [blocker EXCEPT ![c] = q]
     /\ running' = None
     /\ UNCHANGED checkFailed

Pop(c) ==
  LET q == Earliest(c) IN
  /\ Selects(c) /\ ~Undecided(q)
  /\ RemoveExhausted(c)
  /\ startTime' = [startTime EXCEPT ![q[1]] = CommonStartTime(q[1])]
  /\ lastTime' = IF Drops(q) THEN lastTime ELSE [lastTime EXCEPT ![c] = Peek(q)]
  /\ queue' = [queue EXCEPT ![q] = Tail(@)]
  /\ UNCHANGED << blocker, running, checkFailed >>

\* One iteration of Dispatch.
Dispatch(c) ==
  /\ running = c /\ ~checkFailed
  /\ \/ Stop(c) /\ UNCHANGED << queue, lastTime >>
     \/ Pop(c)
  /\ UNCHANGED marking

CollatorTypeOK ==
  /\ open \subseteq Queues /\ finished \subseteq open
  /\ queue \in [Queues -> Seq(Nat)]
  /\ startTime \in [Trajectories -> Nat]
  /\ lastTime \in [Collators -> Nat]
  /\ blocker \in [Collators -> Queues \cup {None}]
  /\ running \in Collators \cup {None}
  /\ marking \in Seq(Queues)
  /\ checkFailed \in BOOLEAN
=============================================================================
