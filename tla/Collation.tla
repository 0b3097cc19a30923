------------------------------- MODULE Collation -------------------------------
(***************************************************************************)
(* The collator under a client that keeps the contract of the headers      *)
(* (collator_interface.h:41-58, ordered_multi_queue.h:57-73): data is      *)
(* added in time order per sensor, a trajectory is finished once and gets  *)
(* no data after that, Flush is the last call.  The headers do not say     *)
(* that the first data of a new sensor may not be older than what has been *)
(* dispatched already: LateStart lets it be.                               *)
(***************************************************************************)
EXTENDS Collator, SequencesExt

CONSTANTS
  LateStart,  \* a sensor's first data may be older than what was dispatched
  Horizon,    \* bound on times, for TLC
  MaxWaiting  \* bound on the data that waits, for TLC

ASSUME CollationAssumption ==
  LateStart \in BOOLEAN /\ Horizon \in Nat /\ MaxWaiting \in Nat

VARIABLES
  added,    \* the trajectories that were added
  ended,    \* those that were finished
  pushed,   \* the time of the last data of each sensor, or 0
  served,   \* the queues of which data has been dispatched to a callback
  trimmed   \* the queues of which data has been dropped

clientVars == << added, ended, pushed >>
vars == << collatorVars, clientVars, served, trimmed >>

Init ==
  /\ CollatorInit
  /\ added = {} /\ ended = {}
  /\ pushed = [q \in Queues |-> 0]
  /\ served = {}
  /\ trimmed = {}

Add(tr, sensors) ==
  /\ tr \notin added \cup ended
  /\ sensors # {}
  /\ AddTrajectory(tr, sensors)
  /\ added' = added \cup {tr}
  /\ UNCHANGED << ended, pushed, served, trimmed >>

Data(q, t) ==
  /\ q \in open /\ q[1] \notin ended
  /\ MapThenSumSet(LAMBDA r : Len(queue[r]), open) < MaxWaiting
  /\ t >= pushed[q]
  /\ pushed[q] = 0 /\ ~LateStart => t >= lastTime[CollatorOf(q[1])]
  /\ AddSensorData(q, t)
  /\ pushed' = [pushed EXCEPT ![q] = t]
  /\ UNCHANGED << added, ended, served, trimmed >>

Finish(tr) ==
  /\ tr \in added \ ended
  /\ \E order \in Orders({q \in open : q[1] = tr}) : FinishTrajectory(order)
  /\ ended' = ended \cup {tr}
  /\ UNCHANGED << added, pushed, served, trimmed >>

Flush ==
  /\ added \ ended # {}
  /\ \E order \in Orders(open \ finished) :
       /\ \A i, j \in DOMAIN order : i < j => Before(order[i], order[j])
       /\ FinishTrajectory(order)
  /\ ended' = Trajectories
  /\ UNCHANGED << added, pushed, served, trimmed >>

Step(c) ==
  /\ Dispatch(c)
  /\ served' = IF Delivers(c) THEN served \cup {Earliest(c)} ELSE served
  /\ trimmed' = IF Selects(c) /\ Drops(Earliest(c))
                THEN trimmed \cup {Earliest(c)}
                ELSE trimmed
  /\ UNCHANGED clientVars

Mark ==
  /\ MarkQueueAsFinished
  /\ UNCHANGED << clientVars, served, trimmed >>

Next ==
  \/ \E tr \in Trajectories, S \in SUBSET Sensors : Add(tr, S)
  \/ \E q \in Queues, t \in 1 .. Horizon : Data(q, t)
  \/ \E tr \in Trajectories : Finish(tr)
  \/ Flush
  \/ \E c \in Collators : Step(c)
  \/ Mark

Spec == Init /\ [][Next]_vars

(***************************************************************************)
(* Properties.                                                             *)
(***************************************************************************)

\* The state of the collator is well typed.
TypeOK ==
  /\ CollatorTypeOK
  /\ added \subseteq Trajectories /\ ended \subseteq Trajectories
  /\ pushed \in [Queues -> Nat]
  /\ served \subseteq Queues /\ trimmed \subseteq Queues

\* No CHECK fails: in particular data leaves in the order of its times
\* (ordered_multi_queue.cc:112), whatever the order in which the sensors'
\* data came, and every queue is marked as finished once.
NoCheckFails == ~checkFailed

\* Neither too little nor too much is dropped at the common start of a
\* trajectory (ordered_multi_queue.cc:121-147).  Of each sensor at most one
\* datum before it is dispatched: what a callback is given after its first
\* datum is not before the start.  And there is no gap: when data beyond the
\* start is dispatched, each sensor of which data was dropped has dispatched
\* one that is not beyond it.
StartIsCovered ==
  \A c \in Collators :
    running = c /\ Delivers(c) =>
      LET q == Earliest(c)
          start == CommonStartTime(q[1])
      IN  /\ q \in served => Peek(q) >= start
          /\ Peek(q) > start => \A o \in trimmed : o[1] = q[1] => o \in served

\* Once no queue of an OrderedMultiQueue expects data, none is left: what the
\* queues held has been dispatched, though finishing takes them one by one.
NothingStranded ==
  Idle => \A c \in Collators : Mine(c) \subseteq finished => Mine(c) = {}
=============================================================================
