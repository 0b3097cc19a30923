----------------------- MODULE TrajectoryServices_proofs -----------------------
(***************************************************************************)
(* cartographer_node for any number of trajectories and sensors, services  *)
(* in any order, and an interrupt at any point: the containers of its four *)
(* classes agree with each other, so that a topic has one listener, no     *)
(* CHECK fails and nothing is left open at the end.  Then the client that  *)
(* localizes the car: the number it counts is that of its trajectory.      *)
(***************************************************************************)
EXTENDS TrajectoryServices, ServiceClients, Collator_proofs

-----------------------------------------------------------------------------
(* The inductive invariant.                                                *)

\* Ids are given in order, and nothing is known of one that is not given; a
\* loaded trajectory has no sensor bridge.
IdInv ==
  /\ FirstId(Loaded) <= builders
  /\ \A tr \in Trajectories :
       /\ tr < FirstId(Loaded) => tr \notin bridges
       /\ tr >= builders =>
            /\ tr \notin bridges \cup scheduled /\ tr # finishing
            /\ trajState[tr] = "none"
            /\ \A q \in open : q[1] # tr

\* Only a trajectory with a bridge that is not being finished is subscribed.
TopicsInv ==
  /\ TopicsInUse
  /\ \A tr \in Trajectories : subscribers[tr] # {} => tr \in bridges /\ tr # finishing

\* A trajectory with a bridge is not pending to finish and is active as far
\* as the pose graph knows; the pose graph hears of the end of another only
\* when it is pending.
BridgeInv ==
  /\ \A tr \in bridges : tr \notin scheduled /\ trajState[tr] \in {"none", "active"}
  /\ finishing # None =>
       finishing \notin scheduled /\ trajState[finishing] \notin {"finished", "deleted"}

\* A queue that expects data has a bridge, and will be marked when its
\* trajectory is finished.
QueueInv ==
  /\ \A q \in open \ finished :
       /\ q[1] \in bridges
       /\ q[1] = finishing => \E i \in 1 .. Len(marking) : marking[i] = q
  /\ \A q \in finished : q[1] \in scheduled \cup {finishing}
  /\ \A i \in 1 .. Len(marking) : marking[i][1] = finishing

Pending(tr) == [do |-> "finish", tr |-> tr]

\* A work item finishes a trajectory that is pending and not finished yet, or is
\* the first one and freezes the loaded trajectory.
ItemOK(i) ==
  IF pgQueue[i].do = "finish"
  THEN /\ pgQueue[i].tr \in scheduled
       /\ trajState[pgQueue[i].tr] \notin {"finished", "deleted"}
  ELSE i = 1 /\ pgQueue[i].tr < FirstId(Loaded) /\ Loaded = "freezing"
       /\ trajState[pgQueue[i].tr] = "active"

\* The pose graph has one work item for each pending trajectory, or has worked
\* it off; the item that freezes the loaded trajectory comes before them.
WorkInv ==
  /\ \A i \in 1 .. Len(pgQueue) : ItemOK(i)
  /\ \A i, j \in 1 .. Len(pgQueue) : pgQueue[i] = pgQueue[j] => i = j
  /\ \A tr \in scheduled :
       \/ trajState[tr] \in {"finished", "deleted"}
       \/ \E i \in 1 .. Len(pgQueue) : pgQueue[i] = Pending(tr)

\* What the loops of the shutdown have done at each point.
PhaseInv ==
  /\ phase = "start" =>
       bridges = {} /\ scheduled = {} /\ finishing = None /\ builders = FirstId(Loaded)
  /\ phase \in {"start", "spin"} => toFinish = {}
  /\ phase = "finishAll" =>
       \A tr \in Trajectories :
         tr \in bridges \/ trajState[tr] = "active" =>
           tr \in toFinish \cup scheduled \cup {finishing}
  /\ phase \in {"final", "destroy"} =>
       /\ bridges = {} /\ finishing = None /\ open = {} /\ toFinish \subseteq scheduled
       /\ \A tr \in Trajectories :
            trajState[tr] = "active" => tr \in scheduled /\ phase = "final"

IInv ==
  /\ TypeOK /\ MarkedInv /\ BlockedInv
  /\ IdInv /\ TopicsInv /\ BridgeInv /\ QueueInv /\ WorkInv /\ PhaseInv

\* A collator for each trajectory; or one that they share, trajectories with a
\* topic in common and data that is not late.
InTime == CollateByTrajectory \/ (CommonTopic /\ ~Skew)

\* Who has a bridge listens, unless it is being finished; so with a topic in
\* common there is one bridge at most.
OneBridge ==
  /\ \A tr \in bridges : tr # finishing => subscribers[tr] \in Subscriptions
  /\ CommonTopic => \A tr, other \in bridges : tr = other

\* A queue that is open has a bridge, and its sensor is not behind what waits or,
\* with collators that forget the trajectories before, what was dispatched.
Ahead(q) ==
  /\ q[1] \in bridges
  /\ Skew => lastTime[CollatorOf(q[1])] <= clock[q[2]]
  /\ \A i \in 1 .. Len(queue[q]) : queue[q][i] <= clock[q[2]]

\* What the loops of the shutdown have not come to can be finished or is pending.
LeftInv ==
  \A tr \in toFinish : tr \in scheduled \/ (tr # finishing /\ StateOf(tr) = "active")

TimesInv ==
  /\ SortedInv /\ DispatchedInv
  /\ \A q \in open : Ahead(q)
  /\ Skew => \A tr \in Trajectories : tr >= builders => lastTime[tr] = 0

\* No check has failed, and none is about to.
OrderInv == Running /\ OneBridge /\ TimesInv /\ LeftInv

-----------------------------------------------------------------------------
(* The kinds of steps.                                                     *)

Responses ==
  [service : {"start", "finish", "write"}, code : Codes, id : Trajectories] \cup {None}

\* A trajectory is started, by a service or at the beginning.
Added(S) ==
  /\ builders \in Trajectories /\ S \in Subscriptions /\ S \cap topics = {}
  /\ finishing = None
  /\ AddNodeTrajectory(S)
  /\ phase \in {"start", "spin"} /\ phase' = "spin"
  /\ response' \in Responses
  /\ UNCHANGED << trajState, pgQueue, scheduled, finishing, toFinish, clock >>

\* Finishing a trajectory begins, by the service or in the shutdown.
Began(tr) ==
  /\ BeginFinish(tr) /\ Running /\ finishing = None /\ Idle
  /\ tr \notin scheduled /\ StateOf(tr) = "active"
  /\ phase = "spin" \/ tr \in toFinish
  /\ toFinish' = toFinish \ {tr}
  /\ crashed' = FALSE
  /\ UNCHANGED << slamVars, bridges, scheduled, phase, response, clock >>

\* The loop of the shutdown finds a trajectory that it cannot or need not finish.
Skipped(tr) ==
  /\ tr \in toFinish /\ toFinish' = toFinish \ {tr}
  /\ tr \in scheduled \/ StateOf(tr) # "active"
  /\ crashed' = (tr \notin scheduled)
  /\ UNCHANGED << collatorVars, slamVars, nodeVars, finishing, phase, response, clock >>

\* Only an answer is given or taken, or the thread begins to spin.
Quiet ==
  /\ response' \in Responses
  /\ phase' = phase \/ (phase = "start" /\ phase' = "spin")
  /\ UNCHANGED << collatorVars, slamVars, nodeVars, finishing, toFinish, crashed, clock >>

LEMMA Ids ==
  /\ Trajectories \subseteq Nat /\ None \notin Trajectories /\ 0 \in Trajectories
  /\ FirstId(Loaded) \in Trajectories /\ FirstId(Loaded) \in Nat
  /\ DefaultTopics \subseteq Sensors /\ SensorSets \subseteq SUBSET Sensors
  /\ \A n \in Nat : n + 1 \in Nat
<1>1. Trajectories \subseteq Nat /\ None \notin Trajectories
  BY CollatorAssumption
<1>2. /\ FirstId(Loaded) \in Trajectories /\ DefaultTopics \subseteq Sensors
      /\ SensorSets \subseteq SUBSET Sensors
      /\ Trajectories = 0 .. Cardinality(Trajectories) - 1
  BY NodeAssumption
<1>3. 0 \in Trajectories
  <2>1. PICK n : n = Cardinality(Trajectories) - 1
    OBVIOUS
  <2>2. Trajectories = 0 .. n
    BY <1>2, <2>1
  <2>3. Cardinality(Trajectories) \in Nat
    BY CollatorAssumption, FS_CardinalityType
  <2>4. n \in Int
    BY <2>1, <2>3
  <2>5. \A k \in 0 .. n : 0 \in 0 .. n
    BY <2>4
  <2>. QED
    BY <1>2, <2>2, <2>5, Zenon
<1>4. FirstId(Loaded) \in Nat
  BY DEF FirstId
<1>. QED
  BY <1>1, <1>2, <1>3, <1>4

LEMMA CodesOf ==
  /\ \A S, rel : /\ StartCode(S, rel) \in Codes
                 /\ StartCode(S, rel) = "OK" => S \cap topics = {}
  /\ \A tr : /\ FinishCode(tr) \in Codes
             /\ FinishCode(tr) = "OK" <=> tr \in scheduled \/ StateOf(tr) = "active"
<1>1. \A tr, valid : TrajectoryStateToStatus(tr, valid) \in Codes
  BY DEF TrajectoryStateToStatus, Codes
<1>2. \A tr : TrajectoryStateToStatus(tr, {"active"}) = "OK" <=> StateOf(tr) = "active"
  BY DEF TrajectoryStateToStatus
<1>3. \A S, rel : /\ StartCode(S, rel) \in Codes
                  /\ StartCode(S, rel) = "OK" => S \cap topics = {}
  BY <1>1 DEF StartCode, Codes
<1>. QED
  BY <1>1, <1>2, <1>3 DEF FinishCode, Codes

LEMMA StepCases ==
  ASSUME IInv, [Next]_vars
  PROVE  \/ \E S \in SUBSET Sensors : Added(S)
         \/ \E tr \in Trajectories : Began(tr) \/ Skipped(tr)
         \/ \E q \in Queues, t \in Nat : Data(q, t)
         \/ \E c \in Collators : CollateStep(c) /\ UNCHANGED clock
         \/ MarkStep /\ UNCHANGED clock
         \/ EndFinish /\ UNCHANGED clock
         \/ WorkItem /\ UNCHANGED clock
         \/ \E tr \in Trajectories : Trim(tr) /\ UNCHANGED clock
         \/ Proceed /\ UNCHANGED clock
         \/ Quiet
         \/ UNCHANGED vars
<1>1. /\ TypeOK /\ TNTypeOK /\ IdInv /\ TopicsInv /\ PhaseInv
      /\ response \in Responses /\ toFinish \subseteq Trajectories
      /\ builders \in Nat /\ finishing \in Trajectories \cup {None} /\ crashed \in BOOLEAN
  BY DEF IInv, TypeOK, TNTypeOK, Responses
<1>2. ASSUME Start
      PROVE  Quiet \/ \E S \in SUBSET Sensors : Added(S)
  <2>1. PICK S \in SensorSets, rel \in Trajectories \cup {None} :
          HandleStart(S, rel) /\ UNCHANGED clock
    BY <1>2 DEF Start
  <2>2. /\ S \in SUBSET Sensors /\ builders \in Trajectories /\ 0 \in Trajectories
        /\ S \in Subscriptions /\ finishing = None
    BY <2>1, Ids DEF HandleStart, Free, Subscriptions
  <2>3. response' \in Responses
    BY <2>1, <2>2, CodesOf DEF HandleStart, Responses
  <2>4. CASE StartCode(S, rel) = "OK"
    <3>1. S \cap topics = {}
      BY <2>4, CodesOf
    <3>2. Added(S)
      BY <2>1, <2>2, <2>3, <2>4, <3>1 DEF HandleStart, Free, mainVars, Added
    <3>. QED
      BY <2>2, <3>2
  <2>5. CASE StartCode(S, rel) # "OK"
    BY <2>1, <2>3, <2>5 DEF HandleStart, Quiet, mainVars, slamVars, nodeVars
  <2>. QED
    BY <2>4, <2>5
<1>3. ASSUME NEW tr \in Trajectories, HandleFinish(tr), UNCHANGED clock
      PROVE  Quiet \/ Began(tr)
  <2>1. CASE FinishCode(tr) = "OK" /\ tr \notin scheduled
    <3>1. StateOf(tr) = "active"
      BY <2>1, CodesOf
    <3>2. toFinish = {} /\ phase = "spin"
      BY <1>1, <1>3 DEF HandleFinish, Free, PhaseInv
    <3>3. toFinish' = toFinish \ {tr} /\ crashed' = FALSE
      BY <1>1, <1>3, <3>2 DEF HandleFinish, Free, Running, mainVars
    <3>. QED
      BY <1>3, <2>1, <3>1, <3>2, <3>3 DEF HandleFinish, Free, Began, mainVars
  <2>2. CASE ~(FinishCode(tr) = "OK" /\ tr \notin scheduled)
    <3>1. response' \in Responses
      BY <1>3, <2>2, CodesOf DEF HandleFinish, Responses
    <3>. QED
      BY <1>3, <2>2, <3>1 DEF HandleFinish, Quiet, mainVars, nodeVars
  <2>. QED
    BY <2>1, <2>2
<1>4. ASSUME WriteState \/ TakeResponse PROVE Quiet
  <2>1. response' \in Responses
    BY <1>4, Ids DEF WriteState, HandleWriteState, TakeResponse, Responses, Codes
  <2>. QED
    BY <1>4, <2>1 DEF WriteState, HandleWriteState, TakeResponse, Quiet, mainVars
<1>5. ASSUME StartWithDefaultTopics, UNCHANGED clock
      PROVE  Quiet \/ Added(DefaultTopics)
  <2>1. phase = "start" /\ phase' = "spin" /\ builders \in Trajectories /\ finishing = None
    BY <1>1, <1>5, Ids DEF StartWithDefaultTopics, PhaseInv
  <2>2. topics = {}
    BY <1>1, <2>1 DEF TopicsInv, TopicsInUse, PhaseInv
  <2>3. CASE DefaultTopics # {}
    BY <1>1, <1>5, <2>1, <2>2, <2>3, Ids DEF StartWithDefaultTopics, Added, Subscriptions
  <2>4. CASE DefaultTopics = {}
    BY <1>1, <1>5, <2>1, <2>4 DEF StartWithDefaultTopics, Quiet, slamVars, nodeVars
  <2>. QED
    BY <2>3, <2>4
<1>6. ASSUME FinishNext, UNCHANGED clock
      PROVE  \E tr \in Trajectories : Began(tr) \/ Skipped(tr)
  <2>1. toFinish # {} /\ toFinish \in SUBSET Nat
    BY <1>1, <1>6, Ids DEF FinishNext
  <2>2. PICK tr : tr = Min(toFinish)
    OBVIOUS
  <2>3. tr \in toFinish
    <3>1. \E m \in toFinish : \A k \in toFinish : m <= k
      BY <2>1, LeastNat
    <3>. QED
      BY <2>2, <3>1 DEF Min
  <2>4. /\ toFinish' = toFinish \ {tr}
        /\ IF FinishCode(tr) = "OK" /\ tr \notin scheduled
           THEN BeginFinish(tr)
           ELSE UNCHANGED << collatorVars, finishing, topics, subscribers >>
        /\ crashed' = (FinishCode(tr) # "OK")
        /\ Running /\ Idle /\ finishing = None
        /\ UNCHANGED << slamVars, bridges, scheduled, phase, response, clock >>
    BY <1>6, <2>2 DEF FinishNext
  <2>5. FinishCode(tr) = "OK" <=> tr \in scheduled \/ StateOf(tr) = "active"
    BY CodesOf
  <2>6. CASE tr \notin scheduled /\ StateOf(tr) = "active"
    BY <1>1, <2>3, <2>4, <2>5, <2>6 DEF Began
  <2>7. CASE tr \in scheduled \/ StateOf(tr) # "active"
    BY <1>1, <2>3, <2>4, <2>5, <2>7 DEF Skipped, nodeVars
  <2>. QED
    BY <1>1, <2>3, <2>6, <2>7
<1>7. \A t \in 1 .. Horizon : t \in Nat
  BY ServicesAssumption
<1>. QED
  BY <1>2, <1>3, <1>4, <1>5, <1>6, <1>7, Ids DEF Next, Finish, NodeStep


-----------------------------------------------------------------------------
(* The invariant is inductive.                                             *)

LEMMA InitIInv == Init => IInv
<1> SUFFICES ASSUME Init PROVE IInv
  OBVIOUS
<1>1. /\ CollatorInit /\ builders = FirstId(Loaded)
      /\ trajState = [tr \in Trajectories |->
                        IF tr # 0 \/ Loaded = "no" THEN "none"
                        ELSE IF Loaded = "frozen" THEN "frozen" ELSE "active"]
      /\ pgQueue = IF Loaded = "freezing" THEN << [do |-> "freeze", tr |-> 0] >> ELSE << >>
      /\ bridges = {} /\ topics = {} /\ scheduled = {}
      /\ subscribers = [tr \in Trajectories |-> {}]
      /\ finishing = None /\ response = None
      /\ phase = "start" /\ toFinish = {}
      /\ crashed = FALSE /\ clock = [s \in Sensors |-> 0]
  BY DEF Init, TNInit
<1>2. /\ open = {} /\ finished = {} /\ marking = << >> /\ running = None
      /\ CollatorTypeOK
  <2>1. << >> \in Seq(Nat) /\ << >> \in Seq(Queues)
    OBVIOUS
  <2>. QED
    BY <1>1, <2>1 DEF CollatorInit, CollatorTypeOK
<1>3. pgQueue \in Seq([do : {"finish", "freeze"}, tr : Trajectories])
  <2>1. PICK freeze : freeze = [do |-> "freeze", tr |-> 0]
    OBVIOUS
  <2>2. PICK items : items = [do : {"finish", "freeze"}, tr : Trajectories]
    OBVIOUS
  <2>3. freeze \in items
    BY <2>1, <2>2, Ids
  <2>4. << freeze >> \in Seq(items) /\ << >> \in Seq(items)
    BY <2>3
  <2>. QED
    BY <1>1, <2>1, <2>2, <2>4
<1>4. TypeOK
  BY <1>1, <1>2, <1>3, Ids DEF TypeOK, TNTypeOK, States
<1>5. MarkedInv /\ BlockedInv
  BY <1>2 DEF MarkedInv, BlockedInv, Mine
<1>6. IdInv
  <2>1. \A tr \in Trajectories : tr >= FirstId(Loaded) => tr # 0 \/ Loaded = "no"
    BY DEF FirstId
  <2>. QED
    BY <1>1, <1>2, <2>1, Ids DEF IdInv
<1>7. TopicsInv /\ BridgeInv /\ QueueInv /\ PhaseInv
  BY <1>1, <1>2 DEF TopicsInv, TopicsInUse, BridgeInv, QueueInv, PhaseInv
<1>8. WorkInv
  <2>1. CASE Loaded = "freezing"
    <3>1. /\ pgQueue = << [do |-> "freeze", tr |-> 0] >> /\ Len(pgQueue) = 1
          /\ pgQueue[1].do = "freeze" /\ pgQueue[1].tr = 0
          /\ trajState[0] = "active" /\ 0 < FirstId(Loaded)
      BY <1>1, <2>1, Ids DEF FirstId
    <3>2. \A i \in 1 .. Len(pgQueue) : i = 1
      BY <3>1
    <3>. QED
      BY <1>1, <2>1, <3>1, <3>2 DEF WorkInv, ItemOK
  <2>2. CASE Loaded # "freezing"
    BY <1>1, <2>2 DEF WorkInv, ItemOK
  <2>. QED
    BY <2>1, <2>2
<1>. QED
  BY <1>4, <1>5, <1>6, <1>7, <1>8 DEF IInv

\* The collator keeps its invariants under every step of the node.
LEMMA StepCollator == IInv /\ [Next]_vars => (CollatorTypeOK /\ MarkedInv /\ BlockedInv)'
<1> SUFFICES ASSUME IInv, [Next]_vars PROVE (CollatorTypeOK /\ MarkedInv /\ BlockedInv)'
  OBVIOUS
<1>1. /\ CollatorTypeOK /\ MarkedInv /\ BlockedInv /\ QueueInv
      /\ open \subseteq Queues
  BY DEF IInv, TypeOK, TNTypeOK, CollatorTypeOK
<1>2. ASSUME NEW S \in SUBSET Sensors, Added(S)
      PROVE  (CollatorTypeOK /\ MarkedInv /\ BlockedInv)'
  <2>1. AddTrajectory(builders, S) /\ builders \in Trajectories
    BY <1>2 DEF Added, AddNodeTrajectory
  <2>. QED
    BY <1>1, <2>1, CallsType, CallsMarked, CallsBlocked
<1>3. ASSUME NEW tr \in Trajectories, Began(tr)
      PROVE  (CollatorTypeOK /\ MarkedInv /\ BlockedInv)'
  <2>1. PICK S : S = {q \in open : q[1] = tr}
    OBVIOUS
  <2>2. PICK o \in Orders(S) : FinishTrajectory(o)
    BY <1>3, <2>1 DEF Began, BeginFinish
  <2>3. tr \notin scheduled /\ finishing = None /\ None \notin Trajectories
    BY <1>3, Ids DEF Began
  <2>4. S \in SUBSET (open \ finished) /\ S \subseteq Queues
    BY <1>1, <2>1, <2>3 DEF QueueInv
  <2>5. o \in Seq(Queues)
    BY <2>4, OrderOf
  <2>. QED
    BY <1>1, <2>2, <2>4, <2>5, CallsType, CallsMarked, CallsBlocked
<1>4. ASSUME NEW q \in Queues, NEW t \in Nat, Data(q, t)
      PROVE  (CollatorTypeOK /\ MarkedInv /\ BlockedInv)'
  <2>1. AddSensorData(q, t) \/ UNCHANGED collatorVars
    BY <1>4 DEF Data, HandleSensorData
  <2>2. CASE AddSensorData(q, t)
    BY <1>1, <2>2, CallsType, CallsMarked, CallsBlocked
  <2>3. CASE UNCHANGED collatorVars
    BY <1>1, <2>3 DEF collatorVars, CollatorTypeOK, MarkedInv, BlockedInv, Mine
  <2>. QED
    BY <2>1, <2>2, <2>3
<1>5. ASSUME NEW c \in Collators, CollateStep(c)
      PROVE  (CollatorTypeOK /\ MarkedInv /\ BlockedInv)'
  BY <1>1, <1>5, DispatchType, CallsMarked, CallsBlocked DEF CollateStep
<1>6. CASE MarkStep
  BY <1>1, <1>6, CallsType, CallsMarked, CallsBlocked DEF MarkStep
<1>7. CASE \/ \E tr \in Trajectories : Skipped(tr) \/ Trim(tr)
           \/ EndFinish \/ WorkItem \/ Proceed \/ Quiet \/ UNCHANGED vars
  <2>1. UNCHANGED collatorVars
    BY <1>7 DEF Skipped, Trim, EndFinish, WorkItem, Proceed, Quiet, vars, tnVars
  <2>. QED
    BY <1>1, <2>1 DEF collatorVars, CollatorTypeOK, MarkedInv, BlockedInv, Mine
<1>. QED
  BY <1>2, <1>3, <1>4, <1>5, <1>6, <1>7, StepCases

LEMMA StepTypeOK == IInv /\ [Next]_vars => TypeOK'
<1> SUFFICES ASSUME IInv, [Next]_vars PROVE TypeOK'
  OBVIOUS
<1>1. TypeOK /\ TNTypeOK /\ CollatorTypeOK /\ CollatorTypeOK'
  BY StepCollator DEF IInv, TypeOK, TNTypeOK
<1> DEFINE Items == [do : {"finish", "freeze"}, tr : Trajectories]
<1>2. /\ builders \in Nat /\ trajState \in [Trajectories -> States]
      /\ pgQueue \in Seq(Items)
      /\ bridges \subseteq Trajectories /\ scheduled \subseteq Trajectories
      /\ subscribers \in [Trajectories -> SUBSET Sensors] /\ topics \subseteq Sensors
      /\ finishing \in Trajectories \cup {None} /\ response \in Responses
      /\ phase \in {"start", "spin", "finishAll", "final", "destroy"}
      /\ toFinish \subseteq Trajectories /\ crashed \in BOOLEAN
      /\ clock \in [Sensors -> Nat]
  BY <1>1 DEF TypeOK, TNTypeOK, Responses
<1> HIDE DEF Items
<1>3. TypeOK' <=>
      /\ builders' \in Nat /\ trajState' \in [Trajectories -> States]
      /\ pgQueue' \in Seq(Items)
      /\ bridges' \subseteq Trajectories /\ scheduled' \subseteq Trajectories
      /\ subscribers' \in [Trajectories -> SUBSET Sensors] /\ topics' \subseteq Sensors
      /\ finishing' \in Trajectories \cup {None} /\ response' \in Responses
      /\ phase' \in {"start", "spin", "finishAll", "final", "destroy"}
      /\ toFinish' \subseteq Trajectories /\ crashed' \in BOOLEAN
      /\ clock' \in [Sensors -> Nat]
  BY <1>1 DEF TypeOK, TNTypeOK, Responses, Items
<1>4. ASSUME NEW S \in SUBSET Sensors, Added(S) PROVE TypeOK'
  BY <1>2, <1>3, <1>4, Ids DEF Added, AddNodeTrajectory
<1>5. ASSUME NEW tr \in Trajectories, Began(tr) PROVE TypeOK'
  BY <1>2, <1>3, <1>5 DEF Began, BeginFinish, slamVars
<1>6. ASSUME NEW tr \in Trajectories, Skipped(tr) PROVE TypeOK'
  BY <1>2, <1>3, <1>6 DEF Skipped, slamVars, nodeVars
<1>7. ASSUME NEW q \in Queues, NEW t \in Nat, Data(q, t) PROVE TypeOK'
  <2>1. /\ crashed' \in { crashed, TRUE } /\ clock' = [clock EXCEPT ![q[2]] = t]
        /\ UNCHANGED << slamVars, nodeVars, mainVars, finishing, response >>
    BY <1>7 DEF Data, HandleSensorData
  <2>. QED
    BY <1>2, <1>3, <2>1 DEF slamVars, nodeVars, mainVars
<1>8. ASSUME NEW c \in Collators, CollateStep(c), UNCHANGED clock PROVE TypeOK'
  <2>1. /\ UNCHANGED << builders, pgQueue, nodeVars, mainVars, finishing, response, clock >>
        /\ \/ AddTrajectoryIfNeeded(Earliest(c)[1])
           \/ UNCHANGED << trajState, crashed >>
    BY <1>8 DEF CollateStep
  <2>2. trajState' \in [Trajectories -> States] /\ crashed' \in BOOLEAN
    BY <1>2, <2>1 DEF AddTrajectoryIfNeeded, States
  <2>. QED
    BY <1>2, <1>3, <2>1, <2>2 DEF nodeVars, mainVars
<1>9. CASE MarkStep /\ UNCHANGED clock
  BY <1>2, <1>3, <1>9 DEF MarkStep, slamVars, nodeVars, mainVars
<1>10. CASE EndFinish /\ UNCHANGED clock
  <2>1. finishing \in Trajectories
    BY <1>2, <1>10 DEF EndFinish
  <2>2. pgQueue' \in Seq(Items)
    <3>1. [do |-> "finish", tr |-> finishing] \in Items
      BY <2>1 DEF Items
    <3>. QED
      BY <1>2, <1>10, <3>1, AppendProperties DEF EndFinish
  <2>3. response' \in Responses
    BY <1>2, <1>10, <2>1 DEF EndFinish, Responses, Codes
  <2>. QED
    BY <1>2, <1>3, <1>10, <2>1, <2>2, <2>3 DEF EndFinish, mainVars
<1>11. CASE WorkItem /\ UNCHANGED clock
  <2>1. pgQueue # << >> /\ Tail(pgQueue) \in Seq(Items)
    BY <1>2, <1>11, HeadTailProperties DEF WorkItem
  <2>2. pgQueue' \in { pgQueue, Tail(pgQueue) } /\ trajState' \in [Trajectories -> States]
        /\ crashed' \in BOOLEAN
    BY <1>2, <1>11 DEF WorkItem, States
  <2>. QED
    BY <1>2, <1>3, <1>11, <2>1, <2>2 DEF WorkItem, nodeVars, mainVars
<1>12. ASSUME NEW tr \in Trajectories, Trim(tr), UNCHANGED clock PROVE TypeOK'
  BY <1>2, <1>3, <1>12 DEF Trim, States, nodeVars, mainVars
<1>13. CASE Proceed /\ UNCHANGED clock
  <2>1. phase' \in {"finishAll", "final", "destroy"}
    BY <1>13 DEF Proceed, PhaseAfter
  <2>. QED
    BY <1>2, <1>3, <1>13, <2>1 DEF Proceed, Active, slamVars, nodeVars
<1>14. CASE Quiet
  BY <1>2, <1>3, <1>14 DEF Quiet, slamVars, nodeVars
<1>15. CASE UNCHANGED vars
  BY <1>2, <1>3, <1>15 DEF vars, tnVars, slamVars, nodeVars, mainVars
<1>. QED
  BY <1>4, <1>5, <1>6, <1>7, <1>8, <1>9, <1>10, <1>11, <1>12, <1>13, <1>14, <1>15, StepCases


\* What CollateStep does to the queues and to the pose graph.
LEMMA CollateCases ==
  ASSUME TypeOK, NEW c \in Collators, CollateStep(c)
  PROVE  /\ open' \subseteq open /\ finished' = finished \cap open'
         /\ \A q \in open \ open' : q \in finished
         /\ UNCHANGED << marking, builders, pgQueue, nodeVars, mainVars, finishing >>
         /\ \/ UNCHANGED << trajState, crashed >>
            \/ \E e \in open :
                 /\ CollatorOf(e[1]) = c /\ e[1] \in Trajectories
                 /\ \/ /\ trajState[e[1]] \in {"finished", "deleted"}
                       /\ crashed' = TRUE /\ UNCHANGED trajState
                    \/ /\ trajState[e[1]] = "none"
                       /\ trajState' = [trajState EXCEPT ![e[1]] = "active"]
                       /\ UNCHANGED crashed
<1>1. CollatorTypeOK /\ Dispatch(c) /\ trajState \in [Trajectories -> States]
  BY DEF TypeOK, TNTypeOK, CollateStep
<1>2. /\ open' \subseteq open /\ finished' = finished \cap open'
      /\ \A q \in open \ open' : q \in finished
      /\ UNCHANGED << marking, builders, pgQueue, nodeVars, mainVars, finishing >>
  BY <1>1, DispatchQueues DEF CollateStep, Dispatch
<1>3. CASE Delivers(c) /\ AddTrajectoryIfNeeded(Earliest(c)[1])
  <2>1. PICK e : e = Earliest(c)
    OBVIOUS
  <2>2. e \in open /\ CollatorOf(e[1]) = c /\ e[1] \in Trajectories
    BY <1>1, <1>3, <2>1, Picked, KeysFinite DEF Delivers
  <2>3. CASE trajState[e[1]] = "none"
    BY <1>2, <1>3, <2>1, <2>2, <2>3 DEF AddTrajectoryIfNeeded
  <2>4. CASE trajState[e[1]] # "none"
    BY <1>1, <1>2, <1>3, <2>1, <2>2, <2>4 DEF AddTrajectoryIfNeeded
  <2>. QED
    BY <2>3, <2>4
<1>4. CASE UNCHANGED << trajState, crashed >>
  BY <1>2, <1>4
<1>. QED
  BY <1>3, <1>4 DEF CollateStep

\* What the pose graph's thread does with the work item h.
Worked(h) ==
  \/ /\ h = Pending(h.tr) /\ h.do = "finish"
     /\ h.tr \in scheduled /\ trajState[h.tr] \notin {"finished", "deleted"}
     /\ trajState' = [trajState EXCEPT ![h.tr] = "finished"]
  \/ /\ h.do = "freeze" /\ h.tr < FirstId(Loaded) /\ Loaded = "freezing"
     /\ trajState[h.tr] = "active"
     /\ trajState' = [trajState EXCEPT ![h.tr] = "frozen"]

LEMMA WorkHead ==
  ASSUME TypeOK, WorkInv, WorkItem
  PROVE  /\ 1 \in 1 .. Len(pgQueue) /\ pgQueue[1].tr \in Trajectories
         /\ Worked(pgQueue[1])
         /\ UNCHANGED << collatorVars, builders, nodeVars, mainVars, finishing, crashed >>
         /\ \A i \in 1 .. Len(pgQueue') :
              i + 1 \in 1 .. Len(pgQueue) /\ pgQueue'[i] = pgQueue[i + 1]
         /\ \A i \in 1 .. Len(pgQueue) :
              i # 1 => (i - 1 \in 1 .. Len(pgQueue') /\ pgQueue'[i - 1] = pgQueue[i])
<1>1. PICK items : items = [do : {"finish", "freeze"}, tr : Trajectories]
  OBVIOUS
<1>2. pgQueue \in Seq(items) /\ pgQueue # << >>
  BY <1>1 DEF TypeOK, TNTypeOK, WorkItem
<1>3. /\ Head(pgQueue) = pgQueue[1] /\ 1 \in 1 .. Len(pgQueue) /\ pgQueue[1] \in items
      /\ Len(pgQueue) \in Nat /\ Len(Tail(pgQueue)) = Len(pgQueue) - 1
      /\ \A i \in 1 .. Len(Tail(pgQueue)) :
           i + 1 \in 1 .. Len(pgQueue) /\ Tail(pgQueue)[i] = pgQueue[i + 1]
  BY <1>2, HeadTailProperties, LenProperties, EmptySeq, ElementOfSeq
<1>4. PICK h \in items : h = pgQueue[1]
  BY <1>3
<1>5. h.tr \in Trajectories /\ h.do \in {"finish", "freeze"} /\ (h.do = "finish" => h = Pending(h.tr))
  BY <1>1, <1>4 DEF Pending
<1>6. IF h.do = "finish"
      THEN h.tr \in scheduled /\ trajState[h.tr] \notin {"finished", "deleted"}
      ELSE h.tr < FirstId(Loaded) /\ Loaded = "freezing" /\ trajState[h.tr] = "active"
  BY <1>3, <1>4 DEF WorkInv, ItemOK
<1>7. Worked(h) /\ pgQueue' = Tail(pgQueue) /\ UNCHANGED crashed
  BY <1>3, <1>4, <1>5, <1>6 DEF WorkItem, Worked
<1>8. \A i \in 1 .. Len(pgQueue) :
        i # 1 => (i - 1 \in 1 .. Len(pgQueue') /\ pgQueue'[i - 1] = pgQueue[i])
  <2> SUFFICES ASSUME NEW i \in 1 .. Len(pgQueue), i # 1
               PROVE  i - 1 \in 1 .. Len(pgQueue') /\ pgQueue'[i - 1] = pgQueue[i]
    OBVIOUS
  <2>1. i - 1 \in 1 .. Len(Tail(pgQueue)) /\ (i - 1) + 1 = i
    BY <1>3
  <2>. QED
    BY <1>3, <1>7, <2>1
<1>. QED
  BY <1>3, <1>4, <1>5, <1>7, <1>8 DEF WorkItem


LEMMA StepId == IInv /\ [Next]_vars => IdInv'
<1> SUFFICES ASSUME IInv, [Next]_vars PROVE IdInv'
  OBVIOUS
<1>1. /\ TypeOK /\ IdInv /\ WorkInv
      /\ builders \in Nat /\ trajState \in [Trajectories -> States]
      /\ bridges \subseteq Trajectories /\ scheduled \subseteq Trajectories
      /\ finishing \in Trajectories \cup {None} /\ open \subseteq Queues
      /\ Trajectories \subseteq Nat /\ None \notin Trajectories /\ FirstId(Loaded) \in Nat
  BY Ids DEF IInv, TypeOK, TNTypeOK, CollatorTypeOK
<1>2. ASSUME NEW S \in SUBSET Sensors, Added(S) PROVE IdInv'
  <2>1. /\ builders' = builders + 1 /\ bridges' = bridges \cup {builders}
        /\ UNCHANGED << scheduled, finishing, trajState >>
        /\ open' \subseteq open \cup ({builders} \X S)
    BY <1>2 DEF Added, AddNodeTrajectory, AddTrajectory
  <2>2. /\ FirstId(Loaded) <= builders' /\ \A tr \in Trajectories : tr < FirstId(Loaded) => tr # builders
        /\ \A tr \in Trajectories : tr >= builders' => tr >= builders /\ tr # builders
    BY <1>1, <2>1 DEF IdInv
  <2>3. \A tr \in Trajectories : \A q \in open' : tr >= builders' => q[1] # tr
    BY <1>1, <2>1, <2>2 DEF IdInv
  <2>. QED
    BY <1>1, <2>1, <2>2, <2>3 DEF IdInv
<1>3. ASSUME NEW tr \in Trajectories, Began(tr) PROVE IdInv'
  <2>1. /\ finishing' = tr /\ UNCHANGED << builders, trajState, bridges, scheduled, open >>
    BY <1>3 DEF Began, BeginFinish, FinishTrajectory, slamVars
  <2>2. ~ (tr >= builders)
    BY <1>1, <1>3 DEF Began, StateOf, IdInv
  <2>. QED
    BY <1>1, <2>1, <2>2 DEF IdInv
<1>4. CASE \/ \E tr \in Trajectories : Skipped(tr)
           \/ \E q \in Queues, t \in Nat : Data(q, t)
           \/ MarkStep \/ Proceed \/ Quiet \/ UNCHANGED vars
  <2>1. UNCHANGED << builders, trajState, bridges, scheduled, finishing, open >>
    BY <1>4 DEF Skipped, Data, HandleSensorData, AddSensorData, MarkStep, MarkQueueAsFinished,
                Proceed, Quiet, vars, tnVars, slamVars, nodeVars, collatorVars
  <2>. QED
    BY <1>1, <2>1 DEF IdInv
<1>5. ASSUME NEW c \in Collators, CollateStep(c) PROVE IdInv'
  <2>1. /\ open' \subseteq open /\ UNCHANGED << builders, nodeVars, finishing >>
        /\ \/ UNCHANGED trajState
           \/ \E e \in open : trajState' = [trajState EXCEPT ![e[1]] = "active"]
    BY <1>1, <1>5, CollateCases
  <2>2. \A tr \in Trajectories : tr >= builders => trajState'[tr] = "none"
    BY <1>1, <2>1 DEF IdInv
  <2>. QED
    BY <1>1, <2>1, <2>2 DEF IdInv, nodeVars
<1>6. CASE EndFinish
  BY <1>1, <1>6 DEF IdInv, EndFinish, collatorVars
<1>7. CASE WorkItem
  <2>1. PICK h : h = pgQueue[1]
    OBVIOUS
  <2>2. /\ h.tr \in Trajectories /\ Worked(h)
        /\ UNCHANGED << collatorVars, builders, nodeVars, mainVars, finishing >>
    BY <1>1, <1>7, <2>1, WorkHead
  <2>3. h.tr \in scheduled \/ h.tr < FirstId(Loaded)
    BY <2>2 DEF Worked
  <2>4. ~ (h.tr >= builders)
    <3>1. h.tr \in Nat /\ FirstId(Loaded) <= builders
      BY <1>1, <2>2 DEF IdInv
    <3>2. CASE h.tr \in scheduled
      BY <1>1, <2>2, <3>2 DEF IdInv
    <3>3. CASE h.tr < FirstId(Loaded)
      BY ONLY <1>1, <3>1, <3>3
    <3>. QED
      BY <2>3, <3>2, <3>3
  <2>5. \A tr \in Trajectories : tr # h.tr => trajState'[tr] = trajState[tr]
    BY <1>1, <2>2 DEF Worked
  <2>. QED
    BY <1>1, <2>2, <2>4, <2>5 DEF IdInv, nodeVars, collatorVars
<1>8. ASSUME NEW tr \in Trajectories, Trim(tr) PROVE IdInv'
  <2>1. ~ (tr >= builders)
    BY <1>1, <1>8 DEF Trim, IdInv
  <2>. QED
    BY <1>1, <1>8, <2>1 DEF Trim, IdInv, nodeVars, collatorVars
<1>. QED
  BY <1>2, <1>3, <1>4, <1>5, <1>6, <1>7, <1>8, StepCases

LEMMA StepTopics == IInv /\ [Next]_vars => TopicsInv'
<1> SUFFICES ASSUME IInv, [Next]_vars PROVE TopicsInv'
  OBVIOUS
<1>1. /\ TypeOK /\ IdInv /\ TopicsInv
      /\ subscribers \in [Trajectories -> SUBSET Sensors] /\ builders \in Nat
      /\ finishing \in Trajectories \cup {None}
      /\ Trajectories \subseteq Nat /\ None \notin Trajectories
  BY Ids DEF IInv, TypeOK, TNTypeOK
<1>2. ASSUME NEW S \in SUBSET Sensors, Added(S) PROVE TopicsInv'
  <2>1. /\ builders \in Trajectories /\ S \cap topics = {}
        /\ bridges' = bridges \cup {builders} /\ topics' = topics \cup S
        /\ subscribers' = [subscribers EXCEPT ![builders] = S] /\ finishing' = finishing
    BY <1>2 DEF Added, AddNodeTrajectory
  <2>2. builders \notin bridges /\ builders # finishing /\ subscribers[builders] = {}
    BY <1>1, <2>1 DEF IdInv, TopicsInv
  <2>3. \A tr \in Trajectories : /\ tr # builders => subscribers'[tr] = subscribers[tr]
                                 /\ subscribers'[builders] = S /\ subscribers[tr] \subseteq topics
    BY <1>1, <2>1 DEF TopicsInv, TopicsInUse
  <2>4. topics' = UNION {subscribers'[tr] : tr \in Trajectories}
    <3>1. \A x \in topics : \E tr \in Trajectories : x \in subscribers[tr] /\ tr # builders
      BY <1>1, <2>2 DEF TopicsInv, TopicsInUse
    <3>2. \A x \in topics' : \E tr \in Trajectories : x \in subscribers'[tr]
      BY <2>1, <2>3, <3>1
    <3>3. \A tr \in Trajectories : subscribers'[tr] \subseteq topics'
      BY <2>1, <2>3
    <3>. QED
      BY <3>2, <3>3
  <2>5. \A tr, other \in Trajectories :
          tr # other => subscribers'[tr] \cap subscribers'[other] = {}
    BY <1>1, <2>1, <2>3 DEF TopicsInv, TopicsInUse
  <2>. QED
    BY <1>1, <2>1, <2>2, <2>3, <2>4, <2>5 DEF TopicsInv, TopicsInUse
<1>3. ASSUME NEW tr \in Trajectories, Began(tr) PROVE TopicsInv'
  <2>1. /\ finishing' = tr /\ bridges' = bridges /\ topics' = topics \ subscribers[tr]
        /\ subscribers' = [subscribers EXCEPT ![tr] = {}]
    BY <1>3 DEF Began, BeginFinish
  <2>2. \A k \in Trajectories : /\ k # tr => subscribers'[k] = subscribers[k]
                                /\ subscribers'[tr] = {}
    BY <1>1, <2>1
  <2>3. topics' = UNION {subscribers'[k] : k \in Trajectories}
    <3>1. \A x \in topics' : \E k \in Trajectories : x \in subscribers'[k]
      BY <1>1, <2>1, <2>2 DEF TopicsInv, TopicsInUse
    <3>2. \A k \in Trajectories : subscribers'[k] \subseteq topics'
      BY <1>1, <2>1, <2>2 DEF TopicsInv, TopicsInUse
    <3>. QED
      BY <3>1, <3>2
  <2>4. \A k, other \in Trajectories :
          k # other => subscribers'[k] \cap subscribers'[other] = {}
    BY <1>1, <2>2 DEF TopicsInv, TopicsInUse
  <2>. QED
    BY <1>1, <2>1, <2>2, <2>3, <2>4 DEF TopicsInv, TopicsInUse
<1>4. CASE EndFinish
  <2>1. /\ bridges' = bridges \ {finishing} /\ finishing' = None
        /\ UNCHANGED << subscribers, topics >> /\ finishing \in Trajectories
    BY <1>1, <1>4 DEF EndFinish
  <2>2. subscribers[finishing] = {}
    BY <1>1, <2>1 DEF TopicsInv
  <2>. QED
    BY <1>1, <2>1, <2>2 DEF TopicsInv, TopicsInUse
<1>5. CASE \/ \E tr \in Trajectories : Skipped(tr) \/ Trim(tr)
           \/ \E q \in Queues, t \in Nat : Data(q, t)
           \/ \E c \in Collators : CollateStep(c)
           \/ MarkStep \/ WorkItem \/ Proceed \/ Quiet \/ UNCHANGED vars
  <2>1. UNCHANGED << nodeVars, finishing >>
    BY <1>5 DEF Skipped, Trim, Data, HandleSensorData, CollateStep, MarkStep, WorkItem,
                Proceed, Quiet, vars, tnVars, nodeVars
  <2>. QED
    BY <1>1, <2>1 DEF TopicsInv, TopicsInUse, nodeVars
<1>. QED
  BY <1>2, <1>3, <1>4, <1>5, StepCases

LEMMA StepBridge == IInv /\ [Next]_vars => BridgeInv'
<1> SUFFICES ASSUME IInv, [Next]_vars PROVE BridgeInv'
  OBVIOUS
<1>1. /\ TypeOK /\ IdInv /\ BridgeInv /\ WorkInv
      /\ trajState \in [Trajectories -> States] /\ builders \in Nat
      /\ bridges \subseteq Trajectories /\ scheduled \subseteq Trajectories
      /\ finishing \in Trajectories \cup {None}
      /\ Trajectories \subseteq Nat /\ None \notin Trajectories /\ FirstId(Loaded) \in Nat
  BY Ids DEF IInv, TypeOK, TNTypeOK
<1>2. ASSUME NEW S \in SUBSET Sensors, Added(S) PROVE BridgeInv'
  <2>1. /\ builders \in Trajectories /\ bridges' = bridges \cup {builders}
        /\ UNCHANGED << scheduled, finishing, trajState >>
    BY <1>2 DEF Added, AddNodeTrajectory
  <2>2. builders \notin scheduled /\ trajState[builders] = "none"
    BY <1>1, <2>1 DEF IdInv
  <2>. QED
    BY <1>1, <2>1, <2>2 DEF BridgeInv
<1>3. ASSUME NEW tr \in Trajectories, Began(tr) PROVE BridgeInv'
  <2>1. /\ finishing' = tr /\ UNCHANGED << bridges, scheduled, trajState >>
        /\ tr \notin scheduled
    BY <1>3 DEF Began, BeginFinish, slamVars
  <2>2. trajState[tr] \notin {"finished", "deleted"}
    BY <1>3 DEF Began, StateOf
  <2>. QED
    BY <1>1, <2>1, <2>2 DEF BridgeInv
<1>4. CASE \/ \E tr \in Trajectories : Skipped(tr)
           \/ \E q \in Queues, t \in Nat : Data(q, t)
           \/ MarkStep \/ Proceed \/ Quiet \/ UNCHANGED vars
  <2>1. UNCHANGED << trajState, bridges, scheduled, finishing >>
    BY <1>4 DEF Skipped, Data, HandleSensorData, MarkStep,
                Proceed, Quiet, vars, tnVars, slamVars, nodeVars
  <2>. QED
    BY <1>1, <2>1 DEF BridgeInv
<1>5. ASSUME NEW c \in Collators, CollateStep(c) PROVE BridgeInv'
  <2>1. /\ UNCHANGED << nodeVars, finishing >>
        /\ \/ UNCHANGED trajState
           \/ \E e \in open : trajState' = [trajState EXCEPT ![e[1]] = "active"]
    BY <1>1, <1>5, CollateCases
  <2>2. \A tr \in Trajectories : trajState'[tr] \in {trajState[tr], "active"}
    BY <1>1, <2>1
  <2>. QED
    BY <1>1, <2>1, <2>2 DEF BridgeInv, nodeVars
<1>6. CASE EndFinish
  BY <1>1, <1>6 DEF BridgeInv, EndFinish
<1>7. CASE WorkItem
  <2>1. PICK h : h = pgQueue[1]
    OBVIOUS
  <2>2. /\ h.tr \in Trajectories /\ Worked(h) /\ UNCHANGED << nodeVars, finishing >>
    BY <1>1, <1>7, <2>1, WorkHead
  <2>3. h.tr \notin bridges
    BY <1>1, <2>2 DEF Worked, IdInv, BridgeInv
  <2>4. \A tr \in Trajectories : tr # h.tr => trajState'[tr] = trajState[tr]
    BY <1>1, <2>2 DEF Worked
  <2>5. finishing = h.tr => trajState'[h.tr] = "frozen"
    BY <1>1, <2>2 DEF Worked, BridgeInv
  <2>. QED
    BY <1>1, <2>2, <2>3, <2>4, <2>5 DEF BridgeInv, nodeVars
<1>8. ASSUME NEW tr \in Trajectories, Trim(tr) PROVE BridgeInv'
  <2>1. tr \notin bridges /\ tr # finishing
    BY <1>1, <1>8 DEF Trim, BridgeInv
  <2>. QED
    BY <1>1, <1>8, <2>1 DEF Trim, BridgeInv, nodeVars
<1>. QED
  BY <1>2, <1>3, <1>4, <1>5, <1>6, <1>7, <1>8, StepCases


LEMMA StepQueue == IInv /\ [Next]_vars => QueueInv'
<1> SUFFICES ASSUME IInv, [Next]_vars PROVE QueueInv'
  OBVIOUS
<1>1. /\ TypeOK /\ IdInv /\ MarkedInv /\ QueueInv /\ CollatorTypeOK
      /\ open \subseteq Queues /\ finished \subseteq open /\ builders \in Nat
      /\ \A q \in Queues : q[1] \in Trajectories
      /\ finishing \in Trajectories \cup {None}
      /\ Trajectories \subseteq Nat /\ None \notin Trajectories
  BY Ids, KeysFinite DEF IInv, TypeOK, TNTypeOK, CollatorTypeOK
<1>2. ASSUME NEW S \in SUBSET Sensors, Added(S) PROVE QueueInv'
  <2>1. /\ builders \in Trajectories /\ bridges' = bridges \cup {builders}
        /\ UNCHANGED << scheduled, finishing, finished, marking >>
        /\ open' \subseteq open \cup ({builders} \X S)
    BY <1>2 DEF Added, AddNodeTrajectory, AddTrajectory
  <2>2. builders # finishing
    BY <1>1, <2>1 DEF IdInv
  <2>3. \A q \in open' \ finished' : q \in open \ finished \/ q[1] = builders
    BY <2>1
  <2>. QED
    BY <1>1, <2>1, <2>2, <2>3 DEF QueueInv
<1>3. ASSUME NEW tr \in Trajectories, Began(tr) PROVE QueueInv'
  <2>1. PICK S : S = {q \in open : q[1] = tr}
    OBVIOUS
  <2>2. PICK o \in Orders(S) : FinishTrajectory(o)
    BY <1>3, <2>1 DEF Began, BeginFinish
  <2>3. /\ finishing' = tr /\ finishing = None /\ marking' = o
        /\ UNCHANGED << bridges, scheduled, open, finished >>
    BY <1>3, <2>2 DEF Began, BeginFinish, FinishTrajectory
  <2>4. /\ \A i \in 1 .. Len(o) : o[i] \in S
        /\ \A q \in S : \E i \in 1 .. Len(o) : o[i] = q
    BY <1>1, <2>1, OrderOf
  <2>. QED
    BY <1>1, <2>1, <2>3, <2>4 DEF QueueInv
<1>4. CASE \/ \E tr \in Trajectories : Skipped(tr) \/ Trim(tr)
           \/ \E q \in Queues, t \in Nat : Data(q, t)
           \/ WorkItem \/ Proceed \/ Quiet \/ UNCHANGED vars
  <2>1. UNCHANGED << bridges, scheduled, finishing, open, finished, marking >>
    BY <1>4 DEF Skipped, Trim, Data, HandleSensorData, AddSensorData, WorkItem,
                Proceed, Quiet, vars, tnVars, nodeVars, collatorVars
  <2>. QED
    BY <1>1, <2>1 DEF QueueInv
<1>5. ASSUME NEW c \in Collators, CollateStep(c) PROVE QueueInv'
  <2>1. /\ open' \subseteq open /\ finished' = finished \cap open'
        /\ UNCHANGED << marking, nodeVars, finishing >>
    BY <1>1, <1>5, CollateCases
  <2>. QED
    BY <1>1, <2>1 DEF QueueInv, nodeVars
<1>6. CASE MarkStep
  <2>1. /\ MarkQueueAsFinished /\ UNCHANGED << bridges, scheduled, finishing >>
    BY <1>6 DEF MarkStep, nodeVars
  <2>2. PICK h : h = Head(marking)
    OBVIOUS
  <2>3. /\ h = marking[1] /\ 1 \in 1 .. Len(marking) /\ h \in open
        /\ \A i \in 1 .. Len(marking') :
             i + 1 \in 1 .. Len(marking) /\ marking'[i] = marking[i + 1]
        /\ \A i \in 2 .. Len(marking) : i - 1 \in 1 .. Len(marking') /\ marking'[i - 1] = marking[i]
        /\ finished' = finished \cup {h} /\ open' = open
    BY <1>1, <2>1, <2>2, MarkHead
  <2>4. \A q \in open' \ finished' :
          q[1] = finishing => \E i \in 1 .. Len(marking') : marking'[i] = q
    <3> SUFFICES ASSUME NEW q \in open' \ finished', q[1] = finishing
                 PROVE  \E i \in 1 .. Len(marking') : marking'[i] = q
      OBVIOUS
    <3>1. PICK i \in 1 .. Len(marking) : marking[i] = q
      BY <1>1, <2>3 DEF QueueInv
    <3>2. i # 1
      BY <2>3, <3>1
    <3>3. i \in 2 .. Len(marking)
      BY <3>2
    <3>. QED
      BY <2>3, <3>1, <3>3
  <2>5. h[1] = finishing
    BY <1>1, <2>3 DEF QueueInv
  <2>6. \A i \in 1 .. Len(marking') : marking'[i][1] = finishing
    BY <1>1, <2>3 DEF QueueInv
  <2>. QED
    BY <1>1, <2>1, <2>3, <2>4, <2>5, <2>6 DEF QueueInv
<1>7. CASE EndFinish
  <2>1. /\ marking = << >> /\ bridges' = bridges \ {finishing}
        /\ scheduled' = scheduled \cup {finishing} /\ finishing' = None
        /\ UNCHANGED << open, finished, marking >>
    BY <1>7 DEF EndFinish, Idle, collatorVars
  <2>2. \A q \in open \ finished : q[1] # finishing
    BY <1>1, <2>1 DEF QueueInv
  <2>. QED
    BY <1>1, <2>1, <2>2 DEF QueueInv
<1>. QED
  BY <1>2, <1>3, <1>4, <1>5, <1>6, <1>7, StepCases

LEMMA StepWork == IInv /\ [Next]_vars => WorkInv'
<1> SUFFICES ASSUME IInv, [Next]_vars PROVE WorkInv'
  OBVIOUS
<1>1. PICK items : items = [do : {"finish", "freeze"}, tr : Trajectories]
  OBVIOUS
<1>2. /\ TypeOK /\ BridgeInv /\ WorkInv
      /\ trajState \in [Trajectories -> States] /\ pgQueue \in Seq(items)
      /\ scheduled \subseteq Trajectories /\ finishing \in Trajectories \cup {None}
      /\ None \notin Trajectories /\ Trajectories \subseteq Nat
      /\ Len(pgQueue) \in Nat
      /\ \A i \in 1 .. Len(pgQueue) : pgQueue[i] \in items /\ pgQueue[i].tr \in Trajectories
  <2>1. TypeOK /\ pgQueue \in Seq(items)
    BY <1>1 DEF IInv, TypeOK, TNTypeOK
  <2>2. /\ Len(pgQueue) \in Nat
        /\ \A i \in 1 .. Len(pgQueue) : pgQueue[i] \in items
    BY <2>1, LenProperties, ElementOfSeq
  <2>3. \A item \in items : item.tr \in Trajectories
    BY <1>1
  <2>. QED
    BY <2>1, <2>2, <2>3, Ids DEF IInv, TypeOK, TNTypeOK
<1>3. CASE \/ \E S \in SUBSET Sensors : Added(S)
           \/ \E tr \in Trajectories : Began(tr) \/ Skipped(tr)
           \/ \E q \in Queues, t \in Nat : Data(q, t)
           \/ MarkStep \/ Proceed \/ Quiet \/ UNCHANGED vars
  <2>1. UNCHANGED << trajState, pgQueue, scheduled >>
    BY <1>3 DEF Added, Began, BeginFinish, Skipped, Data, HandleSensorData, MarkStep,
                Proceed, Quiet, vars, tnVars, slamVars, nodeVars
  <2>. QED
    BY <1>2, <2>1 DEF WorkInv, ItemOK
<1>4. ASSUME \/ \E c \in Collators : CollateStep(c)
             \/ \E tr \in Trajectories : Trim(tr)
      PROVE  WorkInv'
  <2>1. /\ UNCHANGED << pgQueue, scheduled >>
        /\ \A tr \in Trajectories :
             /\ trajState[tr] = "active" => trajState'[tr] = "active"
             /\ trajState[tr] \in {"finished", "deleted"} <=> trajState'[tr] \in {"finished", "deleted"}
    <3>1. ASSUME NEW c \in Collators, CollateStep(c)
          PROVE  /\ UNCHANGED << pgQueue, nodeVars >>
                 /\ \/ UNCHANGED trajState
                    \/ \E e \in open : /\ e[1] \in Trajectories /\ trajState[e[1]] = "none"
                                       /\ trajState' = [trajState EXCEPT ![e[1]] = "active"]
      BY <1>2, <3>1, CollateCases
    <3>2. ASSUME NEW tr \in Trajectories, Trim(tr)
          PROVE  /\ UNCHANGED << pgQueue, nodeVars >> /\ trajState[tr] = "finished"
                 /\ trajState' = [trajState EXCEPT ![tr] = "deleted"]
      BY <3>2 DEF Trim
    <3>. QED
      BY <1>2, <1>4, <3>1, <3>2 DEF nodeVars
  <2>. QED
    BY <1>2, <2>1 DEF WorkInv, ItemOK
<1>5. CASE EndFinish
  <2>1. PICK p : p = Pending(finishing)
    OBVIOUS
  <2>2. /\ finishing \in Trajectories /\ finishing \notin scheduled
        /\ trajState[finishing] \notin {"finished", "deleted"}
        /\ pgQueue' = Append(pgQueue, p) /\ scheduled' = scheduled \cup {finishing}
        /\ trajState' = trajState
    BY <1>2, <1>5, <2>1 DEF EndFinish, BridgeInv, Pending
  <2>3. p \in items /\ p.do = "finish" /\ p.tr = finishing
    BY <1>1, <2>1, <2>2 DEF Pending
  <2>4. /\ Len(pgQueue') = Len(pgQueue) + 1 /\ pgQueue'[Len(pgQueue) + 1] = p
        /\ \A i \in 1 .. Len(pgQueue) : pgQueue'[i] = pgQueue[i]
    BY <1>2, <2>2, <2>3, AppendProperties
  <2>5. PICK n \in Nat : n = Len(pgQueue)
    BY <1>2
  <2>6. \A i \in 1 .. Len(pgQueue') : i = n + 1 \/ i \in 1 .. Len(pgQueue)
    BY <2>4, <2>5
  <2>7. \A i \in 1 .. Len(pgQueue) : pgQueue[i] # p /\ ItemOK(i)
    BY <1>2, <2>2, <2>3 DEF WorkInv, ItemOK
  <2>8. \A i \in 1 .. Len(pgQueue') : ItemOK(i)'
    BY <2>2, <2>3, <2>4, <2>5, <2>6, <2>7 DEF ItemOK
  <2>9. \A i, j \in 1 .. Len(pgQueue') : pgQueue'[i] = pgQueue'[j] => i = j
    BY <1>2, <2>4, <2>5, <2>6, <2>7 DEF WorkInv, ItemOK
  <2>10. \A tr \in scheduled' : \/ trajState'[tr] \in {"finished", "deleted"}
                                \/ \E i \in 1 .. Len(pgQueue') : pgQueue'[i] = Pending(tr)
    <3>1. Len(pgQueue) + 1 \in 1 .. Len(pgQueue')
          /\ \A i \in 1 .. Len(pgQueue) : i \in 1 .. Len(pgQueue')
      BY <1>2, <2>4
    <3>. QED
      BY <1>2, <2>1, <2>2, <2>4, <3>1 DEF WorkInv, ItemOK
  <2>. QED
    BY <2>8, <2>9, <2>10 DEF WorkInv, ItemOK
<1>6. CASE WorkItem
  <2>1. PICK h : h = pgQueue[1]
    OBVIOUS
  <2>2. /\ 1 \in 1 .. Len(pgQueue) /\ h.tr \in Trajectories /\ Worked(h)
        /\ UNCHANGED nodeVars
        /\ \A i \in 1 .. Len(pgQueue') :
             i + 1 \in 1 .. Len(pgQueue) /\ pgQueue'[i] = pgQueue[i + 1]
        /\ \A i \in 1 .. Len(pgQueue) :
             i # 1 => (i - 1 \in 1 .. Len(pgQueue') /\ pgQueue'[i - 1] = pgQueue[i])
    BY <1>2, <1>6, <2>1, WorkHead
  <2>3. scheduled' = scheduled
    BY <2>2 DEF nodeVars
  <2>4. \A tr \in Trajectories : tr # h.tr => trajState'[tr] = trajState[tr]
    BY <1>2, <2>2 DEF Worked
  <2>5. \A i \in 1 .. Len(pgQueue) :
          i # 1 => /\ pgQueue[i].do = "finish" /\ pgQueue[i] # h
                   /\ pgQueue[i].tr \in scheduled /\ pgQueue[i] = Pending(pgQueue[i].tr)
                   /\ trajState[pgQueue[i].tr] \notin {"finished", "deleted"}
    BY <1>1, <1>2, <2>1, <2>2 DEF WorkInv, ItemOK, Pending
  <2>6. \A i \in 1 .. Len(pgQueue) : i # 1 => trajState'[pgQueue[i].tr] \notin {"finished", "deleted"}
    <3> SUFFICES ASSUME NEW i \in 1 .. Len(pgQueue), i # 1
                 PROVE  trajState'[pgQueue[i].tr] \notin {"finished", "deleted"}
      OBVIOUS
    <3>1. CASE pgQueue[i].tr # h.tr
      BY <1>2, <2>4, <2>5, <3>1
    <3>2. CASE pgQueue[i].tr = h.tr
      <4>1. h # Pending(h.tr)
        BY <2>5, <3>2
      <4>. QED
        BY <1>2, <2>2, <3>2, <4>1 DEF Worked
    <3>. QED
      BY <3>1, <3>2
  <2>7. \A i \in 1 .. Len(pgQueue') : ItemOK(i)' /\ i + 1 # 1
    <3> SUFFICES ASSUME NEW i \in 1 .. Len(pgQueue') PROVE ItemOK(i)' /\ i + 1 # 1
      OBVIOUS
    <3>1. i \in Nat /\ i + 1 # 1 /\ i + 1 \in 1 .. Len(pgQueue) /\ pgQueue'[i] = pgQueue[i + 1]
      BY <1>2, <2>2
    <3>2. /\ pgQueue'[i].do = "finish" /\ pgQueue'[i].tr \in scheduled
          /\ trajState'[pgQueue'[i].tr] \notin {"finished", "deleted"}
      BY <2>5, <2>6, <3>1
    <3>. QED
      BY <2>3, <3>1, <3>2 DEF ItemOK
  <2>8. \A i, j \in 1 .. Len(pgQueue') : pgQueue'[i] = pgQueue'[j] => i = j
    <3> SUFFICES ASSUME NEW i \in 1 .. Len(pgQueue'), NEW j \in 1 .. Len(pgQueue'),
                        pgQueue'[i] = pgQueue'[j]
                 PROVE  i = j
      OBVIOUS
    <3>1. i \in Nat /\ j \in Nat
      OBVIOUS
    <3>2. /\ i + 1 \in 1 .. Len(pgQueue) /\ j + 1 \in 1 .. Len(pgQueue)
          /\ pgQueue[i + 1] = pgQueue[j + 1]
      BY <2>2
    <3>3. i + 1 = j + 1
      BY <1>2, <3>2 DEF WorkInv
    <3>. QED
      BY <3>1, <3>3
  <2>9. \A tr \in scheduled : \/ trajState'[tr] \in {"finished", "deleted"}
                              \/ \E i \in 1 .. Len(pgQueue') : pgQueue'[i] = Pending(tr)
    <3> SUFFICES ASSUME NEW tr \in scheduled, trajState'[tr] \notin {"finished", "deleted"}
                 PROVE  \E i \in 1 .. Len(pgQueue') : pgQueue'[i] = Pending(tr)
      OBVIOUS
    <3>1. trajState[tr] \notin {"finished", "deleted"}
      BY <1>2, <2>2, <2>4 DEF Worked
    <3>2. PICK i \in 1 .. Len(pgQueue) : pgQueue[i] = Pending(tr)
      BY <1>2, <3>1 DEF WorkInv, ItemOK
    <3>3. i # 1
      <4>1. h = Pending(tr) => h.do = "finish" /\ h.tr = tr
        BY DEF Pending
      <4>2. h.do = "finish" => trajState'[h.tr] = "finished"
        BY <1>2, <2>2 DEF Worked
      <4>. QED
        BY <2>1, <3>2, <4>1, <4>2
    <3>. QED
      BY <2>2, <3>2, <3>3
  <2>. QED
    BY <2>3, <2>7, <2>8, <2>9 DEF WorkInv, ItemOK
<1>. QED
  BY <1>3, <1>4, <1>5, <1>6, StepCases


LEMMA StepPhase == IInv /\ [Next]_vars => PhaseInv'
<1> SUFFICES ASSUME IInv, [Next]_vars PROVE PhaseInv'
  OBVIOUS
<1>1. /\ TypeOK /\ BridgeInv /\ BlockedInv /\ QueueInv /\ WorkInv /\ PhaseInv
      /\ trajState \in [Trajectories -> States]
      /\ bridges \subseteq Trajectories /\ scheduled \subseteq Trajectories
      /\ toFinish \subseteq Trajectories /\ finishing \in Trajectories \cup {None}
      /\ phase \in {"start", "spin", "finishAll", "final", "destroy"}
      /\ open \subseteq Queues /\ finished \subseteq open
      /\ None \notin Trajectories /\ \A q \in Queues : q[1] \in Trajectories
  BY Ids, KeysFinite DEF IInv, TypeOK, TNTypeOK, CollatorTypeOK
<1>2. \A tr \in bridges : StateOf(tr) = "active" /\ tr \notin scheduled
  BY <1>1 DEF StateOf, BridgeInv
<1>3. ASSUME NEW S \in SUBSET Sensors, Added(S) PROVE PhaseInv'
  BY <1>1, <1>3 DEF Added, PhaseInv
<1>4. ASSUME NEW tr \in Trajectories, Began(tr) PROVE PhaseInv'
  <2>1. /\ finishing = None /\ finishing' = tr /\ tr \notin scheduled
        /\ toFinish' = toFinish \ {tr} /\ (phase = "spin" \/ tr \in toFinish)
        /\ UNCHANGED << trajState, builders, bridges, scheduled, phase, open >>
    BY <1>4 DEF Began, BeginFinish, FinishTrajectory, slamVars
  <2>2. phase \in {"spin", "finishAll"}
    BY <1>1, <2>1 DEF PhaseInv
  <2>. QED
    BY <1>1, <2>1, <2>2 DEF PhaseInv
<1>5. ASSUME NEW tr \in Trajectories, Skipped(tr) PROVE PhaseInv'
  <2>1. /\ toFinish' = toFinish \ {tr} /\ (tr \in scheduled \/ StateOf(tr) # "active")
        /\ UNCHANGED << trajState, builders, bridges, scheduled, finishing, phase, open >>
    BY <1>5 DEF Skipped, slamVars, nodeVars, collatorVars
  <2>2. tr \in bridges \/ trajState[tr] = "active" => tr \in scheduled
    BY <1>2, <2>1 DEF StateOf
  <2>. QED
    BY <1>1, <2>1, <2>2 DEF PhaseInv
<1>6. CASE (\E q \in Queues, t \in Nat : Data(q, t)) \/ MarkStep \/ UNCHANGED vars
  <2>1. UNCHANGED << trajState, builders, bridges, scheduled, finishing, toFinish, phase, open >>
    BY <1>6 DEF Data, HandleSensorData, AddSensorData, MarkStep, MarkQueueAsFinished,
                vars, tnVars, slamVars, nodeVars, mainVars, collatorVars
  <2>. QED
    BY <1>1, <2>1 DEF PhaseInv
<1>7. ASSUME NEW c \in Collators, CollateStep(c) PROVE PhaseInv'
  <2>1. /\ open' \subseteq open
        /\ UNCHANGED << builders, bridges, scheduled, finishing, phase, toFinish >>
        /\ \/ UNCHANGED trajState
           \/ \E e \in open : trajState' = [trajState EXCEPT ![e[1]] = "active"]
    BY <1>1, <1>7, CollateCases DEF nodeVars, mainVars
  <2>2. \A e \in open : e[1] \in bridges \cup scheduled \cup {finishing}
    BY <1>1 DEF QueueInv
  <2>3. CASE UNCHANGED trajState
    BY <1>1, <2>1, <2>3 DEF PhaseInv
  <2>4. CASE \E e \in open : trajState' = [trajState EXCEPT ![e[1]] = "active"]
    <3>1. \A tr \in Trajectories :
            trajState'[tr] = "active" =>
              trajState[tr] = "active" \/ tr \in bridges \cup scheduled \cup {finishing}
      BY <1>1, <2>2, <2>4
    <3>2. phase \notin {"final", "destroy"}
      BY <1>1, <2>4 DEF PhaseInv
    <3>. QED
      BY <1>1, <2>1, <3>1, <3>2 DEF PhaseInv
  <2>. QED
    BY <2>1, <2>3, <2>4
<1>8. CASE EndFinish
  <2>1. /\ finishing # None /\ finishing' = None /\ bridges' = bridges \ {finishing}
        /\ scheduled' = scheduled \cup {finishing}
        /\ UNCHANGED << builders, trajState, phase, toFinish, open >>
    BY <1>8 DEF EndFinish, mainVars, collatorVars
  <2>2. phase \in {"spin", "finishAll"}
    BY <1>1, <2>1 DEF PhaseInv
  <2>. QED
    BY <1>1, <2>1, <2>2 DEF PhaseInv
<1>9. CASE WorkItem \/ \E tr \in Trajectories : Trim(tr)
  <2>1. UNCHANGED << builders, bridges, scheduled, finishing, phase, toFinish, open >>
    BY <1>9 DEF WorkItem, Trim, nodeVars, mainVars, collatorVars
  <2>2. \A tr \in Trajectories : trajState'[tr] = "active" => trajState[tr] = "active"
    <3>1. CASE WorkItem
      <4>1. \E tr : trajState' \in { [trajState EXCEPT ![tr] = "finished"],
                                     [trajState EXCEPT ![tr] = "frozen"], trajState }
        BY <3>1 DEF WorkItem
      <4>. QED
        BY <1>1, <4>1
    <3>. QED
      BY <1>1, <1>9, <3>1 DEF Trim
  <2>. QED
    BY <1>1, <2>1, <2>2 DEF PhaseInv
<1>10. CASE Proceed
  <2>1. /\ Idle /\ finishing = None /\ toFinish = {} /\ toFinish' = Active
        /\ \/ phase = "spin" /\ phase' = "finishAll"
           \/ phase = "finishAll" /\ phase' = "final"
           \/ phase = "final" /\ phase' = "destroy" /\ pgQueue = << >>
        /\ UNCHANGED << builders, bridges, scheduled, finishing, trajState, open >>
    BY <1>10 DEF Proceed, PhaseAfter, slamVars, nodeVars, collatorVars
  <2>2. CASE phase = "spin"
    <3>1. \A tr \in Trajectories : tr \in bridges \/ trajState[tr] = "active" => tr \in Active
      BY <1>2 DEF Active, StateOf
    <3>. QED
      BY <2>1, <2>2, <3>1 DEF PhaseInv
  <2>3. CASE phase = "finishAll"
    <3>1. bridges = {}
      BY <1>1, <1>2, <2>1, <2>3 DEF PhaseInv
    <3>2. open = {}
      <4>1. open \subseteq finished /\ running = None
        BY <1>1, <2>1, <3>1 DEF QueueInv, Idle
      <4>2. \A q \in open : CollatorOf(q[1]) \in Collators /\ q \in Mine(CollatorOf(q[1]))
        BY <1>1, KeysFinite DEF Mine
      <4>3. \A c \in Collators : Mine(c) = {}
        BY <1>1, <4>1, KeysFinite DEF BlockedInv, Mine
      <4>. QED
        BY <4>2, <4>3
    <3>3. \A tr \in Trajectories : trajState[tr] = "active" => tr \in scheduled
      BY <1>1, <2>1, <2>3 DEF PhaseInv
    <3>4. Active \subseteq scheduled
      BY <3>1, <3>3 DEF Active, StateOf
    <3>. QED
      BY <2>1, <2>3, <3>1, <3>2, <3>3, <3>4 DEF PhaseInv
  <2>4. CASE phase = "final"
    <3>1. \A tr \in Trajectories : trajState[tr] # "active"
      BY <1>1, <2>1, <2>4 DEF PhaseInv, WorkInv
    <3>2. Active = {}
      BY <1>1, <2>4, <3>1 DEF Active, StateOf, PhaseInv
    <3>. QED
      BY <1>1, <2>1, <2>4, <3>1, <3>2 DEF PhaseInv
  <2>. QED
    BY <2>1, <2>2, <2>3, <2>4
<1>11. CASE Quiet
  <2>1. /\ phase' = phase \/ (phase = "start" /\ phase' = "spin")
        /\ UNCHANGED << builders, bridges, scheduled, finishing, toFinish, trajState, open >>
    BY <1>11 DEF Quiet, slamVars, nodeVars, collatorVars
  <2>. QED
    BY <1>1, <2>1 DEF PhaseInv
<1>. QED
  BY <1>3, <1>4, <1>5, <1>6, <1>7, <1>8, <1>9, <1>10, <1>11, StepCases

LEMMA StepIInv == IInv /\ [Next]_vars => IInv'
BY StepTypeOK, StepCollator, StepId, StepTopics, StepBridge, StepQueue, StepWork, StepPhase
   DEF IInv


-----------------------------------------------------------------------------
(* In time, no check fails.                                                *)

\* The clock bounds what was dispatched only with a collator for each trajectory.
LEMMA OwnCollator ==
  ASSUME InTime, CollateByTrajectory \/ Skew
  PROVE  CollateByTrajectory /\ Collators = Trajectories /\ \A tr : CollatorOf(tr) = tr
BY DEF InTime, Collators, CollatorOf

LEMMA InitOrder == InTime /\ Init => OrderInv
<1> SUFFICES ASSUME InTime, Init PROVE OrderInv
  OBVIOUS
<1>1. /\ open = {} /\ queue = [q \in Queues |-> << >>] /\ checkFailed = FALSE
      /\ lastTime = [c \in Collators |-> 0] /\ crashed = FALSE /\ toFinish = {}
      /\ bridges = {}
  BY DEF Init, TNInit, CollatorInit
<1>2. \A q \in Queues : queue[q] = << >> /\ \A i \in 1 .. Len(queue[q]) : FALSE
  BY <1>1
<1>3. SortedInv
  BY <1>2 DEF SortedInv
<1>. QED
  BY <1>1, <1>3, OwnCollator DEF OrderInv, OneBridge, TimesInv, Running, DispatchedInv, LeftInv

\* A trajectory with a bridge that is not being finished listens, so that another
\* with a topic in common is refused.
LEMMA StepBridges ==
  ASSUME IInv, OneBridge, [Next]_vars
  PROVE  OneBridge'
<1>1. /\ TopicsInUse /\ bridges \subseteq Trajectories /\ None \notin Trajectories
      /\ subscribers \in [Trajectories -> SUBSET Sensors]
      /\ finishing \in Trajectories \cup {None}
  BY Ids DEF IInv, TopicsInv, TypeOK, TNTypeOK
<1>2. ASSUME NEW S \in SUBSET Sensors, Added(S) PROVE OneBridge'
  <2>1. /\ builders \in Trajectories /\ S \in Subscriptions /\ S \cap topics = {}
        /\ finishing = None /\ finishing' = None
        /\ bridges' = bridges \cup {builders}
        /\ subscribers' = [subscribers EXCEPT ![builders] = S]
    BY <1>2 DEF Added, AddNodeTrajectory
  <2>2. \A tr \in bridges' : subscribers'[tr] \in Subscriptions
    BY <1>1, <2>1 DEF OneBridge
  <2>3. ASSUME CommonTopic, NEW tr \in bridges PROVE FALSE
    <3>1. subscribers[tr] \in Subscriptions
      BY <1>1, <2>1 DEF OneBridge
    <3>2. S \cap subscribers[tr] # {}
      BY <2>1, <2>3, <3>1 DEF CommonTopic
    <3>3. subscribers[tr] \subseteq topics
      BY <1>1 DEF TopicsInUse
    <3>. QED
      BY <2>1, <3>2, <3>3
  <2>. QED
    BY <2>1, <2>2, <2>3 DEF OneBridge
<1>3. ASSUME NEW tr \in Trajectories, Began(tr) PROVE OneBridge'
  BY <1>1, <1>3 DEF Began, BeginFinish, OneBridge
<1>4. CASE EndFinish
  BY <1>1, <1>4 DEF EndFinish, OneBridge
<1>5. CASE \/ \E tr \in Trajectories : Skipped(tr) \/ Trim(tr)
           \/ \E q \in Queues, t \in Nat : Data(q, t)
           \/ \E c \in Collators : CollateStep(c)
           \/ MarkStep \/ WorkItem \/ Proceed \/ Quiet \/ UNCHANGED vars
  <2>1. UNCHANGED << bridges, subscribers, finishing >>
    BY <1>5 DEF Skipped, Trim, Data, HandleSensorData, CollateStep, MarkStep, WorkItem,
                Proceed, Quiet, vars, tnVars, nodeVars
  <2>. QED
    BY <2>1 DEF OneBridge
<1>. QED
  BY <1>2, <1>3, <1>4, <1>5, StepCases

LEMMA StepRunning ==
  ASSUME InTime, IInv, OrderInv, [Next]_vars
  PROVE  Running'
<1>1. /\ TypeOK /\ CollatorTypeOK /\ MarkedInv /\ IdInv /\ TopicsInv /\ BridgeInv /\ WorkInv
      /\ SortedInv /\ DispatchedInv /\ ~checkFailed /\ ~crashed
      /\ \A q \in open : q \in Queues /\ Ahead(q)
      /\ trajState \in [Trajectories -> States]
      /\ \A tr \in toFinish : tr \in scheduled \/ StateOf(tr) = "active"
  BY DEF IInv, OrderInv, TimesInv, TypeOK, TNTypeOK, CollatorTypeOK, Running, LeftInv
<1>2. ASSUME NEW S \in SUBSET Sensors, Added(S) PROVE Running'
  <2>1. AddTrajectory(builders, S) /\ builders \in Trajectories /\ crashed' = (builders \in bridges)
    BY <1>2 DEF Added, AddNodeTrajectory
  <2>2. builders \notin bridges /\ \A q \in open : q[1] # builders
    BY <1>1, <2>1 DEF IdInv, TypeOK, TNTypeOK
  <2>3. ({builders} \X S) \cap open = {}
    BY <2>2
  <2>. QED
    BY <1>1, <2>1, <2>2, <2>3 DEF AddTrajectory, Running
<1>3. ASSUME NEW tr \in Trajectories, Began(tr) PROVE Running'
  BY <1>1, <1>3 DEF Began, BeginFinish, FinishTrajectory, Running
<1>4. ASSUME NEW tr \in Trajectories, Skipped(tr) PROVE Running'
  BY <1>1, <1>4 DEF Skipped, Running, collatorVars
<1>5. ASSUME NEW q \in Queues, NEW t \in Nat, Data(q, t) PROVE Running'
  <2>1. q[2] \in subscribers[q[1]] /\ q[1] \in Trajectories
    BY <1>5, KeysFinite DEF Data, HandleSensorData
  <2>2. q[1] \in bridges
    BY <1>1, <2>1 DEF TopicsInv
  <2>. QED
    BY <1>1, <1>5, <2>2 DEF Data, HandleSensorData, AddSensorData, Running
<1>6. ASSUME NEW c \in Collators, CollateStep(c) PROVE Running'
  <2>1. ~checkFailed'
    BY <1>1, <1>6, DispatchInOrder DEF CollateStep
  <2>2. \A e \in open : trajState[e[1]] \notin {"finished", "deleted"}
    BY <1>1 DEF Ahead, BridgeInv
  <2>3. crashed' = crashed
    BY <1>1, <1>6, <2>2, CollateCases
  <2>. QED
    BY <1>1, <2>1, <2>3 DEF Running
<1>7. CASE MarkStep
  BY <1>1, <1>7, MarkHead DEF MarkStep, Running
<1>8. CASE EndFinish
  BY <1>1, <1>8 DEF EndFinish, Running, collatorVars
<1>9. CASE WorkItem
  BY <1>1, <1>9, WorkHead DEF Running, collatorVars
<1>10. CASE Proceed \/ Quiet \/ UNCHANGED vars \/ \E tr \in Trajectories : Trim(tr)
  BY <1>1, <1>10 DEF Proceed, Quiet, Trim, vars, tnVars, collatorVars, Running
<1>. QED
  BY <1>2, <1>3, <1>4, <1>5, <1>6, <1>7, <1>8, <1>9, <1>10, StepCases

LEMMA StepLeft ==
  ASSUME Loaded # "freezing", IInv, OrderInv, [Next]_vars
  PROVE  LeftInv'
<1>1. /\ TypeOK /\ BridgeInv /\ WorkInv /\ PhaseInv /\ LeftInv
      /\ trajState \in [Trajectories -> States] /\ toFinish \subseteq Trajectories
      /\ finishing \in Trajectories \cup {None} /\ None \notin Trajectories
  BY Ids DEF IInv, OrderInv, TimesInv, TypeOK, TNTypeOK
<1>2. CASE \/ \E S \in SUBSET Sensors : Added(S)
  BY <1>1, <1>2 DEF Added, PhaseInv, LeftInv
<1>3. ASSUME NEW tr \in Trajectories, Began(tr) PROVE LeftInv'
  BY <1>1, <1>3 DEF Began, BeginFinish, LeftInv, StateOf, slamVars
<1>4. CASE \/ \E tr \in Trajectories : Skipped(tr)
           \/ \E q \in Queues, t \in Nat : Data(q, t)
           \/ MarkStep \/ Quiet \/ UNCHANGED vars
  <2>1. /\ toFinish' \subseteq toFinish
        /\ UNCHANGED << trajState, bridges, scheduled, finishing >>
    BY <1>4 DEF Skipped, Data, HandleSensorData, MarkStep, Quiet, vars, tnVars,
                slamVars, nodeVars, mainVars
  <2>. QED
    BY <1>1, <2>1 DEF LeftInv, StateOf
<1>5. ASSUME NEW c \in Collators, CollateStep(c) PROVE LeftInv'
  <2>1. /\ UNCHANGED << bridges, scheduled, finishing, toFinish >>
        /\ \/ UNCHANGED trajState
           \/ \E e \in open : trajState' = [trajState EXCEPT ![e[1]] = "active"]
    BY <1>1, <1>5, CollateCases DEF nodeVars, mainVars
  <2>2. \A tr \in Trajectories : trajState'[tr] \in {trajState[tr], "active"}
    BY <1>1, <2>1
  <2>. QED
    BY <1>1, <2>1, <2>2 DEF LeftInv, StateOf
<1>6. CASE EndFinish
  <2>1. /\ bridges' = bridges \ {finishing} /\ finishing' = None
        /\ scheduled' = scheduled \cup {finishing} /\ UNCHANGED << trajState, toFinish >>
    BY <1>6 DEF EndFinish, mainVars
  <2>. QED
    BY <1>1, <2>1 DEF LeftInv, StateOf
<1>7. CASE WorkItem
  <2>1. PICK h : h = pgQueue[1]
    OBVIOUS
  <2>2. /\ Worked(h) /\ UNCHANGED << bridges, scheduled, finishing, toFinish >>
    BY <1>1, <1>7, <2>1, WorkHead DEF nodeVars, mainVars
  <2>3. h.tr \in scheduled /\ trajState' = [trajState EXCEPT ![h.tr] = "finished"]
    BY <2>2 DEF Worked
  <2>. QED
    BY <1>1, <2>2, <2>3 DEF LeftInv, StateOf
<1>8. ASSUME NEW tr \in Trajectories, Trim(tr) PROVE LeftInv'
  <2>1. /\ trajState[tr] = "finished" /\ trajState' = [trajState EXCEPT ![tr] = "deleted"]
        /\ UNCHANGED << bridges, scheduled, finishing, toFinish >>
    BY <1>8 DEF Trim, nodeVars, mainVars
  <2>. QED
    BY <1>1, <2>1 DEF LeftInv, StateOf
<1>9. CASE Proceed
  BY <1>1, <1>9 DEF Proceed, Active, LeftInv, StateOf, slamVars, nodeVars
<1>. QED
  BY <1>2, <1>3, <1>4, <1>5, <1>6, <1>7, <1>8, <1>9, StepCases

LEMMA StepTimes ==
  ASSUME InTime, IInv, OrderInv, [Next]_vars
  PROVE  TimesInv'
<1>1. /\ TypeOK /\ CollatorTypeOK /\ MarkedInv /\ BlockedInv /\ QueueInv /\ IdInv
      /\ SortedInv /\ DispatchedInv /\ OneBridge
      /\ \A q \in open : q \in Queues /\ Ahead(q)
      /\ Skew => \A tr \in Trajectories : tr >= builders => lastTime[tr] = 0
      /\ builders \in Nat /\ Trajectories \subseteq Nat
      /\ queue \in [Queues -> Seq(Nat)] /\ clock \in [Sensors -> Nat]
      /\ \A q \in Queues : q[1] \in Trajectories /\ q[2] \in Sensors
  BY KeysFinite, Ids DEF IInv, OrderInv, TimesInv, TypeOK, TNTypeOK, CollatorTypeOK
<1>2. /\ \A q \in Queues : CollatorOf(q[1]) \in Collators /\ lastTime[CollatorOf(q[1])] \in Nat
      /\ lastTime \in [Collators -> Nat]
      /\ Skew => /\ Collators = Trajectories
                 /\ \A tr : CollatorOf(tr) = tr
  BY <1>1, KeysFinite, OwnCollator DEF CollatorTypeOK
<1>3. ASSUME NEW S \in SUBSET Sensors, Added(S) PROVE TimesInv'
  <2>1. /\ builders \in Trajectories /\ builders' = builders + 1
        /\ bridges' = bridges \cup {builders}
        /\ open' \subseteq open \cup ({builders} \X S)
        /\ UNCHANGED << queue, lastTime, clock, checkFailed >> \/ checkFailed' = TRUE
        /\ UNCHANGED << queue, lastTime, clock >>
        /\ open \subseteq open'
    BY <1>3 DEF Added, AddNodeTrajectory, AddTrajectory
  <2>2. Skew => lastTime[CollatorOf(builders)] = 0
    BY <1>1, <1>2, <2>1
  <2>3. \A q \in open' \ open : q \in Queues /\ q[1] = builders /\ q[2] \in Sensors /\ q \notin open
    BY <2>1 DEF Queues
  <2>4. SortedInv'
    BY <1>1, <2>1 DEF SortedInv
  <2>5. \A q \in open' : \A i \in 1 .. Len(queue[q]) : q \in open
    BY <1>1, <2>3 DEF SortedInv
  <2>6. DispatchedInv'
    BY <1>1, <2>1, <2>5 DEF DispatchedInv
  <2>7. \A q \in open' : Ahead(q)'
    BY <1>1, <2>1, <2>2, <2>3, <2>5 DEF Ahead
  <2>8. \A tr \in Trajectories : tr >= builders' => tr >= builders
    BY <1>1, <2>1
  <2>. QED
    BY <1>1, <2>1, <2>4, <2>6, <2>7, <2>8 DEF TimesInv
<1>4. ASSUME NEW q \in Queues, NEW t \in Nat, Data(q, t) PROVE TimesInv'
  <2>1. /\ clock' = [clock EXCEPT ![q[2]] = t] /\ clock[q[2]] <= t
        /\ ~Skew => lastTime[CollatorOf(q[1])] <= t
        /\ UNCHANGED << open, lastTime, bridges, builders >>
        /\ \/ q \in open /\ queue' = [queue EXCEPT ![q] = Append(queue[q], t)]
           \/ UNCHANGED queue
    BY <1>1, <1>4 DEF Data, HandleSensorData, AddSensorData, slamVars, nodeVars, collatorVars
  <2>2. \A r \in Queues : queue[r] \in Seq(Nat) /\ clock[r[2]] \in Nat /\ clock'[r[2]] \in Nat
                          /\ clock[r[2]] <= clock'[r[2]]
    BY <1>1, <2>1
  <2>3. clock'[q[2]] = t
    BY <1>1, <2>1
  <2>4. \A r \in Queues : \/ queue'[r] = queue[r]
                          \/ r = q /\ q \in open /\ queue'[q] = Append(queue[q], t)
    BY <1>1, <2>1
  <2>5. \A r \in Queues : \A i \in 1 .. Len(queue[r]) : queue[r][i] \in Nat
    BY <2>2, ElementOfSeq
  <2>6. ASSUME NEW r \in open
        PROVE  /\ Ahead(r)'
               /\ \A i \in 1 .. Len(queue'[r]) : lastTime[CollatorOf(r[1])] <= queue'[r][i]
    <3>0. PICK l \in Nat : l = lastTime[CollatorOf(r[1])]
      BY <1>1, <1>2
    <3>1. /\ r \in Queues /\ r[1] \in Trajectories
          /\ r[1] \in bridges /\ (Skew => l <= clock[r[2]])
          /\ \A i \in 1 .. Len(queue[r]) : l <= queue[r][i] /\ queue[r][i] <= clock[r[2]]
      BY <1>1, <1>2, <3>0 DEF Ahead, DispatchedInv
    <3>2. PICK k \in Nat, m \in Nat : k = clock[r[2]] /\ m = clock'[r[2]] /\ k <= m
      BY <2>2, <3>1
    <3>3. \A i \in 1 .. Len(queue[r]) : queue[r][i] <= m
      BY <2>5, <3>1, <3>2
    <3>4. Skew => l <= m
      BY <3>1, <3>2
    <3>5. CASE queue'[r] = queue[r]
      BY <2>1, <3>0, <3>1, <3>2, <3>3, <3>4, <3>5 DEF Ahead
    <3>6. CASE r = q /\ queue'[q] = Append(queue[q], t)
      <4>1. m = t
        BY <2>3, <3>2, <3>6
      <4>2. \A i \in 1 .. Len(queue'[r]) : \/ i \in 1 .. Len(queue[r]) /\ queue'[r][i] = queue[r][i]
                                           \/ queue'[r][i] = t
        BY <2>2, <3>6, AppendOf
      <4>3. l <= t
        BY <2>1, <3>0, <3>4, <3>6, <4>1
      <4>4. \A i \in 1 .. Len(queue'[r]) : l <= queue'[r][i] /\ queue'[r][i] <= m
        BY <3>1, <3>3, <4>1, <4>2, <4>3
      <4>. QED
        BY <2>1, <3>0, <3>1, <3>2, <3>4, <4>4 DEF Ahead
    <3>. QED
      BY <2>4, <3>1, <3>5, <3>6
  <2>7. SortedInv'
    <3> SUFFICES ASSUME NEW r \in Queues
                 PROVE  /\ r \notin open => queue'[r] = << >>
                        /\ \A i, j \in 1 .. Len(queue'[r]) : i <= j => queue'[r][i] <= queue'[r][j]
      BY <2>1 DEF SortedInv
    <3>1. /\ r \notin open => queue[r] = << >>
          /\ \A i, j \in 1 .. Len(queue[r]) : i <= j => queue[r][i] <= queue[r][j]
      BY <1>1 DEF SortedInv
    <3>2. CASE queue'[r] = queue[r]
      BY <3>1, <3>2
    <3>3. CASE r = q /\ q \in open /\ queue'[q] = Append(queue[q], t)
      <4>1. PICK s \in Seq(Nat) : s = queue[r] /\ queue'[r] = Append(s, t)
        BY <2>2, <3>3
      <4>2. \A i \in 1 .. Len(s) : s[i] <= t /\ s[i] \in Nat
        BY <2>3, <2>5, <2>6, <3>3, <4>1, <1>1, <2>1, <2>2 DEF Ahead
      <4>3. Len(s) \in Nat
        BY LenProperties
      <4>4. \A i \in 1 .. Len(Append(s, t)) : \/ i \in 1 .. Len(s) /\ Append(s, t)[i] = s[i]
                                              \/ i = Len(s) + 1 /\ Append(s, t)[i] = t
        BY AppendOf
      <4>5. \A i, j \in 1 .. Len(s) : i <= j => s[i] <= s[j]
        BY <3>1, <4>1
      <4>6. \A i, j \in 1 .. Len(Append(s, t)) : i <= j => Append(s, t)[i] <= Append(s, t)[j]
        BY <4>2, <4>3, <4>4, <4>5
      <4>. QED
        BY <3>3, <4>1, <4>6
    <3>. QED
      BY <2>4, <3>2, <3>3
  <2>. QED
    BY <1>1, <2>1, <2>6, <2>7 DEF TimesInv, DispatchedInv
<1>5. ASSUME NEW c \in Collators, CollateStep(c), UNCHANGED clock PROVE TimesInv'
  <2>1. Dispatch(c) /\ UNCHANGED << builders, bridges, clock >>
    BY <1>5 DEF CollateStep, nodeVars
  <2>2. SortedInv' /\ DispatchedInv'
    BY <1>1, <2>1, DispatchSorted, DispatchInOrder
  <2>3. /\ open' \subseteq open
        /\ \A q \in open' : \/ queue'[q] = queue[q]
                            \/ queue'[q] = Tail(queue[q]) /\ queue[q] # << >>
    <3>1. /\ open' \subseteq open
          /\ \/ queue' = queue
             \/ /\ Selects(c)
                /\ queue' = [queue EXCEPT ![Earliest(c)] = Tail(queue[Earliest(c)])]
      BY <1>1, <2>1, DispatchQueues
    <3>2. Selects(c) => queue[Earliest(c)] # << >>
      BY <1>1, Picked
    <3>. QED
      BY <1>1, <3>1, <3>2
  <2>4. ASSUME NEW q \in open' PROVE Ahead(q)'
    <3>1. q \in open /\ q \in Queues /\ Ahead(q) /\ queue[q] \in Seq(Nat)
          /\ clock[q[2]] \in Nat /\ q[1] \in Trajectories
      BY <1>1, <2>3
    <3>2. \A i \in 1 .. Len(queue'[q]) : \E j \in 1 .. Len(queue[q]) : queue'[q][i] = queue[q][j]
      BY <2>3, <3>1, TailOf
    <3>3. \A i \in 1 .. Len(queue'[q]) : queue'[q][i] <= clock[q[2]]
      BY <3>1, <3>2 DEF Ahead
    <3>4. ASSUME Skew PROVE lastTime'[CollatorOf(q[1])] <= clock[q[2]]
      <4>0. CollatorOf(q[1]) = q[1] /\ Collators = Trajectories /\ \A tr : CollatorOf(tr) = tr
        BY <1>2, <3>4
      <4>1. CASE lastTime'[q[1]] = lastTime[q[1]]
        BY <3>1, <3>4, <4>0, <4>1 DEF Ahead
      <4>2. CASE lastTime'[q[1]] # lastTime[q[1]]
        <5>1. Pop(c) /\ lastTime' = [lastTime EXCEPT ![c] = Peek(Earliest(c))]
          BY <1>1, <2>1, <4>2, DispatchInOrder
        <5>2. q[1] = c /\ lastTime'[q[1]] = Peek(Earliest(c))
          BY <1>2, <3>1, <4>0, <4>2, <5>1
        <5>3. /\ queue[q] # << >> /\ Peek(Earliest(c)) <= queue[q][1]
          BY <1>1, <4>0, <5>1, <5>2, PopLeaves
        <5>4. 1 \in 1 .. Len(queue[q]) /\ queue[q][1] \in Nat
          BY <3>1, <5>3, LenProperties, EmptySeq, ElementOfSeq
        <5>5. queue[q][1] <= clock[q[2]]
          BY <3>1, <5>4 DEF Ahead
        <5>6. Peek(Earliest(c)) \in Nat
          BY <1>1, <5>1, Picked DEF Pop
        <5>. QED
          BY <3>1, <4>0, <5>2, <5>3, <5>4, <5>5, <5>6
      <4>. QED
        BY <4>0, <4>1, <4>2
    <3>. QED
      BY <2>1, <3>1, <3>3, <3>4 DEF Ahead
  <2>5. Skew => \A tr \in Trajectories : tr >= builders => lastTime'[tr] = 0
    <3> SUFFICES ASSUME Skew, NEW tr \in Trajectories, tr >= builders, lastTime'[tr] # lastTime[tr]
                 PROVE  FALSE
      BY <1>1
    <3>1. Pop(c) /\ lastTime' = [lastTime EXCEPT ![c] = Peek(Earliest(c))]
      BY <1>1, <2>1, DispatchInOrder
    <3>2. Selects(c) /\ tr = c
      BY <1>2, <3>1 DEF Pop
    <3>3. Earliest(c) \in open /\ CollatorOf(Earliest(c)[1]) = c
      BY <1>1, <3>2, Picked
    <3>4. Earliest(c)[1] # tr
      BY <1>1, <3>3 DEF IdInv
    <3>. QED
      BY <1>2, <3>2, <3>3, <3>4
  <2>. QED
    BY <2>1, <2>2, <2>4, <2>5 DEF TimesInv
<1>6. CASE EndFinish /\ UNCHANGED clock
  <2>1. /\ Idle /\ finishing \in Trajectories /\ bridges' = bridges \ {finishing}
        /\ UNCHANGED << open, queue, lastTime, builders, clock >>
    BY <1>1, <1>6 DEF EndFinish, collatorVars, TypeOK, TNTypeOK
  <2>2. ASSUME NEW e \in open, e[1] = finishing PROVE FALSE
    <3>1. PICK c \in Collators : c = CollatorOf(finishing)
      BY <1>1, <1>2, <2>2
    <3>2. ASSUME NEW q \in Mine(c) PROVE q \in finished
      <4>1. q \in open /\ CollatorOf(q[1]) = c
        BY <3>2 DEF Mine
      <4>2. q[1] = finishing
        <5>1. CASE CollateByTrajectory
          BY <3>1, <4>1, <5>1, OwnCollator
        <5>2. CASE CommonTopic
          BY <1>1, <2>2, <4>1, <5>2 DEF Ahead, OneBridge
        <5>. QED
          BY <5>1, <5>2 DEF InTime
      <4>. QED
        BY <1>1, <2>1, <4>1, <4>2 DEF QueueInv, Idle
    <3>3. running # c
      BY <2>1, KeysFinite DEF Idle
    <3>4. e \in Mine(c)
      BY <2>2, <3>1 DEF Mine
    <3>. QED
      BY <1>1, <3>2, <3>3, <3>4 DEF BlockedInv
  <2>. QED
    BY <1>1, <2>1, <2>2 DEF TimesInv, SortedInv, DispatchedInv, Ahead
<1>7. CASE \/ \E tr \in Trajectories : Began(tr) \/ Skipped(tr)
           \/ MarkStep /\ UNCHANGED clock
           \/ WorkItem /\ UNCHANGED clock
           \/ \E tr \in Trajectories : Trim(tr) /\ UNCHANGED clock
           \/ Proceed /\ UNCHANGED clock
           \/ Quiet
           \/ UNCHANGED vars
  <2>1. UNCHANGED << open, queue, lastTime, bridges, builders, clock >>
    BY <1>7 DEF Began, BeginFinish, FinishTrajectory, Skipped, MarkStep, MarkQueueAsFinished,
                WorkItem, Trim, Proceed, Quiet, vars, tnVars, collatorVars, slamVars, nodeVars
  <2>. QED
    BY <1>1, <2>1 DEF TimesInv, SortedInv, DispatchedInv, Ahead
<1>. QED
  BY <1>3, <1>4, <1>5, <1>6, <1>7, StepCases


-----------------------------------------------------------------------------
(* Theorems.                                                               *)

\* The invariant holds, for any trajectories, sensors and sizes of queues.
THEOREM Invariance == Spec => []IInv
<1>1. Init => IInv
  BY InitIInv
<1>2. IInv /\ [Next]_vars => IInv'
  BY StepIInv
<1>. QED
  BY <1>1, <1>2, PTL DEF Spec

\* The state of the node is well typed.
THEOREM TypeCorrect == Spec => []TypeOK
<1>1. IInv => TypeOK
  BY DEF IInv
<1>. QED
  BY <1>1, Invariance, PTL

\* A topic is in use exactly while one trajectory listens to it, though the set
\* of topics and the subscribers are kept apart and services, messages, the
\* interrupt and the pose graph's thread come in any order.
THEOREM TopicsAgree == Spec => []TopicsInUse
<1>1. IInv => TopicsInUse
  BY DEF IInv, TopicsInv
<1>. QED
  BY <1>1, Invariance, PTL

\* Whatever the pose graph had worked off when the loops of the shutdown looked,
\* they leave no trajectory active and no queue of the collator that its
\* destructor would CHECK.
THEOREM ShutdownLeavesNothing == Spec => []ShutdownIsClean
<1>1. IInv => ShutdownIsClean
  <2> SUFFICES ASSUME IInv, Finished PROVE Active = {} /\ open \subseteq finished
    BY DEF ShutdownIsClean
  <2>1. /\ bridges = {} /\ open = {}
        /\ \A tr \in Trajectories : trajState[tr] # "active"
    BY DEF IInv, PhaseInv, Finished
  <2>. QED
    BY <2>1 DEF Active, StateOf
<1>. QED
  BY <1>1, Invariance, PTL

\* No CHECK and no at() of the node, the map builder, the collator or the pose
\* graph fails: whatever the clients call, no trajectory is finished twice, none
\* gets a message or a node after it was finished, and data is dispatched in
\* order.  The premise is either that of the car: a collator that all
\* trajectories share, a topic that all need, no first datum of a trajectory
\* older than what was dispatched; or a collator for each.  And no loaded
\* trajectory may still have to be frozen.
THEOREM NodeChecksHold ==
  ASSUME CollateByTrajectory \/ (CommonTopic /\ ~Skew), Loaded # "freezing"
  PROVE  Spec => []NoCheckFails
<1>1. InTime
  BY DEF InTime
<1>2. Init => IInv /\ OrderInv
  BY <1>1, InitIInv, InitOrder
<1>3. IInv /\ OrderInv /\ [Next]_vars => (IInv /\ OrderInv)'
  BY <1>1, StepIInv, StepRunning, StepBridges, StepTimes, StepLeft DEF OrderInv
<1>4. OrderInv => NoCheckFails
  BY DEF OrderInv, Running, NoCheckFails
<1>. QED
  BY <1>2, <1>3, <1>4, PTL DEF Spec

-----------------------------------------------------------------------------
(* The client that localizes the car: one click under way.                 *)

\* The options that the number needs: a state is loaded, the first trajectory
\* is started by the node, all that are started listen to something, and the
\* user waits for the effect of a click.
LocalizationOptions ==
  Patient /\ Loaded # "no" /\ DefaultTopics # {} /\ {} \notin SensorSets

\* What is on its way for the client, and its timers.
Calls(finishes, ended, waits, starts, started) ==
  /\ finishReqs = finishes /\ finishResps = ended
  /\ timers = waits
  /\ startReqs = starts /\ startResps = started

\* Trajectory k is the last one, and the only one that listens to the sensors.
Listening(k) ==
  /\ k \in Trajectories /\ builders = k + 1
  /\ \A tr \in Trajectories : subscribers[tr] # {} <=> tr = k
  /\ topics = subscribers[k]
  /\ k \in bridges /\ k \notin scheduled /\ trajState[k] \in {"none", "active"}

\* Nobody listens, since trajectory k, the last one, is being finished.
Silent(k) ==
  /\ builders = k + 1
  /\ \A tr \in Trajectories : subscribers[tr] = {}
  /\ topics = {}

\* Where a click is on its way: with the client, the node, or between them.
Settled   == Calls(<< >>, << >>, << >>, << >>, << >>) /\ finishing = None /\ response = None
Asked     == Calls(<< trajectoryNum >>, << >>, << >>, << >>, << >>)
             /\ finishing = None /\ response = None
Ending    == Calls(<< >>, << >>, << >>, << >>, << >>)
             /\ finishing = trajectoryNum /\ response = None
Answered(service) ==
  /\ Calls(<< >>, << >>, << >>, << >>, << >>) /\ finishing = None
  /\ response # None /\ response.service = service
Ended     == finishResps # << >> /\ finishing = None /\ response = None
             /\ Calls(<< >>, << Head(finishResps) >>, << >>, << >>, << >>)
Timed     == Calls(<< >>, << >>, << startTimer >>, << >>, << >>)
             /\ finishing = None /\ response = None
Requested == Calls(<< >>, << >>, << >>, << pose >>, << >>)
             /\ finishing = None /\ response = None
Started   == startResps # << >> /\ finishing = None /\ response = None
             /\ Calls(<< >>, << >>, << >>, << >>, << Head(startResps) >>)

\* The number is right but for the time between the start of a trajectory and
\* its answer.
StageInv ==
  \/ (Settled \/ Asked) /\ Listening(trajectoryNum)
  \/ (Ending \/ Answered("finish") \/ Ended \/ Timed \/ Requested) /\ Silent(trajectoryNum)
  \/ (Answered("start") \/ Started) /\ Listening(trajectoryNum + 1)

\* Before the node spins nothing has happened.
StartInv ==
  /\ Settled /\ Silent(0) /\ trajectoryNum = 1 /\ bridges = {} /\ scheduled = {}

\* No data waits, the trajectory of the map is there to refer to, nothing is
\* known of one that is not started, and the pose graph works on none but those
\* that are pending to finish and that of the map.
ItemsInv ==
  /\ open \subseteq Queues /\ \A q \in Queues : queue[q] = << >>
  /\ trajState \in [Trajectories -> States] /\ trajState[0] \in {"active", "frozen"}
  /\ subscribers \in [Trajectories -> SUBSET Sensors]
  /\ builders \in Nat /\ trajectoryNum \in Trajectories
  /\ \A tr \in Trajectories : tr >= builders => trajState[tr] = "none"
  /\ scheduled \subseteq Trajectories
  /\ 0 \notin scheduled /\ \A tr \in scheduled : tr < builders
  /\ pgQueue \in Seq([do : {"finish", "freeze"}, tr : Trajectories])
  /\ \A i \in 1 .. Len(pgQueue) :
       IF pgQueue[i].do = "finish" THEN pgQueue[i].tr \in scheduled ELSE pgQueue[i].tr = 0

ClickInv ==
  /\ ItemsInv /\ trajectoryNum # 0
  /\ \/ phase = "start" /\ StartInv
     \/ phase = "spin" /\ StageInv

LocalizationInv == session = "localization" => ClickInv

\* None is neither a number nor an answer.
LEMMA NoneIs ==
  /\ None \notin Nat
  /\ None \notin [service : {"start", "finish", "write"}, code : Codes, id : Trajectories]
BY CollatorAssumption, ClientsAssumption DEF Answers

\* When no data waits there is none to dispatch.
LEMMA NothingToDispatch ==
  ASSUME ItemsInv, NEW c
  PROVE  ~ Localizing!Selects(c)
<1>1. Localizing!Candidates(c) = {}
  <2> SUFFICES ASSUME NEW q \in Localizing!Candidates(c) PROVE FALSE
    OBVIOUS
  <2>1. q \in Localizing!Scanned(c) /\ queue[q] # << >>
    BY DEF Localizing!Candidates, Localizing!Exhausted
  <2>2. q \in open
    BY <2>1 DEF Localizing!Scanned, Localizing!Mine
  <2>. QED
    BY <2>1, <2>2 DEF ItemsInv
<1>. QED
  BY <1>1 DEF Localizing!Selects

\* The answers of the node are answers.
LEMMA AnswersAre ==
  ASSUME NEW tr \in Trajectories, NEW service \in {"start", "finish"}, NEW code \in Codes
  PROVE  /\ [service |-> service, code |-> code, id |-> tr] # None
         /\ [service |-> service, code |-> code, id |-> tr].service = service
BY NoneIs

-----------------------------------------------------------------------------
(* The steps: what each does at the stage at which it can be taken.        *)

\* What a step leaves as it is when it only concerns the pose graph or the
\* collator.
Background ==
  /\ UNCHANGED << session, trajectoryNum, pose, startTimer, timers,
                  finishReqs, finishResps, startReqs, startResps >>
  /\ UNCHANGED << builders, topics, subscribers, bridges, scheduled, finishing,
                  response, phase >>
  /\ \A tr \in Trajectories : tr # 0 /\ tr \notin scheduled => trajState'[tr] = trajState[tr]

LEMMA BackgroundStage ==
  ASSUME ClickInv, Background, ItemsInv'
  PROVE  ClickInv'
<1>1. ASSUME NEW k \in Nat \ {0}, Listening(k) PROVE Listening(k)'
  BY <1>1 DEF Listening, Background
<1>2. ASSUME NEW k, Silent(k) PROVE Silent(k)'
  BY <1>2 DEF Silent, Background
<1>3. /\ Settled => Settled'
      /\ Asked => Asked'
      /\ Ending => Ending'
      /\ \A s : Answered(s) => Answered(s)'
      /\ Ended => Ended'
      /\ Timed => Timed'
      /\ Requested => Requested'
      /\ Started => Started'
  BY DEF Background, Settled, Asked, Ending, Answered, Ended, Timed, Requested, Started, Calls
<1>4. trajectoryNum \in Nat \ {0} /\ trajectoryNum + 1 \in Nat \ {0}
  BY Ids DEF ClickInv, ItemsInv
<1>5. trajectoryNum' = trajectoryNum /\ phase' = phase
  BY DEF Background
<1>6. StageInv => StageInv'
  BY <1>1, <1>2, <1>3, <1>4, <1>5 DEF StageInv
<1>7. StartInv => StartInv'
  BY <1>2, <1>3, <1>5 DEF StartInv, Background
<1>. QED
  BY <1>5, <1>6, <1>7 DEF ClickInv

\* A step of the collator finds nothing to dispatch.
LEMMA CollateItems ==
  ASSUME ItemsInv, NEW c, Localizing!CollateStep(c)
  PROVE  /\ open' \subseteq open
         /\ UNCHANGED << queue, slamVars, nodeVars, phase, finishing, response >>
<1>1. ~ Localizing!Selects(c)
  BY NothingToDispatch
<1>2. UNCHANGED << trajState, builders, pgQueue, nodeVars, phase, finishing, response >>
  BY <1>1 DEF Localizing!CollateStep, Localizing!Delivers, Localizing!nodeVars, nodeVars,
              Localizing!mainVars
<1>3. Localizing!Stop(c) /\ UNCHANGED << queue, lastTime >>
  BY <1>1 DEF Localizing!CollateStep, Localizing!Dispatch, Localizing!Pop
<1>4. open' \subseteq open
  BY <1>3 DEF Localizing!Stop, Localizing!RemoveExhausted
<1>. QED
  BY <1>2, <1>3, <1>4 DEF slamVars

LEMMA SameItems ==
  ASSUME ItemsInv, open' \subseteq open, UNCHANGED << queue, slamVars, scheduled, subscribers >>,
         trajectoryNum' \in Trajectories
  PROVE  ItemsInv'
BY DEF ItemsInv, slamVars

LEMMA CollateClick ==
  ASSUME ClickInv, session' = session, NEW c, Localizing!CollateStep(c),
         UNCHANGED << Localizing!clientVars, Localizing!networkVars >>
  PROVE  ClickInv'
<1>1. /\ open' \subseteq open
      /\ UNCHANGED << queue, slamVars, nodeVars, phase, finishing, response >>
  BY CollateItems DEF ClickInv
<1>2. Background
  BY <1>1 DEF Background, slamVars, nodeVars, Localizing!clientVars, Localizing!networkVars
<1>3. ItemsInv'
  BY <1>1, <1>2, SameItems DEF nodeVars, Background, ClickInv, ItemsInv
<1>. QED
  BY <1>2, <1>3, BackgroundStage

LEMMA MarkClick ==
  ASSUME ClickInv, session' = session, Localizing!MarkStep,
         UNCHANGED << Localizing!clientVars, Localizing!networkVars >>
  PROVE  ClickInv'
<1>1. UNCHANGED << open, queue, slamVars, nodeVars, phase, finishing, response >>
  BY DEF Localizing!MarkStep, Localizing!MarkQueueAsFinished, Localizing!slamVars, slamVars,
         Localizing!nodeVars, nodeVars, Localizing!mainVars
<1>2. Background
  BY <1>1 DEF Background, slamVars, nodeVars, Localizing!clientVars, Localizing!networkVars
<1>3. ItemsInv'
  BY <1>1, <1>2, SameItems DEF nodeVars, Background, ClickInv, ItemsInv
<1>. QED
  BY <1>2, <1>3, BackgroundStage

LEMMA WorkClick ==
  ASSUME ClickInv, session' = session, Localizing!WorkItem,
         UNCHANGED << Localizing!clientVars, Localizing!networkVars >>
  PROVE  ClickInv'
<1>0. ItemsInv
  BY DEF ClickInv
<1>1. UNCHANGED << open, queue, builders, nodeVars, phase, finishing, response >>
  BY DEF Localizing!WorkItem, Localizing!collatorVars, Localizing!nodeVars, nodeVars,
         Localizing!mainVars
<1>2. PICK items : items = [do : {"finish", "freeze"}, tr : Trajectories]
  OBVIOUS
<1>3. pgQueue \in Seq(items) /\ pgQueue # << >>
  BY <1>0, <1>2 DEF ItemsInv, Localizing!WorkItem
<1>4. /\ Head(pgQueue) = pgQueue[1] /\ 1 \in 1 .. Len(pgQueue) /\ pgQueue[1] \in items
      /\ Tail(pgQueue) \in Seq(items)
      /\ \A i \in 1 .. Len(Tail(pgQueue)) :
           i + 1 \in 1 .. Len(pgQueue) /\ Tail(pgQueue)[i] = pgQueue[i + 1]
  BY <1>3, HeadTailProperties, LenProperties, EmptySeq, ElementOfSeq
<1>5. PICK item \in items : item = pgQueue[1]
  BY <1>4
<1>6. item.tr \in Trajectories
  BY <1>2, <1>5
<1>7. IF item.do = "finish" THEN item.tr \in scheduled ELSE item.tr = 0
  BY <1>0, <1>4, <1>5 DEF ItemsInv
<1>8. PICK to \in States :
         /\ item.do # "finish" => to = "frozen"
         /\ \/ UNCHANGED << trajState, pgQueue >>
            \/ /\ trajState' = [trajState EXCEPT ![item.tr] = to]
               /\ pgQueue' = Tail(pgQueue)
  BY <1>4, <1>5 DEF Localizing!WorkItem, States
<1>9. \A tr \in Trajectories : tr # 0 /\ tr \notin scheduled => trajState'[tr] = trajState[tr]
  BY <1>0, <1>7, <1>8 DEF ItemsInv
<1>10. Background
  BY <1>1, <1>9 DEF Background, nodeVars, Localizing!clientVars, Localizing!networkVars
<1>11. trajState' \in [Trajectories -> States] /\ trajState'[0] \in {"active", "frozen"}
  <2>1. item.tr = 0 => to = "frozen"
    BY <1>0, <1>7, <1>8 DEF ItemsInv
  <2>. QED
    BY <2>1, <1>0, <1>6, <1>8, Ids DEF ItemsInv
<1>12. \A tr \in Trajectories : tr >= builders' => trajState'[tr] = "none"
  <2> SUFFICES ASSUME NEW tr \in Trajectories, tr >= builders PROVE trajState'[tr] = "none"
    BY <1>1
  <2>1. trajState[tr] = "none" /\ tr \notin scheduled
    BY <1>0, Ids DEF ItemsInv
  <2>2. tr # 0
    BY <1>0, <2>1 DEF ItemsInv
  <2>. QED
    BY <1>9, <2>1, <2>2
<1>13. /\ pgQueue' \in Seq([do : {"finish", "freeze"}, tr : Trajectories])
       /\ \A i \in 1 .. Len(pgQueue') :
            IF pgQueue'[i].do = "finish" THEN pgQueue'[i].tr \in scheduled ELSE pgQueue'[i].tr = 0
  <2>1. pgQueue' \in Seq(items)
    BY <1>3, <1>4, <1>8
  <2>2. ASSUME NEW i \in 1 .. Len(pgQueue')
        PROVE  \E j \in 1 .. Len(pgQueue) : pgQueue'[i] = pgQueue[j]
    BY <1>4, <1>8
  <2>. QED
    BY <1>0, <1>2, <2>1, <2>2 DEF ItemsInv
<1>14. ItemsInv'
  BY <1>0, <1>1, <1>10, <1>11, <1>12, <1>13 DEF ItemsInv, nodeVars, Background
<1>. QED
  BY <1>10, <1>14, BackgroundStage

LEMMA TrimClick ==
  ASSUME ClickInv, LocalizationOptions, session' = session,
         NEW tr \in Trajectories, Localizing!Trim(tr),
         UNCHANGED << Localizing!clientVars, Localizing!networkVars >>
  PROVE  ClickInv'
<1>0. ItemsInv
  BY DEF ClickInv
<1>1. UNCHANGED << open, queue, builders, pgQueue, nodeVars, phase, finishing, response >>
  BY DEF Localizing!Trim, Localizing!collatorVars, Localizing!nodeVars, nodeVars,
         Localizing!mainVars
<1>2. tr # 0 /\ trajState[tr] = "finished"
      /\ trajState' = [trajState EXCEPT ![tr] = "deleted"]
  BY DEF LocalizationOptions, Localizing!Trim
<1>3. trajState' \in [Trajectories -> States] /\ trajState'[0] = trajState[0]
      /\ \A k \in Trajectories : trajState[k] # "finished" => trajState'[k] = trajState[k]
  BY <1>0, <1>2, Ids DEF ItemsInv, States
<1>4. ItemsInv'
  BY <1>0, <1>1, <1>3 DEF ItemsInv, nodeVars, Localizing!clientVars
<1>5. UNCHANGED << trajectoryNum, pose, startTimer, timers,
                   finishReqs, finishResps, startReqs, startResps >>
  BY DEF Localizing!clientVars, Localizing!networkVars
<1>6. ASSUME NEW k \in Trajectories, Listening(k) PROVE Listening(k)'
  <2>1. trajState'[k] = trajState[k]
    BY <1>3, <1>6 DEF Listening
  <2>. QED
    BY <1>1, <1>6, <2>1 DEF Listening, nodeVars
<1>7. \A k : Listening(k) => Listening(k)'
  BY <1>6 DEF Listening
<1>8. \A k : Silent(k) => Silent(k)'
  BY <1>1 DEF Silent, nodeVars
<1>9. /\ Settled => Settled'
      /\ Asked => Asked'
      /\ Ending => Ending'
      /\ \A s : Answered(s) => Answered(s)'
      /\ Ended => Ended'
      /\ Timed => Timed'
      /\ Requested => Requested'
      /\ Started => Started'
  BY <1>1, <1>5 DEF Settled, Asked, Ending, Answered, Ended, Timed, Requested, Started, Calls
<1>10. StageInv => StageInv'
  BY <1>5, <1>7, <1>8, <1>9 DEF StageInv
<1>11. StartInv => StartInv'
  BY <1>1, <1>5, <1>8, <1>9 DEF StartInv, nodeVars
<1>. QED
  BY <1>1, <1>4, <1>5, <1>10, <1>11 DEF ClickInv

\* At which stages a step finds what: the stages exclude each other.
LEMMA StageOf ==
  ASSUME ClickInv
  PROVE  /\ Localizing!Quiet /\ phase = "spin" => Settled /\ Listening(trajectoryNum)
         /\ finishReqs # << >> => phase = "spin" /\ Asked /\ Listening(trajectoryNum)
         /\ finishing # None => phase = "spin" /\ Ending /\ Silent(trajectoryNum)
         /\ response # None =>
              /\ phase = "spin"
              /\ \/ Answered("finish") /\ Silent(trajectoryNum)
                 \/ Answered("start") /\ Listening(trajectoryNum + 1)
         /\ finishResps # << >> => phase = "spin" /\ Ended /\ Silent(trajectoryNum)
         /\ timers # << >> => phase = "spin" /\ Timed /\ Silent(trajectoryNum)
         /\ startReqs # << >> => phase = "spin" /\ Requested /\ Silent(trajectoryNum)
         /\ startResps # << >> => phase = "spin" /\ Started /\ Listening(trajectoryNum + 1)
<1>1. trajectoryNum # None
  BY Ids DEF ClickInv, ItemsInv
<1>2. ASSUME NEW x PROVE << x >> # << >> /\ Len(<< x >>) = 1
  OBVIOUS
<1>3. phase = "start" => Settled /\ StartInv
  BY DEF ClickInv, StartInv
<1>4. phase = "spin" => StageInv
  BY DEF ClickInv
<1>5. phase \in {"start", "spin"}
  BY DEF ClickInv
<1>. QED
  BY <1>1, <1>2, <1>3, <1>4, <1>5 DEF StageInv, Settled, Asked, Ending, Answered, Ended,
     Timed, Requested, Started, Calls, Localizing!Quiet

\* A click of a patient user is sent to the node as it is.
LEMMA ClickClick ==
  ASSUME ClickInv, LocalizationOptions, Localizing!initial_pose_callback
  PROVE  ClickInv'
<1>1. Settled /\ Listening(trajectoryNum) /\ phase = "spin"
  BY StageOf DEF LocalizationOptions, Localizing!initial_pose_callback
<1>2. UNCHANGED << tnVars, trajectoryNum, timers, finishResps, startReqs, startResps >>
  BY DEF Localizing!initial_pose_callback, Localizing!tnVars, tnVars,
     Localizing!collatorVars, Localizing!slamVars, Localizing!nodeVars, Localizing!mainVars,
     collatorVars, slamVars, nodeVars, mainVars
<1>3. finishReqs' = << trajectoryNum >>
  BY <1>1 DEF Localizing!initial_pose_callback, Settled, Calls
<1>4. Asked' /\ Listening(trajectoryNum)'
  BY <1>1, <1>2, <1>3 DEF Settled, Asked, Calls, Listening, tnVars, slamVars, nodeVars
<1>5. ItemsInv'
  BY <1>2, SameItems DEF ClickInv, ItemsInv, tnVars, collatorVars, slamVars, nodeVars
<1>. QED
  BY <1>1, <1>2, <1>4, <1>5 DEF ClickInv, StageInv, tnVars, mainVars

\* The answer to the finish sets the one timer.
LEMMA TimerClick ==
  ASSUME ClickInv, Localizing!finish_trajectory_callback
  PROVE  ClickInv'
<1>1. Ended /\ Silent(trajectoryNum) /\ phase = "spin"
  BY StageOf DEF Localizing!finish_trajectory_callback
<1>2. UNCHANGED << tnVars, trajectoryNum, finishReqs, startReqs, startResps >>
  BY DEF Localizing!finish_trajectory_callback, Localizing!tnVars, tnVars,
     Localizing!collatorVars, Localizing!slamVars, Localizing!nodeVars, Localizing!mainVars,
     collatorVars, slamVars, nodeVars, mainVars
<1>3. finishResps' = << >> /\ timers' = << startTimer' >>
  <2>1. PICK r : finishResps = << r >> /\ timers = << >>
    BY <1>1 DEF Ended, Calls
  <2>. QED
    BY <2>1 DEF Localizing!finish_trajectory_callback
<1>4. Timed' /\ Silent(trajectoryNum)'
  BY <1>1, <1>2, <1>3 DEF Ended, Timed, Calls, Silent, tnVars, slamVars, nodeVars
<1>5. ItemsInv'
  BY <1>2, SameItems DEF ClickInv, ItemsInv, tnVars, collatorVars, slamVars, nodeVars
<1>. QED
  BY <1>1, <1>2, <1>4, <1>5 DEF ClickInv, StageInv, tnVars, mainVars

\* The timer that is due is the one that the client remembers: it is removed, and
\* nothing is thrown.
LEMMA OneTimer ==
  ASSUME NEW t
  PROVE  /\ Append(Tail(<< t >>), Head(<< t >>)) = << t >>
         /\ Localizing!RemoveFirst(<< t >>, t) = << >>
         /\ t \in Localizing!Range(<< t >>)
<1>1. Append(Tail(<< t >>), Head(<< t >>)) = << t >>
  OBVIOUS
<1>2. {i \in 1 .. Len(<< t >>) : << t >>[i] = t} = {1}
  OBVIOUS
<1>3. Localizing!SelectInSeq(<< t >>, LAMBDA v : v = t) = 1
  <2>1. Localizing!Min({1}) = 1
    BY DEF Localizing!Min
  <2>. QED
    BY <1>2, <2>1 DEF Localizing!SelectInSeq
<1>4. Localizing!RemoveAt(<< t >>, 1) = << >>
  BY DEF Localizing!RemoveAt
<1>5. Localizing!RemoveFirst(<< t >>, t) = << >>
  BY <1>3, <1>4 DEF Localizing!RemoveFirst
<1>6. t \in Localizing!Range(<< t >>)
  BY DEF Localizing!Range
<1>. QED
  BY <1>1, <1>5, <1>6

LEMMA RequestClick ==
  ASSUME ClickInv, Localizing!start_trajectory_once
  PROVE  ClickInv'
<1>1. Timed /\ Silent(trajectoryNum) /\ phase = "spin"
  BY StageOf DEF Localizing!start_trajectory_once
<1>2. UNCHANGED << tnVars, trajectoryNum, pose, finishReqs, finishResps, startResps >>
  BY DEF Localizing!start_trajectory_once, Localizing!tnVars, tnVars,
     Localizing!collatorVars, Localizing!slamVars, Localizing!nodeVars, Localizing!mainVars,
     collatorVars, slamVars, nodeVars, mainVars
<1>3. timers' = << >> /\ startReqs' = << pose >>
  <2>1. timers = << startTimer >> /\ startReqs = << >>
    BY <1>1 DEF Timed, Calls
  <2>2. timers' = << >> /\ startReqs' = Append(startReqs, pose)
    BY <2>1, OneTimer DEF Localizing!start_trajectory_once
  <2>. QED
    BY <2>1, <2>2
<1>4. Requested' /\ Silent(trajectoryNum)'
  BY <1>1, <1>2, <1>3 DEF Timed, Requested, Calls, Silent, tnVars, slamVars, nodeVars
<1>5. ItemsInv'
  BY <1>2, SameItems DEF ClickInv, ItemsInv, tnVars, collatorVars, slamVars, nodeVars
<1>. QED
  BY <1>1, <1>2, <1>4, <1>5 DEF ClickInv, StageInv, tnVars, mainVars

\* The answer to the start counts to the trajectory that listens.
LEMMA CountClick ==
  ASSUME ClickInv, Localizing!start_trajectory_callback
  PROVE  ClickInv'
<1>1. Started /\ Listening(trajectoryNum + 1) /\ phase = "spin"
  BY StageOf DEF Localizing!start_trajectory_callback
<1>2. UNCHANGED << tnVars, timers, finishReqs, finishResps, startReqs >>
      /\ trajectoryNum' = trajectoryNum + 1
  BY DEF Localizing!start_trajectory_callback, Localizing!tnVars, tnVars,
     Localizing!collatorVars, Localizing!slamVars, Localizing!nodeVars, Localizing!mainVars,
     collatorVars, slamVars, nodeVars, mainVars
<1>3. startResps' = << >>
  <2>1. PICK r : startResps = << r >>
    BY <1>1 DEF Started, Calls
  <2>. QED
    BY <2>1 DEF Localizing!start_trajectory_callback
<1>4. Settled' /\ Listening(trajectoryNum)'
  BY <1>1, <1>2, <1>3 DEF Started, Settled, Calls, Listening, tnVars, slamVars, nodeVars
<1>5. trajectoryNum' \in Trajectories /\ trajectoryNum' # 0
  BY <1>1, <1>2, Ids DEF Listening, ClickInv, ItemsInv
<1>6. ItemsInv'
  BY <1>2, <1>5, SameItems DEF ClickInv, tnVars, collatorVars, slamVars, nodeVars
<1>. QED
  BY <1>1, <1>2, <1>4, <1>5, <1>6 DEF ClickInv, StageInv, tnVars, mainVars

\* The finish is served: the trajectory is active, so that it begins to end, and
\* nobody listens any more.
LEMMA ServeFinishClick ==
  ASSUME ClickInv, Localizing!ServeFinish
  PROVE  ClickInv'
<1>1. Asked /\ Listening(trajectoryNum) /\ phase = "spin"
  BY StageOf DEF Localizing!ServeFinish
<1>2. finishReqs = << trajectoryNum >> /\ Head(finishReqs) = trajectoryNum /\ finishReqs' = << >>
  BY <1>1 DEF Asked, Calls, Localizing!ServeFinish
<1>3. trajectoryNum \notin scheduled /\ Localizing!FinishCode(trajectoryNum) = "OK"
  BY <1>1 DEF Listening, Localizing!FinishCode, Localizing!TrajectoryStateToStatus,
     Localizing!StateOf
<1>4. Localizing!HandleFinish(trajectoryNum)
  BY <1>2 DEF Localizing!ServeFinish
<1>5. /\ finishing' = trajectoryNum
      /\ topics' = topics \ subscribers[trajectoryNum]
      /\ subscribers' = [subscribers EXCEPT ![trajectoryNum] = {}]
      /\ UNCHANGED << open, queue, response, slamVars, bridges, scheduled, phase >>
  BY <1>3, <1>4 DEF Localizing!HandleFinish, Localizing!BeginFinish,
     Localizing!FinishTrajectory, Localizing!slamVars, slamVars, Localizing!mainVars
<1>6. UNCHANGED << trajectoryNum, finishResps, timers, startReqs, startResps >>
  BY DEF Localizing!ServeFinish, Localizing!clientVars
<1>7. Ending'
  BY <1>1, <1>2, <1>5, <1>6 DEF Asked, Ending, Calls
<1>8. Silent(trajectoryNum)'
  BY <1>1, <1>5, <1>6, Ids DEF Listening, Silent, slamVars, ClickInv, ItemsInv
<1>9. ItemsInv'
  BY <1>5, <1>6 DEF ClickInv, ItemsInv, slamVars
<1>. QED
  BY <1>1, <1>5, <1>6, <1>7, <1>8, <1>9 DEF ClickInv, StageInv

\* The end is queued in the pose graph and answered.
LEMMA EndClick ==
  ASSUME ClickInv, Localizing!EndFinish,
         UNCHANGED << Localizing!clientVars, Localizing!networkVars >>
  PROVE  ClickInv'
<1>0. ItemsInv
  BY DEF ClickInv
<1>1. Ending /\ Silent(trajectoryNum) /\ phase = "spin"
  BY StageOf DEF Localizing!EndFinish
<1>2. /\ finishing = trajectoryNum /\ trajectoryNum \in Trajectories
      /\ trajectoryNum # 0 /\ trajectoryNum < builders
  BY <1>0, <1>1, Ids DEF Ending, Silent, ClickInv, ItemsInv
<1>3. /\ pgQueue' = Append(pgQueue, [do |-> "finish", tr |-> trajectoryNum])
      /\ scheduled' = scheduled \cup {trajectoryNum}
      /\ finishing' = None
      /\ response' = [service |-> "finish", code |-> "OK", id |-> trajectoryNum]
      /\ UNCHANGED << open, queue, builders, trajState, subscribers, topics, phase >>
  BY <1>1, <1>2 DEF Localizing!EndFinish, Localizing!collatorVars, Localizing!mainVars
<1>4. UNCHANGED << trajectoryNum, finishReqs, finishResps, timers, startReqs, startResps >>
  BY DEF Localizing!clientVars, Localizing!networkVars
<1>5. Answered("finish")'
  <2>1. response' # None /\ response'.service = "finish"
    BY <1>2, <1>3, AnswersAre DEF Codes
  <2>. QED
    BY <1>1, <1>3, <1>4, <2>1 DEF Ending, Answered, Calls
<1>6. Silent(trajectoryNum)'
  BY <1>1, <1>3, <1>4 DEF Silent
<1>7. PICK items : items = [do : {"finish", "freeze"}, tr : Trajectories]
  OBVIOUS
<1>8. PICK item \in items : item = [do |-> "finish", tr |-> trajectoryNum]
  BY <1>2, <1>7
<1>9. item.do = "finish" /\ item.tr = trajectoryNum
  BY <1>8
<1>10. /\ pgQueue \in Seq(items) /\ pgQueue' \in Seq(items) /\ Len(pgQueue') = Len(pgQueue) + 1
       /\ \A i \in 1 .. Len(pgQueue) : pgQueue'[i] = pgQueue[i]
       /\ pgQueue'[Len(pgQueue) + 1] = item /\ Len(pgQueue) \in Nat
  BY <1>0, <1>3, <1>7, <1>8, AppendProperties, LenProperties DEF ItemsInv
<1>11. ASSUME NEW i \in 1 .. Len(pgQueue')
       PROVE  IF pgQueue'[i].do = "finish" THEN pgQueue'[i].tr \in scheduled' ELSE pgQueue'[i].tr = 0
  <2>1. CASE i = Len(pgQueue) + 1
    BY <2>1, <1>3, <1>9, <1>10
  <2>2. CASE i # Len(pgQueue) + 1
    <3>1. i \in 1 .. Len(pgQueue) /\ pgQueue'[i] = pgQueue[i]
      BY <2>2, <1>10
    <3>. QED
      BY <3>1, <1>0, <1>3 DEF ItemsInv
  <2>. QED
    BY <2>1, <2>2
<1>12. ItemsInv'
  <2>1. scheduled' \subseteq Trajectories /\ 0 \notin scheduled' /\ \A tr \in scheduled' : tr < builders
    BY <1>0, <1>2, <1>3 DEF ItemsInv
  <2>. QED
    BY <1>0, <1>3, <1>4, <1>7, <1>10, <1>11, <2>1 DEF ItemsInv
<1>. QED
  BY <1>1, <1>3, <1>4, <1>5, <1>6, <1>12 DEF ClickInv, StageInv

\* A trajectory that is added listens alone when nobody else does.
LEMMA AddedListens ==
  ASSUME ItemsInv, NEW sensors \in SUBSET Sensors, sensors # {},
         NEW k \in Trajectories, builders = k, k # 0,
         \A tr \in Trajectories : subscribers[tr] = {}, topics = {},
         Localizing!AddNodeTrajectory(sensors),
         UNCHANGED << trajState, pgQueue, scheduled, trajectoryNum >>
  PROVE  ItemsInv' /\ Listening(k)'
<1>1. /\ open' \subseteq open \cup ({k} \X sensors) /\ queue' = queue
      /\ builders' = k + 1 /\ bridges' = bridges \cup {k}
      /\ subscribers' = [subscribers EXCEPT ![k] = sensors]
      /\ topics' = topics \cup sensors
  BY DEF Localizing!AddNodeTrajectory, Localizing!AddTrajectory
<1>2. trajState[k] = "none" /\ k \notin scheduled
  BY Ids DEF ItemsInv
<1>3. Listening(k)'
  BY <1>1, <1>2 DEF Listening, ItemsInv
<1>4. open' \subseteq Queues
  BY <1>1 DEF ItemsInv, Queues
<1>5. k \in Nat /\ \A tr \in Trajectories : tr \in Nat
  BY Ids
<1>6. \A tr \in Trajectories : tr >= builders' => trajState'[tr] = "none"
  BY <1>1, <1>5 DEF ItemsInv
<1>7. builders' \in Nat /\ \A tr \in scheduled' : tr < builders'
  BY <1>1, <1>5 DEF ItemsInv
<1>8. subscribers' \in [Trajectories -> SUBSET Sensors]
  BY <1>1 DEF ItemsInv
<1>. QED
  BY <1>1, <1>3, <1>4, <1>6, <1>7, <1>8 DEF ItemsInv

\* The start is served: nobody listens to its sensors, and the trajectory of the
\* map is there, so that the next trajectory is added.
LEMMA ServeStartClick ==
  ASSUME ClickInv, LocalizationOptions, Localizing!ServeStart
  PROVE  ClickInv'
<1>0. ItemsInv
  BY DEF ClickInv
<1>1. Requested /\ Silent(trajectoryNum) /\ phase = "spin"
  BY StageOf DEF Localizing!ServeStart
<1>2. PICK sensors \in SensorSets : Localizing!HandleStart(sensors, 0)
  BY DEF Localizing!ServeStart
<1>3. sensors \in SUBSET Sensors /\ sensors # {}
  BY <1>2, NodeAssumption DEF LocalizationOptions
<1>4. Localizing!StartCode(sensors, 0) = "OK"
  BY <1>0, <1>1 DEF ItemsInv, Silent, Localizing!StartCode,
     Localizing!TrajectoryStateToStatus, Localizing!StateOf
<1>5. PICK k \in Trajectories : builders = k
  BY <1>2 DEF Localizing!HandleStart
<1>6. k = trajectoryNum + 1 /\ k # 0
  BY <1>0, <1>1, <1>5, Ids DEF Silent, ItemsInv
<1>7. /\ Localizing!AddNodeTrajectory(sensors)
      /\ response' = [service |-> "start", code |-> "OK", id |-> k]
      /\ UNCHANGED << trajState, pgQueue, scheduled, finishing, phase >>
  BY <1>2, <1>4, <1>5 DEF Localizing!HandleStart, Localizing!mainVars
<1>8. UNCHANGED << trajectoryNum, finishReqs, finishResps, timers, startResps >>
      /\ startReqs' = Tail(startReqs)
  BY DEF Localizing!ServeStart, Localizing!clientVars
<1>9. Answered("start")'
  <2>1. response' # None /\ response'.service = "start"
    BY <1>7, AnswersAre DEF Codes
  <2>2. startReqs = << pose >>
    BY <1>1 DEF Requested, Calls
  <2>3. startReqs' = << >>
    BY <2>2, <1>8
  <2>. QED
    BY <1>1, <1>7, <1>8, <2>1, <2>3 DEF Requested, Answered, Calls
<1>10. ItemsInv' /\ Listening(k)'
  BY <1>0, <1>1, <1>3, <1>5, <1>6, <1>7, <1>8, AddedListens DEF Silent
<1>11. Listening(trajectoryNum + 1)'
  BY <1>6, <1>8, <1>10
<1>. QED
  BY <1>1, <1>7, <1>8, <1>9, <1>10, <1>11 DEF ClickInv, StageInv

\* The client gets the answer.
LEMMA RespondClick ==
  ASSUME ClickInv, Localizing!Respond
  PROVE  ClickInv'
<1>1. /\ phase = "spin"
      /\ \/ Answered("finish") /\ Silent(trajectoryNum)
         \/ Answered("start") /\ Listening(trajectoryNum + 1)
  BY StageOf DEF Localizing!Respond
<1>2. UNCHANGED << open, queue, slamVars, nodeVars, phase, finishing >> /\ response' = None
  BY DEF Localizing!Respond, Localizing!collatorVars, Localizing!slamVars,
     Localizing!nodeVars, Localizing!mainVars, slamVars, nodeVars
<1>3. UNCHANGED << trajectoryNum, timers, finishReqs, startReqs >>
  BY DEF Localizing!Respond, Localizing!clientVars
<1>4. ItemsInv'
  BY <1>2, <1>3, SameItems DEF ClickInv, ItemsInv, nodeVars
<1>5. ASSUME Answered("finish"), Silent(trajectoryNum) PROVE Ended' /\ Silent(trajectoryNum)'
  <2>1. finishResps' = << response >> /\ startResps' = startResps
    BY <1>5 DEF Answered, Calls, Localizing!Respond
  <2>. QED
    BY <1>2, <1>3, <1>5, <2>1 DEF Answered, Ended, Calls, Silent, slamVars, nodeVars
<1>6. ASSUME Answered("start"), Listening(trajectoryNum + 1)
      PROVE  Started' /\ Listening(trajectoryNum + 1)'
  <2>1. startResps' = << response >> /\ finishResps' = finishResps
    BY <1>6 DEF Answered, Calls, Localizing!Respond
  <2>. QED
    BY <1>2, <1>3, <1>6, <2>1 DEF Answered, Started, Calls, Listening, slamVars, nodeVars
<1>. QED
  BY <1>1, <1>2, <1>3, <1>4, <1>5, <1>6 DEF ClickInv, StageInv

\* The node starts the first trajectory before it spins.
LEMMA FirstClick ==
  ASSUME ClickInv, LocalizationOptions, Localizing!StartWithDefaultTopics,
         UNCHANGED << Localizing!clientVars, Localizing!networkVars >>
  PROVE  ClickInv'
<1>1. ItemsInv /\ StartInv /\ trajectoryNum = 1
  BY DEF ClickInv, StartInv, Localizing!StartWithDefaultTopics
<1>2. /\ Localizing!AddNodeTrajectory(DefaultTopics)
      /\ phase' = "spin"
      /\ UNCHANGED << trajState, pgQueue, scheduled, finishing, response >>
  BY DEF Localizing!StartWithDefaultTopics, LocalizationOptions
<1>3. UNCHANGED << trajectoryNum, timers, finishReqs, finishResps, startReqs, startResps >>
  BY DEF Localizing!clientVars, Localizing!networkVars
<1>4. 1 \in Trajectories /\ builders = 1
  BY <1>1 DEF ItemsInv, StartInv, Silent
<1>5. ItemsInv' /\ Listening(1)'
  BY <1>1, <1>2, <1>3, <1>4, Ids, AddedListens DEF StartInv, Silent, LocalizationOptions
<1>6. Settled'
  BY <1>1, <1>2, <1>3 DEF StartInv, Settled, Calls
<1>. QED
  BY <1>1, <1>2, <1>3, <1>5, <1>6 DEF ClickInv, StageInv

-----------------------------------------------------------------------------
(* The invariant holds.                                                    *)

LEMMA InitLocalization == LocalizationOptions /\ ClientsInit => LocalizationInv
<1> SUFFICES ASSUME LocalizationOptions, Localizing!Init, session = "localization"
             PROVE  ClickInv
  BY DEF ClientsInit, LocalizationInv
<1>1. /\ Localizing!TNInit /\ trajectoryNum = 1
      /\ Calls(<< >>, << >>, << >>, << >>, << >>)
  BY DEF Localizing!Init, Calls
<1>2. FirstId(Loaded) = 1 /\ builders = 1
  BY <1>1 DEF LocalizationOptions, FirstId, Localizing!TNInit, Localizing!FirstId
<1>3. StartInv /\ phase = "start"
  BY <1>1, <1>2 DEF StartInv, Settled, Silent, Localizing!TNInit
<1>4. /\ open = {} /\ \A q \in Queues : queue[q] = << >>
  BY <1>1 DEF Localizing!TNInit, Localizing!CollatorInit, Localizing!Queues, Queues
<1>5. /\ trajState \in [Trajectories -> States] /\ trajState[0] \in {"active", "frozen"}
      /\ \A tr \in Trajectories : tr >= 1 => trajState[tr] = "none"
  BY <1>1, Ids DEF Localizing!TNInit, States, LocalizationOptions
<1>6. /\ pgQueue \in Seq([do : {"finish", "freeze"}, tr : Trajectories])
      /\ \A i \in 1 .. Len(pgQueue) : pgQueue[i].do = "freeze" /\ pgQueue[i].tr = 0
  <2>1. pgQueue = << >> \/ pgQueue = << [do |-> "freeze", tr |-> 0] >>
    BY <1>1 DEF Localizing!TNInit
  <2>2. [do |-> "freeze", tr |-> 0] \in [do : {"finish", "freeze"}, tr : Trajectories]
    BY Ids
  <2>3. CASE pgQueue = << >>
    BY <2>3
  <2>4. CASE pgQueue = << [do |-> "freeze", tr |-> 0] >>
    BY <2>2, <2>4
  <2>. QED
    BY <2>1, <2>3, <2>4
<1>7. subscribers \in [Trajectories -> SUBSET Sensors]
  BY <1>1 DEF Localizing!TNInit
<1>8. ItemsInv
  BY <1>1, <1>2, <1>3, <1>4, <1>5, <1>6, <1>7, Ids DEF ItemsInv, StartInv
<1>. QED
  BY <1>1, <1>3, <1>8 DEF ClickInv

LEMMA StepLocalization ==
  LocalizationOptions /\ LocalizationInv /\ [ClientsNext]_clientsVars => LocalizationInv'
<1> SUFFICES ASSUME LocalizationOptions, LocalizationInv, [ClientsNext]_clientsVars,
                    session' = "localization"
             PROVE  ClickInv'
  BY DEF LocalizationInv
<1>1. session = "localization" /\ ClickInv
  BY DEF ClientsNext, clientsVars, LocalizationInv
<1>2. CASE UNCHANGED clientsVars
  <2>1. UNCHANGED << tnVars, trajectoryNum, pose, startTimer, timers,
                     finishReqs, finishResps, startReqs, startResps >>
    BY <1>2 DEF clientsVars, localizingVars
  <2>2. Background
    BY <2>1, <1>1 DEF Background, tnVars, slamVars, nodeVars, mainVars
  <2>3. ItemsInv'
    BY <2>1, <1>1, SameItems DEF ClickInv, ItemsInv, tnVars, collatorVars, slamVars, nodeVars
  <2>. QED
    BY <1>1, <2>2, <2>3, BackgroundStage
<1>3. CASE Localizing!Next /\ session' = session
  <2>1. CASE Localizing!initial_pose_callback
    BY <1>1, <2>1, ClickClick
  <2>2. CASE Localizing!finish_trajectory_callback
    BY <1>1, <2>2, TimerClick
  <2>3. CASE Localizing!start_trajectory_once
    BY <1>1, <2>3, RequestClick
  <2>4. CASE Localizing!start_trajectory_callback
    BY <1>1, <2>4, CountClick
  <2>5. CASE Localizing!ServeFinish
    BY <1>1, <2>5, ServeFinishClick
  <2>6. CASE Localizing!ServeStart
    BY <1>1, <2>6, ServeStartClick
  <2>7. CASE Localizing!Respond
    BY <1>1, <2>7, RespondClick
  <2>8. CASE Localizing!NodeStep
    <3> USE <1>1, <1>3, <2>8 DEF Localizing!NodeStep
    <3>1. CASE \E c \in Localizing!Collators : Localizing!CollateStep(c)
      BY <3>1, CollateClick
    <3>2. CASE Localizing!MarkStep
      BY <3>2, MarkClick
    <3>3. CASE Localizing!EndFinish
      BY <3>3, EndClick
    <3>4. CASE Localizing!WorkItem
      BY <3>4, WorkClick
    <3>5. CASE \E tr \in Trajectories : Localizing!Trim(tr)
      BY <3>5, TrimClick
    <3>6. CASE Localizing!StartWithDefaultTopics
      BY <3>6, FirstClick
    <3>. QED
      BY <3>1, <3>2, <3>3, <3>4, <3>5, <3>6
  <2>. QED
    BY <1>3, <2>1, <2>2, <2>3, <2>4, <2>5, <2>6, <2>7, <2>8 DEF Localizing!Next
<1>. QED
  BY <1>1, <1>2, <1>3 DEF ClientsNext

\* One click is under way at a time, and goes from the client to the node and back
\* in the stages of StageInv, for any number of trajectories, sensors and clicks.
THEOREM ClickInvariance == LocalizationOptions => (ClientsSpec => []LocalizationInv)
<1> SUFFICES ASSUME LocalizationOptions PROVE ClientsSpec => []LocalizationInv
  OBVIOUS
<1>1. ClientsInit => LocalizationInv
  BY InitLocalization
<1>2. LocalizationInv /\ [ClientsNext]_clientsVars => LocalizationInv'
  BY StepLocalization
<1>. QED
  BY <1>1, <1>2, PTL DEF ClientsSpec

\* When localizing with the options of the car, while nothing is under way the
\* number that set_initial_pose_node.py counts is the id of the only trajectory
\* that listens to the sensors (NumberIsCurrent), though it is read from no answer.
THEOREM NumberStaysCurrent == LocalizationOptions => (ClientsSpec => []NumberIsCurrent)
<1> SUFFICES ASSUME LocalizationOptions PROVE ClientsSpec => []NumberIsCurrent
  OBVIOUS
<1>1. LocalizationInv => NumberIsCurrent
  <2> SUFFICES ASSUME ClickInv, Localizing!Quiet, phase = "spin"
               PROVE  {tr \in Trajectories : subscribers[tr] # {}} = {trajectoryNum}
    BY DEF LocalizationInv, NumberIsCurrent, Localizing!NumberIsCurrent
  <2>1. Listening(trajectoryNum)
    BY StageOf
  <2>. QED
    BY <2>1 DEF Listening
<1>. QED
  BY <1>1, ClickInvariance, PTL
=============================================================================
