--------------------------- MODULE Collation_proofs ----------------------------
(***************************************************************************)
(* The collator for any number of trajectories and sensors, any times and  *)
(* any amount of waiting data: data leaves in order, no CHECK fails, what  *)
(* is dropped is what the common start asks for, and nothing is stranded.  *)
(***************************************************************************)
EXTENDS Collation, Collator_proofs

-----------------------------------------------------------------------------
(* The inductive invariant.                                                *)

\* What waits of a sensor is in order, and no later than what was pushed last;
\* only queues of added trajectories are open, and a queue that is closed has
\* nothing left; a finished queue gets nothing more.
QueueInv ==
  \A q \in Queues :
    /\ q \in open => q[1] \in added
    /\ q \notin open => queue[q] = << >>
    /\ q[1] \notin added => pushed[q] = 0
    /\ q \in finished => q[1] \in ended
    /\ \A i \in 1 .. Len(queue[q]) : 1 <= queue[q][i] /\ queue[q][i] <= pushed[q]
    /\ \A i, j \in 1 .. Len(queue[q]) : i <= j => queue[q][i] <= queue[q][j]

\* A queue is only marked when its trajectory is finished.
MarkInv ==
  /\ MarkedInv
  /\ \A i \in 1 .. Len(marking) : marking[i][1] \in ended

\* Past its first datum a sensor has nothing before the common start; if data
\* was dropped and none dispatched, what is next is not beyond the start.
StartInv ==
  \A q \in Queues :
    /\ q \in served =>
         /\ startTime[q[1]] # 0 /\ q[1] \in added
         /\ \A i \in 1 .. Len(queue[q]) : startTime[q[1]] <= queue[q][i]
         /\ q \in open \ finished => startTime[q[1]] <= pushed[q]
    /\ q \in trimmed \ served =>
         /\ startTime[q[1]] # 0 /\ queue[q] # << >>
         /\ queue[q][1] <= startTime[q[1]]

IInv == TypeOK /\ QueueInv /\ MarkInv /\ BlockedInv /\ StartInv

\* Nothing that waits, and nothing a queue may still get, is older than what
\* has been dispatched: this needs the client not to start a sensor late.
OrderInv ==
  /\ ~checkFailed
  /\ \A q \in open :
       /\ \A i \in 1 .. Len(queue[q]) : lastTime[CollatorOf(q[1])] <= queue[q][i]
       /\ q \notin finished /\ pushed[q] # 0 => lastTime[CollatorOf(q[1])] <= pushed[q]

-----------------------------------------------------------------------------
(* The invariant is inductive.                                             *)

LEMMA InitIInv == Init => IInv /\ OrderInv
<1> SUFFICES ASSUME Init PROVE IInv /\ OrderInv
  OBVIOUS
<1> USE DEF Init, CollatorInit
<1>1. << >> \in Seq(Nat) /\ << >> \in Seq(Queues) /\ Len(<< >>) = 0
  OBVIOUS
<1>2. TypeOK
  BY <1>1 DEF TypeOK, CollatorTypeOK
<1>3. QueueInv /\ MarkInv /\ StartInv
  BY <1>1 DEF QueueInv, MarkInv, MarkedInv, StartInv
<1>4. BlockedInv /\ OrderInv
  BY DEF BlockedInv, OrderInv, Mine
<1>. QED
  BY <1>2, <1>3, <1>4 DEF IInv

LEMMA StepTypeOK == TypeOK /\ [Next]_vars => TypeOK'
<1> SUFFICES ASSUME TypeOK, [Next]_vars PROVE TypeOK'
  OBVIOUS
<1>1. CollatorTypeOK /\ open \subseteq Queues
  BY DEF TypeOK, CollatorTypeOK
<1>2. ASSUME NEW tr \in Trajectories, NEW S \in SUBSET Sensors, Add(tr, S)
      PROVE  TypeOK'
  BY <1>1, <1>2, CallsType DEF Add, TypeOK
<1>3. ASSUME NEW q \in Queues, NEW t \in 1 .. Horizon, Data(q, t)
      PROVE  TypeOK'
  <2>1. t \in Nat
    BY CollationAssumption
  <2>. QED
    BY <1>1, <1>3, <2>1, CallsType DEF Data, TypeOK
<1>4. ASSUME NEW tr \in Trajectories, Finish(tr) PROVE TypeOK'
  <2>1. PICK o \in Orders({q \in open : q[1] = tr}) : FinishTrajectory(o)
    BY <1>4 DEF Finish
  <2>2. {q \in open : q[1] = tr} \subseteq Queues
    BY <1>1
  <2>3. CollatorTypeOK'
    BY <1>1, <2>1, <2>2, OrderOf, CallsType
  <2>. QED
    BY <1>4, <2>3 DEF Finish, TypeOK
<1>5. CASE Flush
  <2>1. PICK o \in Orders(open \ finished) : FinishTrajectory(o)
    BY <1>5 DEF Flush
  <2>2. open \ finished \subseteq Queues
    BY <1>1
  <2>3. CollatorTypeOK'
    BY <1>1, <2>1, <2>2, OrderOf, CallsType
  <2>. QED
    BY <1>5, <2>3 DEF Flush, TypeOK
<1>6. CASE Mark
  BY <1>1, <1>6, CallsType DEF Mark, clientVars, TypeOK
<1>7. ASSUME NEW c \in Collators, Step(c) PROVE TypeOK'
  <2>1. Dispatch(c) /\ CollatorTypeOK'
    BY <1>1, <1>7, DispatchType DEF Step
  <2>2. Selects(c) => Earliest(c) \in Queues
    BY <1>1, Picked
  <2>. QED
    BY <1>7, <2>1, <2>2 DEF Step, Delivers, clientVars, TypeOK
<1>8. CASE UNCHANGED vars
  BY <1>8 DEF TypeOK, CollatorTypeOK, vars, collatorVars, clientVars
<1>. QED
  BY <1>2, <1>3, <1>4, <1>5, <1>6, <1>7, <1>8 DEF Next

\* QueueInv for one queue.
Kept(q) ==
  /\ q \in open => q[1] \in added
  /\ q \notin open => queue[q] = << >>
  /\ q[1] \notin added => pushed[q] = 0
  /\ q \in finished => q[1] \in ended
  /\ \A i \in 1 .. Len(queue[q]) : 1 <= queue[q][i] /\ queue[q][i] <= pushed[q]
  /\ \A i, j \in 1 .. Len(queue[q]) : i <= j => queue[q][i] <= queue[q][j]

LEMMA StepQueue == IInv /\ [Next]_vars => QueueInv'
<1> SUFFICES ASSUME IInv, [Next]_vars, NEW q \in Queues PROVE Kept(q)'
  BY DEF QueueInv, Kept
<1>1. /\ TypeOK /\ CollatorTypeOK /\ QueueInv /\ Kept(q) /\ MarkInv
      /\ queue[q] \in Seq(Nat) /\ pushed[q] \in Nat /\ Len(queue[q]) \in Nat
      /\ \A i \in 1 .. Len(queue[q]) : queue[q][i] \in Nat
      /\ q[1] \in Trajectories
  <2>1. TypeOK /\ CollatorTypeOK /\ QueueInv /\ MarkInv /\ queue[q] \in Seq(Nat) /\ pushed[q] \in Nat
    BY DEF IInv, TypeOK, CollatorTypeOK
  <2>2. Kept(q)
    BY <2>1 DEF QueueInv, Kept
  <2>. QED
    BY <2>1, <2>2, LenProperties, ElementOfSeq, KeysFinite
<1>2. ASSUME NEW tr \in Trajectories, NEW S \in SUBSET Sensors, Add(tr, S)
      PROVE  Kept(q)'
  <2>1. /\ open' \in { open, open \cup ({tr} \X S) } /\ added' = added \cup {tr}
        /\ tr \notin added /\ UNCHANGED << finished, queue, ended, pushed >>
    BY <1>2 DEF Add, AddTrajectory
  <2>2. q \in {tr} \X S => q[1] = tr
    OBVIOUS
  <2>. QED
    BY <1>1, <2>1, <2>2 DEF Kept
<1>3. ASSUME NEW r \in Queues, NEW t \in 1 .. Horizon, Data(r, t)
      PROVE  Kept(q)'
  <2>1. /\ r \in open /\ queue' = [queue EXCEPT ![r] = Append(queue[r], t)]
        /\ pushed' = [pushed EXCEPT ![r] = t] /\ pushed[r] <= t
        /\ UNCHANGED << open, finished, added, ended >>
    BY <1>3 DEF Data, AddSensorData
  <2>2. t \in Nat /\ 1 <= t
    BY CollationAssumption
  <2>3. CASE q = r
    <3>1. queue'[q] = Append(queue[q], t) /\ pushed'[q] = t /\ pushed[q] <= t
      BY <1>1, <2>1, <2>3 DEF TypeOK, CollatorTypeOK
    <3>2. ASSUME NEW i \in 1 .. Len(queue'[q])
          PROVE  1 <= queue'[q][i] /\ queue'[q][i] <= pushed'[q]
      <4>1. \/ i \in 1 .. Len(queue[q]) /\ queue'[q][i] = queue[q][i]
            \/ queue'[q][i] = t
        BY <1>1, <2>2, <3>1, AppendOf
      <4>. QED
        BY <1>1, <2>2, <3>1, <4>1 DEF Kept
    <3>3. ASSUME NEW i \in 1 .. Len(queue'[q]), NEW j \in 1 .. Len(queue'[q]), i <= j
          PROVE  queue'[q][i] <= queue'[q][j]
      <4>1. /\ \/ i \in 1 .. Len(queue[q]) /\ queue'[q][i] = queue[q][i]
               \/ i = Len(queue[q]) + 1 /\ queue'[q][i] = t
            /\ \/ j \in 1 .. Len(queue[q]) /\ queue'[q][j] = queue[q][j]
               \/ j = Len(queue[q]) + 1 /\ queue'[q][j] = t
        BY <1>1, <2>2, <3>1, AppendOf
      <4>. QED
        BY <1>1, <2>2, <3>1, <3>3, <4>1 DEF Kept
    <3>4. q[1] \in added
      BY <1>1, <2>1, <2>3 DEF Kept
    <3>. QED
      BY <1>1, <2>1, <2>3, <3>2, <3>3, <3>4 DEF Kept
  <2>4. CASE q # r
    <3>1. queue'[q] = queue[q] /\ pushed'[q] = pushed[q]
      BY <1>1, <2>1, <2>4 DEF TypeOK, CollatorTypeOK
    <3>. QED
      BY <1>1, <2>1, <3>1 DEF Kept
  <2>. QED
    BY <2>3, <2>4
<1>4. CASE (\E tr \in Trajectories : Finish(tr)) \/ Flush
  <2>1. ended \subseteq ended' /\ UNCHANGED << open, finished, queue, added, pushed >>
    BY <1>4 DEF Finish, Flush, FinishTrajectory, TypeOK, IInv
  <2>. QED
    BY <1>1, <2>1 DEF Kept
<1>5. CASE Mark
  <2>1. /\ finished' \in { finished, finished \cup {Head(marking)} }
        /\ Head(marking)[1] \in ended
        /\ UNCHANGED << open, queue, added, ended, pushed >>
    <3>1. marking \in Seq(Queues) /\ marking # << >>
      BY <1>1, <1>5 DEF Mark, MarkQueueAsFinished, TypeOK, CollatorTypeOK
    <3>2. 1 \in 1 .. Len(marking) /\ Head(marking) = marking[1]
      BY <3>1, LenProperties, EmptySeq
    <3>. QED
      BY <1>1, <1>5, <3>2 DEF Mark, MarkQueueAsFinished, MarkInv, clientVars
  <2>. QED
    BY <1>1, <2>1 DEF Kept
<1>6. ASSUME NEW c \in Collators, Step(c) PROVE Kept(q)'
  <2>1. Dispatch(c) /\ UNCHANGED << added, ended, pushed >>
    BY <1>6 DEF Step, clientVars
  <2>2. /\ open' \subseteq open /\ finished' = finished \cap open'
        /\ \A r \in open \ open' : r \in finished /\ queue[r] = << >>
        /\ \/ queue' = queue
           \/ /\ Selects(c) /\ Earliest(c) \in open' /\ RemoveExhausted(c)
              /\ queue' = [queue EXCEPT ![Earliest(c)] = Tail(queue[Earliest(c)])]
    BY <1>1, <2>1, DispatchQueues
  <2>3. \/ queue'[q] = queue[q]
        \/ queue'[q] = Tail(queue[q]) /\ queue[q] # << >> /\ q \in open'
    <3>1. queue \in [Queues -> Seq(Nat)]
      BY <1>1 DEF TypeOK, CollatorTypeOK
    <3>2. Selects(c) => queue[Earliest(c)] # << >>
      BY <1>1, Picked
    <3>. QED
      BY <2>2, <3>1, <3>2
  <2>4. CASE queue'[q] = queue[q]
    BY <1>1, <2>1, <2>2, <2>4 DEF Kept
  <2>5. CASE queue'[q] = Tail(queue[q]) /\ queue[q] # << >> /\ q \in open'
    <3>1. ASSUME NEW i \in 1 .. Len(queue'[q])
          PROVE  1 <= queue'[q][i] /\ queue'[q][i] <= pushed'[q]
      BY <1>1, <2>1, <2>5, TailOf DEF Kept
    <3>2. ASSUME NEW i \in 1 .. Len(queue'[q]), NEW j \in 1 .. Len(queue'[q]), i <= j
          PROVE  queue'[q][i] <= queue'[q][j]
      <4>1. /\ i + 1 \in 1 .. Len(queue[q]) /\ j + 1 \in 1 .. Len(queue[q])
            /\ i + 1 <= j + 1
            /\ queue'[q][i] = queue[q][i + 1] /\ queue'[q][j] = queue[q][j + 1]
        BY <1>1, <2>5, <3>2, TailOf
      <4>. QED
        BY <1>1, <4>1 DEF Kept
    <3>. QED
      BY <1>1, <2>1, <2>2, <2>5, <3>1, <3>2 DEF Kept
  <2>. QED
    BY <2>3, <2>4, <2>5
<1>7. CASE UNCHANGED vars
  BY <1>1, <1>7 DEF Kept, vars, collatorVars, clientVars
<1>. QED
  BY <1>2, <1>3, <1>4, <1>5, <1>6, <1>7 DEF Next

LEMMA StepMark == IInv /\ [Next]_vars => MarkInv'
<1> SUFFICES ASSUME IInv, [Next]_vars
             PROVE  MarkedInv' /\ \A i \in 1 .. Len(marking') : marking'[i][1] \in ended'
  BY DEF MarkInv
<1>1. /\ TypeOK /\ CollatorTypeOK /\ QueueInv /\ MarkedInv
      /\ \A i \in 1 .. Len(marking) : marking[i][1] \in ended
      /\ open \subseteq Queues /\ finished \subseteq open
  BY DEF IInv, MarkInv, TypeOK, CollatorTypeOK
<1>2. ASSUME NEW tr \in Trajectories, NEW S \in SUBSET Sensors, Add(tr, S)
      PROVE  MarkInv'
  <2>1. MarkedInv' /\ UNCHANGED << marking, ended >>
    BY <1>1, <1>2, CallsMarked DEF Add, AddTrajectory
  <2>. QED
    BY <1>1, <2>1 DEF MarkInv
<1>3. ASSUME NEW r \in Queues, NEW t \in 1 .. Horizon, Data(r, t)
      PROVE  MarkInv'
  <2>1. t \in Nat
    BY CollationAssumption
  <2>2. MarkedInv' /\ UNCHANGED << marking, ended >>
    BY <1>1, <1>3, <2>1, CallsMarked DEF Data, AddSensorData
  <2>. QED
    BY <1>1, <2>2 DEF MarkInv
<1>4. ASSUME NEW S \in SUBSET (open \ finished), NEW o \in Orders(S), FinishTrajectory(o),
             \A q \in S : q[1] \in ended'
      PROVE  MarkInv'
  <2>1. MarkedInv' /\ marking' = o
    BY <1>1, <1>4, CallsMarked DEF FinishTrajectory
  <2>2. \A i \in 1 .. Len(o) : o[i] \in S
    <3>1. S \subseteq Queues
      BY <1>1
    <3>. QED
      BY <3>1, OrderOf
  <2>. QED
    BY <1>4, <2>1, <2>2 DEF MarkInv
<1>5. ASSUME NEW tr \in Trajectories, Finish(tr) PROVE MarkInv'
  <2>1. PICK S : S = {q \in open : q[1] = tr}
    OBVIOUS
  <2>2. PICK o \in Orders(S) : FinishTrajectory(o)
    BY <1>5, <2>1 DEF Finish
  <2>3. tr \notin ended /\ ended' = ended \cup {tr}
    BY <1>5 DEF Finish
  <2>4. S \in SUBSET (open \ finished) /\ \A q \in S : q[1] \in ended'
    BY <1>1, <2>1, <2>3 DEF QueueInv
  <2>. QED
    BY <1>4, <2>2, <2>4
<1>6. CASE Flush
  <2>1. PICK S : S = open \ finished
    OBVIOUS
  <2>2. PICK o \in Orders(S) : FinishTrajectory(o)
    BY <1>6, <2>1 DEF Flush
  <2>3. S \in SUBSET (open \ finished) /\ \A q \in S : q[1] \in ended'
    BY <1>1, <1>6, <2>1, KeysFinite DEF Flush
  <2>. QED
    BY <1>4, <2>2, <2>3 DEF MarkInv
<1>7. CASE Mark
  <2>1. UNCHANGED ended /\ MarkQueueAsFinished
    BY <1>7 DEF Mark, clientVars
  <2>2. ASSUME NEW i \in 1 .. Len(marking') PROVE marking'[i][1] \in ended'
    BY <1>1, <2>1, <2>2, MarkHead
  <2>. QED
    BY <1>1, <2>1, <2>2, CallsMarked DEF MarkInv
<1>8. ASSUME NEW c \in Collators, Step(c) PROVE MarkInv'
  <2>1. MarkedInv' /\ UNCHANGED << marking, ended >>
    BY <1>1, <1>8, CallsMarked DEF Step, Dispatch, clientVars
  <2>. QED
    BY <1>1, <2>1 DEF MarkInv
<1>9. CASE UNCHANGED vars
  BY <1>1, <1>9 DEF MarkedInv, vars, collatorVars, clientVars
<1>. QED
  BY <1>2, <1>3, <1>5, <1>6, <1>7, <1>8, <1>9 DEF Next, MarkInv

LEMMA StepBlocked == IInv /\ [Next]_vars => BlockedInv'
<1> SUFFICES ASSUME IInv, [Next]_vars PROVE BlockedInv'
  OBVIOUS
<1>1. CollatorTypeOK /\ MarkedInv /\ BlockedInv
  BY DEF IInv, TypeOK, MarkInv
<1>2. \A t \in 1 .. Horizon : t \in Nat
  BY CollationAssumption
<1>3. CASE UNCHANGED vars
  BY <1>1, <1>3 DEF BlockedInv, Mine, vars, collatorVars
<1>4. CASE Next
  BY <1>1, <1>2, <1>4, CallsBlocked DEF Next, Add, Data, Finish, Flush, Step, Mark
<1>. QED
  BY <1>3, <1>4

\* StartInv for one queue.
Covered(q) ==
  /\ q \in served =>
       /\ startTime[q[1]] # 0 /\ q[1] \in added
       /\ \A i \in 1 .. Len(queue[q]) : startTime[q[1]] <= queue[q][i]
       /\ q \in open \ finished => startTime[q[1]] <= pushed[q]
  /\ q \in trimmed \ served =>
       /\ startTime[q[1]] # 0 /\ queue[q] # << >>
       /\ queue[q][1] <= startTime[q[1]]

\* The data after the first one.
LEMMA AfterFirst ==
  ASSUME NEW s \in Seq(Nat), s # << >>, NEW st \in Nat, NEW p \in Nat,
         \A i \in 1 .. Len(s) : s[i] <= p,
         \A i, j \in 1 .. Len(s) : i <= j => s[i] <= s[j]
  PROVE  /\ Len(s) >= 2 => Tail(s) # << >> /\ Tail(s)[1] = s[2]
         /\ st <= s[1] \/ (Len(s) >= 2 /\ st <= s[2]) =>
              st <= p /\ \A i \in 1 .. Len(Tail(s)) : st <= Tail(s)[i]
         /\ Len(s) = 1 => Len(Tail(s)) = 0
<1>1. PICK n \in Nat : n = Len(s)
  BY LenProperties
<1>2. /\ n # 0 /\ Tail(s) \in Seq(Nat) /\ Len(Tail(s)) = n - 1
      /\ \A i \in 1 .. n - 1 : Tail(s)[i] = s[i + 1]
  BY <1>1, HeadTailProperties, EmptySeq
<1>3. \A i \in 1 .. n : s[i] \in Nat /\ s[i] <= p
  BY <1>1, ElementOfSeq
<1>4. n >= 2 => Tail(s) # << >> /\ Tail(s)[1] = s[2]
  <2>1. n >= 2 => 1 \in 1 .. n - 1 /\ n - 1 # 0
    OBVIOUS
  <2>. QED
    BY <1>2, <2>1, EmptySeq
<1>5. ASSUME st <= s[1] \/ (n >= 2 /\ st <= s[2]), NEW i \in 1 .. n - 1
      PROVE  st <= Tail(s)[i]
  <2>1. 1 \in 1 .. n /\ 2 \in 1 .. n /\ i + 1 \in 1 .. n /\ 1 <= i + 1 /\ 2 <= i + 1
    OBVIOUS
  <2>2. s[1] <= s[i + 1] /\ s[2] <= s[i + 1]
    BY <1>1, <2>1
  <2>3. s[1] \in Nat /\ s[2] \in Nat /\ s[i + 1] \in Nat /\ Tail(s)[i] = s[i + 1]
    BY <1>2, <1>3, <2>1
  <2>4. PICK a \in Nat, b \in Nat, d \in Nat :
          a = s[1] /\ b = s[2] /\ d = s[i + 1] /\ d = Tail(s)[i]
    BY <2>3
  <2>5. (st <= a \/ st <= b) /\ a <= d /\ b <= d
    BY <1>5, <2>2, <2>4
  <2>6. st <= d
    BY <2>5
  <2>. QED
    BY <2>4, <2>6
<1>6. ASSUME st <= s[1] \/ (n >= 2 /\ st <= s[2]) PROVE st <= p
  <2>1. 1 \in 1 .. n /\ (n >= 2 => 2 \in 1 .. n)
    BY <1>2
  <2>2. s[1] \in Nat /\ s[1] <= p /\ (n >= 2 => s[2] \in Nat /\ s[2] <= p)
    BY <1>3, <2>1
  <2>. QED
    BY <1>6, <2>2
<1>. QED
  BY <1>1, <1>2, <1>4, <1>5, <1>6

\* The queue that Pop takes from, when the datum is dispatched or dropped.
LEMMA PopCovers ==
  ASSUME IInv, NEW c \in Collators, Step(c), Pop(c), NEW q, q = Earliest(c)
  PROVE  Covered(q)'
<1>1. TypeOK /\ CollatorTypeOK /\ QueueInv /\ StartInv
  BY DEF IInv, TypeOK
<1>2. /\ Selects(c) /\ ~Undecided(q) /\ queue' = [queue EXCEPT ![q] = Tail(queue[q])]
      /\ startTime' = [startTime EXCEPT ![q[1]] = CommonStartTime(q[1])]
      /\ UNCHANGED << added, pushed >>
      /\ served' = IF Drops(q) THEN served ELSE served \cup {q}
      /\ trimmed' = IF Drops(q) THEN trimmed \cup {q} ELSE trimmed
      /\ Dispatch(c)
  BY DEF Pop, Step, Delivers, clientVars
<1>3. /\ q \in open /\ q \in Queues
      /\ queue[q] \in Seq(Nat) /\ queue[q] # << >> /\ Len(queue[q]) \in Nat \ {0}
      /\ Peek(q) = queue[q][1] /\ Peek(q) \in Nat
      /\ Tail(queue[q]) \in Seq(Nat) /\ Len(Tail(queue[q])) = Len(queue[q]) - 1
      /\ \A i \in 1 .. Len(Tail(queue[q])) : Tail(queue[q])[i] = queue[q][i + 1]
      /\ CommonStartTime(q[1]) \in Nat
  BY <1>1, <1>2, Picked
<1>4. /\ queue'[q] = Tail(queue[q]) /\ startTime'[q[1]] = CommonStartTime(q[1])
      /\ pushed[q] \in Nat
      /\ \A i \in 1 .. Len(queue[q]) : queue[q][i] \in Nat
  BY <1>1, <1>2, <1>3, KeysFinite, ElementOfSeq DEF TypeOK, CollatorTypeOK
<1>5. /\ q[1] \in added
      /\ \A i \in 1 .. Len(queue[q]) : queue[q][i] <= pushed[q]
      /\ \A i, j \in 1 .. Len(queue[q]) : i <= j => queue[q][i] <= queue[q][j]
  BY <1>1, <1>3 DEF QueueInv
<1>6. CommonStartTime(q[1]) # 0
  <2>1. startTime[q[1]] # 0 => CommonStartTime(q[1]) = startTime[q[1]]
    BY <1>1, <1>3, CommonStart
  <2>2. ASSUME startTime[q[1]] = 0 PROVE CommonStartTime(q[1]) # 0
    <3>1. PICK r \in open : queue[r] # << >> /\ CommonStartTime(q[1]) = Peek(r)
      BY <1>1, <1>3, <2>2, CommonStart
    <3>2. r \in Queues /\ queue[r] \in Seq(Nat)
      BY <1>1 DEF TypeOK, CollatorTypeOK
    <3>3. 1 \in 1 .. Len(queue[r]) /\ Peek(r) = queue[r][1]
      BY <3>1, <3>2, LenProperties, EmptySeq DEF Peek
    <3>4. 1 <= queue[r][1]
      BY <1>1, <3>2, <3>3 DEF QueueInv
    <3>. QED
      BY <3>1, <3>3, <3>4
  <2>. QED
    BY <2>1, <2>2
<1>7. PICK st \in Nat : st = CommonStartTime(q[1])
  BY <1>3
<1>8. PICK s \in Seq(Nat) : s = queue[q]
  BY <1>3
<1>9. /\ Len(s) >= 2 => Tail(s) # << >> /\ Tail(s)[1] = s[2]
      /\ st <= s[1] \/ (Len(s) >= 2 /\ st <= s[2]) =>
           st <= pushed[q] /\ \A i \in 1 .. Len(Tail(s)) : st <= Tail(s)[i]
      /\ Len(s) = 1 => Len(Tail(s)) = 0
  BY <1>3, <1>4, <1>5, <1>8, AfterFirst
<1>10. CASE Drops(q)
  <2>1. Peek(q) < st /\ Len(s) >= 2 /\ s[2] <= st
    BY <1>7, <1>8, <1>10 DEF Drops
  <2>2. q \notin served
    <3>1. q \in served => startTime[q[1]] # 0 /\ startTime[q[1]] <= queue[q][1]
      BY <1>1, <1>3 DEF StartInv
    <3>2. startTime[q[1]] # 0 => st = startTime[q[1]]
      BY <1>1, <1>3, <1>7, CommonStart
    <3>. QED
      BY <1>3, <1>7, <2>1, <3>1, <3>2
  <2>. QED
    BY <1>2, <1>4, <1>6, <1>7, <1>8, <1>9, <1>10, <2>1, <2>2 DEF Covered
<1>11. CASE ~Drops(q)
  <2>1. \/ st <= s[1] \/ (Len(s) >= 2 /\ st <= s[2])
        \/ Len(s) = 1 /\ q \in finished
    <3>1. Peek(q) < st /\ Len(s) >= 2 => st <= s[2]
      <4>1. Len(s) >= 2 => s[2] \in Nat
        BY <1>3, <1>4, <1>8
      <4>. QED
        BY <1>7, <1>8, <1>11, <4>1 DEF Drops
    <3>2. Peek(q) < st /\ Len(s) < 2 => q \in finished
      BY <1>2, <1>7, <1>8 DEF Undecided
    <3>3. st <= Peek(q) \/ Peek(q) < st
      BY <1>3, <1>7
    <3>4. Len(s) >= 2 \/ (Len(s) < 2 /\ Len(s) = 1)
      <4>1. PICK n \in Nat \ {0} : n = Len(s)
        BY <1>3, <1>8, Zenon
      <4>2. n >= 2 \/ (n < 2 /\ n = 1)
        BY ONLY n \in Nat \ {0}
      <4>. QED
        BY <4>1, <4>2, Zenon
    <3>5. Peek(q) = s[1]
      BY <1>3, <1>8
    <3>. QED
      BY <3>1, <3>2, <3>3, <3>4, <3>5, Zenon
  <2>2. \A i \in 1 .. Len(Tail(s)) : st <= Tail(s)[i]
    BY <1>9, <2>1
  <2>3. q \in open' \ finished' => st <= pushed[q]
    <3>1. finished' = finished \cap open'
      BY <1>1, <1>2, DispatchQueues
    <3>. QED
      BY <1>9, <2>1, <3>1
  <2>4. q \in served'
    BY <1>2, <1>11
  <2>. QED
    BY <1>2, <1>4, <1>5, <1>6, <1>7, <1>8, <2>2, <2>3, <2>4 DEF Covered
<1>. QED
  BY <1>10, <1>11

LEMMA StepStart == IInv /\ [Next]_vars => StartInv'
<1> SUFFICES ASSUME IInv, [Next]_vars, NEW q \in Queues PROVE Covered(q)'
  BY DEF StartInv, Covered
<1>1. /\ TypeOK /\ CollatorTypeOK /\ QueueInv /\ Covered(q)
      /\ queue[q] \in Seq(Nat) /\ startTime[q[1]] \in Nat
      /\ finished \subseteq open /\ q[1] \in Trajectories
      /\ served \subseteq Queues /\ trimmed \subseteq Queues
  BY KeysFinite DEF IInv, TypeOK, CollatorTypeOK, StartInv, Covered
<1>2. ASSUME NEW tr \in Trajectories, NEW S \in SUBSET Sensors, Add(tr, S)
      PROVE  Covered(q)'
  <2>1. /\ open' \in { open, open \cup ({tr} \X S) } /\ added' = added \cup {tr}
        /\ tr \notin added
        /\ UNCHANGED << finished, queue, startTime, pushed, served, trimmed >>
    BY <1>2 DEF Add, AddTrajectory
  <2>2. q \in served => (q \in open' => q \in open)
    <3>1. q \in {tr} \X S => q[1] = tr
      OBVIOUS
    <3>. QED
      BY <1>1, <2>1, <3>1 DEF Covered
  <2>. QED
    BY <1>1, <2>1, <2>2 DEF Covered
<1>3. ASSUME NEW r \in Queues, NEW t \in 1 .. Horizon, Data(r, t)
      PROVE  Covered(q)'
  <2>1. /\ r \in open /\ r[1] \notin ended
        /\ queue' = [queue EXCEPT ![r] = Append(queue[r], t)]
        /\ pushed' = [pushed EXCEPT ![r] = t] /\ pushed[r] <= t
        /\ UNCHANGED << open, finished, startTime, added, served, trimmed >>
    BY <1>3 DEF Data, AddSensorData
  <2>2. t \in Nat
    BY CollationAssumption
  <2>3. CASE q = r
    <3>1. /\ queue'[q] = Append(queue[q], t) /\ pushed'[q] = t /\ pushed[q] <= t
          /\ pushed[q] \in Nat /\ q \in open \ finished
      BY <1>1, <2>1, <2>3 DEF TypeOK, CollatorTypeOK, QueueInv
    <3>2. q \in served => startTime[q[1]] <= t
      BY <1>1, <2>2, <3>1 DEF Covered
    <3>3. ASSUME q \in served, NEW i \in 1 .. Len(queue'[q])
          PROVE  startTime[q[1]] <= queue'[q][i]
      <4>1. \/ i \in 1 .. Len(queue[q]) /\ queue'[q][i] = queue[q][i]
            \/ queue'[q][i] = t
        BY <1>1, <2>2, <3>1, AppendOf
      <4>. QED
        BY <1>1, <3>2, <3>3, <4>1 DEF Covered
    <3>4. queue[q] # << >> => queue'[q] # << >> /\ queue'[q][1] = queue[q][1]
      <4>1. queue[q] # << >> => 1 \in 1 .. Len(queue[q])
        BY <1>1, LenProperties, EmptySeq
      <4>. QED
        BY <1>1, <2>2, <3>1, <4>1, AppendProperties
    <3>. QED
      BY <1>1, <2>1, <3>1, <3>2, <3>3, <3>4 DEF Covered
  <2>4. CASE q # r
    <3>1. queue'[q] = queue[q] /\ pushed'[q] = pushed[q]
      BY <1>1, <2>1, <2>4 DEF TypeOK, CollatorTypeOK
    <3>. QED
      BY <1>1, <2>1, <3>1 DEF Covered
  <2>. QED
    BY <2>3, <2>4
<1>4. CASE (\E tr \in Trajectories : Finish(tr)) \/ Flush
  <2>1. UNCHANGED << open, finished, queue, startTime, added, pushed, served, trimmed >>
    BY <1>4 DEF Finish, Flush, FinishTrajectory
  <2>. QED
    BY <1>1, <2>1 DEF Covered
<1>5. CASE Mark
  <2>1. /\ finished \subseteq finished'
        /\ UNCHANGED << open, queue, startTime, added, pushed, served, trimmed >>
    BY <1>5 DEF Mark, MarkQueueAsFinished, clientVars
  <2>. QED
    BY <1>1, <2>1 DEF Covered
<1>6. ASSUME NEW c \in Collators, Step(c) PROVE Covered(q)'
  <2>1. Dispatch(c) /\ UNCHANGED << added, pushed >>
    BY <1>6 DEF Step, clientVars
  <2>2. open' \subseteq open /\ finished' = finished \cap open'
    BY <1>1, <2>1, DispatchQueues
  <2>3. startTime[q[1]] # 0 => startTime'[q[1]] = startTime[q[1]]
    <3>1. \/ startTime' = startTime
          \/ /\ Selects(c)
             /\ startTime' = [startTime EXCEPT ![Earliest(c)[1]] =
                                CommonStartTime(Earliest(c)[1])]
      BY <2>1, StopCases DEF Dispatch, Pop
    <3>2. ASSUME Selects(c), Earliest(c)[1] = q[1], startTime[q[1]] # 0
          PROVE  CommonStartTime(Earliest(c)[1]) = startTime[q[1]]
      <4>1. Earliest(c) \in open /\ queue[Earliest(c)] # << >>
        BY <1>1, <3>2, Picked
      <4>. QED
        BY <1>1, <3>2, <4>1, CommonStart
    <3>3. startTime \in [Trajectories -> Nat]
      BY <1>1 DEF TypeOK, CollatorTypeOK
    <3>. QED
      BY <1>1, <3>1, <3>2, <3>3
  <2>4. CASE Pop(c) /\ q = Earliest(c)
    BY <1>6, <2>4, PopCovers
  <2>5. CASE ~(Pop(c) /\ q = Earliest(c))
    <3>1. /\ queue'[q] = queue[q]
          /\ q \in served' <=> q \in served
          /\ q \in trimmed' <=> q \in trimmed
      <4>1. CASE Pop(c)
        <5>1. queue' = [queue EXCEPT ![Earliest(c)] = Tail(queue[Earliest(c)])]
          BY <4>1 DEF Pop
        <5>. QED
          BY <1>1, <1>6, <2>5, <4>1, <5>1 DEF Step, TypeOK, CollatorTypeOK
      <4>2. CASE Stop(c) /\ UNCHANGED queue
        <5>1. Selects(c) => Undecided(Earliest(c))
          BY <4>2 DEF Stop, Selects
        <5>2. Selects(c) => Len(queue[Earliest(c)]) \in Nat
          BY <1>1, Picked
        <5>3. ~Delivers(c) /\ ~(Selects(c) /\ Drops(Earliest(c)))
          BY <5>1, <5>2 DEF Delivers, Drops, Undecided
        <5>. QED
          BY <1>6, <4>2, <5>3 DEF Step
      <4>. QED
        BY <2>1, <4>1, <4>2 DEF Dispatch
    <3>2. q \in open' \ finished' => q \in open \ finished
      BY <2>2
    <3>. QED
      BY <1>1, <2>1, <2>3, <3>1, <3>2 DEF Covered
  <2>. QED
    BY <2>4, <2>5
<1>7. CASE UNCHANGED vars
  BY <1>1, <1>7 DEF Covered, vars, collatorVars, clientVars
<1>. QED
  BY <1>2, <1>3, <1>4, <1>5, <1>6, <1>7 DEF Next

LEMMA StepIInv == IInv /\ [Next]_vars => IInv'
<1> SUFFICES ASSUME IInv, [Next]_vars PROVE IInv'
  OBVIOUS
<1>1. TypeOK'
  BY StepTypeOK DEF IInv
<1>. QED
  BY <1>1, StepQueue, StepMark, StepBlocked, StepStart DEF IInv

\* OrderInv for one queue.
Ordered(q) ==
  /\ \A i \in 1 .. Len(queue[q]) : lastTime[CollatorOf(q[1])] <= queue[q][i]
  /\ q \notin finished /\ pushed[q] # 0 => lastTime[CollatorOf(q[1])] <= pushed[q]

LEMMA StepOrder == ~LateStart /\ IInv /\ OrderInv /\ [Next]_vars => OrderInv'
<1> SUFFICES ASSUME ~LateStart, IInv, OrderInv, [Next]_vars
             PROVE  ~checkFailed' /\ \A q \in open' : Ordered(q)'
  BY DEF OrderInv, Ordered
<1>1. /\ TypeOK /\ CollatorTypeOK /\ QueueInv /\ MarkInv /\ ~checkFailed
      /\ \A q \in open : Ordered(q)
      /\ open \subseteq Queues /\ finished \subseteq open
      /\ queue \in [Queues -> Seq(Nat)] /\ pushed \in [Queues -> Nat]
      /\ lastTime \in [Collators -> Nat]
  BY DEF IInv, TypeOK, CollatorTypeOK, OrderInv, Ordered
<1>2. ASSUME NEW tr \in Trajectories, NEW S \in SUBSET Sensors, Add(tr, S)
      PROVE  ~checkFailed' /\ \A q \in open' : Ordered(q)'
  <2>1. tr \notin added /\ UNCHANGED << finished, queue, lastTime, pushed >>
    BY <1>2 DEF Add, AddTrajectory
  <2>2. ({tr} \X S) \cap open = {}
    <3>1. \A q \in open : q[1] # tr
      BY <1>1, <2>1 DEF QueueInv
    <3>2. \A q \in {tr} \X S : q[1] = tr
      OBVIOUS
    <3>. QED
      BY <3>1, <3>2
  <2>3. open' = open \cup ({tr} \X S) /\ ~checkFailed'
    BY <1>1, <1>2, <2>2 DEF Add, AddTrajectory
  <2>4. ASSUME NEW q \in {tr} \X S PROVE Ordered(q)'
    <3>1. q \in Queues /\ q[1] = tr /\ q \notin open
      BY <2>2 DEF Queues
    <3>2. queue[q] = << >> /\ pushed[q] = 0
      BY <1>1, <2>1, <3>1 DEF QueueInv
    <3>. QED
      BY <2>1, <3>2 DEF Ordered
  <2>5. \A q \in open : Ordered(q)'
    BY <1>1, <2>1 DEF Ordered
  <2>. QED
    BY <2>3, <2>4, <2>5
<1>3. ASSUME NEW r \in Queues, NEW t \in 1 .. Horizon, Data(r, t)
      PROVE  ~checkFailed' /\ \A q \in open' : Ordered(q)'
  <2>1. /\ r \in open /\ r[1] \notin ended
        /\ queue' = [queue EXCEPT ![r] = Append(queue[r], t)]
        /\ pushed' = [pushed EXCEPT ![r] = t] /\ pushed[r] <= t
        /\ pushed[r] = 0 => lastTime[CollatorOf(r[1])] <= t
        /\ UNCHANGED << open, finished, lastTime, checkFailed >>
    BY <1>3 DEF Data, AddSensorData
  <2>2. t \in Nat /\ CollatorOf(r[1]) \in Collators
    BY CollationAssumption, KeysFinite
  <2>3. lastTime[CollatorOf(r[1])] <= t
    <3>1. r \notin finished
      BY <1>1, <2>1 DEF QueueInv
    <3>2. pushed[r] # 0 => lastTime[CollatorOf(r[1])] <= pushed[r]
      BY <1>1, <2>1, <3>1 DEF Ordered
    <3>3. pushed[r] \in Nat /\ lastTime[CollatorOf(r[1])] \in Nat
      BY <1>1, <2>2
    <3>. QED
      BY <2>1, <2>2, <3>2, <3>3
  <2>4. ASSUME NEW q \in open PROVE Ordered(q)'
    <3>1. CASE q = r
      <4>1. queue'[q] = Append(queue[q], t) /\ pushed'[q] = t /\ queue[q] \in Seq(Nat)
        BY <1>1, <2>1, <3>1
      <4>2. ASSUME NEW i \in 1 .. Len(queue'[q])
            PROVE  lastTime[CollatorOf(q[1])] <= queue'[q][i]
        <5>1. \/ i \in 1 .. Len(queue[q]) /\ queue'[q][i] = queue[q][i]
              \/ queue'[q][i] = t
          BY <2>2, <4>1, AppendOf
        <5>. QED
          BY <1>1, <2>3, <3>1, <5>1 DEF Ordered
      <4>. QED
        BY <2>1, <2>3, <3>1, <4>1, <4>2 DEF Ordered
    <3>2. CASE q # r
      <4>1. queue'[q] = queue[q] /\ pushed'[q] = pushed[q]
        BY <1>1, <2>1, <3>2
      <4>. QED
        BY <1>1, <2>1, <4>1 DEF Ordered
    <3>. QED
      BY <3>1, <3>2
  <2>. QED
    BY <1>1, <2>1, <2>4
<1>4. CASE (\E tr \in Trajectories : Finish(tr)) \/ Flush
  <2>1. UNCHANGED << open, finished, queue, lastTime, pushed, checkFailed >>
    BY <1>4 DEF Finish, Flush, FinishTrajectory
  <2>. QED
    BY <1>1, <2>1 DEF Ordered
<1>5. CASE Mark
  <2>1. Head(marking) \in open /\ Head(marking) \notin finished
    <3>1. marking \in Seq(Queues) /\ marking # << >>
      BY <1>1, <1>5 DEF Mark, MarkQueueAsFinished, TypeOK, CollatorTypeOK
    <3>2. 1 \in 1 .. Len(marking) /\ Head(marking) = marking[1]
      BY <3>1, LenProperties, EmptySeq
    <3>. QED
      BY <1>1, <3>2 DEF MarkInv, MarkedInv
  <2>2. finished \subseteq finished' /\ UNCHANGED << open, queue, lastTime, pushed, checkFailed >>
    BY <1>5, <2>1 DEF Mark, MarkQueueAsFinished, clientVars
  <2>. QED
    BY <1>1, <2>2 DEF Ordered
<1>6. ASSUME NEW c \in Collators, Step(c)
      PROVE  ~checkFailed' /\ \A q \in open' : Ordered(q)'
  <2>1. Dispatch(c) /\ UNCHANGED pushed
    BY <1>6 DEF Step, clientVars
  <2>2. SortedInv /\ DispatchedInv
    BY <1>1 DEF QueueInv, SortedInv, Ordered, DispatchedInv
  <2>3. /\ ~checkFailed' /\ DispatchedInv'
        /\ \/ lastTime' = lastTime
           \/ Pop(c) /\ lastTime' = [lastTime EXCEPT ![c] = Peek(Earliest(c))]
    BY <1>1, <2>1, <2>2, DispatchInOrder
  <2>4. open' \subseteq open /\ finished' = finished \cap open'
    BY <1>1, <2>1, DispatchQueues
  <2>5. ASSUME NEW q \in open', q \notin finished', pushed'[q] # 0
        PROVE  lastTime'[CollatorOf(q[1])] <= pushed'[q]
    <3>1. /\ q \in open \ finished /\ q \in Queues /\ CollatorOf(q[1]) \in Collators
          /\ Ordered(q) /\ pushed[q] \in Nat
      BY <1>1, <2>4, <2>5, KeysFinite
    <3>2. CASE lastTime'[CollatorOf(q[1])] = lastTime[CollatorOf(q[1])]
      BY <2>1, <2>5, <3>1, <3>2 DEF Ordered
    <3>3. CASE lastTime'[CollatorOf(q[1])] # lastTime[CollatorOf(q[1])]
      <4>1. PICK p : p = Peek(Earliest(c))
        OBVIOUS
      <4>2. /\ Pop(c) /\ CollatorOf(q[1]) = c /\ lastTime'[c] = p /\ p \in Nat
        <5>1. Pop(c) => Peek(Earliest(c)) \in Nat
          BY <1>1, Picked DEF Pop
        <5>. QED
          BY <1>1, <2>3, <3>1, <3>3, <4>1, <5>1
      <4>3. p <= queue[q][1] /\ queue[q] # << >> /\ queue[q] \in Seq(Nat)
        BY <1>1, <2>2, <4>1, <4>2, PopLeaves
      <4>4. 1 \in 1 .. Len(queue[q]) /\ queue[q][1] \in Nat
        BY <4>3, LenProperties, EmptySeq, ElementOfSeq
      <4>5. queue[q][1] <= pushed[q]
        BY <1>1, <3>1, <4>4 DEF QueueInv
      <4>. QED
        BY <2>1, <3>1, <4>2, <4>3, <4>4, <4>5
    <3>. QED
      BY <3>2, <3>3
  <2>. QED
    BY <2>3, <2>5 DEF Ordered, DispatchedInv
<1>7. CASE UNCHANGED vars
  BY <1>1, <1>7 DEF Ordered, vars, collatorVars, clientVars
<1>. QED
  BY <1>2, <1>3, <1>4, <1>5, <1>6, <1>7 DEF Next

-----------------------------------------------------------------------------
(* What follows from it.                                                   *)

\* The invariant that the others follow from.
THEOREM Invariance == Spec => []IInv
<1>1. Init => IInv
  BY InitIInv
<1>2. IInv /\ [Next]_vars => IInv'
  BY StepIInv
<1>. QED
  BY <1>1, <1>2, PTL DEF Spec

\* The state of the collator is well typed, for any bounds.
THEOREM TypeCorrect == Spec => []TypeOK
<1>1. IInv => TypeOK
  BY DEF IInv
<1>. QED
  BY <1>1, Invariance, PTL

\* No CHECK of the collator fails, for any number of sensors, any times and
\* any order in which FinishTrajectory takes the sensors: data leaves in the
\* order of its times and each queue is marked once, if no sensor starts late.
THEOREM DataInOrder == ASSUME ~LateStart PROVE Spec => []NoCheckFails
<1>1. Init => IInv /\ OrderInv
  BY InitIInv
<1>2. IInv /\ OrderInv /\ [Next]_vars => (IInv /\ OrderInv)'
  BY StepIInv, StepOrder
<1>3. OrderInv => NoCheckFails
  BY DEF OrderInv, NoCheckFails
<1>. QED
  BY <1>1, <1>2, <1>3, PTL DEF Spec

\* At the common start neither too little nor too much is dropped: what a
\* callback gets after the first datum of a sensor is not before the start,
\* and when it gets data beyond the start no sensor of the trajectory has been
\* left without one that is not.
THEOREM StartCovered == Spec => []StartIsCovered
<1>1. IInv => StartIsCovered
  <2> SUFFICES ASSUME IInv, NEW c \in Collators, Delivers(c), NEW q, q = Earliest(c)
               PROVE  /\ q \in served => Peek(q) >= CommonStartTime(q[1])
                      /\ Peek(q) > CommonStartTime(q[1]) =>
                           \A o \in trimmed : o[1] = q[1] => o \in served
    BY DEF StartIsCovered
  <2>1. TypeOK /\ CollatorTypeOK /\ QueueInv /\ StartInv /\ Selects(c)
    BY DEF IInv, TypeOK, Delivers
  <2>2. /\ q \in open /\ q \in Queues /\ CollatorOf(q[1]) = c
        /\ Len(queue[q]) \in Nat \ {0} /\ queue[q] # << >>
        /\ Peek(q) = queue[q][1] /\ Peek(q) \in Nat /\ CommonStartTime(q[1]) \in Nat
    BY <2>1, Picked
  <2>3. startTime[q[1]] # 0 => CommonStartTime(q[1]) = startTime[q[1]]
    BY <2>1, <2>2, CommonStart
  <2>4. q \in served => Peek(q) >= CommonStartTime(q[1])
    <3>1. 1 \in 1 .. Len(queue[q])
      BY <2>2
    <3>2. q \in served => startTime[q[1]] # 0 /\ startTime[q[1]] <= queue[q][1]
      BY <2>1, <2>2, <3>1 DEF StartInv
    <3>. QED
      BY <2>2, <2>3, <3>2
  <2>5. ASSUME NEW o \in trimmed, o[1] = q[1], o \notin served
        PROVE  Peek(q) <= CommonStartTime(q[1])
    <3>1. o \in Queues
      BY <2>1 DEF TypeOK
    <3>2. startTime[q[1]] # 0 /\ queue[o] # << >> /\ queue[o][1] <= startTime[q[1]]
      BY <2>1, <2>5, <3>1 DEF StartInv
    <3>3. o \in open /\ o \in Mine(c)
      BY <2>1, <2>2, <2>5, <3>1, <3>2 DEF QueueInv, Mine
    <3>4. o \in Candidates(c)
      BY <2>1, <3>2, <3>3, Removed DEF Selects
    <3>5. Peek(q) <= Peek(o)
      BY <2>1, <3>4, EarliestData
    <3>6. Peek(o) = queue[o][1] /\ queue[o][1] \in Nat
      <4>1. queue[o] \in Seq(Nat)
        BY <2>1, <3>1 DEF TypeOK, CollatorTypeOK
      <4>2. 1 \in 1 .. Len(queue[o]) /\ Head(queue[o]) = queue[o][1]
        BY <3>2, <4>1, LenProperties, EmptySeq
      <4>. QED
        BY <4>1, <4>2, ElementOfSeq DEF Peek
    <3>. QED
      BY <2>2, <2>3, <3>2, <3>5, <3>6
  <2>6. Peek(q) > CommonStartTime(q[1]) => ~(Peek(q) <= CommonStartTime(q[1]))
    BY <2>2
  <2>. QED
    BY <2>4, <2>5, <2>6
<1>. QED
  BY <1>1, Invariance, PTL

\* Finishing takes the queues one by one, each with a Dispatch of its own; yet
\* once none of them expects data, none is left with any.
THEOREM NothingIsStranded == Spec => []NothingStranded
<1>1. IInv => NothingStranded
  BY KeysFinite DEF IInv, BlockedInv, NothingStranded, Idle
<1>. QED
  BY <1>1, Invariance, PTL

=============================================================================
