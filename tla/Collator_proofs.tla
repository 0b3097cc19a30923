---------------------------- MODULE Collator_proofs ----------------------------
(***************************************************************************)
(* What the operations of the collator do, whoever calls them: the lemmas  *)
(* that the proofs of its two clients share.  They begin with least        *)
(* elements, from the well-founded orders of the library, which serve      *)
(* where others use induction: a set of counterexamples has a least one.   *)
(***************************************************************************)
EXTENDS Collator, SequenceTheorems, FiniteSetTheorems, TLAPS

-----------------------------------------------------------------------------
(* Least elements.                                                         *)

\* A set of natural numbers has a least element.
LEMMA LeastNat ==
  ASSUME NEW T \in SUBSET Nat, T # {}
  PROVE  \E m \in T : \A k \in T : m <= k
<1> DEFINE R == OpToRel(<, Nat)
<1>1. IsWellFoundedOn(R, Nat)
  BY NatLessThanWellFounded, Zenon
<1>2. \A x, y \in Nat : <<y, x>> \in R <=> y < x
  BY Zenon DEF OpToRel
<1> HIDE DEF R
<1>3. PICK m \in T : \A k \in T : ~ (<<k, m>> \in R)
  BY <1>1, WFMin
<1>4. \A k \in T : ~ (k < m) /\ m \in Nat /\ k \in Nat
  BY <1>2, <1>3
<1>. QED
  BY <1>4

\* A set of subsets of a finite set has a minimal element.
LEMMA MinimalSubset ==
  ASSUME NEW S, NEW F, F \subseteq SUBSET S, IsFiniteSet(S), F # {}
  PROVE  \E m \in F : \A k \in F : k \subseteq m => k = m
<1> DEFINE R == StrictSubsetOrdering(S)
<1>1. IsWellFoundedOn(R, FiniteSubsetsOf(S)) /\ FiniteSubsetsOf(S) = SUBSET S
  BY FS_StrictSubsetOrderingWellFounded, FS_FiniteSubsetsOfFinite
<1>2. \A x, y \in SUBSET S : <<y, x>> \in R <=> y \subseteq x /\ y # x
  BY DEF StrictSubsetOrdering
<1> HIDE DEF R
<1>3. PICK m \in F : \A k \in F : ~ (<<k, m>> \in R)
  BY <1>1, WFMin
<1>4. m \in SUBSET S /\ \A k \in F : k \in SUBSET S
  OBVIOUS
<1>. QED
  BY <1>2, <1>3, <1>4

\* A finite set of natural numbers has a greatest element: the one that the
\* fewest are not below.
LEMMA GreatestNat ==
  ASSUME NEW S, S \subseteq Nat, IsFiniteSet(S), S # {}
  PROVE  \E m \in S : \A k \in S : k <= m
<1> DEFINE Above(x) == {y \in S : x <= y}
<1>1. PICK F : F = {Above(x) : x \in S}
  OBVIOUS
<1>2. F \subseteq SUBSET S /\ F # {} /\ IsFiniteSet(S)
  BY <1>1
<1>3. PICK a \in F : \A k \in F : k \subseteq a => k = a
  <2>1. ASSUME NEW T, NEW G, G \subseteq SUBSET T, IsFiniteSet(T), G # {}
        PROVE  \E a \in G : \A k \in G : k \subseteq a => k = a
    BY ONLY MinimalSubset, <2>1
  <2>. QED
    BY ONLY <1>2, <2>1
<1>4. PICK m \in S : a = Above(m)
  BY <1>1
<1>5. ASSUME NEW k \in S PROVE k <= m
  <2>1. S \subseteq Nat /\ k \in Nat /\ m \in Nat
    OBVIOUS
  <2>2. CASE m <= k
    <3>1. Above(k) \subseteq Above(m)
      <4>1. \A y \in Nat : k <= y => m <= y
        BY <2>1, <2>2
      <4>. QED
        BY <2>1, <4>1
    <3>2. Above(k) = Above(m)
      BY <1>1, <1>3, <1>4, <3>1
    <3>. QED
      BY <2>1, <3>2
  <2>. QED
    BY <2>1, <2>2
<1>. QED
  BY <1>5

-----------------------------------------------------------------------------
(* The choices of the collator: first keys, earliest data, common start.   *)

LEMMA KeysFinite ==
  /\ IsFiniteSet(Queues)
  /\ \A q \in Queues : q[1] \in Trajectories /\ q[2] \in Sensors /\ q = << q[1], q[2] >>
  /\ \A q \in Queues : q[1] \in Nat /\ q[2] \in Nat /\ CollatorOf(q[1]) \in Collators
  /\ None \notin Queues /\ None \notin Collators
<1>1. IsFiniteSet(Queues)
  BY CollatorAssumption, FS_Product DEF Queues
<1>2. \A q \in Queues : q[1] \in Trajectories /\ q[2] \in Sensors /\ q = << q[1], q[2] >>
  BY DEF Queues
<1>3. Trajectories \subseteq Nat /\ Sensors \subseteq Nat
      /\ None \notin Nat /\ None \notin Trajectories \X Sensors
  BY CollatorAssumption
<1>4. Collators \subseteq Nat
  BY <1>3 DEF Collators, CollatorOf
<1>. QED
  BY <1>1, <1>2, <1>3, <1>4 DEF Collators, Queues

\* A set of keys has a first one.
LEMMA FirstKey ==
  ASSUME NEW S, S \subseteq Queues, S # {}
  PROVE  FirstOf(S) \in S /\ \A r \in S \ {FirstOf(S)} : Before(FirstOf(S), r)
<1>1. PICK A : A = {q[1] : q \in S}
  OBVIOUS
<1>2. A \in SUBSET Nat /\ A # {}
  BY <1>1, KeysFinite
<1>3. PICK a \in A : \A k \in A : a <= k
  BY <1>2, LeastNat
<1>4. PICK B : B = {q[2] : q \in {r \in S : r[1] = a}}
  OBVIOUS
<1>5. B \in SUBSET Nat /\ B # {}
  BY <1>1, <1>3, <1>4, KeysFinite
<1>6. PICK b \in B : \A k \in B : b <= k
  BY <1>5, LeastNat
<1>7. PICK f \in S : f[1] = a /\ f[2] = b
  BY <1>4, <1>6
<1>8. ASSUME NEW r \in S \ {f} PROVE Before(f, r)
  <2>1. /\ f \in Queues /\ r \in Queues /\ r # f
        /\ f[1] \in Nat /\ f[2] \in Nat /\ r[1] \in Nat /\ r[2] \in Nat
    BY KeysFinite
  <2>2. f[1] <= r[1]
    BY <1>1, <1>3, <1>7
  <2>3. CASE f[1] < r[1]
    BY <2>3 DEF Before
  <2>4. CASE f[1] = r[1]
    <3>1. f[2] <= r[2]
      BY <1>4, <1>6, <1>7, <2>4
    <3>2. f[2] # r[2]
      BY <2>1, <2>4, KeysFinite
    <3>. QED
      BY <2>1, <2>4, <3>1, <3>2 DEF Before
  <2>. QED
    BY <2>1, <2>2, <2>3, <2>4
<1>. QED
  BY <1>7, <1>8 DEF FirstOf

\* Not before itself.
LEMMA BeforeIrreflexive == \A q, r \in Queues : ~ (Before(q, r) /\ Before(r, q)) /\ ~ Before(q, q)
BY KeysFinite DEF Before

\* The queues that an iteration removes are finished and empty; when no queue
\* waits for data, the candidates are all that have some.
LEMMA Removed ==
  ASSUME CollatorTypeOK, NEW c \in Collators
  PROVE  /\ \A q \in Exhausted(c) : q \in Mine(c) \cap finished /\ queue[q] = << >>
         /\ Candidates(c) \subseteq Mine(c) /\ Mine(c) \subseteq Queues
         /\ \A q \in Candidates(c) : queue[q] # << >>
         /\ Waiting(c) = {} =>
              \A q \in Mine(c) : IF queue[q] = << >> THEN q \in Exhausted(c)
                                                     ELSE q \in Candidates(c)
<1>1. Mine(c) \subseteq open /\ open \subseteq Queues /\ finished \subseteq open
  BY DEF CollatorTypeOK, Mine
<1>2. Waiting(c) \subseteq Mine(c) /\ Waiting(c) \subseteq Queues
  BY <1>1 DEF Waiting
<1>3. Scanned(c) \subseteq Mine(c) /\ \A q \in Scanned(c) : q \notin Waiting(c)
  <2>1. CASE Waiting(c) = {}
    BY <2>1 DEF Scanned
  <2>2. CASE Waiting(c) # {}
    <3> DEFINE f == FirstOf(Waiting(c))
    <3>1. f \in Waiting(c) /\ \A r \in Waiting(c) \ {f} : Before(f, r)
      BY <1>2, <2>2, FirstKey
    <3>2. Scanned(c) = {q \in Mine(c) : Before(q, f)}
      BY <2>2 DEF Scanned
    <3> HIDE DEF f
    <3>. QED
      BY <1>1, <1>2, <3>1, <3>2, BeforeIrreflexive
  <2>. QED
    BY <2>1, <2>2
<1>4. \A q \in Exhausted(c) : q \in Mine(c) \cap finished /\ queue[q] = << >>
  BY <1>3 DEF Exhausted, Waiting
<1>5. Waiting(c) = {} => Scanned(c) = Mine(c)
  BY DEF Scanned
<1>. QED
  BY <1>1, <1>3, <1>4, <1>5 DEF Candidates, Exhausted

\* The next datum is the earliest of the candidates.
LEMMA EarliestData ==
  ASSUME CollatorTypeOK, NEW c \in Collators, Candidates(c) # {}
  PROVE  /\ Earliest(c) \in Candidates(c)
         /\ \A r \in Candidates(c) : Peek(Earliest(c)) <= Peek(r)
<1>1. Candidates(c) \subseteq Queues /\ \A q \in Candidates(c) : queue[q] # << >>
  BY Removed
<1>2. \A q \in Candidates(c) : Peek(q) \in Nat
  <2>1. \A q \in Candidates(c) : queue[q] \in Seq(Nat) /\ queue[q] # << >>
    BY <1>1 DEF CollatorTypeOK
  <2>. QED
    BY <2>1, HeadTailProperties DEF Peek
<1>3. PICK T : T = {Peek(q) : q \in Candidates(c)}
  OBVIOUS
<1>4. T \in SUBSET Nat /\ T # {}
  BY <1>2, <1>3
<1>5. PICK m \in T : \A k \in T : m <= k
  BY <1>4, LeastNat
<1>6. PICK S : S = {q \in Candidates(c) : \A r \in Candidates(c) : Peek(q) <= Peek(r)}
  OBVIOUS
<1>7. S # {} /\ S \subseteq Queues
  BY <1>1, <1>3, <1>5, <1>6
<1>8. FirstOf(S) \in S
  BY <1>7, FirstKey
<1>. QED
  BY <1>6, <1>8 DEF Earliest

\* The common start is the one that is kept, or else the latest of the first
\* data of the trajectory.
LEMMA CommonStart ==
  ASSUME CollatorTypeOK, NEW q \in open, queue[q] # << >>
  PROVE  /\ CommonStartTime(q[1]) \in Nat
         /\ startTime[q[1]] # 0 => CommonStartTime(q[1]) = startTime[q[1]]
         /\ startTime[q[1]] = 0 =>
              \E r \in open : /\ r[1] = q[1] /\ queue[r] # << >>
                              /\ CommonStartTime(q[1]) = Peek(r)
<1>1. q \in Queues /\ startTime[q[1]] \in Nat
  BY KeysFinite DEF CollatorTypeOK
<1>2. CASE startTime[q[1]] # 0
  BY <1>1, <1>2 DEF CommonStartTime
<1>3. CASE startTime[q[1]] = 0
  <2>1. PICK Q : Q = {r \in open : r[1] = q[1] /\ queue[r] # << >>}
    OBVIOUS
  <2>2. Q \subseteq Queues /\ q \in Q /\ IsFiniteSet(Q)
    <3>1. Q \subseteq Queues /\ q \in Q
      BY <2>1 DEF CollatorTypeOK
    <3>. QED
      BY <3>1, KeysFinite, FS_Subset
  <2>3. \A r \in Q : Peek(r) \in Nat
    <3>1. \A r \in Q : queue[r] \in Seq(Nat) /\ queue[r] # << >>
      BY <2>1, <2>2 DEF CollatorTypeOK
    <3>. QED
      BY <3>1, HeadTailProperties DEF Peek
  <2>4. PICK S : S = {Peek(r) : r \in Q}
    OBVIOUS
  <2>5. S \subseteq Nat /\ S # {} /\ IsFiniteSet(S)
    <3>1. S \subseteq Nat /\ S # {}
      BY <2>2, <2>3, <2>4
    <3>2. PICK f : f = [r \in Q |-> Peek(r)]
      OBVIOUS
    <3>3. f \in [Q -> S] /\ \A k \in S : \E r \in Q : f[r] = k
      BY <2>4, <3>2
    <3>4. f \in Surjection(Q, S)
      BY <3>3 DEF Surjection
    <3>5. IsFiniteSet(S)
      BY <2>2, <3>4, FS_Surjection
    <3>. QED
      BY <3>1, <3>5
  <2>6. PICK m \in S : \A k \in S : k <= m
    BY <2>5, GreatestNat
  <2>7. \A k \in S : m >= k
    BY <2>5, <2>6
  <2>8. Max(S) \in S
    BY <2>7 DEF Max
  <2>9. CommonStartTime(q[1]) = Max(S)
    BY <1>3, <2>1, <2>4 DEF CommonStartTime
  <2>. QED
    BY <1>3, <2>1, <2>3, <2>4, <2>8, <2>9
<1>. QED
  BY <1>2, <1>3

\* What an iteration of Dispatch has picked.
LEMMA Picked ==
  ASSUME CollatorTypeOK, NEW c \in Collators, Selects(c), NEW q, q = Earliest(c)
  PROVE  /\ q \in open /\ q \in Queues /\ CollatorOf(q[1]) = c /\ q \notin Exhausted(c)
         /\ queue[q] \in Seq(Nat) /\ queue[q] # << >> /\ Len(queue[q]) \in Nat \ {0}
         /\ Peek(q) = queue[q][1] /\ Peek(q) \in Nat
         /\ Tail(queue[q]) \in Seq(Nat) /\ Len(Tail(queue[q])) = Len(queue[q]) - 1
         /\ \A i \in 1 .. Len(Tail(queue[q])) : Tail(queue[q])[i] = queue[q][i + 1]
         /\ CommonStartTime(q[1]) \in Nat
<1>1. q \in Candidates(c) /\ q \in Mine(c) /\ q \in Queues /\ queue[q] # << >>
  BY EarliestData, Removed DEF Selects
<1>2. q \in open /\ CollatorOf(q[1]) = c /\ q \notin Exhausted(c)
  BY <1>1 DEF Mine, Exhausted
<1>3. queue[q] \in Seq(Nat)
  BY <1>1 DEF CollatorTypeOK
<1>4. /\ Len(queue[q]) \in Nat \ {0} /\ Peek(q) = queue[q][1] /\ Peek(q) \in Nat
      /\ Tail(queue[q]) \in Seq(Nat) /\ Len(Tail(queue[q])) = Len(queue[q]) - 1
      /\ \A i \in 1 .. Len(Tail(queue[q])) : Tail(queue[q])[i] = queue[q][i + 1]
  BY <1>1, <1>3, HeadTailProperties, LenProperties, EmptySeq DEF Peek
<1>5. CommonStartTime(q[1]) \in Nat
  BY <1>1, <1>2, CommonStart
<1>. QED
  BY <1>1, <1>2, <1>3, <1>4, <1>5

\* The ends of Dispatch.
LEMMA StopCases ==
  ASSUME NEW c \in Collators, Stop(c)
  PROVE  \/ /\ ~Sorted(c) /\ checkFailed' = TRUE
            /\ UNCHANGED << open, finished, startTime, running >>
         \/ /\ RemoveExhausted(c) /\ running' = None /\ UNCHANGED checkFailed
            /\ \/ Waiting(c) # {} /\ UNCHANGED startTime
               \/ Waiting(c) = {} /\ Candidates(c) = {} /\ UNCHANGED startTime
               \/ /\ Selects(c) /\ Undecided(Earliest(c))
                  /\ startTime' = [startTime EXCEPT ![Earliest(c)[1]] =
                                     CommonStartTime(Earliest(c)[1])]
BY DEF Stop

\* Whatever an iteration does, it closes only queues that are finished and
\* empty, and takes at most the first datum of one queue.
LEMMA DispatchQueues ==
  ASSUME CollatorTypeOK, NEW c \in Collators, Dispatch(c)
  PROVE  /\ open' \subseteq open /\ finished' = finished \cap open'
         /\ \A q \in open \ open' : q \in finished /\ queue[q] = << >>
         /\ \/ queue' = queue
            \/ /\ Selects(c) /\ Earliest(c) \in open' /\ RemoveExhausted(c)
               /\ queue' = [queue EXCEPT ![Earliest(c)] = Tail(queue[Earliest(c)])]
<1>1. finished \subseteq open
  BY DEF CollatorTypeOK
<1>2. ASSUME RemoveExhausted(c)
      PROVE  /\ open' \subseteq open /\ finished' = finished \cap open'
             /\ \A q \in open \ open' : q \in finished /\ queue[q] = << >>
  BY <1>1, <1>2, Removed DEF RemoveExhausted
<1>3. CASE Pop(c)
  <2>1. /\ Selects(c) /\ RemoveExhausted(c)
        /\ queue' = [queue EXCEPT ![Earliest(c)] = Tail(queue[Earliest(c)])]
    BY <1>3 DEF Pop
  <2>2. Earliest(c) \in open /\ Earliest(c) \notin Exhausted(c)
    BY <2>1, Picked
  <2>. QED
    BY <1>2, <2>1, <2>2 DEF RemoveExhausted
<1>4. CASE Stop(c) /\ UNCHANGED << queue, lastTime >>
  <2>1. CASE RemoveExhausted(c)
    BY <1>2, <1>4, <2>1
  <2>2. CASE UNCHANGED << open, finished >>
    BY <1>1, <1>4, <2>2
  <2>. QED
    BY <1>4, <2>1, <2>2, StopCases
<1>. QED
  BY <1>3, <1>4 DEF Dispatch

\* The sequence of a queue after its first datum is gone, and after another
\* one has come.
LEMMA TailOf ==
  ASSUME NEW s \in Seq(Nat), s # << >>, NEW i \in 1 .. Len(Tail(s))
  PROVE  /\ i + 1 \in 1 .. Len(s) /\ 1 \in 1 .. Len(s) /\ i \in Nat
         /\ Tail(s)[i] = s[i + 1]
BY HeadTailProperties, LenProperties

LEMMA AppendOf ==
  ASSUME NEW s \in Seq(Nat), NEW t \in Nat, NEW i \in 1 .. Len(Append(s, t))
  PROVE  \/ i \in 1 .. Len(s) /\ Append(s, t)[i] = s[i]
         \/ i = Len(s) + 1 /\ Append(s, t)[i] = t
<1>1. Len(s) \in Nat
  BY LenProperties
<1>2. i \in 1 .. Len(s) + 1 /\ (i \in 1 .. Len(s) \/ i = Len(s) + 1)
  BY <1>1, AppendProperties
<1>. QED
  BY <1>2, AppendProperties

\* The sequences that FinishTrajectory and Flush may mark.
LEMMA OrderOf ==
  ASSUME NEW S, S \subseteq Queues, NEW o \in Orders(S)
  PROVE  /\ o \in Seq(Queues)
         /\ \A i \in 1 .. Len(o) : o[i] \in S
         /\ \A i, j \in 1 .. Len(o) : o[i] = o[j] => i = j
         /\ \A x \in S : \E i \in 1 .. Len(o) : o[i] = x
<1>1. Cardinality(S) \in Nat /\ IsFiniteSet(S)
  BY KeysFinite, FS_Subset, FS_CardinalityType
<1> DEFINE n == Cardinality(S)
<1>2. o \in [1 .. n -> S] /\ n \in Nat
      /\ \A i, j \in DOMAIN o : o[i] = o[j] => i = j
  BY <1>1 DEF Orders, IsInjective
<1> HIDE DEF n
<1>3. o \in Seq(S)
  BY <1>2, SeqDef
<1>4. DOMAIN o = 1 .. Len(o)
  BY <1>3, LenProperties
<1>5. o \in Seq(Queues)
  BY <1>3, SeqMonotonic
<1>6. \A x \in S : \E i \in 1 .. n : o[i] = x
  <2>1. Cardinality(1 .. n) = Cardinality(S)
    <3>1. Cardinality(1 .. n) = n - 1 + 1
      BY <1>2, FS_Interval
    <3>. QED
      BY <1>1, <3>1 DEF n
  <2>2. o \in Injection(1 .. n, S)
    BY <1>2 DEF Injection, IsInjective
  <2>3. o \in Surjection(1 .. n, S)
    BY <1>1, <2>1, <2>2, FS_Injection
  <2>. QED
    BY <2>3 DEF Surjection
<1>7. DOMAIN o = 1 .. n
  BY <1>2
<1>. QED
  BY <1>2, <1>3, <1>4, <1>5, <1>6, <1>7, ElementOfSeq

\* Each operation keeps the types.
LEMMA DispatchType ==
  ASSUME CollatorTypeOK, NEW c \in Collators, Dispatch(c)
  PROVE  CollatorTypeOK'
<1>1. /\ open \subseteq Queues /\ finished \subseteq open
      /\ queue \in [Queues -> Seq(Nat)] /\ startTime \in [Trajectories -> Nat]
      /\ lastTime \in [Collators -> Nat] /\ blocker \in [Collators -> Queues \cup {None}]
      /\ marking \in Seq(Queues) /\ checkFailed \in BOOLEAN
      /\ running = c /\ marking' = marking
  BY DEF CollatorTypeOK, Dispatch
<1>3. ASSUME RemoveExhausted(c) PROVE open' \subseteq open /\ finished' \subseteq open'
  BY <1>1, <1>3 DEF RemoveExhausted
<1>4. CASE Pop(c)
  <2>1. PICK q : q = Earliest(c)
    OBVIOUS
  <2>2. Selects(c) /\ RemoveExhausted(c)
    BY <1>4 DEF Pop
  <2>3. /\ startTime' = [startTime EXCEPT ![q[1]] = CommonStartTime(q[1])]
        /\ lastTime' \in { lastTime, [lastTime EXCEPT ![c] = Peek(q)] }
        /\ queue' = [queue EXCEPT ![q] = Tail(queue[q])]
        /\ UNCHANGED << blocker, running, checkFailed >>
    BY <1>4, <2>1 DEF Pop
  <2>4. CommonStartTime(q[1]) \in Nat /\ Peek(q) \in Nat /\ Tail(queue[q]) \in Seq(Nat)
    BY <2>1, <2>2, Picked
  <2>5. startTime' \in [Trajectories -> Nat] /\ lastTime' \in [Collators -> Nat]
        /\ queue' \in [Queues -> Seq(Nat)]
    BY <1>1, <2>3, <2>4
  <2>. QED
    BY <1>1, <1>3, <2>2, <2>3, <2>5 DEF CollatorTypeOK
<1>5. CASE Stop(c) /\ UNCHANGED << queue, lastTime >>
  <2>1. CASE ~Sorted(c)
    <3>1. checkFailed' = TRUE /\ UNCHANGED << open, finished, startTime, blocker, running >>
      BY <1>5, <2>1 DEF Stop, Selects, Sorted
    <3>. QED
      BY <1>1, <1>5, <3>1 DEF CollatorTypeOK
  <2>2. CASE Sorted(c) /\ Waiting(c) # {}
    <3>1. /\ RemoveExhausted(c) /\ running' = None /\ UNCHANGED << startTime, checkFailed >>
          /\ blocker' = [blocker EXCEPT ![c] = FirstOf(Waiting(c))]
      BY <1>5, <2>2 DEF Stop, Selects
    <3>2. FirstOf(Waiting(c)) \in Queues
      <4>1. Waiting(c) \subseteq Queues
        BY <1>1 DEF Waiting, Mine
      <4>. QED
        BY <2>2, <4>1, FirstKey
    <3>. QED
      BY <1>1, <1>3, <1>5, <3>1, <3>2 DEF CollatorTypeOK
  <2>3. CASE Sorted(c) /\ Waiting(c) = {} /\ Candidates(c) = {}
    <3>1. RemoveExhausted(c) /\ running' = None /\ UNCHANGED << startTime, blocker, checkFailed >>
      BY <1>5, <2>3 DEF Stop, Selects
    <3>. QED
      BY <1>1, <1>3, <1>5, <3>1 DEF CollatorTypeOK
  <2>4. CASE Selects(c)
    <3>1. PICK q : q = Earliest(c)
      OBVIOUS
    <3>2. /\ RemoveExhausted(c) /\ running' = None /\ UNCHANGED checkFailed
          /\ startTime' = [startTime EXCEPT ![q[1]] = CommonStartTime(q[1])]
          /\ blocker' = [blocker EXCEPT ![c] = q]
      BY <1>5, <2>4, <3>1 DEF Stop, Selects
    <3>3. CommonStartTime(q[1]) \in Nat /\ q \in Queues
      BY <2>4, <3>1, Picked
    <3>. QED
      BY <1>1, <1>3, <1>5, <3>2, <3>3 DEF CollatorTypeOK
  <2>. QED
    BY <2>1, <2>2, <2>3, <2>4 DEF Selects
<1>. QED
  BY <1>4, <1>5 DEF Dispatch

LEMMA CallsType ==
  ASSUME CollatorTypeOK
  PROVE  /\ \A tr \in Trajectories, S \in SUBSET Sensors :
              AddTrajectory(tr, S) => CollatorTypeOK'
         /\ \A q \in Queues, t \in Nat : AddSensorData(q, t) => CollatorTypeOK'
         /\ \A o \in Seq(Queues) : FinishTrajectory(o) => CollatorTypeOK'
         /\ MarkQueueAsFinished => CollatorTypeOK'
<1>1. /\ open \subseteq Queues /\ finished \subseteq open
      /\ queue \in [Queues -> Seq(Nat)] /\ marking \in Seq(Queues)
  BY DEF CollatorTypeOK
<1>2. ASSUME NEW tr \in Trajectories, NEW S \in SUBSET Sensors, AddTrajectory(tr, S)
      PROVE  CollatorTypeOK'
  <2>1. /\ open' \in { open, open \cup ({tr} \X S) }
        /\ checkFailed' \in { checkFailed, TRUE }
        /\ UNCHANGED << finished, queue, startTime, lastTime, blocker, running, marking >>
    BY <1>2 DEF AddTrajectory
  <2>2. {tr} \X S \subseteq Queues
    BY DEF Queues
  <2>. QED
    BY <2>1, <2>2 DEF CollatorTypeOK
<1>3. ASSUME NEW q \in Queues, NEW t \in Nat, AddSensorData(q, t)
      PROVE  CollatorTypeOK'
  <2>1. /\ queue' \in { queue, [queue EXCEPT ![q] = Append(queue[q], t)] }
        /\ running' \in { running, CollatorOf(q[1]) }
        /\ UNCHANGED << open, finished, startTime, lastTime, blocker, marking, checkFailed >>
    BY <1>3 DEF AddSensorData
  <2>2. CollatorOf(q[1]) \in Collators
    BY KeysFinite
  <2>3. Append(queue[q], t) \in Seq(Nat)
    BY <1>1, AppendProperties
  <2>4. queue' \in [Queues -> Seq(Nat)]
    BY <1>1, <2>1, <2>3
  <2>. QED
    BY <2>1, <2>2, <2>4 DEF CollatorTypeOK
<1>4. ASSUME NEW o \in Seq(Queues), FinishTrajectory(o) PROVE CollatorTypeOK'
  BY <1>4 DEF FinishTrajectory, CollatorTypeOK
<1>5. ASSUME MarkQueueAsFinished PROVE CollatorTypeOK'
  <2>1. marking # << >> /\ marking' = Tail(marking)
    BY <1>5 DEF MarkQueueAsFinished
  <2>2. Head(marking) \in Queues /\ Tail(marking) \in Seq(Queues)
    BY <1>1, <2>1, HeadTailProperties
  <2>3. /\ finished' \in { finished, finished \cup {Head(marking)} }
        /\ finished' = finished \/ Head(marking) \in open
        /\ running' \in { running, CollatorOf(Head(marking)[1]) }
        /\ checkFailed' \in { checkFailed, TRUE }
        /\ UNCHANGED << open, queue, startTime, lastTime, blocker >>
    BY <1>5 DEF MarkQueueAsFinished
  <2>4. CollatorOf(Head(marking)[1]) \in Collators
    BY <2>2, KeysFinite
  <2>. QED
    BY <2>1, <2>2, <2>3, <2>4 DEF CollatorTypeOK
<1>. QED
  BY <1>2, <1>3, <1>4, <1>5

-----------------------------------------------------------------------------
(* Invariants of the collator that its clients share.                      *)

\* The queues that will be marked are open, not finished, and each there once.
MarkedInv ==
  /\ \A i \in 1 .. Len(marking) : marking[i] \in open \ finished
  /\ \A i, j \in 1 .. Len(marking) : marking[i] = marking[j] => i = j

\* Unless its Dispatch runs, an OrderedMultiQueue with queues waits for one.
BlockedInv ==
  \A c \in Collators : running # c /\ Mine(c) \subseteq finished => Mine(c) = {}

\* What is left to be marked after the first queue.
LEMMA MarkHead ==
  ASSUME CollatorTypeOK, MarkedInv, MarkQueueAsFinished
  PROVE  /\ marking # << >> /\ Head(marking) = marking[1] /\ 1 \in 1 .. Len(marking)
         /\ Head(marking) \in open \ finished /\ Head(marking) \in Queues
         /\ marking' = Tail(marking)
         /\ \A i \in 1 .. Len(marking') :
              /\ i + 1 \in 1 .. Len(marking) /\ marking'[i] = marking[i + 1]
              /\ marking'[i] # Head(marking)
         /\ \A i \in 2 .. Len(marking) : i - 1 \in 1 .. Len(marking') /\ marking'[i - 1] = marking[i]
         /\ finished' = finished \cup {Head(marking)}
         /\ running' = CollatorOf(Head(marking)[1])
         /\ UNCHANGED << open, queue, startTime, lastTime, blocker, checkFailed >>
<1>1. marking \in Seq(Queues) /\ marking # << >> /\ marking' = Tail(marking)
  BY DEF CollatorTypeOK, MarkQueueAsFinished
<1>2. /\ Head(marking) = marking[1] /\ 1 \in 1 .. Len(marking) /\ Head(marking) \in Queues
      /\ Tail(marking) \in Seq(Queues)
      /\ Len(marking) \in Nat /\ Len(Tail(marking)) = Len(marking) - 1
      /\ \A i \in 1 .. Len(Tail(marking)) :
           /\ i + 1 \in 1 .. Len(marking) /\ i + 1 # 1
           /\ Tail(marking)[i] = marking[i + 1]
  BY <1>1, HeadTailProperties, LenProperties, EmptySeq
<1>3. Head(marking) \in open \ finished
  BY <1>2 DEF MarkedInv
<1>4. \A i \in 1 .. Len(marking') : marking'[i] # Head(marking)
  BY <1>1, <1>2 DEF MarkedInv
<1>5. \A i \in 2 .. Len(marking) : i - 1 \in 1 .. Len(marking') /\ marking'[i - 1] = marking[i]
  <2> SUFFICES ASSUME NEW i \in 2 .. Len(marking)
               PROVE  i - 1 \in 1 .. Len(marking') /\ marking'[i - 1] = marking[i]
    OBVIOUS
  <2>1. i - 1 \in 1 .. Len(Tail(marking)) /\ (i - 1) + 1 = i
    BY <1>2
  <2>. QED
    BY <1>1, <1>2, <2>1
<1>. QED
  BY <1>1, <1>2, <1>3, <1>4, <1>5 DEF MarkQueueAsFinished

LEMMA CallsMarked ==
  ASSUME CollatorTypeOK, MarkedInv
  PROVE  /\ \A tr \in Trajectories, S \in SUBSET Sensors : AddTrajectory(tr, S) => MarkedInv'
         /\ \A q \in Queues, t \in Nat : AddSensorData(q, t) => MarkedInv'
         /\ \A S \in SUBSET (open \ finished) :
              \A o \in Orders(S) : FinishTrajectory(o) => MarkedInv'
         /\ MarkQueueAsFinished => MarkedInv'
         /\ \A c \in Collators : Dispatch(c) => MarkedInv'
<1>1. open \subseteq Queues /\ finished \subseteq open
  BY DEF CollatorTypeOK
<1>2. ASSUME NEW tr \in Trajectories, NEW S \in SUBSET Sensors, AddTrajectory(tr, S)
      PROVE  MarkedInv'
  BY <1>2 DEF AddTrajectory, Idle, MarkedInv
<1>3. ASSUME NEW q \in Queues, NEW t \in Nat, AddSensorData(q, t) PROVE MarkedInv'
  BY <1>3 DEF AddSensorData, MarkedInv
<1>4. ASSUME NEW S \in SUBSET (open \ finished), NEW o \in Orders(S), FinishTrajectory(o)
      PROVE  MarkedInv'
  <2>1. marking' = o /\ UNCHANGED << open, finished >>
    BY <1>4 DEF FinishTrajectory
  <2>2. S \subseteq Queues
    BY <1>1
  <2>3. /\ \A i \in 1 .. Len(o) : o[i] \in S
        /\ \A i, j \in 1 .. Len(o) : o[i] = o[j] => i = j
    BY <2>2, OrderOf
  <2>. QED
    BY <2>1, <2>3 DEF MarkedInv
<1>5. ASSUME MarkQueueAsFinished PROVE MarkedInv'
  <2>1. ASSUME NEW i \in 1 .. Len(marking') PROVE marking'[i] \in open' \ finished'
    BY <1>5, <2>1, MarkHead DEF MarkedInv
  <2>2. ASSUME NEW i \in 1 .. Len(marking'), NEW j \in 1 .. Len(marking'),
               marking'[i] = marking'[j]
        PROVE  i = j
    <3>1. i + 1 = j + 1
      BY <1>5, <2>2, MarkHead DEF MarkedInv
    <3>. QED
      BY <3>1
  <2>. QED
    BY <2>1, <2>2 DEF MarkedInv
<1>6. ASSUME NEW c \in Collators, Dispatch(c) PROVE MarkedInv'
  <2>1. /\ UNCHANGED marking /\ open' \subseteq open /\ finished' = finished \cap open'
        /\ \A r \in open \ open' : r \in finished
    BY <1>6, DispatchQueues DEF Dispatch
  <2>2. \A q \in open \ finished : q \in open' \ finished'
    BY <2>1
  <2>. QED
    BY <2>1, <2>2 DEF MarkedInv
<1>. QED
  BY <1>2, <1>3, <1>4, <1>5, <1>6

LEMMA CallsBlocked ==
  ASSUME CollatorTypeOK, MarkedInv, BlockedInv
  PROVE  /\ \A tr \in Trajectories, S \in SUBSET Sensors : AddTrajectory(tr, S) => BlockedInv'
         /\ \A q \in Queues, t \in Nat : AddSensorData(q, t) => BlockedInv'
         /\ \A o : FinishTrajectory(o) => BlockedInv'
         /\ MarkQueueAsFinished => BlockedInv'
         /\ \A c \in Collators : Dispatch(c) => BlockedInv'
<1> SUFFICES ASSUME NEW d \in Collators, running' # d, Mine(d)' \subseteq finished'
             PROVE  /\ \A tr \in Trajectories, S \in SUBSET Sensors :
                         AddTrajectory(tr, S) => Mine(d)' = {}
                    /\ \A q \in Queues, t \in Nat : AddSensorData(q, t) => Mine(d)' = {}
                    /\ \A o : FinishTrajectory(o) => Mine(d)' = {}
                    /\ MarkQueueAsFinished => Mine(d)' = {}
                    /\ \A c \in Collators : Dispatch(c) => Mine(d)' = {}
  BY DEF BlockedInv
<1>1. /\ CollatorTypeOK /\ open \subseteq Queues /\ finished \subseteq open
      /\ running # d /\ Mine(d) \subseteq finished => Mine(d) = {}
      /\ None \notin Collators
  BY KeysFinite DEF CollatorTypeOK, BlockedInv
<1>2. ASSUME NEW tr \in Trajectories, NEW S \in SUBSET Sensors, AddTrajectory(tr, S)
      PROVE  Mine(d)' = {}
  <2>1. /\ open' \in { open, open \cup ({tr} \X S) } /\ open \subseteq open'
        /\ open' # open => ({tr} \X S) \cap open = {}
        /\ UNCHANGED << finished, running >>
    BY <1>2 DEF AddTrajectory
  <2>2. Mine(d)' = {q \in open' : CollatorOf(q[1]) = d}
    BY DEF Mine
  <2>3. Mine(d) \subseteq Mine(d)'
    BY <2>1, <2>2 DEF Mine
  <2>4. Mine(d) = {}
    BY <1>1, <2>1, <2>3
  <2>5. \A q \in open' \ open : q \notin finished'
    BY <1>1, <2>1
  <2>. QED
    BY <2>2, <2>4, <2>5 DEF Mine
<1>3. ASSUME (\E q \in Queues, t \in Nat : AddSensorData(q, t)) \/ \E o : FinishTrajectory(o)
      PROVE  Mine(d)' = {}
  <2>1. UNCHANGED << open, finished >> /\ running = None
    BY <1>3 DEF AddSensorData, FinishTrajectory, Idle
  <2>. QED
    BY <1>1, <2>1 DEF Mine
<1>4. ASSUME MarkQueueAsFinished PROVE Mine(d)' = {}
  <2>1. /\ finished' = finished \cup {Head(marking)} /\ running = None
        /\ running' = CollatorOf(Head(marking)[1]) /\ UNCHANGED open
    BY <1>4, MarkHead DEF MarkQueueAsFinished
  <2>2. Mine(d)' = Mine(d) /\ Head(marking) \notin Mine(d)
    BY <2>1 DEF Mine
  <2>. QED
    BY <1>1, <2>1, <2>2
<1>5. ASSUME NEW c \in Collators, Dispatch(c) PROVE Mine(d)' = {}
  <2>1. Dispatch(c) /\ running = c
    BY <1>5 DEF Dispatch
  <2>2. Mine(d)' = {q \in open' : CollatorOf(q[1]) = d}
    BY DEF Mine
  <2>3. CASE c # d
    <3>1. \A q \in Exhausted(c) : CollatorOf(q[1]) = c
      BY <1>1, Removed DEF Mine
    <3>2. open' = open \/ open' = {q \in open : q \notin Exhausted(c)}
      BY <2>1, StopCases DEF Dispatch, Pop, RemoveExhausted
    <3>3. finished' = finished \cap open'
      BY <1>1, <2>1, DispatchQueues
    <3>4. Mine(d)' = Mine(d)
      BY <2>2, <2>3, <3>1, <3>2 DEF Mine
    <3>. QED
      BY <1>1, <2>1, <2>3, <3>3, <3>4
  <2>4. CASE c = d
    <3>1. Stop(d) /\ running' # running
      BY <2>1, <2>4 DEF Dispatch, Pop
    <3>2. /\ RemoveExhausted(d)
          /\ \/ Waiting(d) # {}
             \/ Waiting(d) = {} /\ Candidates(d) = {}
             \/ Selects(d) /\ Undecided(Earliest(d))
      BY <3>1, StopCases
    <3>3. CASE Waiting(d) # {}
      <4>1. PICK q : q \in Waiting(d)
        BY <3>3
      <4>2. q \in open /\ q \notin finished /\ CollatorOf(q[1]) = d
        BY <4>1 DEF Waiting, Mine
      <4>3. q \notin Exhausted(d)
        BY <1>1, <4>2, Removed
      <4>4. q \in open' /\ q \notin finished'
        BY <3>2, <4>2, <4>3 DEF RemoveExhausted
      <4>. QED
        BY <2>2, <4>2, <4>4
    <3>4. CASE Waiting(d) = {} /\ Candidates(d) = {}
      <4>1. \A q \in Mine(d) : q \in Exhausted(d)
        BY <1>1, <3>4, Removed
      <4>. QED
        BY <2>2, <3>2, <4>1 DEF RemoveExhausted, Mine
    <3>5. CASE Selects(d) /\ Undecided(Earliest(d))
      <4>1. /\ Earliest(d) \in open /\ CollatorOf(Earliest(d)[1]) = d
            /\ Earliest(d) \notin Exhausted(d) /\ Earliest(d) \notin finished
        BY <1>1, <3>5, Picked DEF Undecided
      <4>2. Earliest(d) \in open' /\ Earliest(d) \notin finished'
        BY <3>2, <4>1 DEF RemoveExhausted
      <4>. QED
        BY <2>2, <4>1, <4>2
    <3>. QED
      BY <3>2, <3>3, <3>4, <3>5
  <2>. QED
    BY <2>3, <2>4
<1>. QED
  BY <1>2, <1>3, <1>4, <1>5

\* What waits of a sensor is in order; a queue that is closed has nothing left.
SortedInv ==
  \A q \in Queues :
    /\ q \notin open => queue[q] = << >>
    /\ \A i, j \in 1 .. Len(queue[q]) : i <= j => queue[q][i] <= queue[q][j]

\* Nothing that waits is older than what its collator has dispatched.
DispatchedInv ==
  \A q \in open : \A i \in 1 .. Len(queue[q]) : lastTime[CollatorOf(q[1])] <= queue[q][i]

\* An iteration keeps the queues in order.
LEMMA DispatchSorted ==
  ASSUME CollatorTypeOK, SortedInv, NEW c \in Collators, Dispatch(c)
  PROVE  SortedInv'
<1> SUFFICES ASSUME NEW q \in Queues
             PROVE  /\ q \notin open' => queue'[q] = << >>
                    /\ \A i, j \in 1 .. Len(queue'[q]) : i <= j => queue'[q][i] <= queue'[q][j]
  BY DEF SortedInv
<1>1. /\ open' \subseteq open /\ \A r \in open \ open' : queue[r] = << >>
      /\ \/ queue' = queue
         \/ /\ Selects(c) /\ Earliest(c) \in open'
            /\ queue' = [queue EXCEPT ![Earliest(c)] = Tail(queue[Earliest(c)])]
  BY DispatchQueues
<1>2. queue \in [Queues -> Seq(Nat)] /\ queue[q] \in Seq(Nat)
  BY DEF CollatorTypeOK
<1>3. \/ queue'[q] = queue[q]
      \/ queue'[q] = Tail(queue[q]) /\ queue[q] # << >> /\ q \in open'
  <2>1. Selects(c) => queue[Earliest(c)] # << >>
    BY Picked
  <2>. QED
    BY <1>1, <1>2, <2>1
<1>4. CASE queue'[q] = queue[q]
  BY <1>1, <1>4 DEF SortedInv
<1>5. CASE queue'[q] = Tail(queue[q]) /\ queue[q] # << >> /\ q \in open'
  <2>1. ASSUME NEW i \in 1 .. Len(queue'[q]), NEW j \in 1 .. Len(queue'[q]), i <= j
        PROVE  queue'[q][i] <= queue'[q][j]
    <3>1. /\ i + 1 \in 1 .. Len(queue[q]) /\ j + 1 \in 1 .. Len(queue[q])
          /\ i + 1 <= j + 1
          /\ queue'[q][i] = queue[q][i + 1] /\ queue'[q][j] = queue[q][j + 1]
      BY <1>2, <1>5, <2>1, TailOf
    <3>. QED
      BY <3>1 DEF SortedInv
  <2>. QED
    BY <1>5, <2>1
<1>. QED
  BY <1>3, <1>4, <1>5

\* What an iteration of Dispatch leaves is not older than what it dispatches.
LEMMA PopLeaves ==
  ASSUME CollatorTypeOK, SortedInv, NEW c \in Collators, Pop(c),
         NEW q \in open', CollatorOf(q[1]) = c
  PROVE  /\ q \in open /\ queue[q] \in Seq(Nat) /\ queue[q] # << >>
         /\ Peek(Earliest(c)) <= queue[q][1]
         /\ \A i \in 1 .. Len(queue[q]) : Peek(Earliest(c)) <= queue[q][i]
<1>1. Selects(c) /\ RemoveExhausted(c)
  BY DEF Pop
<1>2. q \in open /\ q \in Mine(c) /\ q \notin Exhausted(c)
  BY <1>1 DEF Mine, RemoveExhausted
<1>3. q \in Candidates(c) /\ q \in Queues
  BY <1>1, <1>2, Removed DEF Selects
<1>4. queue[q] # << >> /\ queue[q] \in Seq(Nat)
  BY <1>3, Removed DEF CollatorTypeOK
<1>5. PICK e \in Nat : e = Peek(Earliest(c)) /\ e <= Peek(q)
  BY <1>1, <1>3, EarliestData, Picked
<1>6. 1 \in 1 .. Len(queue[q]) /\ Peek(q) = queue[q][1]
      /\ \A i \in 1 .. Len(queue[q]) : 1 <= i /\ queue[q][i] \in Nat
  BY <1>4, LenProperties, EmptySeq, ElementOfSeq DEF Peek
<1>7. \A i \in 1 .. Len(queue[q]) : queue[q][1] <= queue[q][i]
  BY <1>3, <1>6 DEF SortedInv
<1>8. PICK h \in Nat : h = queue[q][1] /\ e <= h
  BY <1>5, <1>6
<1>9. \A i \in 1 .. Len(queue[q]) : e <= queue[q][i]
  BY <1>6, <1>7, <1>8
<1>. QED
  BY <1>2, <1>4, <1>5, <1>8, <1>9

\* In each iteration data leaves in order.
LEMMA DispatchInOrder ==
  ASSUME CollatorTypeOK, SortedInv, DispatchedInv, NEW c \in Collators, Dispatch(c)
  PROVE  /\ ~checkFailed' /\ DispatchedInv'
         /\ \/ lastTime' = lastTime
            \/ Pop(c) /\ lastTime' = [lastTime EXCEPT ![c] = Peek(Earliest(c))]
<1>1. /\ open \subseteq Queues /\ queue \in [Queues -> Seq(Nat)]
      /\ lastTime \in [Collators -> Nat] /\ ~checkFailed
  BY DEF CollatorTypeOK, Dispatch
<1>2. open' \subseteq open
  BY DispatchQueues
<1>3. Sorted(c)
  <2>1. ASSUME NEW q \in Candidates(c) PROVE lastTime[c] <= Peek(q)
    <3>1. q \in open /\ CollatorOf(q[1]) = c /\ queue[q] \in Seq(Nat) /\ queue[q] # << >>
      BY <1>1, Removed DEF Mine
    <3>2. 1 \in 1 .. Len(queue[q]) /\ Peek(q) = queue[q][1]
      BY <3>1, LenProperties, EmptySeq DEF Peek
    <3>. QED
      BY <3>1, <3>2 DEF DispatchedInv
  <2>. QED
    BY <2>1 DEF Sorted
<1>4. ~checkFailed'
  BY <1>1, <1>3, StopCases DEF Dispatch, Pop
<1>5. CASE Stop(c) /\ UNCHANGED << queue, lastTime >>
  BY <1>2, <1>4, <1>5 DEF DispatchedInv
<1>6. CASE Pop(c)
  <2>1. PICK e : e = Earliest(c)
    OBVIOUS
  <2>2. /\ Selects(c) /\ queue' = [queue EXCEPT ![e] = Tail(queue[e])]
        /\ lastTime' \in { lastTime, [lastTime EXCEPT ![c] = Peek(e)] }
    BY <1>6, <2>1 DEF Pop
  <2>3. e \in Queues /\ queue[e] # << >>
    BY <2>1, <2>2, Picked
  <2>4. ASSUME NEW q \in open', NEW i \in 1 .. Len(queue'[q])
        PROVE  lastTime'[CollatorOf(q[1])] <= queue'[q][i]
    <3>1. q \in open /\ q \in Queues /\ CollatorOf(q[1]) \in Collators /\ queue[q] \in Seq(Nat)
      BY <1>1, <1>2, KeysFinite
    <3>2. \/ queue'[q] = queue[q]
          \/ queue'[q] = Tail(queue[q]) /\ queue[q] # << >>
      BY <1>1, <2>2, <2>3, <3>1
    <3>3. PICK j \in 1 .. Len(queue[q]) : queue'[q][i] = queue[q][j]
      BY <2>4, <3>1, <3>2, TailOf
    <3>4. CASE lastTime'[CollatorOf(q[1])] = lastTime[CollatorOf(q[1])]
      BY <3>1, <3>3, <3>4 DEF DispatchedInv
    <3>5. CASE lastTime'[CollatorOf(q[1])] # lastTime[CollatorOf(q[1])]
      <4>1. CollatorOf(q[1]) = c /\ lastTime'[c] = Peek(e)
        BY <1>1, <2>2, <3>1, <3>5
      <4>. QED
        BY <1>6, <2>1, <3>3, <4>1, PopLeaves
    <3>. QED
      BY <3>4, <3>5
  <2>. QED
    BY <1>4, <1>6, <2>1, <2>2, <2>4 DEF DispatchedInv
<1>. QED
  BY <1>5, <1>6 DEF Dispatch

=============================================================================
