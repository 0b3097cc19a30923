-------------------------- MODULE LivoxDriver_proofs --------------------------
(***************************************************************************)
(* The ring of LivoxDriver for every size and every range of the indices,  *)
(* however late the stores of one thread are seen by the other: it is the  *)
(* queue of FrameFifo, and no poll thread sleeps on what it should publish.*)
(***************************************************************************)
EXTENDS LivoxDriver, SequenceTheorems, TLAPS

-----------------------------------------------------------------------------
(* The inductive invariant.                                                *)

Indexes == 0 .. IndexRange - 1

TypeOK ==
  /\ path \in { "points", "imu" }
  /\ slots \in [0 .. QueueSize - 1 -> (0 .. Frames - 1) \union { Torn, None }]
  /\ { wrOwn, wrSeen, rdOwn, rdSeen } \subseteq Indexes
  /\ frame \in 0 .. Frames - 1
  /\ writer \in { "idle", "write", "check", "count", "signal" }
  /\ count \in Nat
  /\ reader \in { "top", "wait", "scan", "poll", "inner", "copy", "publish",
                  "status", "ended" }
  /\ { pkg, published } \subseteq (0 .. Frames - 1) \union { Torn, None }
  /\ imuLen \in 0 .. MaxImu
  /\ imuWriter \in { "idle", "check", "count", "signal" }
  /\ imuCount \in Nat
  /\ imuReader \in { "top", "wait", "scan", "poll", "status", "ended" }
  /\ setBits \subseteq Settings
  /\ sampling \in BOOLEAN /\ offered \in BOOLEAN
  /\ exit \in { "no", "requested", "signalled", "half", "joined" }

\* One if the other side has not seen the last step of an index yet.
Unseen(own, seen) == IF own = seen THEN 0 ELSE 1

\* Each side sees the other's index late by one step at most, and so sees the
\* ring as full or as empty as it is or more so; the writer has a slot for
\* itself while it writes.
RingInv ==
  /\ wrOwn \in { wrSeen, Advance(wrSeen) }
  /\ rdOwn \in { rdSeen, Advance(rdSeen) }
  /\ reader # "publish" => rdOwn = rdSeen
  /\ writer = "write" => wrOwn = wrSeen /\ Used(wrOwn, rdSeen) < QueueSize
  /\ Used(wrOwn, rdSeen) <= QueueSize
  /\ Used(wrOwn, rdSeen) =
       Used(wrSeen, rdOwn) + Unseen(wrOwn, wrSeen) + Unseen(rdOwn, rdSeen)
  /\ reader = "copy" => wrSeen # rdOwn /\ pkg = slots[Slot(rdOwn)]

\* Someone will look at the ring yet, or there is next to nothing to see.
PointsAwake ==
  \/ writer # "idle"
  \/ count > 0
  \/ reader \in { "scan", "poll", "inner", "copy", "publish" }
  \/ exit # "no" /\ reader \in { "status", "top", "ended" }
  \/ Used(wrOwn, rdOwn) <= 1

ImuAwake ==
  \/ imuWriter # "idle"
  \/ imuCount > 0
  \/ imuReader \in { "scan", "poll" }
  \/ exit # "no" /\ imuReader \in { "status", "top", "ended" }
  \/ imuLen = 0

AwakeInv ==
  /\ sampling => setBits = {}
  /\ offered => sampling /\ PointsAwake /\ ImuAwake
  /\ path = "points" => imuLen = 0
  /\ path = "imu" => wrOwn = rdOwn /\ writer = "idle"

IInv == TypeOK /\ RingInv /\ AwakeInv

-----------------------------------------------------------------------------
(* Arithmetic of indices that wrap.                                        *)

\* A remainder is known from any quotient.
LEMMA Remainder ==
  ASSUME NEW n \in Nat \ {0}, NEW q \in Int, NEW r \in 0 .. n - 1
  PROVE  (n * q + r) % n = r
<1> DEFINE a == n * q + r
           p == a \div n
           s == a % n
<1>1. a \in Int /\ p \in Int /\ s \in 0 .. n - 1 /\ n * q + r = n * p + s
  <2>1. n * q \in Int
    OBVIOUS
  <2>2. a \in Int
    BY <2>1
  <2> HIDE DEF a
  <2>3. p \in Int /\ s \in 0 .. n - 1 /\ a = n * p + s
    BY <2>2
  <2>. QED
    BY <2>2, <2>3 DEF a
<1> HIDE DEF p, s
<1>2. CASE q = p
  BY <1>1, <1>2
<1>3. CASE q >= p + 1
  <2>1. n * q >= n * (p + 1) /\ n * (p + 1) = n * p + n
    BY <1>1, <1>3
  <2>. QED
    BY <1>1, <2>1
<1>4. CASE p >= q + 1
  <2>1. n * p >= n * (q + 1) /\ n * (q + 1) = n * q + n
    BY <1>1, <1>4
  <2>. QED
    BY <1>1, <2>1
<1>. QED
  BY <1>1, <1>2, <1>3, <1>4 DEF s

LEMMA Constants ==
  /\ QueueSize \in Nat \ {0} /\ IndexRange \in Nat \ {0} /\ IndexRange > QueueSize
  /\ Frames \in Nat \ {0} /\ MaxImu \in Nat \ {0}
  /\ \E k \in Nat : IndexRange = QueueSize * k
<1>1. IndexRange = QueueSize * (IndexRange \div QueueSize)
  BY LivoxAssumption
<1>2. IndexRange \div QueueSize \in Nat
  BY LivoxAssumption
<1>. QED
  BY <1>1, <1>2, LivoxAssumption

\* Indices without the remainder.
LEMMA Wrapped ==
  \A a, b \in Indexes :
    /\ Advance(a) = IF a + 1 = IndexRange THEN 0 ELSE a + 1
    /\ Used(a, b) = IF a >= b THEN a - b ELSE a - b + IndexRange
<1> SUFFICES ASSUME NEW a \in Indexes, NEW b \in Indexes
             PROVE  /\ Advance(a) = IF a + 1 = IndexRange THEN 0 ELSE a + 1
                    /\ Used(a, b) = IF a >= b THEN a - b ELSE a - b + IndexRange
  OBVIOUS
<1>1. a \in Int /\ b \in Int /\ IndexRange \in Nat \ {0}
  BY Constants DEF Indexes
<1>2. Advance(a) = IF a + 1 = IndexRange THEN 0 ELSE a + 1
  <2>1. CASE a + 1 = IndexRange
    <3>1. a + 1 = IndexRange * 1 + 0
      BY <1>1, <2>1
    <3>. QED
      BY <1>1, <2>1, <3>1, Remainder DEF Advance
  <2>2. CASE a + 1 # IndexRange
    <3>1. a + 1 = IndexRange * 0 + (a + 1) /\ a + 1 \in 0 .. IndexRange - 1
      BY <1>1, <2>2 DEF Indexes
    <3>. QED
      BY <1>1, <2>2, <3>1, Remainder DEF Advance
  <2>. QED
    BY <2>1, <2>2
<1>3. Used(a, b) = IF a >= b THEN a - b ELSE a - b + IndexRange
  <2>1. CASE a >= b
    <3>1. a - b = IndexRange * 0 + (a - b) /\ a - b \in 0 .. IndexRange - 1
      BY <1>1, <2>1 DEF Indexes
    <3>. QED
      BY <1>1, <2>1, <3>1, Remainder DEF Used
  <2>2. CASE ~(a >= b)
    <3>1. /\ a - b = IndexRange * (-1) + (a - b + IndexRange)
          /\ a - b + IndexRange \in 0 .. IndexRange - 1
      BY <1>1, <2>2 DEF Indexes
    <3>. QED
      BY <1>1, <2>2, <3>1, Remainder DEF Used
  <2>. QED
    BY <2>1, <2>2
<1>. QED
  BY <1>2, <1>3

\* What a step of an index does to the number of frames between two.
LEMMA Steps ==
  \A a, b \in Indexes :
    /\ Advance(a) \in Indexes /\ Advance(a) # a
    /\ Used(a, b) \in 0 .. IndexRange - 1
    /\ Used(a, b) = 0 <=> a = b
    /\ Used(a, b) < IndexRange - 1 => Used(Advance(a), b) = Used(a, b) + 1
    /\ a # b => Used(a, Advance(b)) = Used(a, b) - 1
<1> SUFFICES ASSUME NEW a \in Indexes, NEW b \in Indexes
             PROVE  /\ Advance(a) \in Indexes /\ Advance(a) # a
                    /\ Used(a, b) \in 0 .. IndexRange - 1
                    /\ Used(a, b) = 0 <=> a = b
                    /\ Used(a, b) < IndexRange - 1 =>
                         Used(Advance(a), b) = Used(a, b) + 1
                    /\ a # b => Used(a, Advance(b)) = Used(a, b) - 1
  OBVIOUS
<1>1. /\ IndexRange \in Nat /\ IndexRange > 1
      /\ a \in Nat /\ b \in Nat /\ a < IndexRange /\ b < IndexRange
  BY Constants DEF Indexes
<1>2. \A x \in Indexes :
        /\ Advance(x) = IF x + 1 = IndexRange THEN 0 ELSE x + 1
        /\ Advance(x) \in Indexes
  BY Wrapped, <1>1 DEF Indexes
<1>3. /\ Used(a, b) = IF a >= b THEN a - b ELSE a - b + IndexRange
      /\ Used(Advance(a), b) = IF Advance(a) >= b THEN Advance(a) - b
                                                 ELSE Advance(a) - b + IndexRange
      /\ Used(a, Advance(b)) = IF a >= Advance(b) THEN a - Advance(b)
                                                 ELSE a - Advance(b) + IndexRange
  BY Wrapped, <1>2
<1>4. /\ Advance(a) = IF a + 1 = IndexRange THEN 0 ELSE a + 1
      /\ Advance(b) = IF b + 1 = IndexRange THEN 0 ELSE b + 1
  BY <1>2
<1>. QED
  BY <1>1, <1>2, <1>3, <1>4

\* What it does to their slots: indices that name a frame of the ring name
\* different slots, and one index after the other.
LEMMA SlotOf ==
  /\ \A x \in Int : Slot(x) \in 0 .. QueueSize - 1
  /\ \A x, y \in Int : 0 < y - x /\ y - x < QueueSize => Slot(x) # Slot(y)
  /\ \A x \in Int : Slot(x + IndexRange) = Slot(x)
<1> DEFINE n == QueueSize
<1>0. n \in Nat \ {0}
  BY Constants
<1>1. ASSUME NEW x \in Int
      PROVE  /\ Slot(x) \in 0 .. n - 1 /\ x \div n \in Int
             /\ x = n * (x \div n) + Slot(x)
  BY <1>0 DEF Slot
<1> HIDE DEF n
<1>2. ASSUME NEW x \in Int, NEW y \in Int, 0 < y - x, y - x < n, Slot(x) = Slot(y)
      PROVE  FALSE
  <2> DEFINE p == x \div n
             q == y \div n
             s == Slot(x)
  <2>1. /\ p \in Int /\ q \in Int /\ s \in Int
        /\ x = n * p + s /\ y = n * q + s
    <3>1. p \in Int /\ s \in 0 .. n - 1 /\ x = n * p + s
      BY <1>1
    <3>2. q \in Int /\ y = n * q + Slot(y)
      BY <1>1
    <3>. QED
      BY <1>0, <1>2, <3>1, <3>2
  <2> HIDE DEF p, q, s
  <2>2. CASE q >= p + 1
    <3>1. n * q >= n * (p + 1) /\ n * (p + 1) = n * p + n
      BY <1>0, <2>1, <2>2
    <3>. QED
      BY <1>0, <1>2, <2>1, <3>1
  <2>3. CASE p >= q
    <3>1. n * p >= n * q
      BY <1>0, <2>1, <2>3
    <3>. QED
      BY <1>0, <1>2, <2>1, <3>1
  <2>. QED
    BY <2>1, <2>2, <2>3
<1>3. ASSUME NEW x \in Int PROVE Slot(x + IndexRange) = Slot(x)
  <2> DEFINE p == x \div n
  <2>1. PICK k \in Nat : IndexRange = n * k
    BY Constants DEF n
  <2>2. x = n * p + Slot(x) /\ p \in Int /\ Slot(x) \in 0 .. n - 1
    BY <1>0, <1>1
  <2> HIDE DEF p
  <2>3. x + IndexRange = n * (p + k) + Slot(x) /\ p + k \in Int
    BY <1>0, <2>1, <2>2
  <2>4. (x + IndexRange) % n = Slot(x)
    BY <1>0, <2>2, <2>3, Remainder
  <2>. QED
    BY <2>4 DEF Slot, n
<1>. QED
  BY <1>1, <1>2, <1>3 DEF n


-----------------------------------------------------------------------------
(* The frames in the ring.                                                 *)

Copies == (0 .. Frames - 1) \union { Torn, None }
Storage == [0 .. QueueSize - 1 -> Copies]

\* The storage when a slot has been written.
Stored(s, wr, v) == [s EXCEPT ![Slot(wr)] = v]

Contents(s, wr, rd) == [i \in 1 .. Used(wr, rd) |-> s[Slot(rd + i - 1)]]

LEMMA SameLength ==
  ASSUME NEW m \in Nat, NEW n \in Nat, 1 .. m = 1 .. n
  PROVE  m = n
<1>1. (m \in 1 .. m <=> m \in 1 .. n) /\ (n \in 1 .. m <=> n \in 1 .. n)
  OBVIOUS
<1>. QED
  BY <1>1

LEMMA ContentsSeq ==
  ASSUME NEW s \in Storage, NEW wr \in Indexes, NEW rd \in Indexes
  PROVE  /\ Contents(s, wr, rd) \in Seq(Copies)
         /\ Len(Contents(s, wr, rd)) = Used(wr, rd)
         /\ \A i \in 1 .. Used(wr, rd) : Contents(s, wr, rd)[i] = s[Slot(rd + i - 1)]
<1> DEFINE c == Contents(s, wr, rd)
           n == Used(wr, rd)
<1>1. n \in Nat
  BY Steps, Constants DEF Indexes
<1>2. \A i \in 1 .. n : s[Slot(rd + i - 1)] \in Copies
  <2>1. ASSUME NEW i \in 1 .. n PROVE s[Slot(rd + i - 1)] \in Copies
    <3>1. rd + i - 1 \in Int
      BY <1>1 DEF Indexes
    <3>2. Slot(rd + i - 1) \in 0 .. QueueSize - 1
      BY <3>1, SlotOf
    <3>. QED
      BY <3>2 DEF Storage
  <2>. QED
    BY <2>1
<1>3. c \in [1 .. n -> Copies] /\ DOMAIN c = 1 .. n
  BY <1>2 DEF Contents
<1>4. c \in Seq(Copies)
  BY <1>1, <1>3, SeqDef
<1> HIDE DEF n
<1>5. Len(c) = n
  <2>1. DOMAIN c = 1 .. Len(c) /\ Len(c) \in Nat
    BY <1>4, LenProperties
  <2>2. 1 .. Len(c) = 1 .. n /\ n \in Nat
    BY <1>1, <1>3, <2>1 DEF n
  <2>. QED
    BY <2>1, <2>2, SameLength
<1>. QED
  BY <1>4, <1>5 DEF Contents, n

\* The slot of the writer's index holds no frame of a ring that is not full:
\* what is stored there changes no frame, and is the next one when the index
\* advances.
LEMMA ContentsWrite ==
  ASSUME NEW s \in Storage, NEW wr \in Indexes, NEW rd \in Indexes,
         Used(wr, rd) < QueueSize, NEW v \in Copies
  PROVE  /\ Stored(s, wr, v) \in Storage
         /\ Contents(Stored(s, wr, v), wr, rd) = Contents(s, wr, rd)
         /\ Contents(Stored(s, wr, v), Advance(wr), rd) = Append(Contents(s, wr, rd), v)
<1> DEFINE n == Used(wr, rd)
           t == Stored(s, wr, v)
<1>1. n \in Nat /\ n < QueueSize /\ QueueSize \in Nat /\ IndexRange \in Nat
      /\ wr \in Int /\ rd \in Int
  BY Steps, Constants DEF Indexes
<1>2. Slot(wr) = Slot(rd + n) /\ Slot(wr) \in 0 .. QueueSize - 1
  <2>1. rd + n = wr \/ rd + n = wr + IndexRange
    BY Wrapped, <1>1
  <2>. QED
    BY <1>1, <2>1, SlotOf
<1>3. t \in Storage /\ t[Slot(wr)] = v /\ \A k \in 0 .. QueueSize - 1 : k # Slot(wr) => t[k] = s[k]
  BY <1>2 DEF Storage, Stored
<1> HIDE DEF n, t
<1>4. ASSUME NEW i \in 1 .. n PROVE t[Slot(rd + i - 1)] = s[Slot(rd + i - 1)]
  <2>1. rd + i - 1 \in Int /\ rd + n \in Int
        /\ 0 < (rd + n) - (rd + i - 1) /\ (rd + n) - (rd + i - 1) < QueueSize
    BY <1>1 DEF n
  <2>2. Slot(rd + i - 1) # Slot(rd + n) /\ Slot(rd + i - 1) \in 0 .. QueueSize - 1
    BY <2>1, SlotOf
  <2>. QED
    BY <1>2, <1>3, <2>2
<1>5. Contents(t, wr, rd) = Contents(s, wr, rd)
  BY <1>4 DEF Contents, n
<1>6. Contents(t, Advance(wr), rd) = Append(Contents(s, wr, rd), v)
  <2> DEFINE c == Contents(s, wr, rd)
             d == Contents(t, Advance(wr), rd)
             e == Append(c, v)
  <2>1. Used(Advance(wr), rd) = n + 1 /\ Advance(wr) \in Indexes
    <3>1. n < IndexRange - 1
      BY <1>1, Constants DEF n
    <3>. QED
      BY <3>1, Steps DEF n
  <2>2. /\ d \in Seq(Copies) /\ Len(d) = n + 1
        /\ \A i \in 1 .. n + 1 : d[i] = t[Slot(rd + i - 1)]
    <3>1. /\ d \in Seq(Copies) /\ Len(d) = Used(Advance(wr), rd)
          /\ \A i \in 1 .. Used(Advance(wr), rd) : d[i] = t[Slot(rd + i - 1)]
      BY <1>3, <2>1, ContentsSeq
    <3> HIDE DEF d
    <3>. QED
      BY <2>1, <3>1
  <2>3. /\ c \in Seq(Copies) /\ Len(c) = n
        /\ \A i \in 1 .. n : c[i] = s[Slot(rd + i - 1)]
    BY ContentsSeq DEF n
  <2> HIDE DEF c, d
  <2>4. /\ e \in Seq(Copies) /\ Len(e) = n + 1
        /\ \A i \in 1 .. n : e[i] = c[i]
        /\ e[n + 1] = v
    BY <2>3, AppendProperties
  <2>5. ASSUME NEW i \in 1 .. n + 1 PROVE d[i] = e[i]
    <3>1. CASE i \in 1 .. n
      BY <1>4, <2>2, <2>3, <2>4, <3>1
    <3>2. CASE i = n + 1
      <4>1. rd + i - 1 = rd + n
        BY <1>1, <3>2 DEF n
      <4>. QED
        BY <1>2, <1>3, <2>2, <2>4, <3>2, <4>1
    <3>3. n \in Nat
      BY <1>1 DEF n
    <3>4. i \in 1 .. n \/ i = n + 1
      BY <3>3
    <3>. QED
      BY <3>1, <3>2, <3>4
  <2>6. d = e
    <3> HIDE DEF e
    <3>. QED
      BY <2>2, <2>4, <2>5, SeqEqual
  <2>. QED
    BY <2>6 DEF c, d, e
<1>. QED
  BY <1>3, <1>5, <1>6 DEF t

\* The reader's index names the first frame, and past it the others.
LEMMA ContentsRead ==
  ASSUME NEW s \in Storage, NEW wr \in Indexes, NEW rd \in Indexes, wr # rd
  PROVE  /\ Contents(s, wr, rd) # << >>
         /\ Head(Contents(s, wr, rd)) = s[Slot(rd)]
         /\ Contents(s, wr, Advance(rd)) = Tail(Contents(s, wr, rd))
<1> DEFINE n == Used(wr, rd)
           c == Contents(s, wr, rd)
           d == Contents(s, wr, Advance(rd))
<1>1. n \in Nat /\ n # 0 /\ Used(wr, Advance(rd)) = n - 1 /\ Advance(rd) \in Indexes
      /\ IndexRange \in Nat /\ rd \in Int
  <2>1. /\ Used(wr, rd) \in 0 .. IndexRange - 1 /\ Used(wr, rd) # 0
        /\ Used(wr, Advance(rd)) = Used(wr, rd) - 1 /\ Advance(rd) \in Indexes
    BY Steps
  <2>. QED
    BY <2>1, Constants DEF Indexes
<1>2. /\ c \in Seq(Copies) /\ Len(c) = n
      /\ \A i \in 1 .. n : c[i] = s[Slot(rd + i - 1)]
  BY ContentsSeq
<1>3. /\ d \in Seq(Copies) /\ Len(d) = n - 1
      /\ \A i \in 1 .. n - 1 : d[i] = s[Slot(Advance(rd) + i - 1)]
  BY <1>1, ContentsSeq
<1>4. \A i \in 1 .. n - 1 : Slot(Advance(rd) + i - 1) = Slot(rd + (i + 1) - 1)
  <2> SUFFICES ASSUME NEW i \in 1 .. n - 1
               PROVE  Slot(Advance(rd) + i - 1) = Slot(rd + (i + 1) - 1)
    OBVIOUS
  <2>1. Advance(rd) = rd + 1 \/ (Advance(rd) = 0 /\ rd + 1 = IndexRange)
    BY Wrapped
  <2>2. i \in Nat
    OBVIOUS
  <2>3. CASE Advance(rd) = rd + 1
    <3>1. Advance(rd) + i - 1 = rd + (i + 1) - 1
      BY <1>1, <2>2, <2>3
    <3>. QED
      BY <3>1
  <2>4. CASE Advance(rd) = 0 /\ rd + 1 = IndexRange
    <3>1. Advance(rd) + i - 1 = i - 1 /\ rd + (i + 1) - 1 = (i - 1) + IndexRange
          /\ i - 1 \in Int
      BY <1>1, <2>2, <2>4
    <3>. QED
      BY <3>1, SlotOf
  <2>. QED
    BY <2>1, <2>3, <2>4
<1> HIDE DEF n, c, d
<1>5. c # << >>
  BY <1>1, <1>2, EmptySeq
<1>6. Head(c) = c[1] /\ 1 \in 1 .. n /\ rd + 1 - 1 = rd
  BY <1>1, <1>2, <1>5
<1>7. /\ Tail(c) \in Seq(Copies) /\ Len(Tail(c)) = n - 1
      /\ \A i \in 1 .. n - 1 : Tail(c)[i] = c[i + 1]
  BY <1>2, <1>5, HeadTailProperties
<1>8. ASSUME NEW i \in 1 .. n - 1 PROVE d[i] = Tail(c)[i]
  <2>1. i + 1 \in 1 .. n
    BY <1>1
  <2>. QED
    BY <1>2, <1>3, <1>4, <1>7, <2>1
<1>9. d = Tail(c)
  BY <1>3, <1>7, <1>8, SeqEqual
<1>. QED
  BY <1>2, <1>5, <1>6, <1>9 DEF c, d


-----------------------------------------------------------------------------
(* The invariant, part by part.                                            *)

USE DEF ringVars, pcdVars, imuVars, lidarVars, vars

LEMMA InitIInv == Init => IInv
<1> SUFFICES ASSUME Init PROVE IInv
  OBVIOUS
<1> USE DEF Init
<1>1. 0 \in Indexes /\ 0 \in 0 .. Frames - 1 /\ 0 \in 0 .. MaxImu /\ 0 \in Nat
      /\ QueueSize \in Nat /\ 0 < QueueSize
  BY Constants DEF Indexes
<1>2. Used(0, 0) = 0
  BY <1>1, Steps
<1>3. TypeOK
  BY <1>1 DEF TypeOK, Settings
<1>4. RingInv
  BY <1>1, <1>2 DEF RingInv, Unseen
<1>5. AwakeInv
  BY <1>2 DEF AwakeInv
<1>. QED
  BY <1>3, <1>4, <1>5 DEF IInv

LEMMA StepTypeOK == TypeOK /\ [Next]_vars => TypeOK'
<1> SUFFICES ASSUME TypeOK, [Next]_vars PROVE TypeOK'
  OBVIOUS
<1>0. /\ \A x \in Indexes : Advance(x) \in Indexes /\ Slot(x) \in 0 .. QueueSize - 1
      /\ \A x \in 0 .. Frames - 1 : (x + 1) % Frames \in 0 .. Frames - 1
  <2>1. \A x \in Indexes : x \in Int
    BY DEF Indexes
  <2>2. \A x \in 0 .. Frames - 1 : x + 1 \in Int
    OBVIOUS
  <2>3. \A x \in Int : x % Frames \in 0 .. Frames - 1
    BY Constants
  <2>. QED
    BY <2>1, <2>2, <2>3, Steps, SlotOf
<1>1. /\ wrOwn \in Indexes /\ wrSeen \in Indexes /\ rdOwn \in Indexes /\ rdSeen \in Indexes
      /\ slots \in Storage /\ pkg \in Copies /\ published \in Copies
      /\ frame \in 0 .. Frames - 1
  BY DEF TypeOK, Storage, Copies
<1>2. \A k \in 0 .. QueueSize - 1, f \in Copies : [slots EXCEPT ![k] = f] \in Storage
  BY <1>1 DEF Storage
<1>3. CASE PushLidarData
  <2>1. slots' \in Storage /\ frame' \in 0 .. Frames - 1
    BY <1>0, <1>1, <1>2, <1>3 DEF PushLidarData, Copies
  <2>2. writer' \in { "write", "count" }
    BY <1>3 DEF PushLidarData
  <2>. QED
    BY <1>3, <2>1, <2>2 DEF PushLidarData, TypeOK, Storage, Copies
<1>4. CASE QueuePushAny \/ CheckNotEmpty \/ GetCount
  <2>1. wrOwn' \in Indexes /\ writer' \in { "idle", "check", "count", "signal" }
    BY <1>0, <1>1, <1>4 DEF QueuePushAny, CheckNotEmpty, GetCount
  <2>. QED
    BY <1>1, <1>4, <2>1 DEF QueuePushAny, CheckNotEmpty, GetCount, TypeOK
<1>5. CASE Signal
  BY <1>5 DEF Signal, TypeOK
<1>6. CASE WriterStores
  <2>1. slots' \in Storage /\ frame' \in 0 .. Frames - 1 /\ wrSeen' \in Indexes
    BY <1>0, <1>1, <1>2, <1>6 DEF WriterStores, Copies
  <2>. QED
    BY <1>1, <1>6, <2>1 DEF WriterStores, TypeOK, Storage, Copies
<1>7. CASE DistributePointCloudData \/ CheckConnectState \/ PollExits
           \/ PublishPointcloud2 \/ PointCloudDataPollThread \/ ReaderStores
  BY <1>7 DEF DistributePointCloudData, CheckConnectState, PollExits,
              PublishPointcloud2, PointCloudDataPollThread, ReaderStores, TypeOK
<1>8. CASE Wait \/ ImuWait
  BY <1>8 DEF Wait, ImuWait, TypeOK
<1>9. CASE PollOrPublish
  <2>1. slots[Slot(rdOwn)] \in Copies
    BY <1>0, <1>1 DEF Storage
  <2>2. pkg' \in Copies /\ reader' \in { "poll", "status", "copy" }
    BY <1>1, <1>9, <2>1 DEF PollOrPublish
  <2>. QED
    BY <1>9, <2>2 DEF PollOrPublish, TypeOK, Copies
<1>10. CASE QueuePop
  <2>1. published' \in Copies /\ pkg' \in Copies /\ rdOwn' \in Indexes
    BY <1>0, <1>1, <1>10 DEF QueuePop, Copies
  <2>. QED
    BY <1>10, <2>1 DEF QueuePop, TypeOK, Copies
<1>11. CASE StorageImuData \/ PollImu
  <2>1. imuLen' \in 0 .. MaxImu
    BY <1>11, Constants DEF StorageImuData, PollImu, TypeOK
  <2>. QED
    BY <1>11, <2>1 DEF StorageImuData, PollImu, TypeOK
<1>12. CASE ImuCheck \/ ImuGetCount \/ ImuSignal
  BY <1>12 DEF ImuCheck, ImuGetCount, ImuSignal, TypeOK
<1>13. CASE DistributeImuData \/ ImuCheckConnectState \/ ImuDataPollThread
  BY <1>13 DEF DistributeImuData, ImuCheckConnectState, ImuDataPollThread, TypeOK
<1>14. CASE LidarInfoChange \/ \E s \in Settings : SettingConfirmed(s)
  BY <1>14 DEF LidarInfoChange, SettingConfirmed, TypeOK
<1>15. CASE Destructor
  BY <1>15 DEF Destructor, RequestExit, SetExitSignal, JoinPointCloud, JoinImu, TypeOK
<1>16. CASE UNCHANGED vars
  BY <1>16 DEF TypeOK
<1>. QED
  BY <1>3, <1>4, <1>5, <1>6, <1>7, <1>8, <1>9, <1>10, <1>11, <1>12, <1>13, <1>14,
     <1>15, <1>16 DEF Next, Writer, Reader, ImuWriter, ImuReader


\* What the reader copies is not what the writer writes.
LEMMA CopyKept ==
  ASSUME NEW s \in Storage, NEW wr \in Indexes, NEW rd \in Indexes, wr # rd,
         Used(wr, rd) < QueueSize, NEW v \in Copies
  PROVE  Stored(s, wr, v)[Slot(rd)] = s[Slot(rd)]
<1> DEFINE t == Stored(s, wr, v)
<1>1. t \in Storage /\ Contents(t, wr, rd) = Contents(s, wr, rd)
  BY ContentsWrite
<1>2. Head(Contents(s, wr, rd)) = s[Slot(rd)]
  BY ContentsRead
<1> HIDE DEF t
<1>3. Head(Contents(t, wr, rd)) = t[Slot(rd)]
  BY <1>1, ContentsRead
<1>. QED
  BY <1>1, <1>2, <1>3 DEF t

LEMMA StepRing == TypeOK /\ RingInv /\ [Next]_vars => RingInv'
<1> SUFFICES ASSUME TypeOK, RingInv, [Next]_vars PROVE RingInv'
  OBVIOUS
<1>1. /\ wrOwn \in Indexes /\ wrSeen \in Indexes /\ rdOwn \in Indexes /\ rdSeen \in Indexes
      /\ slots \in Storage /\ frame \in Copies
  BY DEF TypeOK, Storage, Copies
<1>2. /\ wrOwn \in { wrSeen, Advance(wrSeen) }
      /\ rdOwn \in { rdSeen, Advance(rdSeen) }
      /\ reader # "publish" => rdOwn = rdSeen
      /\ writer = "write" => wrOwn = wrSeen /\ Used(wrOwn, rdSeen) < QueueSize
      /\ Used(wrOwn, rdSeen) <= QueueSize
      /\ Used(wrOwn, rdSeen) =
           Used(wrSeen, rdOwn) + Unseen(wrOwn, wrSeen) + Unseen(rdOwn, rdSeen)
      /\ reader = "copy" => wrSeen # rdOwn /\ pkg = slots[Slot(rdOwn)]
  BY DEF RingInv
<1>3. /\ Used(wrOwn, rdSeen) \in Nat /\ Used(wrSeen, rdOwn) \in Nat
      /\ QueueSize \in Nat /\ IndexRange \in Nat /\ QueueSize < IndexRange
      /\ Unseen(wrOwn, wrSeen) \in { 0, 1 } /\ Unseen(rdOwn, rdSeen) \in { 0, 1 }
      /\ wrOwn = wrSeen <=> Unseen(wrOwn, wrSeen) = 0
      /\ rdOwn = rdSeen <=> Unseen(rdOwn, rdSeen) = 0
  <2>1. Used(wrOwn, rdSeen) \in 0 .. IndexRange - 1 /\ Used(wrSeen, rdOwn) \in 0 .. IndexRange - 1
    BY <1>1, Steps
  <2>. QED
    BY <2>1, Constants DEF Unseen
<1>4. CASE PushLidarData
  <2>1. /\ UNCHANGED << wrOwn, wrSeen, rdOwn, rdSeen, reader, pkg >> /\ wrOwn = wrSeen
    BY <1>4 DEF PushLidarData
  <2>2. CASE IsFull(wrOwn, rdSeen)
    <3>1. writer' = "count" /\ slots' = slots
      BY <1>4, <2>2 DEF PushLidarData
    <3>. QED
      BY <1>2, <2>1, <3>1 DEF RingInv
  <2>3. CASE ~IsFull(wrOwn, rdSeen)
    <3>1. slots' = [slots EXCEPT ![Slot(wrOwn)] = Torn] /\ Torn \in Copies
      BY <1>4, <2>3 DEF PushLidarData, Copies
    <3>2. Used(wrOwn, rdSeen) < QueueSize
      BY <1>3, <2>3 DEF IsFull
    <3>3. reader = "copy" => slots'[Slot(rdOwn)] = slots[Slot(rdOwn)]
      <4>1. reader = "copy" => wrOwn # rdOwn /\ rdOwn = rdSeen
        BY <1>2, <2>1
      <4>. QED
        BY <1>1, <3>1, <3>2, <4>1, CopyKept DEF Stored
    <3>. QED
      BY <1>2, <2>1, <3>2, <3>3 DEF RingInv
  <2>. QED
    BY <2>2, <2>3
<1>5. CASE QueuePushAny
  <2>1. /\ writer = "write" /\ writer' = "check" /\ wrOwn' = Advance(wrOwn)
        /\ UNCHANGED << slots, wrSeen, rdOwn, rdSeen, reader, pkg >>
    BY <1>5 DEF QueuePushAny
  <2>2. wrOwn = wrSeen /\ Used(wrOwn, rdSeen) < QueueSize
    BY <1>2, <2>1
  <2>3. /\ Used(wrOwn', rdSeen) = Used(wrOwn, rdSeen) + 1
        /\ Unseen(wrOwn', wrSeen) = 1
    <3>1. Used(wrOwn, rdSeen) < IndexRange - 1 /\ Advance(wrOwn) # wrOwn
      BY <1>1, <1>3, <2>2, Steps
    <3>. QED
      BY <1>1, <2>1, <2>2, <3>1, Steps DEF Unseen
  <2>4. Used(wrOwn', rdSeen) <= QueueSize
        /\ Used(wrOwn', rdSeen) =
             Used(wrSeen, rdOwn) + Unseen(wrOwn', wrSeen) + Unseen(rdOwn, rdSeen)
    BY <1>2, <1>3, <2>2, <2>3
  <2>. QED
    BY <1>2, <2>1, <2>2, <2>4 DEF RingInv
<1>6. CASE WriterStores
  <2>1. /\ wrSeen # wrOwn /\ slots' = [slots EXCEPT ![Slot(wrSeen)] = frame]
        /\ wrSeen' = wrOwn
        /\ UNCHANGED << wrOwn, rdOwn, rdSeen, writer, reader, pkg >>
    BY <1>6 DEF WriterStores
  <2>2. wrOwn = Advance(wrSeen) /\ Unseen(wrOwn, wrSeen) = 1 /\ Unseen(wrOwn, wrSeen') = 0
        /\ writer # "write"
    BY <1>2, <2>1 DEF Unseen
  <2>3. Used(wrSeen, rdOwn) < QueueSize /\ Used(wrSeen', rdOwn) = Used(wrSeen, rdOwn) + 1
    <3>1. Used(wrSeen, rdOwn) < QueueSize /\ Used(wrSeen, rdOwn) < IndexRange - 1
      BY <1>2, <1>3, <2>2
    <3>. QED
      BY <1>1, <2>1, <2>2, <3>1, Steps
  <2>4. reader = "copy" =>
          wrSeen' # rdOwn /\ slots'[Slot(rdOwn)] = slots[Slot(rdOwn)]
    <3>1. wrSeen' # rdOwn
      BY <1>1, <1>3, <2>1, <2>3, Steps
    <3>. QED
      BY <1>1, <1>2, <2>1, <2>3, <3>1, CopyKept DEF Stored
  <2>5. Used(wrOwn, rdSeen) =
          Used(wrSeen', rdOwn) + Unseen(wrOwn, wrSeen') + Unseen(rdOwn, rdSeen)
    BY <1>2, <1>3, <2>2, <2>3
  <2>. QED
    BY <1>2, <2>1, <2>2, <2>4, <2>5 DEF RingInv
<1>7. CASE ReaderStores
  <2>1. /\ rdSeen # rdOwn /\ rdSeen' = rdOwn
        /\ UNCHANGED << slots, wrOwn, wrSeen, rdOwn, writer, reader, pkg >>
    BY <1>7 DEF ReaderStores
  <2>2. rdOwn = Advance(rdSeen) /\ Unseen(rdOwn, rdSeen) = 1 /\ Unseen(rdOwn, rdSeen') = 0
        /\ reader = "publish"
    BY <1>2, <2>1 DEF Unseen
  <2>3. Used(wrOwn, rdSeen') = Used(wrOwn, rdSeen) - 1
    <3>1. Used(wrOwn, rdSeen) # 0
      BY <1>2, <1>3, <2>2
    <3>2. wrOwn # rdSeen
      BY <1>1, <3>1, Steps
    <3>. QED
      BY <1>1, <2>1, <2>2, <3>2, Steps
  <2>4. /\ Used(wrOwn, rdSeen') <= QueueSize
        /\ Used(wrOwn, rdSeen) < QueueSize => Used(wrOwn, rdSeen') < QueueSize
        /\ Used(wrOwn, rdSeen') =
             Used(wrSeen, rdOwn) + Unseen(wrOwn, wrSeen) + Unseen(rdOwn, rdSeen')
    BY <1>2, <1>3, <2>2, <2>3
  <2>. QED
    BY <1>2, <2>1, <2>2, <2>4 DEF RingInv
<1>8. CASE QueuePop
  <2>1. /\ reader = "copy" /\ reader' = "publish" /\ rdOwn' = Advance(rdOwn)
        /\ UNCHANGED << slots, wrOwn, wrSeen, rdSeen, writer >>
    BY <1>8 DEF QueuePop
  <2>2. rdOwn = rdSeen /\ wrSeen # rdOwn
    BY <1>2, <2>1
  <2>3. /\ Used(wrSeen, rdOwn') = Used(wrSeen, rdOwn) - 1
        /\ Unseen(rdOwn', rdSeen) = 1 /\ Unseen(rdOwn, rdSeen) = 0
    BY <1>1, <2>1, <2>2, Steps DEF Unseen
  <2>4. Used(wrOwn, rdSeen) =
          Used(wrSeen, rdOwn') + Unseen(wrOwn, wrSeen) + Unseen(rdOwn', rdSeen)
    BY <1>2, <1>3, <2>3
  <2>. QED
    BY <1>2, <2>1, <2>2, <2>4 DEF RingInv
<1>9. CASE PollOrPublish
  BY <1>2, <1>9 DEF PollOrPublish, RingInv, IsEmpty
<1>10. CASE PublishPointcloud2
  BY <1>2, <1>10 DEF PublishPointcloud2, RingInv
<1>11. CASE \/ CheckNotEmpty \/ GetCount \/ Signal
            \/ DistributePointCloudData \/ Wait \/ CheckConnectState \/ PollExits
            \/ PointCloudDataPollThread
            \/ StorageImuData \/ ImuWriter \/ ImuReader \/ LidarInfoChange
            \/ (\E s \in Settings : SettingConfirmed(s)) \/ Destructor \/ UNCHANGED vars
  <2>1. /\ UNCHANGED << slots, wrOwn, wrSeen, rdOwn, rdSeen, pkg >>
        /\ writer' = "write" => writer = "write"
        /\ reader' = "copy" => reader = "copy"
        /\ reader' # "publish" => reader # "publish"
    BY <1>11 DEF CheckNotEmpty, GetCount, Signal, DistributePointCloudData, Wait,
         CheckConnectState, PollExits, PointCloudDataPollThread, StorageImuData,
         ImuWriter, ImuCheck, ImuGetCount, ImuSignal, ImuReader, DistributeImuData,
         ImuWait, ImuCheckConnectState, PollImu, ImuDataPollThread, LidarInfoChange,
         SettingConfirmed, Destructor, RequestExit, SetExitSignal, JoinPointCloud,
         JoinImu
  <2>. QED
    BY <1>2, <2>1 DEF RingInv
<1>. QED
  BY <1>4, <1>5, <1>6, <1>7, <1>8, <1>9, <1>10, <1>11 DEF Next, Writer, Reader


LEMMA StepAwake == IInv /\ [Next]_vars => AwakeInv'
<1> SUFFICES ASSUME IInv, [Next]_vars PROVE AwakeInv'
  OBVIOUS
<1>0. TypeOK /\ RingInv /\ AwakeInv
  BY DEF IInv
<1>1. /\ wrOwn \in Indexes /\ wrSeen \in Indexes /\ rdOwn \in Indexes /\ rdSeen \in Indexes
      /\ count \in Nat /\ imuCount \in Nat /\ imuLen \in Nat
      /\ sampling \in BOOLEAN /\ offered \in BOOLEAN
      /\ path \in { "points", "imu" }
  BY <1>0, Constants DEF TypeOK
<1>2. /\ sampling => setBits = {}
      /\ offered => sampling /\ PointsAwake /\ ImuAwake
      /\ path = "points" => imuLen = 0
      /\ path = "imu" => wrOwn = rdOwn /\ writer = "idle"
  BY <1>0 DEF AwakeInv
<1>3. CASE PushLidarData
  <2>1. /\ path = "points" /\ writer' # "idle" /\ offered' = sampling
        /\ UNCHANGED << path, setBits, sampling, imuLen >>
    BY <1>3 DEF PushLidarData
  <2>. QED
    BY <1>2, <2>1 DEF AwakeInv, PointsAwake, ImuAwake
<1>4. CASE QueuePushAny
  <2>1. /\ writer = "write" /\ writer' # "idle"
        /\ UNCHANGED << path, setBits, sampling, offered, imuVars, exit >>
    BY <1>4 DEF QueuePushAny
  <2>. QED
    BY <1>2, <2>1 DEF AwakeInv, PointsAwake, ImuAwake
<1>5. CASE CheckNotEmpty
  <2>1. /\ writer = "check"
        /\ UNCHANGED << path, setBits, sampling, offered, imuVars, exit, wrOwn, rdOwn >>
    BY <1>5 DEF CheckNotEmpty
  <2>2. CASE IsEmpty(wrOwn, rdSeen)
    <3>1. Used(wrOwn, rdSeen) = 0
      BY <1>1, <2>2, Steps DEF IsEmpty
    <3>2. rdOwn = rdSeen
      <4>1. Used(wrSeen, rdOwn) \in 0 .. IndexRange - 1
        BY <1>1, Steps
      <4>2. 0 = Used(wrSeen, rdOwn) + Unseen(wrOwn, wrSeen) + Unseen(rdOwn, rdSeen)
        BY <1>0, <3>1 DEF RingInv
      <4>. QED
        BY <4>1, <4>2, Constants DEF Unseen
    <3>3. Used(wrOwn, rdOwn) <= 1
      BY <3>1, <3>2
    <3>. QED
      BY <1>2, <2>1, <3>3 DEF AwakeInv, PointsAwake, ImuAwake
  <2>3. CASE ~IsEmpty(wrOwn, rdSeen)
    <3>1. writer' # "idle"
      BY <1>5, <2>3 DEF CheckNotEmpty
    <3>. QED
      BY <1>2, <2>1, <3>1 DEF AwakeInv, PointsAwake, ImuAwake
  <2>. QED
    BY <2>2, <2>3
<1>6. CASE GetCount \/ Signal
  <2>1. /\ writer # "idle" /\ (writer' # "idle" \/ count' > 0)
        /\ UNCHANGED << path, setBits, sampling, offered, imuVars, exit, wrOwn, rdOwn >>
    BY <1>1, <1>6 DEF GetCount, Signal
  <2>. QED
    BY <1>2, <2>1 DEF AwakeInv, PointsAwake, ImuAwake
<1>7. CASE WriterStores \/ ReaderStores
  BY <1>2, <1>7 DEF WriterStores, ReaderStores, AwakeInv, PointsAwake, ImuAwake
<1>8. CASE PollOrPublish
  <2>1. /\ reader \in { "poll", "inner" } /\ reader' \in { "poll", "copy", "status" }
        /\ UNCHANGED << path, setBits, sampling, offered, imuVars, exit, wrOwn, rdOwn,
                        writer, count >>
        /\ reader' = "status" => IsEmpty(wrSeen, rdOwn)
    BY <1>8 DEF PollOrPublish
  <2>2. reader' = "status" => Used(wrOwn, rdOwn) <= 1
    <3>1. rdOwn = rdSeen
      BY <1>0, <2>1 DEF RingInv
    <3>2. wrSeen = rdOwn => Used(wrSeen, rdOwn) = 0
      BY <1>1, Steps
    <3>3. /\ Used(wrOwn, rdSeen) =
               Used(wrSeen, rdOwn) + Unseen(wrOwn, wrSeen) + Unseen(rdOwn, rdSeen)
          /\ Unseen(wrOwn, wrSeen) \in { 0, 1 } /\ Unseen(rdOwn, rdSeen) = 0
      BY <1>0, <3>1 DEF RingInv, Unseen
    <3>. QED
      BY <2>1, <3>1, <3>2, <3>3 DEF IsEmpty
  <2>. QED
    BY <1>2, <2>1, <2>2 DEF AwakeInv, PointsAwake, ImuAwake
<1>9. CASE QueuePop
  <2>1. /\ reader = "copy" /\ reader' = "publish"
        /\ UNCHANGED << path, setBits, sampling, offered, imuVars, exit, writer, wrOwn >>
    BY <1>9 DEF QueuePop
  <2>2. path # "imu"
    <3>1. wrSeen # rdOwn /\ rdOwn = rdSeen
      BY <1>0, <2>1 DEF RingInv
    <3>2. path = "imu" => wrOwn = rdOwn
      BY <1>2
    <3>3. Used(wrSeen, rdOwn) \in Nat /\ Used(wrSeen, rdOwn) # 0
      <4>1. Used(wrSeen, rdOwn) \in 0 .. IndexRange - 1
        BY <1>1, Steps
      <4>2. Used(wrSeen, rdOwn) # 0
        BY <1>1, <3>1, Steps
      <4>. QED
        BY <4>1, <4>2
    <3>4. wrOwn = rdOwn => Used(wrOwn, rdSeen) = 0
      BY <1>1, <3>1, Steps
    <3>5. Used(wrOwn, rdSeen) =
            Used(wrSeen, rdOwn) + Unseen(wrOwn, wrSeen) + Unseen(rdOwn, rdSeen)
      BY <1>0 DEF RingInv
    <3>. QED
      BY <3>2, <3>3, <3>4, <3>5 DEF Unseen
  <2>. QED
    BY <1>2, <2>1, <2>2 DEF AwakeInv, PointsAwake, ImuAwake
<1>10. CASE \/ DistributePointCloudData \/ CheckConnectState \/ PollExits
            \/ PublishPointcloud2 \/ PointCloudDataPollThread \/ Wait
  <2>1. /\ UNCHANGED << path, setBits, sampling, offered, imuVars, exit, writer,
                        wrOwn, rdOwn >>
        /\ offered => sampling
    BY <1>2, <1>10 DEF DistributePointCloudData, CheckConnectState, PollExits,
                  PublishPointcloud2, PointCloudDataPollThread, Wait
  <2>2. offered /\ PointsAwake => PointsAwake'
    BY <1>1, <1>10, <2>1 DEF DistributePointCloudData, CheckConnectState, PollExits,
                  PublishPointcloud2, PointCloudDataPollThread, Wait, PointsAwake
  <2>. QED
    BY <1>2, <2>1, <2>2 DEF AwakeInv, ImuAwake
<1>11. CASE StorageImuData
  <2>1. /\ path = "imu" /\ imuWriter' # "idle" /\ offered' = sampling
        /\ UNCHANGED << path, setBits, sampling, wrOwn, rdOwn, writer >>
    BY <1>11 DEF StorageImuData
  <2>2. Used(wrOwn, rdOwn) <= 1
    <3>1. Used(wrOwn, rdOwn) = 0
      BY <1>1, <1>2, <2>1, Steps
    <3>. QED
      BY <3>1
  <2>. QED
    BY <1>2, <2>1, <2>2 DEF AwakeInv, PointsAwake, ImuAwake
<1>12. CASE ImuWriter \/ ImuReader
  <2>1. /\ UNCHANGED << path, setBits, sampling, offered, exit, writer, count, reader,
                        wrOwn, rdOwn >>
        /\ imuLen = 0 => imuLen' = 0
    BY <1>12 DEF ImuWriter, ImuCheck, ImuGetCount, ImuSignal, ImuReader,
         DistributeImuData, ImuWait, ImuCheckConnectState, PollImu, ImuDataPollThread
  <2>2. offered /\ ImuAwake => ImuAwake'
    BY <1>1, <1>2, <1>12, <2>1 DEF ImuWriter, ImuCheck, ImuGetCount, ImuSignal,
         ImuReader, DistributeImuData, ImuWait, ImuCheckConnectState, PollImu,
         ImuDataPollThread, ImuAwake
  <2>. QED
    BY <1>2, <2>1, <2>2 DEF AwakeInv, PointsAwake
<1>13. CASE LidarInfoChange \/ \E s \in Settings : SettingConfirmed(s)
  <2>1. /\ UNCHANGED << path, offered, exit, pcdVars, imuVars, wrOwn, rdOwn >>
    BY <1>13 DEF LidarInfoChange, SettingConfirmed
  <2>2. ~sampling
    BY <1>2, <1>13 DEF LidarInfoChange, SettingConfirmed
  <2>3. sampling' => setBits' = {}
    <3>1. CASE LidarInfoChange
      BY <2>2, <3>1 DEF LidarInfoChange
    <3>2. CASE \E s \in Settings : SettingConfirmed(s)
      BY <3>2 DEF SettingConfirmed
    <3>. QED
      BY <1>13, <3>1, <3>2
  <2>. QED
    BY <1>2, <2>1, <2>2, <2>3 DEF AwakeInv
<1>14. CASE Destructor
  <2>1. /\ UNCHANGED << lidarVars, pcdVars, imuVars, wrOwn, rdOwn >>
        /\ exit' # "no"
    BY <1>14 DEF Destructor, RequestExit, SetExitSignal, JoinPointCloud, JoinImu
  <2>. QED
    BY <1>2, <2>1 DEF AwakeInv, PointsAwake, ImuAwake
<1>15. CASE UNCHANGED vars
  BY <1>2, <1>15 DEF AwakeInv, PointsAwake, ImuAwake
<1>. QED
  BY <1>3, <1>4, <1>5, <1>6, <1>7, <1>8, <1>9, <1>10, <1>11, <1>12, <1>13, <1>14,
     <1>15 DEF Next, Writer, Reader


LEMMA StepIInv == IInv /\ [Next]_vars => IInv'
<1> SUFFICES ASSUME IInv, [Next]_vars PROVE IInv'
  OBVIOUS
<1>1. TypeOK'
  BY StepTypeOK DEF IInv
<1>2. RingInv'
  BY StepRing DEF IInv
<1>3. AwakeInv'
  BY StepAwake
<1>. QED
  BY <1>1, <1>2, <1>3 DEF IInv

\* The invariant that the others follow from.
THEOREM Invariance == Spec => []IInv
<1>1. Init => IInv
  BY InitIInv
<1>2. IInv /\ [Next]_vars => IInv'
  BY StepIInv
<1>. QED
  BY <1>1, <1>2, PTL DEF Spec

\* The variables keep their types; the indices stay below 2^32.
THEOREM TypeCorrect == Spec => []TypeOK
<1>1. IInv => TypeOK
  BY DEF IInv
<1>. QED
  BY <1>1, Invariance, PTL


-----------------------------------------------------------------------------
(* Nobody sleeps on a frame or a sample.                                   *)

\* GetCount reads the count of the semaphore without its mutex and the writer
\* then does not signal; yet a poll thread that sleeps has nothing to publish
\* but the last frame, for every size of the ring.
THEOREM NothingIsForgotten == Spec => []NothingForgotten
<1>1. IInv => NothingForgotten
  BY DEF IInv, AwakeInv, PointsAwake, ImuAwake, NothingForgotten
<1>. QED
  BY <1>1, Invariance, PTL

-----------------------------------------------------------------------------
(* The ring is a bounded queue.                                            *)

\* The queue of FrameFifo that the ring stands for.
Queue == Contents(slots, wrSeen, rdOwn)

LEMMA InitRing == Init => Ring!Init
<1> SUFFICES ASSUME Init PROVE Ring!Init
  OBVIOUS
<1>1. /\ TypeOK /\ wrSeen \in Indexes /\ rdOwn \in Indexes /\ slots \in Storage
      /\ wrSeen = 0 /\ rdOwn = 0 /\ frame = 0 /\ published = -1
  BY InitIInv DEF IInv, TypeOK, Storage, Copies, Init, None
<1>2. Queue \in Seq(Copies) /\ Len(Queue) = 0
  <2>1. Used(wrSeen, rdOwn) = 0
    BY <1>1, Steps
  <2>. QED
    BY <1>1, <2>1, ContentsSeq DEF Queue
<1>3. Queue = << >>
  <2> HIDE DEF Queue
  <2>. QED
    BY <1>2, EmptySeq
<1>4. Inside(wrSeen, rdOwn) = Queue
  BY DEF Inside, Queue, Contents
<1>. QED
  BY <1>1, <1>3, <1>4 DEF Ring!Init

LEMMA StepQueue == IInv /\ [Next]_vars => [Ring!Next]_(Ring!vars)
<1> SUFFICES ASSUME IInv, [Next]_vars PROVE [Ring!Next]_(Ring!vars)
  OBVIOUS
<1>0. /\ TypeOK /\ RingInv /\ TypeOK'
      /\ Inside(wrSeen, rdOwn) = Queue /\ Inside(wrSeen, rdOwn)' = Queue'
  BY StepTypeOK DEF IInv, Inside, Queue, Contents
<1>1. /\ wrOwn \in Indexes /\ wrSeen \in Indexes /\ rdOwn \in Indexes /\ rdSeen \in Indexes
      /\ slots \in Storage /\ frame \in Copies
  BY <1>0 DEF TypeOK, Storage, Copies
<1>2. Len(Queue) = Used(wrSeen, rdOwn) /\ Used(wrSeen, rdOwn) \in Nat
  <2>1. Used(wrSeen, rdOwn) \in 0 .. IndexRange - 1
    BY <1>1, Steps
  <2>. QED
    BY <1>1, <2>1, ContentsSeq DEF Queue
<1>3. /\ QueueSize \in Nat
      /\ Unseen(wrOwn, wrSeen) \in { 0, 1 } /\ Unseen(rdOwn, rdSeen) \in { 0, 1 }
      /\ wrOwn = wrSeen => Unseen(wrOwn, wrSeen) = 0
      /\ Used(wrOwn, rdSeen) <= QueueSize
      /\ Used(wrOwn, rdSeen) =
           Used(wrSeen, rdOwn) + Unseen(wrOwn, wrSeen) + Unseen(rdOwn, rdSeen)
  BY <1>0, Constants DEF RingInv, Unseen
<1>4. CASE PushLidarData
  <2>1. /\ wrSeen = wrOwn /\ UNCHANGED << wrSeen, rdOwn, published >>
    BY <1>4 DEF PushLidarData
  <2>2. CASE IsFull(wrOwn, rdSeen)
    <3>1. frame' = (frame + 1) % Frames /\ slots' = slots
      BY <1>4, <2>2 DEF PushLidarData
    <3>2. Used(wrSeen, rdOwn) >= QueueSize - 1
      BY <1>2, <1>3, <2>1, <2>2 DEF IsFull
    <3>3. Queue' = Queue
      BY <2>1, <3>1 DEF Queue
    <3>. QED
      BY <1>0, <1>2, <2>1, <3>1, <3>2, <3>3 DEF Ring!Next, Ring!Refuse
  <2>3. CASE ~IsFull(wrOwn, rdSeen)
    <3>1. /\ slots' = [slots EXCEPT ![Slot(wrOwn)] = Torn] /\ frame' = frame
          /\ Torn \in Copies
      BY <1>4, <2>3 DEF PushLidarData, Copies
    <3>2. Used(wrSeen, rdOwn) < QueueSize
      BY <1>2, <1>3, <2>1, <2>3 DEF IsFull
    <3>3. Contents(Stored(slots, wrSeen, Torn), wrSeen, rdOwn) = Queue
      <4>1. Contents(Stored(slots, wrSeen, Torn), wrSeen, rdOwn) =
              Contents(slots, wrSeen, rdOwn)
        BY <1>1, <3>1, <3>2, ContentsWrite
      <4>. QED
        BY <4>1 DEF Queue
    <3>4. Queue' = Queue
      <4>1. Queue' = Contents(slots', wrSeen, rdOwn)
        BY <2>1 DEF Queue
      <4>. QED
        BY <2>1, <3>1, <3>3, <4>1 DEF Stored
    <3>. QED
      BY <1>0, <2>1, <3>1, <3>4 DEF Ring!vars
  <2>. QED
    BY <2>2, <2>3
<1>5. CASE WriterStores
  <2>1. /\ wrSeen # wrOwn /\ slots' = [slots EXCEPT ![Slot(wrSeen)] = frame]
        /\ wrSeen' = wrOwn /\ frame' = (frame + 1) % Frames
        /\ UNCHANGED << rdOwn, published >>
    BY <1>5 DEF WriterStores, pcdVars
  <2>2. wrOwn = Advance(wrSeen) /\ Unseen(wrOwn, wrSeen) = 1
    BY <1>0, <2>1 DEF RingInv, Unseen
  <2>3. Used(wrSeen, rdOwn) < QueueSize
    BY <1>2, <1>3, <2>2
  <2>4. Contents(Stored(slots, wrSeen, frame), Advance(wrSeen), rdOwn) =
          Append(Queue, frame)
    <3>1. Contents(Stored(slots, wrSeen, frame), Advance(wrSeen), rdOwn) =
            Append(Contents(slots, wrSeen, rdOwn), frame)
      BY <1>1, <2>3, ContentsWrite
    <3>. QED
      BY <3>1 DEF Queue
  <2>5. Queue' = Append(Queue, frame)
    <3>1. Queue' = Contents(slots', wrOwn, rdOwn)
      BY <2>1 DEF Queue
    <3>. QED
      BY <2>1, <2>2, <2>4, <3>1 DEF Stored
  <2>. QED
    BY <1>0, <1>2, <2>1, <2>3, <2>5 DEF Ring!Next, Ring!Accept
<1>6. CASE QueuePop
  <2>1. /\ reader = "copy"
        /\ published' = IF slots[Slot(rdOwn)] = pkg THEN pkg ELSE Torn
        /\ rdOwn' = Advance(rdOwn) /\ UNCHANGED << slots, wrSeen, frame >>
    BY <1>6 DEF QueuePop
  <2>2. wrSeen # rdOwn /\ pkg = slots[Slot(rdOwn)]
    BY <1>0, <2>1 DEF RingInv
  <2>3. /\ Queue # << >> /\ Head(Queue) = slots[Slot(rdOwn)]
        /\ Contents(slots, wrSeen, Advance(rdOwn)) = Tail(Queue)
    BY <1>1, <2>2, ContentsRead DEF Queue
  <2>4. Queue' = Tail(Queue) /\ published' = Head(Queue)
    <3>1. Queue' = Contents(slots, wrSeen, Advance(rdOwn))
      BY <2>1 DEF Queue
    <3>. QED
      BY <2>1, <2>2, <2>3, <3>1
  <2>. QED
    BY <1>0, <2>1, <2>3, <2>4 DEF Ring!Next, Ring!Take
<1>7. CASE \/ QueuePushAny \/ CheckNotEmpty \/ GetCount \/ Signal \/ ReaderStores
           \/ DistributePointCloudData \/ Wait \/ CheckConnectState \/ PollOrPublish
           \/ PollExits \/ PublishPointcloud2 \/ PointCloudDataPollThread
           \/ StorageImuData \/ ImuWriter \/ ImuReader \/ LidarInfoChange
           \/ (\E s \in Settings : SettingConfirmed(s)) \/ Destructor \/ UNCHANGED vars
  <2>1. UNCHANGED << slots, wrSeen, rdOwn, frame, published >>
    BY <1>7 DEF QueuePushAny, CheckNotEmpty, GetCount, Signal, ReaderStores,
         DistributePointCloudData, Wait, CheckConnectState, PollOrPublish, PollExits,
         PublishPointcloud2, PointCloudDataPollThread, StorageImuData,
         ImuWriter, ImuCheck, ImuGetCount, ImuSignal, ImuReader, DistributeImuData,
         ImuWait, ImuCheckConnectState, PollImu, ImuDataPollThread, LidarInfoChange,
         SettingConfirmed, Destructor, RequestExit, SetExitSignal, JoinPointCloud,
         JoinImu
  <2>2. Queue' = Queue
    BY <2>1 DEF Queue
  <2>. QED
    BY <1>0, <2>1, <2>2 DEF Ring!vars
<1>. QED
  BY <1>4, <1>5, <1>6, <1>7 DEF Next, Writer, Reader

\* The ring without a lock, for every size and every range of its indices and
\* with each side seeing the other's index late, is the queue of FrameFifo:
\* clouds come out whole, in order and once, and a frame is thrown away only
\* when at most one slot was free.
THEOREM RingRefinesFifo == Spec => ImplementsFrameFifo
<1>1. Init => Ring!Init
  BY InitRing
<1>2. IInv /\ [Next]_vars => [Ring!Next]_(Ring!vars)
  BY StepQueue
<1>. QED
  BY <1>1, <1>2, Invariance, PTL DEF Spec, ImplementsFrameFifo, Ring!Spec

=============================================================================
