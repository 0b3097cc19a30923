------------------------ MODULE TrajectoryUploader_proofs ------------------------
(***************************************************************************)
(* Proofs about TrajectoryUploader, for any number of trajectories, any    *)
(* size of submaps, of the batch and of the queue.  The invariant follows  *)
(* the local results from the SLAM thread through the queue and the batch  *)
(* to the cloud: they stay in order, and who has got any is named by the   *)
(* trajectory they are of.  If outages are short, what the thread sends    *)
(* next is what comes after the last that the cloud has, or something of a *)
(* later trajectory.                                                       *)
(***************************************************************************)
EXTENDS TrajectoryUploader, SequenceTheorems, FiniteSetTheorems, TLAPS

-----------------------------------------------------------------------------
(* The inductive invariant.                                                *)

\* q may come next after r: it is of a later trajectory, or the next insertion.
After(q, r) == q.t > r.t \/ Follows(q, r)

\* What the local trajectory gives next.
NextResult == LocalSlamResult(InsertRangeData(active))

\* What the uploader's thread will find next in the queue, ...
Upcoming ==
  IF queue # << >> THEN {queue[1]} ELSE IF active # None THEN {NextResult} ELSE {}

\* ... and what follows the first k - 1 items of the batch.
Unsent(k) == IF k <= Len(batch) THEN {batch[k].r} ELSE Upcoming

\* r is of a trajectory that has begun.
Past(r) == r.t \in known /\ (adding # None => r.t < adding)

TwoSubmaps(r) == r.front # None => r.front # r.back

BatchInv ==
  /\ batch # << >> => pc \in {"loop", "pop", "write", "ended"}
  /\ pc \in {"loop", "pop"} => Len(batch) < BatchSize
  /\ \A k \in 1 .. Len(batch) : batch[k].id = uplink[batch[k].r.t]

\* Trajectories come one after another.
KnownInv ==
  /\ \A t \in known, u \in Trajectories : u < t => u \in known
  /\ \A t \in Trajectories : uplink[t] # None => t \in known
  /\ adding # None => active = None /\ adding \in known /\ \A t \in known : t <= adding
  /\ active # None => active.t \in known /\ (active.two => active.count > 0)
  /\ todo # {} => pc = "register"

\* The results in the queue follow each other up to the next, ...
QueueInv ==
  /\ \A k \in 1 .. Len(queue) : Past(queue[k]) /\ TwoSubmaps(queue[k])
  /\ \A k \in 1 .. Len(queue) - 1 : After(queue[k + 1], queue[k])
  /\ queue # << >> /\ active # None => After(NextResult, queue[Len(queue)])

\* ... and those in the batch come before them.
SentInv ==
  /\ \A k \in 1 .. Len(batch) : Past(batch[k].r) /\ TwoSubmaps(batch[k].r)
  /\ \A k \in 1 .. Len(batch) : \A q \in Unsent(k + 1) : After(q, batch[k].r)

\* The cloud's trajectories that are modelled are those the uploader names.
CloudInv ==
  /\ \A i \in CloudIds : cloud[i] # None => \E t \in Trajectories : uplink[t] = i
  /\ net = "dead" => \A i \in CloudIds : cloud[i] = None

\* A trajectory that was finished has no name that may be finished again.
FinishedInv ==
  \A i \in CloudIds : cloud[i] # None /\ cloud[i].finished =>
    /\ cloud[i].latest = None
    /\ \A t \in Trajectories : uplink[t] = i => t # adding /\ (active # None => t # active.t)

\* Who has got results is whom they are sent to; none has while all register.
LatestOf(i, tr) ==
  /\ tr.latest.t = tr.of /\ uplink[tr.of] = i
  /\ Past(tr.latest) /\ TwoSubmaps(tr.latest)
LatestInv ==
  \A i \in CloudIds : cloud[i] # None /\ cloud[i].latest # None =>
    LatestOf(i, cloud[i]) /\ pc # "register"

IInv ==
  TypeOK /\ BatchInv /\ KnownInv /\ QueueInv /\ SentInv /\ CloudInv /\ FinishedInv /\ LatestInv

\* Nothing has been dropped since the uploader has registered all trajectories.
Synced == pc \in {"pop", "write", "register"} \/ (pc = "loop" /\ server = "up")

SyncInv ==
  Synced => \A i \in CloudIds : cloud[i] # None /\ cloud[i].latest # None =>
    \A q \in Unsent(1) : After(q, cloud[i].latest)

\* The submaps of a trajectory of the cloud are those of its latest result, as far
\* as it has got their first, and those that are not full are unfinished.
Fits(tr) ==
  IF tr.submaps = << >> THEN tr.unfinished = {}
  ELSE /\ tr.latest # None
       /\ \/ tr.submaps = << tr.latest.back >> /\ tr.unfinished = {tr.latest.back}
          \/ /\ tr.latest.front # None
             /\ tr.submaps = << tr.latest.front, tr.latest.back >>
             /\ tr.unfinished = {tr.latest.back} \cup
                   (IF tr.latest.count < NumRangeData THEN {tr.latest.front} ELSE {})
FitsInv == \A i \in CloudIds : cloud[i] # None => Fits(cloud[i])

SafeInv == IInv /\ SyncInv /\ FitsInv /\ NothingLeftOut /\ NoCheckFails

-----------------------------------------------------------------------------
(* Lemmas about numbers.                                                   *)

\* A set of natural numbers has a least element.
LEMMA LeastNat ==
  ASSUME NEW T \in SUBSET Nat, T # {}
  PROVE  \E m \in T : \A k \in T : m <= k
<1> DEFINE R == OpToRel(<, Nat)
<1>1. IsWellFoundedOn(R, Nat)
  BY NatLessThanWellFounded, Zenon
<1>2. \A x, y \in Nat : <<y, x>> \in R <=> y < x
  BY Zenon DEF OpToRel
<1> HIDE DEF R
<1>3. PICK m \in T : \A k \in T : ~ (<<k, m>> \in R)
  BY <1>1, WFMin
<1>4. \A k \in T : ~ (k < m) /\ m \in Nat /\ k \in Nat
  BY <1>2, <1>3
<1>. QED
  BY <1>4

\* Min of FiniteSetsExt chooses it.
LEMMA MinIsMember ==
  ASSUME NEW T \in SUBSET Nat, T # {}
  PROVE  Min(T) \in T
<1>1. \E m \in T : \A k \in T : m <= k
  BY LeastNat
<1>. QED
  BY <1>1 DEF Min

\* The indices of submaps go round.
LEMMA IndexGoesOn ==
  ASSUME NEW i \in SubmapIndices
  PROVE  NextIndex(i) \in SubmapIndices /\ NextIndex(i) # i
<1>1. i \in Nat /\ i + 1 <= Indices /\ Indices \in Nat /\ Indices > 2
  BY UploaderAssumption DEF SubmapIndices
<1>2. CASE i + 1 < Indices
  <2>1. (i + 1) % Indices = i + 1
    BY <1>1, <1>2
  <2>. QED
    BY <1>1, <1>2, <2>1 DEF NextIndex, SubmapIndices
<1>3. CASE i + 1 = Indices
  <2>1. (i + 1) % Indices = 0
    BY <1>1, <1>3
  <2>. QED
    BY <1>1, <1>3, <2>1 DEF NextIndex, SubmapIndices
<1>. QED
  BY <1>1, <1>2, <1>3

-----------------------------------------------------------------------------
(* Lemmas about results.                                                   *)

\* None is nothing else.
LEMMA NoneIsNone ==
  /\ None \notin Trajectories /\ None \notin CloudIds /\ None \notin SubmapIndices
  /\ None \notin Insertions /\ None \notin Results /\ None \notin CloudTrajectories
BY UploaderAssumption DEF Trajectories, CloudIds, SubmapIndices

\* The number that the next trajectory of the cloud gets is free: the uploader does
\* not name as many as there are.
LEMMA FreeId ==
  ASSUME TypeOK, CloudInv
  PROVE  NextCloudId \in CloudIds /\ cloud[NextCloudId] = None
<1> DEFINE F == {i \in CloudIds : cloud[i] = None}
<1>1. F # {}
  <2> SUFFICES ASSUME F = {} PROVE FALSE
    OBVIOUS
  <2> DEFINE f == [i \in CloudIds |-> CHOOSE t \in Trajectories : uplink[t] = i]
  <2>1. \A i \in CloudIds : f[i] \in Trajectories /\ uplink[f[i]] = i
    BY DEF CloudInv
  <2>2. f \in [CloudIds -> Trajectories]
    BY <2>1
  <2>3. /\ IsFiniteSet(CloudIds) /\ IsFiniteSet(Trajectories)
        /\ Cardinality(Trajectories) < Cardinality(CloudIds)
    BY FS_Interval, UploaderAssumption DEF CloudIds, Trajectories
  <2> HIDE DEF f
  <2>. QED
    BY <2>1, <2>2, <2>3, FS_PigeonHole
<1>2. F \in SUBSET Nat
  BY UploaderAssumption DEF CloudIds
<1>3. Min(F) \in F
  BY <1>1, <1>2, MinIsMember
<1>. QED
  BY <1>3 DEF NextCloudId

\* What Follows says, field by field.
LEMMA FollowsFields ==
  ASSUME NEW r \in Results, NEW q \in Results
  PROVE  Follows(q, r) <=>
           /\ q.t = r.t
           /\ IF r.count < NumRangeData
              THEN q.count = r.count + 1 /\ q.front = r.front /\ q.back = r.back
              ELSE q.count = 1 /\ q.front = r.back /\ q.back = NextIndex(r.back)
BY DEF Follows, Results

\* The next result is a result, of the active trajectory, and its submaps differ.
LEMMA NextResultIs ==
  ASSUME TypeOK, active # None, active.two => active.count > 0
  PROVE  /\ NextResult \in Results /\ NextResult.t = active.t
         /\ TwoSubmaps(NextResult)
         /\ InsertRangeData(active) \in Insertions
         /\ InsertRangeData(active).t = active.t /\ InsertRangeData(active).count > 0
<1>1. active \in Insertions /\ starting \in SubmapIndices
  BY DEF TypeOK
<1>2. NextIndex(starting) \in SubmapIndices /\ NextIndex(starting) # starting
  BY <1>1, IndexGoesOn
<1>3. /\ InsertRangeData(active) \in Insertions /\ InsertRangeData(active).t = active.t
      /\ InsertRangeData(active).count > 0
  <2>1. CASE active.count < NumRangeData
    <3>1. InsertRangeData(active) = [active EXCEPT !.count = @ + 1]
      BY <2>1 DEF InsertRangeData
    <3>2. active.count + 1 \in 1 .. NumRangeData
      BY <1>1, <2>1, UploaderAssumption DEF Insertions
    <3>. QED
      BY <1>1, <3>1, <3>2, UploaderAssumption DEF Insertions
  <2>2. CASE ~ (active.count < NumRangeData)
    <3>1. InsertRangeData(active) = [active EXCEPT !.count = 1, !.two = active.count > 0]
      BY <2>2 DEF InsertRangeData
    <3>2. active.count > 0 /\ 1 \in 0 .. NumRangeData
      BY <1>1, <2>2, UploaderAssumption DEF Insertions
    <3>3. (active.count > 0) = TRUE
      BY <3>2
    <3>4. InsertRangeData(active) = [active EXCEPT !.count = 1, !.two = TRUE]
      BY <3>1, <3>3, Zenon
    <3>5. InsertRangeData(active) = [t |-> active.t, two |-> TRUE, count |-> 1]
      BY <1>1, <3>4 DEF Insertions
    <3>. QED
      BY <1>1, <3>2, <3>5 DEF Insertions
  <2>. QED
    BY <2>1, <2>2
<1>4. \A a \in Insertions : a.count > 0 => LocalSlamResult(a) \in Results
        /\ LocalSlamResult(a).t = a.t /\ TwoSubmaps(LocalSlamResult(a))
  BY <1>1, <1>2 DEF LocalSlamResult, Insertions, Results, TwoSubmaps
<1>. QED
  BY <1>3, <1>4 DEF NextResult

\* The result after the one that is handed to the uploader is the next insertion.
LEMMA NextFollows ==
  ASSUME TypeOK, active # None, active.two => active.count > 0, OnLocalSlamResult
  PROVE  Follows(NextResult', NextResult) /\ active' # None
<1>1. active \in Insertions /\ starting \in SubmapIndices
  BY DEF TypeOK
<1> DEFINE a == InsertRangeData(active)
           b == InsertRangeData(a)
<1>2. a \in Insertions /\ a.count > 0 /\ a # None
  BY NextResultIs, NoneIsNone
<1>3. /\ active' = a
      /\ starting' = IF FrontFinished(NextResult) THEN NextIndex(starting) ELSE starting
  BY DEF OnLocalSlamResult, NextResult
<1>4. NextResult = [t |-> a.t, count |-> a.count, front |-> IF a.two THEN starting ELSE None,
                    back |-> IF a.two THEN NextIndex(starting) ELSE starting]
  BY DEF NextResult, LocalSlamResult
<1>5. NextResult' = [t |-> b.t, count |-> b.count, front |-> IF b.two THEN starting' ELSE None,
                     back |-> IF b.two THEN NextIndex(starting') ELSE starting']
  BY <1>3 DEF NextResult, LocalSlamResult, NextIndex, InsertRangeData
<1> HIDE DEF a
<1>6. starting # None
  BY <1>1, NoneIsNone
<1>7. CASE a.count < NumRangeData
  <2>1. b = [a EXCEPT !.count = @ + 1]
    BY <1>7 DEF InsertRangeData
  <2>2. starting' = starting
    BY <1>2, <1>3, <1>4, <1>7, UploaderAssumption DEF FrontFinished, Insertions
  <2>3. b.t = a.t /\ b.count = a.count + 1 /\ b.two = a.two
    BY <1>2, <2>1 DEF Insertions
  <2>. QED
    BY <1>2, <1>3, <1>4, <1>5, <1>7, <2>2, <2>3 DEF Follows
<1>8. CASE ~ (a.count < NumRangeData)
  <2>1. b = [a EXCEPT !.count = 1, !.two = a.count > 0]
    BY <1>8 DEF InsertRangeData
  <2>2. b.t = a.t /\ b.count = 1 /\ b.two = TRUE
    BY <1>2, <2>1 DEF Insertions
  <2>3. a.count = NumRangeData
    BY <1>2, <1>8, UploaderAssumption DEF Insertions
  <2>4. starting' = IF a.two THEN NextIndex(starting) ELSE starting
    BY <1>3, <1>4, <1>6, <2>3 DEF FrontFinished
  <2>. QED
    BY <1>2, <1>3, <1>4, <1>5, <1>8, <2>2, <2>4 DEF Follows
<1>. QED
  BY <1>7, <1>8

-----------------------------------------------------------------------------
(* Lemmas about the cloud: what becomes of a result.                       *)

\* Short sequences.
LEMMA AppendTwo == \A x, y : Append(<< x >>, y) = << x, y >>
<1> SUFFICES ASSUME NEW x, NEW y PROVE Append(<< x >>, y) = << x, y >>
  OBVIOUS
<1>1. << x >> \in Seq({x, y}) /\ << x, y >> \in Seq({x, y}) /\ Len(<< x >>) = 1 /\ Len(<< x, y >>) = 2
  OBVIOUS
<1> DEFINE a == Append(<< x >>, y)
<1>2. a \in Seq({x, y}) /\ Len(a) = 2 /\ a[1] = << x >>[1] /\ a[2] = y
  BY <1>1, AppendProperties
<1> HIDE DEF a
<1>3. \A i \in 1 .. Len(a) : a[i] = << x, y >>[i]
  BY <1>2
<1>4. a = << x, y >>
  BY <1>1, <1>2, <1>3, SeqEqual
<1>. QED
  BY <1>4 DEF a

LEMMA AppendThree == \A x, y, z : Append(<< x, y >>, z) = << x, y, z >>
<1> SUFFICES ASSUME NEW x, NEW y, NEW z PROVE Append(<< x, y >>, z) = << x, y, z >>
  OBVIOUS
<1>1. /\ << x, y >> \in Seq({x, y, z}) /\ << x, y, z >> \in Seq({x, y, z})
      /\ Len(<< x, y >>) = 2 /\ Len(<< x, y, z >>) = 3
  OBVIOUS
<1> DEFINE a == Append(<< x, y >>, z)
<1>2. a \in Seq({x, y, z}) /\ Len(a) = 3 /\ a[1] = << x, y >>[1] /\ a[2] = << x, y >>[2] /\ a[3] = z
  BY <1>1, AppendProperties
<1> HIDE DEF a
<1>3. \A i \in 1 .. Len(a) : a[i] = << x, y, z >>[i]
  BY <1>2
<1>4. a = << x, y, z >>
  BY <1>1, <1>2, <1>3, SeqEqual
<1>. QED
  BY <1>4 DEF a

\* Concatenation of sequences of at most one.
LEMMA ConcatShort ==
  \A x, y : /\ << x >> \o << y >> = << x, y >> /\ << x >> \o << >> = << x >>
           /\ << >> \o << y >> = << y >> /\ << >> \o << >> = << >>
<1> SUFFICES ASSUME NEW x, NEW y
             PROVE  /\ << x >> \o << y >> = << x, y >> /\ << x >> \o << >> = << x >>
                    /\ << >> \o << y >> = << y >> /\ << >> \o << >> = << >>
  OBVIOUS
<1>1. << x >> \in Seq({x, y}) /\ << y >> \in Seq({x, y}) /\ << >> \in Seq({x, y})
  OBVIOUS
<1>2. Append(<< x >>, y) = << x >> \o << y >>
  BY <1>1, AppendIsConcat
<1>. QED
  BY <1>1, <1>2, AppendTwo, ConcatEmptySeq

\* A submap that is filled longer is never created from a result.
LEMMA AcceptedIs ==
  ASSUME NEW tr \in CloudTrajectories, NEW r \in Results
  PROVE  Accepted(tr, r) =
           IF r.front \in tr.unfinished
           THEN IF r.back \in tr.unfinished \/ r.count = 1 THEN << r.front, r.back >> ELSE << r.front >>
           ELSE IF r.back \in tr.unfinished \/ r.count = 1 THEN << r.back >> ELSE << >>
<1>1. tr.unfinished \subseteq SubmapIndices
  BY DEF CloudTrajectories
<1>2. r.front # None /\ IsAccepted(tr, r.front, NumRangeData + r.count) <=> r.front \in tr.unfinished
  BY <1>1, NoneIsNone, UploaderAssumption DEF IsAccepted, CreateSubmap, Results
<1>3. IsAccepted(tr, r.back, r.count) <=> r.back \in tr.unfinished \/ r.count = 1
  BY DEF IsAccepted, CreateSubmap
<1>4. \A x, y : /\ << x >> \o << y >> = << x, y >> /\ << x >> \o << >> = << x >>
                /\ << >> \o << y >> = << y >> /\ << >> \o << >> = << >>
  BY ConcatShort
<1> DEFINE front == r.front # None /\ IsAccepted(tr, r.front, NumRangeData + r.count)
           back == IsAccepted(tr, r.back, r.count)
<1>5. Accepted(tr, r) = (IF front THEN << r.front >> ELSE << >>) \o (IF back THEN << r.back >> ELSE << >>)
  BY DEF Accepted
<1> HIDE DEF front, back
<1>6. Accepted(tr, r) = IF front THEN IF back THEN << r.front, r.back >> ELSE << r.front >>
                                 ELSE IF back THEN << r.back >> ELSE << >>
  BY <1>4, <1>5
<1>. QED
  BY <1>2, <1>3, <1>6 DEF front, back

\* What the operators of the cloud give for one, two and three submaps.
LEMMA ShortSequences ==
  \A x, y, z : /\ Last(<< x >>) = x /\ Last(<< x, y >>) = y
               /\ ToSet(<< >>) = {} /\ ToSet(<< x >>) = {x} /\ ToSet(<< x, y >>) = {x, y}
               /\ LastTwo(Append(<< >>, x)) = << x >>
               /\ LastTwo(Append(<< x >>, y)) = << x, y >>
               /\ LastTwo(Append(<< x, y >>, z)) = << y, z >>
<1> SUFFICES ASSUME NEW x, NEW y, NEW z
             PROVE /\ Last(<< x >>) = x /\ Last(<< x, y >>) = y
                   /\ ToSet(<< >>) = {} /\ ToSet(<< x >>) = {x} /\ ToSet(<< x, y >>) = {x, y}
                   /\ LastTwo(Append(<< >>, x)) = << x >>
                   /\ LastTwo(Append(<< x >>, y)) = << x, y >>
                   /\ LastTwo(Append(<< x, y >>, z)) = << y, z >>
  OBVIOUS
<1>1. Last(<< x >>) = x /\ Last(<< x, y >>) = y
  BY DEF Last
<1>2. ToSet(<< >>) = {} /\ ToSet(<< x >>) = {x} /\ ToSet(<< x, y >>) = {x, y}
  BY DEF ToSet
<1>3. /\ Append(<< >>, x) = << x >> /\ Append(<< x >>, y) = << x, y >>
      /\ Append(<< x, y >>, z) = << x, y, z >>
  BY AppendTwo, AppendThree
<1>4. Tail(<< x, y, z >>) = << y, z >>
  OBVIOUS
<1>5. Len(<< x >>) = 1 /\ Len(<< x, y >>) = 2 /\ Len(<< x, y, z >>) = 3
  OBVIOUS
<1>6. /\ LastTwo(<< x >>) = << x >> /\ LastTwo(<< x, y >>) = << x, y >>
      /\ LastTwo(<< x, y, z >>) = << y, z >>
  BY <1>4, <1>5 DEF LastTwo
<1>. QED
  BY <1>1, <1>2, <1>3, <1>6

\* What a result does to a trajectory of the cloud, field by field.
LEMMA AddToPoseGraphIs ==
  ASSUME NEW tr \in CloudTrajectories, NEW r \in Results
  PROVE  LET s == Accepted(tr, r)
             done == {i \in tr.unfinished : i = r.front /\ FrontFinished(r)}
             new == AddToPoseGraph(tr, r)
         IN  /\ new \in CloudTrajectories
             /\ new.of = tr.of /\ new.finished = tr.finished /\ new.latest = r
             /\ new.unfinished = (tr.unfinished \union ToSet(s)) \ done
             /\ new.submaps = IF s = << >> THEN tr.submaps ELSE AppendSubmap(tr, s)
             /\ ~ tr.gap /\ (tr.latest = None \/ Follows(r, tr.latest)) => ~ new.gap
<1> DEFINE s == Accepted(tr, r)
           done == {i \in tr.unfinished : i = r.front /\ FrontFinished(r)}
           new == AddToPoseGraph(tr, r)
           gap == tr.gap \/ (tr.latest # None /\ ~ Follows(r, tr.latest))
           submaps == IF s = << >> THEN tr.submaps ELSE AppendSubmap(tr, s)
           unfinished == (tr.unfinished \union ToSet(s)) \ done
<1>1. /\ tr.of \in Trajectories /\ tr.finished \in BOOLEAN /\ tr.submaps \in Seq(SubmapIndices)
      /\ tr.unfinished \subseteq SubmapIndices /\ tr.gap \in BOOLEAN
  BY DEF CloudTrajectories
<1>2. s \in Seq(SubmapIndices) /\ ToSet(s) \subseteq SubmapIndices
  <2>1. r.front \in tr.unfinished => r.front \in SubmapIndices
    BY <1>1
  <2>2. r.back \in SubmapIndices
    BY DEF Results
  <2>3. \A x, y \in SubmapIndices : /\ << x, y >> \in Seq(SubmapIndices) /\ << x >> \in Seq(SubmapIndices)
                                    /\ << >> \in Seq(SubmapIndices)
    OBVIOUS
  <2>4. s \in Seq(SubmapIndices)
    BY <2>1, <2>2, <2>3, AcceptedIs
  <2>5. ToSet(s) \subseteq SubmapIndices
    BY <2>4 DEF ToSet
  <2>. QED
    BY <2>4, <2>5
<1>3. submaps \in Seq(SubmapIndices)
  <2>1. CASE s = << >>
    BY <1>1, <2>1
  <2>2. CASE s # << >>
    <3>1. Len(s) \in 1 .. Len(s) /\ Last(s) = s[Len(s)]
      BY <1>2, <2>2, EmptySeq DEF Last
    <3>2. Last(s) \in SubmapIndices
      BY <1>2, <3>1, ElementOfSeq
    <3>3. Append(tr.submaps, Last(s)) \in Seq(SubmapIndices) /\ Append(tr.submaps, Last(s)) # << >>
      BY <1>1, <3>2, AppendProperties
    <3>4. LastTwo(Append(tr.submaps, Last(s))) \in Seq(SubmapIndices)
      BY <3>3, HeadTailProperties DEF LastTwo
    <3>. QED
      BY <1>1, <2>2, <3>4 DEF AppendSubmap
  <2>. QED
    BY <2>1, <2>2
<1>4. gap \in BOOLEAN /\ unfinished \subseteq SubmapIndices
  BY <1>1, <1>2
<1> HIDE DEF s, done, gap, submaps, unfinished
<1>5. new = [tr EXCEPT !.unfinished = unfinished, !.submaps = submaps, !.latest = r, !.gap = gap]
  BY DEF AddToPoseGraph, s, done, gap, submaps, unfinished
<1>6. /\ new \in CloudTrajectories
      /\ new.of = tr.of /\ new.finished = tr.finished /\ new.latest = r
      /\ new.unfinished = unfinished /\ new.submaps = submaps /\ new.gap = gap
  BY <1>3, <1>4, <1>5 DEF CloudTrajectories
<1>7. ~ tr.gap /\ (tr.latest = None \/ Follows(r, tr.latest)) => ~ gap
  BY <1>1 DEF gap
<1>. QED
  BY <1>6, <1>7 DEF s, done, submaps, unfinished

\* A result that follows the latest fits its submaps, whether the trajectory has got the
\* first of them or not.
LEMMA FitsKept ==
  ASSUME NEW tr \in CloudTrajectories, NEW r \in Results, Fits(tr), TwoSubmaps(r),
         tr.latest # None => TwoSubmaps(tr.latest) /\ Follows(r, tr.latest)
  PROVE  /\ Accepted(tr, r) # << >> => SubmapsFit(tr, Accepted(tr, r))
         /\ Fits(AddToPoseGraph(tr, r))
<1> DEFINE s == Accepted(tr, r)
           new == AddToPoseGraph(tr, r)
           f == r.front
           b == r.back
           done == {i \in tr.unfinished : i = f /\ FrontFinished(r)}
<1>0. /\ new.latest = r /\ new.unfinished = (tr.unfinished \union ToSet(s)) \ done
      /\ new.submaps = IF s = << >> THEN tr.submaps ELSE AppendSubmap(tr, s)
  BY AddToPoseGraphIs
<1>1. /\ b \in SubmapIndices /\ r.count \in 1 .. NumRangeData /\ NumRangeData \in Nat \ {0}
      /\ f # b /\ (f = None \/ f \in SubmapIndices)
  BY NoneIsNone, UploaderAssumption DEF Results, TwoSubmaps
<1>2. \A x, y : /\ << x >> # << >> /\ << x, y >> # << >>
                  /\ Len(<< x >>) = 1 /\ Len(<< x, y >>) = 2 /\ << x, y >>[1] = x
  OBVIOUS
<1>3. s = IF f \in tr.unfinished
          THEN IF b \in tr.unfinished \/ r.count = 1 THEN << f, b >> ELSE << f >>
          ELSE IF b \in tr.unfinished \/ r.count = 1 THEN << b >> ELSE << >>
  BY AcceptedIs
<1>4. Fits(new) <=>
        IF new.submaps = << >> THEN new.unfinished = {}
        ELSE \/ new.submaps = << b >> /\ new.unfinished = {b}
             \/ /\ f # None
                /\ new.submaps = << f, b >>
                /\ new.unfinished = {b} \cup (IF r.count < NumRangeData THEN {f} ELSE {})
  BY <1>0, NoneIsNone DEF Fits
<1>5. AppendSubmap(tr, s) = IF tr.submaps # << >> /\ Last(tr.submaps) = Last(s)
                            THEN tr.submaps ELSE LastTwo(Append(tr.submaps, Last(s)))
  BY DEF AppendSubmap
<1>6. SubmapsFit(tr, s) <=>
        IF Len(s) = 1 THEN tr.submaps = << >> \/ tr.submaps = s
        ELSE tr.submaps # << >> /\ (Last(tr.submaps) = s[1] \/ tr.submaps = s)
  BY DEF SubmapsFit
<1>7. FrontFinished(r) <=> f # None /\ r.count = NumRangeData
  BY DEF FrontFinished
<1>8. CASE tr.submaps = << >>
  <2>1. tr.unfinished = {}
    BY <1>8 DEF Fits
  <2>2. CASE r.count = 1
    <3>1. s = << b >>
      BY <1>3, <2>1, <2>2
    <3>2. new.submaps = << b >> /\ new.unfinished = {b}
      BY <1>0, ShortSequences, <1>2, <1>5, <1>8, <2>1, <3>1
    <3>. QED
      BY ShortSequences, <1>2, <1>4, <1>6, <1>8, <3>1, <3>2
  <2>3. CASE r.count # 1
    <3>1. s = << >>
      BY <1>3, <2>1, <2>3
    <3>2. new.submaps = << >> /\ new.unfinished = {}
      BY <1>0, ShortSequences, <1>2, <1>8, <2>1, <3>1
    <3>. QED
      BY <1>4, <3>1, <3>2
  <2>. QED
    BY <2>2, <2>3
<1>9. CASE tr.submaps # << >>
  <2> DEFINE l == tr.latest
  <2>1. l # None /\ l \in Results /\ Follows(r, l)
    BY <1>9, NoneIsNone DEF Fits, CloudTrajectories
  <2>2. IF l.count < NumRangeData
        THEN r.count = l.count + 1 /\ f = l.front /\ b = l.back
        ELSE r.count = 1 /\ f = l.back /\ b = NextIndex(l.back)
    BY <2>1, FollowsFields
  <2>3. /\ l.back \in SubmapIndices /\ l.count \in 1 .. NumRangeData /\ (l.front # None => l.front # l.back)
    BY <2>1 DEF Results, TwoSubmaps
  <2>4. \/ tr.submaps = << l.back >> /\ tr.unfinished = {l.back}
        \/ /\ l.front # None /\ tr.submaps = << l.front, l.back >>
           /\ tr.unfinished = {l.back} \cup (IF l.count < NumRangeData THEN {l.front} ELSE {})
    BY <1>9 DEF Fits
  <2> HIDE DEF l
  <2>5. CASE l.count < NumRangeData /\ tr.submaps = << l.back >> /\ tr.unfinished = {l.back}
    <3>1. f = l.front /\ b = l.back /\ f \notin tr.unfinished /\ b \in tr.unfinished
      BY <1>1, <2>2, <2>5
    <3>2. s = << b >>
      BY <1>3, <3>1
    <3>3. new.submaps = << b >> /\ new.unfinished = {b}
      BY <1>0, ShortSequences, <1>2, <1>5, <2>5, <3>1, <3>2
    <3>. QED
      BY ShortSequences, <1>2, <1>4, <1>6, <2>5, <3>1, <3>2, <3>3
  <2>6. CASE l.count < NumRangeData /\ tr.submaps # << l.back >>
    <3>1. /\ f = l.front /\ b = l.back /\ f # None /\ tr.submaps = << f, b >>
          /\ tr.unfinished = {b, f} /\ r.count = l.count + 1
      BY <2>2, <2>4, <2>6
    <3>2. s = << f, b >>
      BY <1>3, <3>1
    <3>3. new.submaps = << f, b >>
      BY <1>0, ShortSequences, <1>2, <1>5, <3>1, <3>2
    <3>4. done = IF r.count < NumRangeData THEN {} ELSE {f}
      BY <1>1, <1>7, <3>1
    <3>5. new.unfinished = {b} \cup (IF r.count < NumRangeData THEN {f} ELSE {})
      BY <1>0, <1>1, ShortSequences, <1>2, <3>1, <3>2, <3>4
    <3>. QED
      BY ShortSequences, <1>2, <1>4, <1>6, <3>1, <3>2, <3>3, <3>5
  <2>7. CASE ~ (l.count < NumRangeData)
    <3>1. r.count = 1 /\ f = l.back /\ tr.unfinished = {f} /\ f \in SubmapIndices /\ f # None
      BY <2>2, <2>3, <2>4, <2>7, NoneIsNone
    <3>2. s = << f, b >>
      BY <1>3, <3>1
    <3>3. tr.submaps # << >> /\ Last(tr.submaps) = f /\ tr.submaps \in {<< f >>, << l.front, f >>}
      <4>1. tr.submaps = << f >> \/ tr.submaps = << l.front, f >>
        BY <2>4, <3>1
      <4>2. CASE tr.submaps = << f >>
        BY ShortSequences, <1>2, <4>2
      <4>3. CASE tr.submaps = << l.front, f >>
        BY ShortSequences, <1>2, <4>3
      <4>. QED
        BY <4>1, <4>2, <4>3
    <3>4. new.submaps = << f, b >>
      BY <1>0, <1>1, ShortSequences, <1>2, <1>5, <3>2, <3>3
    <3>5. done = IF r.count < NumRangeData THEN {} ELSE {f}
      BY <1>1, <1>7, <3>1
    <3>6. new.unfinished = {b} \cup (IF r.count < NumRangeData THEN {f} ELSE {})
      BY <1>0, <1>1, ShortSequences, <1>2, <3>1, <3>2, <3>5
    <3>. QED
      BY ShortSequences, <1>2, <1>4, <1>6, <3>1, <3>2, <3>3, <3>4, <3>6
  <2>. QED
    BY <2>4, <2>5, <2>6, <2>7
<1>. QED
  BY <1>8, <1>9

-----------------------------------------------------------------------------
(* A batch in the cloud.                                                   *)

\* What AddSensorData goes on with.
Accs == [cloud : [CloudIds -> CloudTrajectories \cup {None}], failed : BOOLEAN, ok : BOOLEAN]

\* What no item changes, and who may have results.
Kept(c) ==
  \A i \in CloudIds :
    /\ c[i] = None <=> cloud[i] = None
    /\ c[i] # None => /\ c[i].of = cloud[i].of /\ c[i].finished = cloud[i].finished
                      /\ c[i].latest # None => ~ c[i].finished /\ LatestOf(i, c[i])

\* k items have been added.
SafeAfter(acc, k) ==
  /\ ~ acc.failed
  /\ \A i \in CloudIds : acc.cloud[i] # None => Fits(acc.cloud[i]) /\ ~ acc.cloud[i].gap
  /\ acc.ok => \A i \in CloudIds : acc.cloud[i] # None /\ acc.cloud[i].latest # None =>
                 \A q \in Unsent(k + 1) : After(q, acc.cloud[i].latest)

\* The items of the batch and of the queue.
LEMMA BatchTypes ==
  ASSUME TypeOK
  PROVE  /\ Len(batch) \in Nat
         /\ \A k \in 1 .. Len(batch) : batch[k].r \in Results /\ batch[k].id \in CloudIds
         /\ Len(queue) \in Nat
         /\ \A k \in 1 .. Len(queue) : queue[k] \in Results
<1>1. batch \in Seq([r : Results, id : CloudIds]) /\ queue \in Seq(Results)
  BY DEF TypeOK
<1>2. \A k \in 1 .. Len(batch) : batch[k] \in [r : Results, id : CloudIds]
  BY <1>1, ElementOfSeq
<1>3. \A k \in 1 .. Len(queue) : queue[k] \in Results
  BY <1>1, ElementOfSeq
<1>. QED
  BY <1>1, <1>2, <1>3, LenProperties

\* What comes next are results.
LEMMA UnsentAreResults ==
  ASSUME TypeOK, KnownInv, NEW k \in Nat \ {0}
  PROVE  \A q \in Unsent(k) : q \in Results
<1>1. \A q \in Upcoming : q \in Results
  <2>1. CASE queue # << >>
    <3>1. 1 \in 1 .. Len(queue)
      BY <2>1, EmptySeq DEF TypeOK
    <3>. QED
      BY <2>1, <3>1, BatchTypes DEF Upcoming
  <2>2. CASE queue = << >>
    BY <2>2, NextResultIs DEF Upcoming, KnownInv
  <2>. QED
    BY <2>1, <2>2
<1>2. k <= Len(batch) => k \in 1 .. Len(batch)
  BY BatchTypes
<1>. QED
  BY <1>1, <1>2, BatchTypes DEF Unsent

\* What comes after r is of no earlier trajectory.
LEMMA AfterIsLater ==
  ASSUME NEW r \in Results, NEW q \in Results, After(q, r)
  PROVE  q.t >= r.t /\ q.t \in Nat /\ r.t \in Nat /\ (~ (q.t > r.t) => q.t = r.t /\ Follows(q, r))
<1>1. q.t \in Nat /\ r.t \in Nat
  BY UploaderAssumption DEF Results, Trajectories
<1>. QED
  BY <1>1, FollowsFields DEF After

\* An item goes to the trajectory that has the latest result of its trajectory, or is the
\* first of it.
LEMMA ItemAdded ==
  ASSUME IInv, NEW k \in 1 .. Len(batch), NEW acc \in Accs, Kept(acc.cloud)
  PROVE  /\ AddSensorData(acc, batch[k]) \in Accs
         /\ Kept(AddSensorData(acc, batch[k]).cloud)
         /\ SafeAfter(acc, k - 1) => SafeAfter(AddSensorData(acc, batch[k]), k)
<1> DEFINE item == batch[k]
           tr == acc.cloud[item.id]
           new == AddSensorData(acc, item)
<1>0. /\ TypeOK /\ BatchInv /\ KnownInv /\ SentInv
  BY DEF IInv
<1>1. /\ item.r \in Results /\ item.id \in CloudIds /\ item.id = uplink[item.r.t]
      /\ Past(item.r) /\ TwoSubmaps(item.r)
      /\ \A q \in Unsent(k + 1) : q \in Results /\ After(q, item.r)
      /\ Unsent(k) = {item.r}
  BY <1>0, BatchTypes, UnsentAreResults DEF BatchInv, SentInv, Unsent
<1>2. /\ acc.cloud \in [CloudIds -> CloudTrajectories \cup {None}]
      /\ acc.failed \in BOOLEAN /\ acc.ok \in BOOLEAN
  BY DEF Accs
<1>3. ASSUME NEW i \in CloudIds, acc.cloud[i] # None, acc.cloud[i].latest # None,
             SafeAfter(acc, k - 1), acc.ok,
             i = item.id => tr.of # item.r.t \/ tr.finished
      PROVE  \A q \in Unsent(k + 1) : After(q, acc.cloud[i].latest)
  <2> DEFINE l == acc.cloud[i].latest
  <2>1. l \in Results
    BY <1>2, <1>3 DEF CloudTrajectories
  <2>2. After(item.r, l)
    BY <1>1, <1>3 DEF SafeAfter
  <2>3. l.t = acc.cloud[i].of /\ uplink[l.t] = i /\ ~ acc.cloud[i].finished
    BY <1>3 DEF Kept, LatestOf
  <2>4. item.r.t # l.t
    BY <1>1, <1>3, <2>3
  <2> HIDE DEF l
  <2>5. item.r.t > l.t
    BY <1>1, <2>1, <2>2, <2>4, AfterIsLater
  <2>6. ASSUME NEW q \in Unsent(k + 1) PROVE q.t > l.t
    <3>1. q.t >= item.r.t /\ q.t \in Nat /\ item.r.t \in Nat
      BY <1>1, AfterIsLater
    <3>2. l.t \in Nat
      BY <2>1, UploaderAssumption DEF Results, Trajectories
    <3>. QED
      BY <2>5, <3>1, <3>2
  <2>. QED
    BY <2>6 DEF After, l
<1>4. CASE ~ acc.ok \/ (tr # None /\ (tr.of # item.r.t \/ tr.finished))
  <2>1. new = acc
    BY <1>2, <1>4 DEF AddSensorData
  <2>2. ASSUME SafeAfter(acc, k - 1) PROVE SafeAfter(acc, k)
    BY <1>2, <1>3, <1>4, <2>2 DEF SafeAfter
  <2>. QED
    BY <2>1, <2>2
<1>5. CASE acc.ok /\ tr = None
  <2>1. new = [acc EXCEPT !.ok = FALSE]
    BY <1>5 DEF AddSensorData
  <2>2. new \in Accs /\ new.cloud = acc.cloud /\ new.failed = acc.failed /\ ~ new.ok
    BY <2>1 DEF Accs
  <2>. QED
    BY <2>2 DEF SafeAfter
<1>6. CASE acc.ok /\ tr # None /\ tr.of = item.r.t /\ ~ tr.finished
  <2> DEFINE s == Accepted(tr, item.r)
             after == AddToPoseGraph(tr, item.r)
             fails == s # << >> /\ ~ SubmapsFit(tr, s)
  <2>1. tr \in CloudTrajectories
    BY <1>1, <1>2, <1>6
  <2>2. /\ after \in CloudTrajectories
        /\ after.of = tr.of /\ after.finished = tr.finished /\ after.latest = item.r
        /\ ~ tr.gap /\ (tr.latest = None \/ Follows(item.r, tr.latest)) => ~ after.gap
    BY <1>1, <2>1, AddToPoseGraphIs
  <2>3. new = [acc EXCEPT !.cloud[item.id] = after, !.failed = @ \/ fails]
    BY <1>6 DEF AddSensorData
  <2>4. after # None /\ item.r # None
    BY <1>1, <2>2, NoneIsNone
  <2>5. LatestOf(item.id, after) /\ ~ after.finished
    BY <1>1, <1>6, <2>2 DEF LatestOf
  <2>12. (acc.failed \/ fails) \in BOOLEAN
    BY <1>2
  <2> HIDE DEF tr, s, after, fails
  <2>6. /\ new.cloud = [acc.cloud EXCEPT ![item.id] = after]
        /\ new.failed = (acc.failed \/ fails) /\ new.ok = acc.ok
        /\ new \in Accs
    <3>1. [acc.cloud EXCEPT ![item.id] = after] \in [CloudIds -> CloudTrajectories \cup {None}]
      BY <1>1, <1>2, <2>2
    <3>2. new = [cloud |-> [acc.cloud EXCEPT ![item.id] = after], failed |-> acc.failed \/ fails,
                 ok |-> acc.ok]
      BY <2>3 DEF Accs
    <3>. QED
      BY <1>2, <2>12, <3>1, <3>2 DEF Accs
  <2> HIDE DEF new
  <2>7. \A i \in CloudIds : new.cloud[i] = IF i = item.id THEN after ELSE acc.cloud[i]
    BY <1>1, <1>2, <2>6
  <2>8. Kept(new.cloud)
    BY <1>1, <1>6, <2>2, <2>4, <2>5, <2>7 DEF Kept, tr
  <2>9. ASSUME SafeAfter(acc, k - 1) PROVE SafeAfter(new, k)
    <3>1. Fits(tr) /\ ~ tr.gap /\ ~ acc.failed
      BY <1>1, <1>6, <2>9 DEF SafeAfter, tr
    <3>2. tr.latest # None => TwoSubmaps(tr.latest) /\ Follows(item.r, tr.latest)
      <4> SUFFICES ASSUME tr.latest # None PROVE TwoSubmaps(tr.latest) /\ Follows(item.r, tr.latest)
        OBVIOUS
      <4>1. tr.latest \in Results /\ LatestOf(item.id, tr)
        BY <1>1, <1>6, <2>1 DEF CloudTrajectories, Kept, tr
      <4>2. After(item.r, tr.latest)
        BY <1>1, <1>6, <2>9 DEF SafeAfter, tr
      <4>3. item.r.t = tr.latest.t
        BY <1>6, <4>1 DEF LatestOf
      <4>4. item.r.t \in Nat
        BY <1>1, UploaderAssumption DEF Results, Trajectories
      <4>. QED
        BY <1>1, <4>1, <4>2, <4>3, <4>4 DEF LatestOf, After
    <3>3. ~ fails /\ Fits(after)
      BY <1>1, <2>1, <3>1, <3>2, FitsKept DEF fails, s, after
    <3>4. ~ after.gap
      BY <2>2, <3>1, <3>2
    <3>5. \A i \in CloudIds : new.cloud[i] # None => Fits(new.cloud[i]) /\ ~ new.cloud[i].gap
      BY <2>7, <2>9, <3>3, <3>4 DEF SafeAfter
    <3>6. ASSUME NEW i \in CloudIds, new.cloud[i] # None, new.cloud[i].latest # None
          PROVE  \A q \in Unsent(k + 1) : After(q, new.cloud[i].latest)
      <4>1. CASE i = item.id
        BY <1>1, <2>2, <2>7, <4>1
      <4>2. CASE i # item.id
        BY <1>3, <1>6, <2>7, <2>9, <3>6, <4>2
      <4>. QED
        BY <4>1, <4>2
    <3>. QED
      BY <2>6, <3>1, <3>3, <3>5, <3>6 DEF SafeAfter
  <2>. QED
    BY <2>6, <2>8, <2>9 DEF new
<1>. QED
  BY <1>2, <1>4, <1>5, <1>6

-----------------------------------------------------------------------------
(* All items of a batch: by a least number of items after which it is not so. *)

Run(f, n) ==
  f = [m \in 0 .. n |-> IF m = 0 THEN [cloud |-> cloud, failed |-> failed, ok |-> TRUE]
                                 ELSE AddSensorData(f[m - 1], batch[m])]

\* The states that a batch goes through exist, item by item.
LEMMA RunExists ==
  ASSUME NEW n \in Nat
  PROVE  \E f : Run(f, n)
<1> DEFINE T == {m \in Nat : ~ \E f : Run(f, m)}
<1> SUFFICES ASSUME T # {} PROVE FALSE
  OBVIOUS
<1>1. PICK m \in T : \A j \in T : m <= j
  BY LeastNat
<1>2. m # 0
  <2>1. Run([j \in 0 .. 0 |-> [cloud |-> cloud, failed |-> failed, ok |-> TRUE]], 0)
    BY DEF Run
  <2>. QED
    BY <1>1, <2>1
<1>3. m - 1 \in Nat /\ m - 1 \notin T
  BY <1>1, <1>2
<1>4. PICK f : Run(f, m - 1)
  BY <1>3
<1> DEFINE g == [j \in 0 .. m |-> IF j = m THEN AddSensorData(f[m - 1], batch[m]) ELSE f[j]]
<1>5. f = [j \in 0 .. m - 1 |-> IF j = 0 THEN [cloud |-> cloud, failed |-> failed, ok |-> TRUE]
                                 ELSE AddSensorData(f[j - 1], batch[j])]
  BY <1>4 DEF Run
<1>6. \A j \in 0 .. m - 1 : f[j] = IF j = 0 THEN [cloud |-> cloud, failed |-> failed, ok |-> TRUE]
                                    ELSE AddSensorData(f[j - 1], batch[j])
  BY <1>5, Zenon
<1>7. \A j \in 0 .. m : g[j] = IF j = 0 THEN [cloud |-> cloud, failed |-> failed, ok |-> TRUE]
                                ELSE AddSensorData(g[j - 1], batch[j])
  <2> SUFFICES ASSUME NEW j \in 0 .. m
               PROVE  g[j] = IF j = 0 THEN [cloud |-> cloud, failed |-> failed, ok |-> TRUE]
                                      ELSE AddSensorData(g[j - 1], batch[j])
    OBVIOUS
  <2>0. m \in Nat
    BY <1>1
  <2>1. CASE j = m
    <3>1. g[j] = AddSensorData(f[m - 1], batch[m]) /\ g[j - 1] = f[m - 1]
      BY <1>2, <2>0, <2>1
    <3>. QED
      BY <1>2, <2>1, <3>1
  <2>2. CASE j # m
    <3>1. j \in 0 .. m - 1 /\ g[j] = f[j] /\ (j # 0 => g[j - 1] = f[j - 1])
      BY <2>0, <2>2
    <3>. QED
      BY <1>6, <3>1
  <2>. QED
    BY <2>1, <2>2
<1>8. Run(g, m)
  <2> HIDE DEF g
  <2>1. DOMAIN g = 0 .. m /\ g = [j \in 0 .. m |-> g[j]]
    BY DEF g
  <2>. QED
    BY <1>7, <2>1 DEF Run
<1>. QED
  BY <1>1, <1>8

\* A whole batch keeps what each item keeps.
LEMMA BatchAdded ==
  ASSUME IInv
  PROVE  LET got == AddSensorDataBatch(batch)
         IN  /\ got \in Accs /\ Kept(got.cloud)
             /\ SyncInv /\ Synced /\ FitsInv /\ NothingLeftOut /\ NoCheckFails
                  => SafeAfter(got, Len(batch))
<1>0. TypeOK /\ Len(batch) \in Nat
  BY BatchTypes DEF IInv
<1>1. PICK f : Run(f, Len(batch))
  BY <1>0, RunExists
<1> DEFINE g == CHOOSE h : Run(h, Len(batch))
           first == [cloud |-> cloud, failed |-> failed, ok |-> TRUE]
           Safe == SyncInv /\ Synced /\ FitsInv /\ NothingLeftOut /\ NoCheckFails
<1>2. Run(g, Len(batch))
  BY <1>1
<1>3. AddSensorDataBatch(batch) = g[Len(batch)]
  BY DEF AddSensorDataBatch, Run
<1> HIDE DEF g, Safe
<1>4. /\ g[0] = first
      /\ \A m \in 1 .. Len(batch) : g[m] = AddSensorData(g[m - 1], batch[m])
  <2>1. g = [m \in 0 .. Len(batch) |-> IF m = 0 THEN first ELSE AddSensorData(g[m - 1], batch[m])]
    BY <1>2 DEF Run
  <2>2. \A m \in 0 .. Len(batch) : g[m] = IF m = 0 THEN first ELSE AddSensorData(g[m - 1], batch[m])
    BY <2>1, Zenon
  <2>3. 0 \in 0 .. Len(batch) /\ \A m \in 1 .. Len(batch) : m \in 0 .. Len(batch) /\ m # 0
    BY <1>0
  <2>. QED
    BY <2>2, <2>3, Zenon
<1> DEFINE Good(m) == g[m] \in Accs /\ Kept(g[m].cloud) /\ (Safe => SafeAfter(g[m], m))
           T == {m \in 0 .. Len(batch) : ~ Good(m)}
<1>5. Good(0)
  <2>1. first \in Accs /\ first.cloud = cloud /\ first.failed = failed /\ first.ok = TRUE
    BY <1>0 DEF TypeOK, Accs
  <2>2. Kept(cloud)
    BY DEF IInv, FinishedInv, LatestInv, Kept
  <2>3. Safe => SafeAfter(first, 0)
    <3>1. 0 + 1 = 1
      OBVIOUS
    <3>. QED
      BY <2>1, <3>1 DEF Safe, SyncInv, FitsInv, NothingLeftOut, NoCheckFails, SafeAfter
  <2>. QED
    BY <1>4, <2>1, <2>2, <2>3
<1>6. ASSUME NEW m \in 1 .. Len(batch), Good(m - 1) PROVE Good(m)
  BY <1>4, <1>6, ItemAdded
<1>7. T = {}
  <2> SUFFICES ASSUME T # {} PROVE FALSE
    OBVIOUS
  <2>1. T \in SUBSET Nat
    OBVIOUS
  <2>2. PICK m \in T : \A j \in T : m <= j
    BY <2>1, LeastNat
  <2> HIDE DEF Good
  <2>3. m \in 0 .. Len(batch) /\ ~ Good(m) /\ \A j \in 0 .. Len(batch) : j < m => Good(j)
    BY <1>0, <2>2
  <2>4. m \in 1 .. Len(batch)
    BY <1>0, <1>5, <2>3
  <2>5. Good(m - 1)
    BY <1>0, <2>3, <2>4
  <2>. QED
    BY <1>6, <2>3, <2>4, <2>5
<1>8. Good(Len(batch))
  BY <1>0, <1>7
<1>. QED
  BY <1>3, <1>8 DEF Safe

-----------------------------------------------------------------------------
(* What steps do to the cloud.                                             *)

\* A new trajectory of the cloud has no results.
LEMMA NewTrajectoryIs ==
  ASSUME NEW t \in Trajectories
  PROVE  /\ NewTrajectory(t) \in CloudTrajectories /\ NewTrajectory(t) # None
         /\ NewTrajectory(t).latest = None /\ ~ NewTrajectory(t).finished
         /\ ~ NewTrajectory(t).gap /\ Fits(NewTrajectory(t))
<1>1. << >> \in Seq(SubmapIndices) /\ {} \in SUBSET SubmapIndices
  BY EmptySeq
<1>2. NewTrajectory(t) \in CloudTrajectories
  BY <1>1 DEF NewTrajectory, CloudTrajectories
<1>. QED
  BY <1>2, NoneIsNone DEF NewTrajectory, Fits

\* A registration is not heard of, or gives a free number to the trajectory, while
\* the cloud forgets what is not named any more.
Registered(t, j) ==
  /\ net # "dead"
  /\ cloud[j] = None
  /\ uplink' = [uplink EXCEPT ![t] = j]
  /\ cloud' \in [CloudIds -> CloudTrajectories \cup {None}]
  /\ cloud'[j] = NewTrajectory(t)
  /\ \A i \in CloudIds \ {j} :
       /\ cloud'[i] # None => cloud'[i] = cloud[i] /\ \E u \in Trajectories : uplink'[u] = i

\* A registration does nothing, or it names a number that was free.
LEMMA RegisterTrajectoryIs ==
  ASSUME TypeOK, CloudInv, NEW t \in Trajectories, NEW o \in Outcomes, RegisterTrajectory(t, o)
  PROVE  \/ UNCHANGED << cloud, uplink >>
         \/ \E j \in CloudIds : Registered(t, j)
<1>1. CASE o # "answered"
  BY <1>1 DEF RegisterTrajectory
<1>2. CASE o = "answered"
  <2> DEFINE j == NextCloudId
             c == [cloud EXCEPT ![j] = NewTrajectory(t)]
  <2>1. net # "dead"
    BY <1>2 DEF Outcomes
  <2>2. j \in CloudIds /\ cloud[j] = None
    BY FreeId
  <2>3. uplink' = [uplink EXCEPT ![t] = j] /\ cloud' = Named(c, uplink')
    BY <1>2 DEF RegisterTrajectory
  <2> HIDE DEF j
  <2>4. uplink'[t] = j
    BY <2>3 DEF TypeOK
  <2>5. c \in [CloudIds -> CloudTrajectories \cup {None}]
        /\ \A i \in CloudIds : c[i] = IF i = j THEN NewTrajectory(t) ELSE cloud[i]
    BY <2>2, NewTrajectoryIs DEF TypeOK
  <2> HIDE DEF c
  <2>6. cloud' \in [CloudIds -> CloudTrajectories \cup {None}]
        /\ \A i \in CloudIds : cloud'[i] = IF \E u \in Trajectories : uplink'[u] = i THEN c[i] ELSE None
    BY <2>3, <2>5 DEF Named
  <2>7. Registered(t, j)
    BY <2>1, <2>2, <2>3, <2>4, <2>5, <2>6 DEF Registered
  <2>. QED
    BY <2>2, <2>7
<1>. QED
  BY <1>1, <1>2

\* A call of client.Write.
LEMMA WriteIs ==
  ASSUME IInv, Write
  PROVE  /\ cloud' \in [CloudIds -> CloudTrajectories \cup {None}] /\ failed' \in BOOLEAN
         /\ Kept(cloud')
         /\ pc' \in {"loop", "connect"} /\ batch' = << >> /\ pc = "write"
         /\ UNCHANGED << carVars, known, uplink, todo, server, net >>
         /\ SyncInv /\ FitsInv /\ NothingLeftOut /\ NoCheckFails =>
              /\ FitsInv' /\ NothingLeftOut' /\ NoCheckFails'
              /\ pc' = "loop" => \A i \in CloudIds : cloud'[i] # None /\ cloud'[i].latest # None =>
                                   \A q \in Upcoming : After(q, cloud'[i].latest)
<1> DEFINE got == AddSensorDataBatch(batch)
<1>0. TypeOK /\ Len(batch) \in Nat
  BY BatchTypes DEF IInv
<1>1. got \in Accs /\ Kept(got.cloud)
  BY BatchAdded
<1>2. /\ pc = "write" /\ batch' = << >> /\ pc' \in {"loop", "connect"}
      /\ UNCHANGED << carVars, known, uplink, todo, server, net >>
  BY DEF Write
<1>3. SyncInv /\ FitsInv /\ NothingLeftOut /\ NoCheckFails => SafeAfter(got, Len(batch))
  BY <1>2, BatchAdded DEF Synced
<1> HIDE DEF got
<1>4. \/ UNCHANGED cloudVars /\ pc' = "connect"
      \/ cloud' = got.cloud /\ failed' = got.failed /\ (pc' = "loop" => got.ok)
  BY DEF Write, got
<1>5. CASE UNCHANGED cloudVars /\ pc' = "connect"
  <2>1. cloud' = cloud /\ failed' = failed /\ pc' # "loop"
    BY <1>5 DEF cloudVars
  <2>2. Kept(cloud')
    BY <2>1 DEF IInv, FinishedInv, LatestInv, Kept
  <2>. QED
    BY <1>0, <1>2, <2>1, <2>2 DEF TypeOK, FitsInv, NothingLeftOut, NoCheckFails
<1>6. CASE cloud' = got.cloud /\ failed' = got.failed /\ (pc' = "loop" => got.ok)
  <2>1. cloud' \in [CloudIds -> CloudTrajectories \cup {None}] /\ failed' \in BOOLEAN /\ Kept(cloud')
    BY <1>1, <1>6 DEF Accs
  <2>2. Unsent(Len(batch) + 1) = Upcoming
    BY <1>0 DEF Unsent
  <2>. QED
    BY <1>2, <1>3, <1>6, <2>1, <2>2 DEF SafeAfter, FitsInv, NothingLeftOut, NoCheckFails
<1>. QED
  BY <1>4, <1>5, <1>6

\* FinishTrajectory: a trajectory of the cloud may be finished, which has then no results.
FinishedAt(i) ==
  /\ active # None /\ uplink[active.t] = i /\ i \in CloudIds
  /\ cloud[i] # None
  /\ cloud' \in [CloudIds -> CloudTrajectories \cup {None}]
  /\ \A j \in CloudIds \ {i} : cloud'[j] = cloud[j]
  /\ cloud'[i] # None /\ cloud'[i].finished /\ cloud'[i].latest = None /\ Fits(cloud'[i])
  /\ cloud'[i].gap = cloud[i].gap
  /\ failed' = (failed \/ cloud[i].finished)

\* FinishTrajectory finishes the trajectory of the cloud that is named, or none.
LEMMA FinishTrajectoryIs ==
  ASSUME TypeOK, FinishTrajectory
  PROVE  /\ active # None /\ active' = None /\ server = "up"
         /\ UNCHANGED << adding, starting, queue, uploaderVars, server, net >>
         /\ UNCHANGED cloudVars \/ \E i \in CloudIds : FinishedAt(i)
<1>1. /\ active # None /\ active' = None /\ server = "up"
      /\ UNCHANGED << adding, starting, queue, uploaderVars, server, net >>
  BY DEF FinishTrajectory
<1> DEFINE i == uplink[active.t]
<1>2. active.t \in Trajectories
  BY <1>1 DEF TypeOK, Insertions
<1>3. i = None \/ i \in CloudIds
  BY <1>2 DEF TypeOK
<1>4. \/ UNCHANGED cloudVars
      \/ /\ i # None /\ cloud[i] # None
         /\ cloud' = [cloud EXCEPT ![i] = [NewTrajectory(@.of) EXCEPT
                                             !.finished = TRUE, !.gap = cloud[i].gap]]
         /\ failed' = (failed \/ cloud[i].finished)
  BY DEF FinishTrajectory
<1>5. CASE /\ i # None /\ cloud[i] # None
           /\ cloud' = [cloud EXCEPT ![i] = [NewTrajectory(@.of) EXCEPT
                                               !.finished = TRUE, !.gap = cloud[i].gap]]
           /\ failed' = (failed \/ cloud[i].finished)
  <2>1. i \in CloudIds
    BY <1>3, <1>5
  <2>2. cloud[i] \in CloudTrajectories
    BY <1>5, <2>1 DEF TypeOK
  <2>3. cloud[i].of \in Trajectories /\ cloud[i].gap \in BOOLEAN
    BY <2>2 DEF CloudTrajectories
  <2> DEFINE n == NewTrajectory(cloud[i].of)
             m == [n EXCEPT !.finished = TRUE, !.gap = cloud[i].gap]
  <2>4. n \in CloudTrajectories /\ n.latest = None /\ n.submaps = << >> /\ n.unfinished = {}
    BY <2>3, NewTrajectoryIs DEF NewTrajectory
  <2> HIDE DEF n
  <2>5. /\ m \in CloudTrajectories /\ m.finished /\ m.latest = None /\ m.submaps = << >>
        /\ m.unfinished = {} /\ m.gap = cloud[i].gap
    BY <2>3, <2>4 DEF CloudTrajectories
  <2>6. m # None /\ Fits(m)
    BY <2>5, NoneIsNone DEF Fits
  <2>7. cloud' = [cloud EXCEPT ![i] = m]
    BY <1>5, <2>1 DEF n, TypeOK
  <2> HIDE DEF m, i
  <2>8. cloud' \in [CloudIds -> CloudTrajectories \cup {None}] /\ cloud'[i] = m
        /\ \A j \in CloudIds \ {i} : cloud'[j] = cloud[j]
    BY <2>1, <2>5, <2>7 DEF TypeOK
  <2>9. FinishedAt(i)
    BY <1>1, <1>5, <2>1, <2>5, <2>6, <2>8 DEF FinishedAt, i
  <2>. QED
    BY <1>1, <2>1, <2>9
<1>. QED
  BY <1>1, <1>4, <1>5

-----------------------------------------------------------------------------
(* The steps keep the types.                                               *)

\* The queue without its first result ...
LEMMA QueueTakes ==
  ASSUME TypeOK, queue # << >>
  PROVE  /\ Tail(queue) \in Seq(Results) /\ Len(Tail(queue)) = Len(queue) - 1
         /\ Head(queue) = queue[1] /\ queue[1] \in Results
         /\ \A k \in 1 .. Len(Tail(queue)) : Tail(queue)[k] = queue[k + 1]
<1>1. queue \in Seq(Results)
  BY DEF TypeOK
<1>2. 1 \in 1 .. Len(queue)
  BY <1>1, EmptySeq
<1>. QED
  BY <1>1, <1>2, HeadTailProperties, BatchTypes

\* ... and with one more.
LEMMA QueueGets ==
  ASSUME TypeOK, NEW r \in Results
  PROVE  /\ Append(queue, r) \in Seq(Results) /\ Len(Append(queue, r)) = Len(queue) + 1
         /\ Append(queue, r)[Len(queue) + 1] = r
         /\ \A k \in 1 .. Len(queue) : Append(queue, r)[k] = queue[k]
         /\ Append(queue, r) # << >>
BY AppendProperties DEF TypeOK

\* The batch with one more item.
LEMMA BatchGets ==
  ASSUME TypeOK, NEW r \in Results, NEW id \in CloudIds
  PROVE  LET b == Append(batch, [r |-> r, id |-> id])
         IN  /\ b \in Seq([r : Results, id : CloudIds]) /\ Len(b) = Len(batch) + 1
             /\ b[Len(batch) + 1].r = r /\ b[Len(batch) + 1].id = id
             /\ \A k \in 1 .. Len(batch) : b[k] = batch[k]
             /\ b # << >>
<1> DEFINE x == [r |-> r, id |-> id]
<1>1. x \in [r : Results, id : CloudIds] /\ x.r = r /\ x.id = id
  OBVIOUS
<1> HIDE DEF x
<1>2. batch \in Seq([r : Results, id : CloudIds])
  BY DEF TypeOK
<1>3. /\ Append(batch, x) \in Seq([r : Results, id : CloudIds]) /\ Append(batch, x) # << >>
      /\ Len(Append(batch, x)) = Len(batch) + 1 /\ Append(batch, x)[Len(batch) + 1] = x
      /\ \A k \in 1 .. Len(batch) : Append(batch, x)[k] = batch[k]
  BY <1>1, <1>2, AppendProperties
<1>. QED
  BY <1>1, <1>3 DEF x

\* Pop finds a result and its trajectory's number, or starts a recovery.
LEMMA PopIs ==
  ASSUME TypeOK, Pop
  PROVE  /\ pc = "pop" /\ queue # << >> /\ queue' = Tail(queue) /\ queue[1] \in Results
         /\ UNCHANGED << active, adding, starting, known, uplink, todo, server, net, cloudVars >>
         /\ \/ batch' = << >> /\ pc' = "connect"
            \/ /\ uplink[queue[1].t] \in CloudIds
               /\ batch' = Append(batch, [r |-> queue[1], id |-> uplink[queue[1].t]])
               /\ pc' = IF Len(batch') = BatchSize THEN "write" ELSE "loop"
<1>1. /\ pc = "pop" /\ queue # << >> /\ queue' = Tail(queue)
      /\ UNCHANGED << active, adding, starting, known, uplink, todo, server, net, cloudVars >>
      /\ \/ batch' = << >> /\ pc' = "connect"
         \/ /\ uplink[Head(queue).t] # None
            /\ batch' = Append(batch, [r |-> Head(queue), id |-> uplink[Head(queue).t]])
            /\ pc' = IF Len(batch') = BatchSize THEN "write" ELSE "loop"
  BY DEF Pop, TranslateTrajectoryId
<1>2. Head(queue) = queue[1] /\ queue[1] \in Results
  BY <1>1, QueueTakes
<1>3. queue[1].t \in Trajectories
  BY <1>2 DEF Results
<1>4. uplink[queue[1].t] \in CloudIds \cup {None}
  BY <1>3 DEF TypeOK
<1>. QED
  BY <1>1, <1>2, <1>4

\* Every step keeps the types.
LEMMA StepType ==
  ASSUME IInv, [Next]_vars
  PROVE  TypeOK'
<1>0. TypeOK /\ BatchInv /\ KnownInv /\ CloudInv
  BY DEF IInv
<1> USE DEF carVars, uploaderVars, cloudVars
<1>1. ASSUME NEW t \in Trajectories, AddTrajectory(t) PROVE TypeOK'
  BY <1>0, <1>1 DEF AddTrajectory, TypeOK
<1>2. CASE AddTrajectoryReturns
  <2>1. adding \in Trajectories
    BY <1>0, <1>2 DEF AddTrajectoryReturns, TypeOK
  <2>2. \/ UNCHANGED << cloud, uplink >>
        \/ \E j \in CloudIds : Registered(adding, j)
    BY <1>0, <1>2, <2>1, RegisterTrajectoryIs DEF AddTrajectoryReturns
  <2>3. cloud' \in [CloudIds -> CloudTrajectories \cup {None}]
        /\ uplink' \in [Trajectories -> CloudIds \cup {None}]
    BY <1>0, <2>2 DEF TypeOK, Registered
  <2>4. active' \in Insertions
    BY <1>2, <2>1, UploaderAssumption DEF AddTrajectoryReturns, Insertions
  <2>. QED
    BY <1>0, <1>2, <2>3, <2>4 DEF AddTrajectoryReturns, TypeOK
<1>3. CASE OnLocalSlamResult
  <2>1. active # None /\ (active.two => active.count > 0) /\ Len(queue) < MaxQueue
    BY <1>0, <1>3 DEF OnLocalSlamResult, KnownInv
  <2>2. /\ active' = InsertRangeData(active) /\ queue' = Append(queue, NextResult)
        /\ starting' = IF FrontFinished(NextResult) THEN NextIndex(starting) ELSE starting
        /\ UNCHANGED << adding, uploaderVars, server, net, cloudVars >>
    BY <1>3 DEF OnLocalSlamResult, NextResult
  <2>3. active' \in Insertions /\ NextResult \in Results
    BY <1>0, <2>1, <2>2, NextResultIs
  <2>4. starting' \in SubmapIndices
    BY <1>0, <2>2, IndexGoesOn DEF TypeOK
  <2>5. queue' \in Seq(Results) /\ Len(queue') <= MaxQueue
    BY <1>0, <2>1, <2>2, <2>3, QueueGets, BatchTypes, UploaderAssumption
  <2>. QED
    BY <1>0, <2>2, <2>3, <2>4, <2>5 DEF TypeOK
<1>4. CASE FinishTrajectory
  <2>1. cloud' \in [CloudIds -> CloudTrajectories \cup {None}] /\ failed' \in BOOLEAN
    BY <1>0, <1>4, FinishTrajectoryIs DEF FinishedAt, TypeOK
  <2>. QED
    BY <1>0, <1>4, <2>1, FinishTrajectoryIs DEF TypeOK
<1>5. CASE Shutdown \/ Joined
  BY <1>0, <1>5 DEF Shutdown, Joined, TypeOK
<1>6. CASE Loop \/ PopTimesOut \/ Connect \/ ConnectTimesOut \/ Skip \/ PeekTimesOut
  BY <1>0, <1>6 DEF Loop, PopTimesOut, Connect, ConnectTimesOut, Skip, PeekTimesOut, TypeOK
<1>7. CASE Pop
  <2>1. queue' \in Seq(Results) /\ Len(queue') <= MaxQueue
    <3>1. queue # << >> /\ queue' = Tail(queue)
      BY <1>0, <1>7, PopIs
    <3>2. Len(queue) \in Nat /\ Len(queue) <= MaxQueue /\ MaxQueue \in Nat
      BY <1>0, BatchTypes, UploaderAssumption DEF TypeOK
    <3>3. Tail(queue) \in Seq(Results) /\ Len(Tail(queue)) = Len(queue) - 1
      BY <1>0, <3>1, QueueTakes
    <3>. QED
      BY <3>1, <3>2, <3>3
  <2>2. batch' \in Seq([r : Results, id : CloudIds]) /\ Len(batch') <= BatchSize
    <3>1. Len(batch) < BatchSize
      BY <1>0, <1>7, PopIs DEF BatchInv
    <3>2. << >> \in Seq([r : Results, id : CloudIds]) /\ Len(<< >>) = 0
      OBVIOUS
    <3>3. Len(batch) \in Nat /\ BatchSize \in Nat \ {0}
      BY <1>0, BatchTypes, UploaderAssumption
    <3>4. CASE batch' = << >>
      BY <3>2, <3>3, <3>4
    <3>5. CASE batch' # << >>
      <4>1. /\ queue[1] \in Results /\ uplink[queue[1].t] \in CloudIds
            /\ batch' = Append(batch, [r |-> queue[1], id |-> uplink[queue[1].t]])
        BY <1>0, <1>7, <3>5, PopIs
      <4>2. batch' \in Seq([r : Results, id : CloudIds]) /\ Len(batch') = Len(batch) + 1
        BY <1>0, <4>1, BatchGets
      <4>. QED
        BY <3>1, <3>3, <4>2
    <3>. QED
      BY <3>4, <3>5
  <2>3. pc' \in {"connect", "write", "loop"}
    BY <1>0, <1>7, PopIs
  <2>. QED
    BY <1>0, <1>7, <2>1, <2>2, <2>3, PopIs DEF TypeOK
<1>8. CASE Write
  <2>1. /\ cloud' \in [CloudIds -> CloudTrajectories \cup {None}] /\ failed' \in BOOLEAN
        /\ pc' \in {"loop", "connect"} /\ batch' = << >>
        /\ UNCHANGED << carVars, known, uplink, todo, server, net >>
    BY <1>8, WriteIs
  <2>2. << >> \in Seq([r : Results, id : CloudIds]) /\ Len(<< >>) <= BatchSize
    BY UploaderAssumption
  <2>. QED
    BY <1>0, <2>1, <2>2 DEF TypeOK
<1>9. CASE SkipResult
  <2>1. queue' \in Seq(Results) /\ Len(queue') <= MaxQueue
    BY <1>0, <1>9, QueueTakes, BatchTypes, UploaderAssumption DEF SkipResult, TypeOK
  <2>. QED
    BY <1>0, <1>9, <2>1 DEF SkipResult, TypeOK
<1>10. CASE NewSubmap
  <2>1. uplink' \in [Trajectories -> CloudIds \cup {None}]
    BY <1>10 DEF NewSubmap
  <2>2. cloud' \in [CloudIds -> CloudTrajectories \cup {None}]
    BY <1>0, <1>10 DEF NewSubmap, Named, TypeOK
  <2>. QED
    BY <1>0, <1>10, <2>1, <2>2 DEF NewSubmap, TypeOK
<1>11. CASE Register
  <2>1. todo \in SUBSET Nat /\ todo # {} /\ todo \subseteq Trajectories
    BY <1>0, <1>11, UploaderAssumption DEF Register, TypeOK, Trajectories
  <2>2. Min(todo) \in Trajectories
    BY <2>1, MinIsMember
  <2>3. \/ UNCHANGED << cloud, uplink >>
        \/ \E j \in CloudIds : Registered(Min(todo), j)
    BY <1>0, <1>11, <2>2, RegisterTrajectoryIs DEF Register
  <2>4. cloud' \in [CloudIds -> CloudTrajectories \cup {None}]
        /\ uplink' \in [Trajectories -> CloudIds \cup {None}]
    BY <1>0, <2>2, <2>3 DEF TypeOK, Registered
  <2>5. todo' \subseteq todo
    BY <1>11 DEF Register
  <2>. QED
    BY <1>0, <1>11, <2>4, <2>5 DEF Register, TypeOK
<1>12. CASE NetworkFails \/ NetworkRecovers \/ CloudRestarts
  BY <1>0, <1>12 DEF NetworkFails, NetworkRecovers, CloudRestarts, TypeOK
<1>13. CASE CloudCrashes
  <2>1. cloud' \in [CloudIds -> CloudTrajectories \cup {None}]
    BY <1>13 DEF CloudCrashes
  <2>. QED
    BY <1>0, <1>13, <2>1 DEF CloudCrashes, TypeOK
<1>14. CASE UNCHANGED vars
  BY <1>0, <1>14 DEF vars, TypeOK
<1>. QED
  BY <1>1, <1>2, <1>3, <1>4, <1>5, <1>6, <1>7, <1>8, <1>9, <1>10, <1>11, <1>12, <1>13, <1>14
     DEF Next, Uploader

-----------------------------------------------------------------------------
(* The steps keep IInv.                                                    *)

\* Steps of the uploader's thread that only go on, and those of the network.
GoesOn == Loop \/ PopTimesOut \/ Connect \/ ConnectTimesOut \/ Skip \/ PeekTimesOut
Changes == NetworkFails \/ NetworkRecovers \/ CloudRestarts

\* Where the thread comes from and goes to.
LEMMA GoesOnIs ==
  ASSUME IInv, GoesOn
  PROVE  /\ pc \in {"loop", "pop", "connect", "skip", "peek"} /\ pc' # "register"
         /\ (pc' = "pop" => pc = "loop" /\ server = "up")
         /\ pc' = "loop" =>
              \/ pc = "pop"
              \/ pc = "skip" /\ server # "up"
              \/ pc = "connect" /\ (net = "dead" \/ ~ ShortOutages)
         /\ (batch # << >> /\ pc \in {"loop", "pop"} => pc' \in {"loop", "pop", "ended"})
         /\ (pc' \in {"pop", "loop"} => batch = << >> \/ pc \in {"loop", "pop"})
         /\ pc' # "write"
         /\ UNCHANGED << active, adding, starting, queue, known, uplink, todo, batch, server, net,
                         cloud, failed >>
<1>1. /\ UNCHANGED << active, adding, starting, queue, known, uplink, todo, batch, server, net,
                      cloud, failed >>
      /\ pc \in {"loop", "pop", "connect", "skip", "peek"} /\ pc' # "register" /\ pc' # "write"
  BY DEF GoesOn, Loop, PopTimesOut, Connect, ConnectTimesOut, Skip, PeekTimesOut, carVars, cloudVars
<1>2. (pc' = "pop" => pc = "loop" /\ server = "up")
  BY DEF GoesOn, Loop, PopTimesOut, Connect, ConnectTimesOut, Skip, PeekTimesOut, shutting_down
<1>3. pc' = "loop" =>
        \/ pc = "pop"
        \/ pc = "skip" /\ server # "up"
        \/ pc = "connect" /\ (net = "dead" \/ ~ ShortOutages)
  <2>1. CASE Loop \/ PopTimesOut \/ Connect \/ PeekTimesOut
    <3>1. pc' = "loop" => pc = "pop"
      BY <2>1 DEF Loop, PopTimesOut, Connect, PeekTimesOut, shutting_down
    <3>. QED
      BY <3>1, Zenon
  <2>3. CASE Skip
    BY <2>3 DEF Skip, shutting_down
  <2>2. CASE ConnectTimesOut
    BY <2>2, Zenon DEF ConnectTimesOut
  <2>. QED
    BY <2>1, <2>2, <2>3 DEF GoesOn
<1>4. (batch # << >> /\ pc \in {"loop", "pop"} => pc' \in {"loop", "pop", "ended"})
  BY DEF GoesOn, Loop, PopTimesOut, Connect, ConnectTimesOut, Skip, PeekTimesOut, shutting_down
<1>5. (pc' \in {"pop", "loop"} => batch = << >> \/ pc \in {"loop", "pop"})
  BY <1>1, <1>2, <1>3 DEF IInv, BatchInv
<1>. QED
  BY <1>1, <1>2, <1>3, <1>4, <1>5

\* The network changes nothing but itself.
LEMMA ChangesIs ==
  ASSUME Changes
  PROVE  /\ net' \in {"good", "bad"}
         /\ UNCHANGED << active, adding, starting, queue, known, uplink, pc, todo, batch, server,
                         cloud, failed >>
BY DEF Changes, NetworkFails, NetworkRecovers, CloudRestarts, carVars, uploaderVars, cloudVars

\* What either registration does.
LEMMA RegisterIs ==
  ASSUME IInv, Register
  PROVE  /\ pc = "register" /\ Min(todo) \in todo /\ Min(todo) \in Trajectories
         /\ todo' \subseteq todo /\ (todo' # {} => pc' = "register") /\ pc' \in {"loop", "register"}
         /\ UNCHANGED << active, adding, starting, queue, known, batch, server, net, failed >>
         /\ UNCHANGED << cloud, uplink >> \/ \E j \in CloudIds : Registered(Min(todo), j)
<1>0. TypeOK /\ CloudInv
  BY DEF IInv
<1>1. todo \in SUBSET Nat /\ todo # {} /\ todo \subseteq Trajectories
  BY <1>0, UploaderAssumption DEF Register, TypeOK, Trajectories
<1>2. Min(todo) \in todo /\ Min(todo) \in Trajectories
  BY <1>1, MinIsMember
<1>3. UNCHANGED << cloud, uplink >> \/ \E j \in CloudIds : Registered(Min(todo), j)
  BY <1>0, <1>2, RegisterTrajectoryIs DEF Register
<1>. QED
  BY <1>2, <1>3 DEF Register, carVars

\* AddTrajectory's call names the trajectory, or nothing happens to the cloud.
LEMMA ReturnsIs ==
  ASSUME IInv, AddTrajectoryReturns
  PROVE  /\ adding \in Trajectories /\ active = None /\ adding' = None
         /\ active' = [t |-> adding, two |-> FALSE, count |-> 0]
         /\ UNCHANGED << starting, queue, known, pc, todo, batch, server, net, failed >>
         /\ UNCHANGED << cloud, uplink >> \/ \E j \in CloudIds : Registered(adding, j)
<1>0. TypeOK /\ CloudInv /\ KnownInv
  BY DEF IInv
<1>1. adding \in Trajectories /\ active = None
  BY <1>0 DEF AddTrajectoryReturns, TypeOK, KnownInv
<1>2. UNCHANGED << cloud, uplink >> \/ \E j \in CloudIds : Registered(adding, j)
  BY <1>0, <1>1, RegisterTrajectoryIs DEF AddTrajectoryReturns
<1>. QED
  BY <1>1, <1>2 DEF AddTrajectoryReturns

\* A new trajectory is later than all that are known and has no name.
LEMMA AddTrajectoryIs ==
  ASSUME IInv, NEW t \in Trajectories, AddTrajectory(t)
  PROVE  /\ active = None /\ adding = None /\ t \notin known /\ adding' = t
         /\ known' = known \union {t} /\ uplink[t] = None
         /\ \A u \in known : u < t
         /\ \A u \in Trajectories : u < t => u \in known
         /\ (todo' = todo \/ pc = "register")
         /\ UNCHANGED << active, starting, queue, uplink, pc, batch, server, net, cloud, failed >>
<1>1. /\ active = None /\ adding = None /\ t \notin known /\ adding' = t
      /\ known' = known \union {t} /\ \A u \in Trajectories : u < t => u \in known
      /\ (todo' = todo \/ pc = "register")
      /\ UNCHANGED << active, starting, queue, uplink, pc, batch, server, net, cloud, failed >>
  BY DEF AddTrajectory, cloudVars
<1>2. Trajectories \subseteq Nat
  BY UploaderAssumption DEF Trajectories
<1>3. \A u \in known : u < t
  BY <1>1, <1>2 DEF IInv, KnownInv, TypeOK
<1>4. uplink[t] = None
  BY <1>1 DEF IInv, KnownInv
<1>. QED
  BY <1>1, <1>3, <1>4

\* A result goes to the end of the queue, and the next follows it.
LEMMA ResultIs ==
  ASSUME IInv, OnLocalSlamResult
  PROVE  /\ active # None /\ active' # None /\ active'.t = active.t /\ active'.count > 0
         /\ NextResult \in Results /\ NextResult.t = active.t /\ TwoSubmaps(NextResult)
         /\ queue' = Append(queue, NextResult) /\ Follows(NextResult', NextResult)
         /\ server = "up"
         /\ UNCHANGED << adding, known, uplink, pc, todo, batch, server, net, cloud, failed >>
<1>0. TypeOK /\ active # None /\ (active.two => active.count > 0)
  BY DEF IInv, KnownInv, OnLocalSlamResult
<1>1. /\ active' = InsertRangeData(active) /\ queue' = Append(queue, NextResult) /\ server = "up"
      /\ UNCHANGED << adding, known, uplink, pc, todo, batch, server, net, cloud, failed >>
  BY DEF OnLocalSlamResult, NextResult, uploaderVars, cloudVars
<1>. QED
  BY <1>0, <1>1, NextResultIs, NextFollows

\* All steps, by what they do.
LEMMA StepCases ==
  ASSUME [Next]_vars
  PROVE  \/ \E t \in Trajectories : AddTrajectory(t)
         \/ AddTrajectoryReturns \/ OnLocalSlamResult \/ FinishTrajectory
         \/ Shutdown \/ Joined
         \/ GoesOn \/ Pop \/ Write \/ SkipResult \/ NewSubmap \/ Register
         \/ Changes \/ CloudCrashes
         \/ UNCHANGED vars
BY DEF Next, Uploader, GoesOn, Changes

\* Steps that leave what the other invariants are about alone.
LEMMA RestIs ==
  ASSUME Shutdown \/ Joined \/ UNCHANGED vars
  PROVE  /\ UNCHANGED << active, adding, starting, queue, known, uplink, pc, todo, batch, net,
                         cloud, failed >>
         /\ server' = "up" => server = "up"
BY DEF Shutdown, Joined, vars, carVars, uploaderVars, cloudVars

\* What is of a trajectory that has begun stays so.
LEMMA StepPast ==
  ASSUME IInv, [Next]_vars
  PROVE  \A r \in Results : Past(r) => r.t \in known' /\ (adding' # None => r.t < adding')
<1> SUFFICES ASSUME NEW r \in Results, Past(r)
             PROVE  r.t \in known' /\ (adding' # None => r.t < adding')
  OBVIOUS
<1>1. ASSUME NEW t \in Trajectories, AddTrajectory(t)
      PROVE  r.t \in known' /\ (adding' # None => r.t < adding')
  BY <1>1, AddTrajectoryIs DEF Past
<1>2. CASE AddTrajectoryReturns
  BY <1>2, ReturnsIs DEF Past
<1>3. CASE UNCHANGED << known, adding >>
  BY <1>3 DEF Past
<1>4. CASE FinishTrajectory \/ Write \/ CloudCrashes \/ NewSubmap \/ SkipResult \/ Pop
  BY <1>3, <1>4 DEF FinishTrajectory, Write, CloudCrashes, NewSubmap, SkipResult, Pop, carVars,
                    uploaderVars
<1>. QED
  BY <1>1, <1>2, <1>3, <1>4, StepCases, RestIs, GoesOnIs, ChangesIs, RegisterIs, ResultIs

\* Trajectories come one after another.
LEMMA StepKnown ==
  ASSUME IInv, [Next]_vars
  PROVE  KnownInv'
<1>0. TypeOK /\ KnownInv
  BY DEF IInv
<1>1. Trajectories \subseteq Nat /\ None \notin Trajectories
  BY UploaderAssumption, NoneIsNone DEF Trajectories
<1>2. ASSUME NEW t \in Trajectories, AddTrajectory(t) PROVE KnownInv'
  <2>1. known \subseteq Trajectories
    BY <1>0 DEF TypeOK
  <2>2. /\ active = None /\ active' = None /\ adding' = t /\ known' = known \union {t}
        /\ \A u \in known : u < t
        /\ \A u \in Trajectories : u < t => u \in known
        /\ todo' = todo \/ pc = "register"
        /\ UNCHANGED << uplink, pc >>
    BY <1>2, AddTrajectoryIs
  <2>3. \A v \in known', u \in Trajectories : u < v => u \in known'
    <3>1. ASSUME NEW v \in known', NEW u \in Trajectories, u < v PROVE u \in known
      <4>1. CASE v \in known
        BY <1>0, <3>1, <4>1 DEF KnownInv
      <4>2. CASE v = t
        BY <2>2, <3>1, <4>2
      <4>. QED
        BY <2>2, <4>1, <4>2
    <3>. QED
      BY <2>2, <3>1
  <2>4. \A v \in known' : v <= t
    BY <1>1, <2>1, <2>2
  <2>. QED
    BY <1>0, <2>2, <2>3, <2>4 DEF KnownInv
<1>3. CASE AddTrajectoryReturns
  <2>1. adding \in known
    BY <1>0, <1>1, <1>3, ReturnsIs DEF KnownInv
  <2>2. \A t \in Trajectories : uplink'[t] # None => t \in known
    <3>1. CASE UNCHANGED << cloud, uplink >>
      BY <1>0, <3>1 DEF KnownInv
    <3>2. ASSUME NEW j \in CloudIds, Registered(adding, j)
          PROVE  \A t \in Trajectories : uplink'[t] # None => t \in known
      BY <1>0, <2>1, <3>2 DEF KnownInv, Registered, TypeOK
    <3>. QED
      BY <1>3, <3>1, <3>2, ReturnsIs
  <2>. QED
    BY <1>0, <1>3, <2>1, <2>2, ReturnsIs DEF KnownInv
<1>4. CASE OnLocalSlamResult
  BY <1>0, <1>4, ResultIs DEF KnownInv
<1>5. CASE FinishTrajectory
  BY <1>0, <1>5, FinishTrajectoryIs DEF KnownInv, uploaderVars
<1>6. CASE UNCHANGED << active, adding, known, uplink, todo >> /\ pc # "register"
  BY <1>0, <1>6 DEF KnownInv
<1>7. CASE UNCHANGED << active, adding, known, uplink, pc, todo >>
  BY <1>0, <1>7 DEF KnownInv
<1>8. CASE Pop \/ Write \/ SkipResult
  BY <1>6, <1>8 DEF Pop, Write, SkipResult, carVars
<1>9. CASE NewSubmap
  <2>1. \A t \in Trajectories : uplink'[t] = None
    BY <1>9 DEF NewSubmap
  <2>2. pc' = "register" /\ UNCHANGED << active, adding, known >>
    BY <1>9 DEF NewSubmap, carVars
  <2>. QED
    BY <1>0, <2>1, <2>2 DEF KnownInv
<1>10. CASE Register
  <2>1. Min(todo) \in known
    BY <1>0, <1>10, RegisterIs DEF TypeOK
  <2>2. \A t \in Trajectories : uplink'[t] # None => t \in known
    <3>1. CASE UNCHANGED << cloud, uplink >>
      BY <1>0, <3>1 DEF KnownInv
    <3>2. ASSUME NEW j \in CloudIds, Registered(Min(todo), j)
          PROVE  \A t \in Trajectories : uplink'[t] # None => t \in known
      BY <1>0, <2>1, <3>2 DEF KnownInv, Registered, TypeOK
    <3>. QED
      BY <1>10, <3>1, <3>2, RegisterIs
  <2>3. /\ UNCHANGED << active, adding, known >> /\ (todo' # {} => pc' = "register")
    BY <1>10, RegisterIs
  <2>. QED
    BY <1>0, <2>2, <2>3 DEF KnownInv
<1>11. CASE CloudCrashes
  BY <1>7, <1>11 DEF CloudCrashes, carVars, uploaderVars
<1>12. CASE GoesOn
  BY <1>6, <1>12, GoesOnIs
<1>. QED
  BY <1>2, <1>3, <1>4, <1>5, <1>7, <1>8, <1>9, <1>10, <1>11, <1>12, StepCases, RestIs, ChangesIs

\* The cloud has only what is named.
LEMMA StepCloud ==
  ASSUME IInv, [Next]_vars
  PROVE  CloudInv'
<1>0. TypeOK /\ CloudInv
  BY DEF IInv
<1>1. ASSUME NEW t \in Trajectories, NEW j \in CloudIds, Registered(t, j), net' = net PROVE CloudInv'
  <2>1. uplink'[t] = j
    BY <1>0, <1>1 DEF Registered, TypeOK
  <2>. QED
    BY <1>1, <2>1 DEF Registered, CloudInv
<1>2. CASE UNCHANGED << cloud, uplink >> /\ (net' = "dead" => net = "dead")
  BY <1>0, <1>2 DEF CloudInv
<1>3. CASE AddTrajectoryReturns \/ Register
  BY <1>1, <1>2, <1>3, ReturnsIs, RegisterIs
<1>4. CASE FinishTrajectory
  <2>1. UNCHANGED << uplink, net >>
    BY <1>0, <1>4, FinishTrajectoryIs DEF uploaderVars
  <2>2. ASSUME NEW i \in CloudIds, FinishedAt(i) PROVE CloudInv'
    BY <1>0, <2>1, <2>2 DEF FinishedAt, CloudInv
  <2>. QED
    BY <1>0, <1>2, <1>4, <2>1, <2>2, FinishTrajectoryIs DEF cloudVars
<1>5. CASE Write
  BY <1>0, <1>5, WriteIs DEF Kept, CloudInv
<1>6. CASE NewSubmap
  <2>1. /\ uplink' = [t \in Trajectories |-> None] /\ cloud' = Named(cloud, uplink')
    BY <1>6 DEF NewSubmap
  <2>2. \A i \in CloudIds : cloud'[i] = None
    BY <2>1, NoneIsNone DEF Named
  <2>. QED
    BY <2>2 DEF CloudInv
<1>7. CASE CloudCrashes
  BY <1>7 DEF CloudCrashes, CloudInv
<1>8. CASE Pop \/ SkipResult
  BY <1>2, <1>8 DEF Pop, SkipResult, cloudVars
<1>. QED
  BY <1>2, <1>3, <1>4, <1>5, <1>6, <1>7, <1>8, StepCases, RestIs, GoesOnIs, ChangesIs, ResultIs,
     AddTrajectoryIs

\* The items of the batch go to the numbers that their trajectories have now.
LEMMA StepBatch ==
  ASSUME IInv, [Next]_vars
  PROVE  BatchInv'
<1>0. TypeOK /\ BatchInv /\ KnownInv /\ SentInv
  BY DEF IInv
<1>1. \A k \in 1 .. Len(batch) : batch[k].r \in Results /\ batch[k].id \in CloudIds
  BY <1>0, BatchTypes
<1>2. CASE UNCHANGED << batch, pc, uplink >>
  BY <1>0, <1>2 DEF BatchInv
<1>3. CASE AddTrajectoryReturns
  <2>1. UNCHANGED << pc, batch >> /\ adding \in Trajectories
    BY <1>3, ReturnsIs
  <2>2. ASSUME NEW j \in CloudIds, Registered(adding, j), NEW k \in 1 .. Len(batch)
        PROVE  batch[k].id = uplink'[batch[k].r.t]
    <3>1. batch[k].r.t \in Trajectories /\ batch[k].r.t < adding
      BY <1>0, <1>1, <2>1, NoneIsNone DEF SentInv, Past, Results
    <3>2. batch[k].r.t # adding
      BY <2>1, <3>1, UploaderAssumption DEF Trajectories
    <3>3. uplink'[batch[k].r.t] = uplink[batch[k].r.t]
      BY <2>2, <3>1, <3>2 DEF Registered, TypeOK
    <3>. QED
      BY <1>0, <3>3 DEF BatchInv
  <2>. QED
    BY <1>0, <1>2, <1>3, <2>1, <2>2, ReturnsIs DEF BatchInv
<1>4. CASE GoesOn
  <2>1. /\ pc \in {"loop", "pop", "connect", "skip", "peek"}
        /\ pc' \in {"pop", "loop"} => batch = << >> \/ pc \in {"loop", "pop"}
        /\ batch # << >> /\ pc \in {"loop", "pop"} => pc' \in {"loop", "pop", "ended"}
        /\ UNCHANGED << batch, uplink >>
    BY <1>4, GoesOnIs
  <2>2. batch # << >> => pc' \in {"loop", "pop", "ended"}
    BY <1>0, <2>1 DEF BatchInv
  <2>3. pc' \in {"loop", "pop"} => Len(batch) < BatchSize
    <3>1. batch = << >> => Len(batch) < BatchSize
      BY UploaderAssumption
    <3>. QED
      BY <1>0, <2>1, <3>1 DEF BatchInv
  <2>. QED
    BY <1>0, <2>1, <2>2, <2>3 DEF BatchInv
<1>5. CASE batch' = << >>
  BY <1>5, UploaderAssumption DEF BatchInv
<1>6. CASE Pop
  <2>1. CASE batch' = << >>
    BY <1>5, <2>1
  <2>2. CASE /\ uplink[queue[1].t] \in CloudIds
             /\ batch' = Append(batch, [r |-> queue[1], id |-> uplink[queue[1].t]])
             /\ pc' = IF Len(batch') = BatchSize THEN "write" ELSE "loop"
    <3>1. pc = "pop" /\ queue[1] \in Results /\ uplink' = uplink
      BY <1>0, <1>6, PopIs
    <3>2. /\ Len(batch') = Len(batch) + 1
          /\ batch'[Len(batch) + 1].r = queue[1]
          /\ batch'[Len(batch) + 1].id = uplink[queue[1].t]
          /\ \A k \in 1 .. Len(batch) : batch'[k] = batch[k]
      BY <1>0, <2>2, <3>1, BatchGets
    <3>3. Len(batch) \in Nat /\ Len(batch) < BatchSize
      BY <1>0, <3>1, BatchTypes DEF BatchInv
    <3>4. \A k \in 1 .. Len(batch') : k \in 1 .. Len(batch) \/ k = Len(batch) + 1
      BY <3>2, <3>3
    <3>5. \A k \in 1 .. Len(batch') : batch'[k].id = uplink'[batch'[k].r.t]
      BY <1>0, <3>1, <3>2, <3>4 DEF BatchInv
    <3>6. /\ pc' \in {"loop", "write"}
          /\ pc' = "loop" => Len(batch') < BatchSize
      BY <2>2, <3>2, <3>3, UploaderAssumption
    <3>. QED
      BY <3>5, <3>6 DEF BatchInv
  <2>. QED
    BY <1>0, <1>6, <2>1, <2>2, PopIs
<1>7. CASE SkipResult \/ NewSubmap \/ Register
  <2>1. pc \in {"peek", "register"} /\ batch' = batch
    BY <1>7, RegisterIs DEF SkipResult, NewSubmap
  <2>. QED
    BY <1>0, <1>5, <2>1 DEF BatchInv
<1>8. CASE FinishTrajectory
  BY <1>0, <1>2, <1>8, FinishTrajectoryIs DEF uploaderVars
<1>9. CASE CloudCrashes
  BY <1>2, <1>9 DEF CloudCrashes, uploaderVars
<1>. QED
  BY <1>2, <1>3, <1>4, <1>5, <1>6, <1>7, <1>8, <1>9, StepCases, RestIs, ChangesIs, ResultIs,
     AddTrajectoryIs, WriteIs

\* The queue without its first result, and what comes after that one.
LEMMA QueueShorter ==
  ASSUME TypeOK, QueueInv, queue # << >>, queue' = Tail(queue), UNCHANGED << active, starting >>,
         UNCHANGED << known, adding >>
  PROVE  QueueInv' /\ \A q \in Upcoming' : After(q, queue[1])
<1>1. /\ Len(queue') = Len(queue) - 1 /\ Len(queue) \in Nat
      /\ \A k \in 1 .. Len(queue') : queue'[k] = queue[k + 1]
      /\ queue' \in Seq(Results) /\ (queue' = << >> <=> Len(queue') = 0)
  BY QueueTakes, BatchTypes, EmptySeq
<1>2. NextResult' = NextResult
  BY DEF NextResult, LocalSlamResult, InsertRangeData, NextIndex
<1>3. Len(queue) > 0
  BY <1>1, EmptySeq DEF TypeOK
<1>4. \A k \in 1 .. Len(queue') : Past(queue'[k]) /\ TwoSubmaps(queue'[k])
  BY <1>1, <1>3 DEF QueueInv, Past
<1>5. \A k \in 1 .. Len(queue') - 1 : After(queue'[k + 1], queue'[k])
  <2> SUFFICES ASSUME NEW k \in 1 .. Len(queue') - 1
               PROVE  After(queue'[k + 1], queue'[k])
    OBVIOUS
  <2>1. queue'[k] = queue[k + 1] /\ queue'[k + 1] = queue[(k + 1) + 1]
    BY <1>1
  <2>2. k + 1 \in 1 .. Len(queue) - 1
    BY <1>1
  <2>. QED
    BY <2>1, <2>2 DEF QueueInv
<1>6. queue' # << >> => queue'[Len(queue')] = queue[Len(queue)]
  BY <1>1
<1>7. QueueInv'
  BY <1>2, <1>4, <1>5, <1>6 DEF QueueInv, Past, TwoSubmaps, After, Follows, NextIndex
<1>8. ASSUME NEW q \in Upcoming' PROVE After(q, queue[1])
  <2>1. CASE queue' # << >>
    <3>1. q = queue'[1] /\ queue'[1] = queue[1 + 1] /\ 1 \in 1 .. Len(queue) - 1
      BY <1>1, <1>3, <1>8, <2>1 DEF Upcoming
    <3>. QED
      BY <3>1 DEF QueueInv
  <2>2. CASE queue' = << >>
    <3>1. Len(queue) = 1
      BY <1>1, <1>3, <2>2
    <3>2. active # None /\ q = NextResult
      BY <1>2, <1>8, <2>2 DEF Upcoming
    <3>. QED
      BY <3>1, <3>2 DEF QueueInv
  <2>. QED
    BY <2>1, <2>2
<1>. QED
  BY <1>7, <1>8

\* What a step does to the results to come: they stay, or end, or the queue gives its
\* first, or a trajectory begins that is later than all.
Taken == queue # << >> /\ queue' = Tail(queue) /\ \A q \in Upcoming' : After(q, queue[1])
Begun ==
  /\ adding # None /\ UNCHANGED << queue, batch >>
  /\ \A q \in Upcoming' : q \in Upcoming \/ q.t = adding

\* The results of a trajectory that begins come after all others.
LEMMA QueueBegins ==
  ASSUME IInv, AddTrajectoryReturns
  PROVE  QueueInv' /\ Begun
<1>0. TypeOK /\ KnownInv /\ QueueInv
  BY DEF IInv
<1>1. /\ adding \in Trajectories /\ active = None /\ adding' = None
      /\ active' = [t |-> adding, two |-> FALSE, count |-> 0]
      /\ UNCHANGED << queue, known, batch >>
  BY ReturnsIs
<1>2. NextResult'.t = adding
  <2> DEFINE a == [t |-> adding, two |-> FALSE, count |-> 0]
  <2>1. InsertRangeData(a) = [a EXCEPT !.count = @ + 1]
    BY UploaderAssumption DEF InsertRangeData
  <2>2. InsertRangeData(a).t = adding
    BY <2>1
  <2>3. NextResult'.t = InsertRangeData(a).t
    BY <1>1 DEF NextResult, LocalSlamResult, InsertRangeData
  <2>. QED
    BY <2>2, <2>3
<1>3. adding # None
  BY <1>1, NoneIsNone
<1>4. \A k \in 1 .. Len(queue) : Past(queue[k]) /\ queue[k].t < adding
  BY <1>0, <1>3 DEF QueueInv, Past
<1>5. queue # << >> => After(NextResult', queue[Len(queue)])
  <2>1. queue # << >> => Len(queue) \in 1 .. Len(queue)
    BY <1>0, EmptySeq, LenProperties DEF TypeOK
  <2>2. queue # << >> => queue[Len(queue)].t < adding /\ queue[Len(queue)] \in Results
    BY <1>0, <1>4, <2>1, BatchTypes
  <2>3. adding \in Nat /\ \A r \in Results : r.t \in Nat
    BY <1>1, UploaderAssumption DEF Trajectories, Results
  <2>. QED
    BY <1>2, <2>2, <2>3 DEF After
<1>6. QueueInv'
  <2>1. \A k \in 1 .. Len(queue) : Past(queue[k])' /\ TwoSubmaps(queue[k])'
    BY <1>0, <1>1, <1>4 DEF Past, QueueInv, TwoSubmaps
  <2>2. \A k \in 1 .. Len(queue) - 1 : After(queue[k + 1], queue[k])'
    BY <1>0, <1>1 DEF QueueInv, After, Follows, NextIndex
  <2>3. queue # << >> => After(NextResult, queue[Len(queue)])'
    BY <1>1, <1>5 DEF After, Follows, NextIndex
  <2>. QED
    BY <1>1, <2>1, <2>2, <2>3 DEF QueueInv
<1>7. Begun
  BY <1>1, <1>2, <1>3 DEF Begun, Upcoming
<1>. QED
  BY <1>6, <1>7

\* A result joins the end of the queue: what comes next stays.
LEMMA QueueLonger ==
  ASSUME IInv, OnLocalSlamResult
  PROVE  QueueInv' /\ Upcoming' = Upcoming
<1>0. TypeOK /\ KnownInv /\ QueueInv
  BY DEF IInv
<1>1. /\ active # None /\ active' # None /\ NextResult \in Results /\ NextResult.t = active.t
      /\ TwoSubmaps(NextResult) /\ queue' = Append(queue, NextResult)
      /\ Follows(NextResult', NextResult) /\ UNCHANGED << adding, known >>
  BY ResultIs
<1>2. /\ Len(queue') = Len(queue) + 1 /\ queue'[Len(queue) + 1] = NextResult
      /\ \A k \in 1 .. Len(queue) : queue'[k] = queue[k]
      /\ queue' # << >> /\ Len(queue) \in Nat
      /\ (queue = << >> <=> Len(queue) = 0)
  BY <1>0, <1>1, QueueGets, BatchTypes, EmptySeq DEF TypeOK
<1>3. Past(NextResult)
  BY <1>0, <1>1 DEF KnownInv, Past
<1>4. \A k \in 1 .. Len(queue') : k \in 1 .. Len(queue) \/ k = Len(queue) + 1
  BY <1>2
<1>5. \A k \in 1 .. Len(queue') : Past(queue'[k]) /\ TwoSubmaps(queue'[k])
  BY <1>0, <1>1, <1>2, <1>3, <1>4 DEF QueueInv
<1>6. ASSUME NEW k \in 1 .. Len(queue') - 1
      PROVE  After(queue'[k + 1], queue'[k])
  <2>1. k \in 1 .. Len(queue)
    BY <1>2
  <2>2. CASE k = Len(queue)
    <3>1. queue # << >>
      BY <1>2, <2>1, <2>2
    <3>2. queue'[k + 1] = NextResult /\ queue'[k] = queue[Len(queue)]
      BY <1>2, <2>1, <2>2
    <3>. QED
      BY <1>0, <1>1, <3>1, <3>2 DEF QueueInv
  <2>3. CASE k # Len(queue)
    <3>1. k \in 1 .. Len(queue) - 1 /\ k + 1 \in 1 .. Len(queue)
      BY <1>2, <2>1, <2>3
    <3>2. queue'[k + 1] = queue[k + 1] /\ queue'[k] = queue[k]
      BY <1>2, <3>1, <2>1
    <3>. QED
      BY <1>0, <3>1, <3>2 DEF QueueInv
  <2>. QED
    BY <2>2, <2>3
<1>7. queue'[Len(queue')] = NextResult
  BY <1>2
<1>8. QueueInv'
  BY <1>1, <1>5, <1>6, <1>7 DEF QueueInv, Past, TwoSubmaps, After, Follows, NextIndex
<1>9. Upcoming' = Upcoming
  <2>1. CASE queue = << >>
    <3>1. queue'[1] = NextResult
      BY <1>2, <2>1
    <3>. QED
      BY <1>1, <1>2, <2>1, <3>1 DEF Upcoming
  <2>2. CASE queue # << >>
    <3>1. queue'[1] = queue[1]
      BY <1>2, <2>2
    <3>. QED
      BY <1>2, <2>2, <3>1 DEF Upcoming
  <2>. QED
    BY <2>1, <2>2
<1>. QED
  BY <1>8, <1>9

\* Every step keeps the order of the queue.
LEMMA StepQueue ==
  ASSUME IInv, [Next]_vars
  PROVE  /\ QueueInv'
         /\ \/ \A q \in Upcoming' : q \in Upcoming
            \/ Begun
            \/ Taken /\ (Pop \/ SkipResult)
<1>0. TypeOK /\ KnownInv /\ QueueInv
  BY DEF IInv
<1>1. \A k \in 1 .. Len(queue) : queue[k].t \in known' /\ (adding' # None => queue[k].t < adding')
  BY <1>0, BatchTypes, StepPast DEF QueueInv
<1>2. CASE UNCHANGED << queue, active, starting >>
  <2>1. NextResult' = NextResult
    BY <1>2 DEF NextResult, LocalSlamResult, InsertRangeData, NextIndex
  <2>2. Upcoming' = Upcoming
    BY <1>2, <2>1 DEF Upcoming
  <2>3. \A k \in 1 .. Len(queue) : Past(queue[k])' /\ TwoSubmaps(queue[k])'
    BY <1>0, <1>1, <1>2 DEF Past, QueueInv, TwoSubmaps
  <2>4. \A k \in 1 .. Len(queue) - 1 : After(queue[k + 1], queue[k])'
    BY <1>0, <1>2 DEF QueueInv, After, Follows, NextIndex
  <2>5. queue # << >> /\ active # None => After(NextResult, queue[Len(queue)])'
    BY <1>0, <1>2, <2>1 DEF QueueInv, After, Follows, NextIndex
  <2>. QED
    BY <1>2, <2>2, <2>3, <2>4, <2>5 DEF QueueInv
<1>3. CASE FinishTrajectory
  <2>1. active' = None /\ UNCHANGED << queue, known, adding >>
    BY <1>0, <1>3, FinishTrajectoryIs DEF uploaderVars
  <2>2. Upcoming' \subseteq Upcoming
    BY <2>1 DEF Upcoming
  <2>3. \A k \in 1 .. Len(queue) : Past(queue[k])' /\ TwoSubmaps(queue[k])'
    BY <1>0, <1>1, <2>1 DEF Past, QueueInv, TwoSubmaps
  <2>4. \A k \in 1 .. Len(queue) - 1 : After(queue[k + 1], queue[k])'
    BY <1>0, <2>1 DEF QueueInv, After, Follows, NextIndex
  <2>. QED
    BY <2>1, <2>2, <2>3, <2>4 DEF QueueInv
<1>4. CASE AddTrajectoryReturns
  BY <1>4, QueueBegins
<1>5. CASE OnLocalSlamResult
  BY <1>5, QueueLonger
<1>6. CASE Pop
  BY <1>0, <1>6, PopIs, QueueShorter DEF Taken
<1>7. CASE SkipResult
  BY <1>0, <1>7, QueueShorter DEF Taken, SkipResult
<1>8. CASE Write \/ NewSubmap \/ CloudCrashes
  <2>1. UNCHANGED << queue, active, starting >>
    BY <1>8 DEF Write, NewSubmap, CloudCrashes, carVars
  <2>. QED
    BY <1>2, <2>1
<1>. QED
  BY <1>2, <1>3, <1>4, <1>5, <1>6, <1>7, <1>8, StepCases, RestIs, GoesOnIs, ChangesIs, RegisterIs,
     AddTrajectoryIs

\* Every step keeps the order from the batch to the queue.
LEMMA StepSent ==
  ASSUME IInv, [Next]_vars
  PROVE  SentInv'
<1>0. TypeOK /\ BatchInv /\ KnownInv /\ SentInv
  BY DEF IInv
<1>1. CASE batch' = << >>
  BY <1>1 DEF SentInv
<1>2. \A r \in Results : Past(r) => Past(r)'
  BY StepPast DEF Past
<1>3. ASSUME batch' = batch, Begun \/ \A q \in Upcoming' : q \in Upcoming
      PROVE  SentInv'
  <2>1. \A k \in 1 .. Len(batch) : Past(batch[k].r)' /\ TwoSubmaps(batch[k].r)'
    BY <1>0, <1>2, <1>3, BatchTypes DEF SentInv, TwoSubmaps
  <2>2. ASSUME NEW k \in 1 .. Len(batch), NEW q \in Unsent(k + 1)'
        PROVE  After(q, batch[k].r)
    <3>1. CASE q \in Unsent(k + 1)
      BY <1>0, <3>1 DEF SentInv
    <3>2. CASE q \notin Unsent(k + 1)
      <4>1. Begun /\ q.t = adding
        BY <1>3, <2>2, <3>2 DEF Unsent, Begun
      <4>2. batch[k].r.t < adding
        BY <1>0, <4>1 DEF Begun, SentInv, Past
      <4>3. batch[k].r.t \in Nat /\ adding \in Nat
        <5>1. batch[k].r.t \in Trajectories
          BY <1>0, BatchTypes DEF Results
        <5>2. adding \in Trajectories
          BY <1>0, <4>1 DEF Begun, TypeOK
        <5>. QED
          BY <5>1, <5>2, UploaderAssumption DEF Trajectories
      <4>. QED
        BY <4>1, <4>2, <4>3 DEF After
    <3>. QED
      BY <3>1, <3>2
  <2>. QED
    BY <1>3, <2>1, <2>2 DEF SentInv, After, Follows, NextIndex
<1>4. CASE Pop
  <2>1. CASE batch' = Append(batch, [r |-> queue[1], id |-> uplink[queue[1].t]])
             /\ uplink[queue[1].t] \in CloudIds
    <3>1. /\ queue # << >> /\ queue' = Tail(queue) /\ queue[1] \in Results
          /\ UNCHANGED << active, starting, known, adding >>
      BY <1>0, <1>4, PopIs
    <3>2. /\ Len(batch') = Len(batch) + 1
          /\ batch'[Len(batch) + 1].r = queue[1]
          /\ \A k \in 1 .. Len(batch) : batch'[k] = batch[k]
      BY <1>0, <2>1, <3>1, BatchGets
    <3>3. Len(batch) \in Nat /\ \A k \in 1 .. Len(batch) : batch[k].r \in Results
      BY <1>0, BatchTypes
    <3>4. \A k \in 1 .. Len(batch') : k \in 1 .. Len(batch) \/ k = Len(batch) + 1
      BY <3>2, <3>3
    <3>5. QueueInv
      BY DEF IInv
    <3>6. Past(queue[1]) /\ TwoSubmaps(queue[1])
      <4>1. 1 \in 1 .. Len(queue)
        BY <1>0, <3>1, EmptySeq, LenProperties DEF TypeOK
      <4>. QED
        BY <3>5, <4>1 DEF QueueInv
    <3>7. \A k \in 1 .. Len(batch') : Past(batch[k].r)' /\ TwoSubmaps(batch[k].r)'
      <4>1. \A k \in 1 .. Len(batch') : Past(batch'[k].r) /\ TwoSubmaps(batch'[k].r)
        BY <1>0, <3>2, <3>4, <3>6 DEF SentInv
      <4>. QED
        BY <3>1, <4>1 DEF Past, TwoSubmaps
    <3>8. ASSUME NEW k \in 1 .. Len(batch'), NEW q \in Unsent(k + 1)'
          PROVE  After(q, batch'[k].r)
      <4>1. CASE k = Len(batch) + 1
        <5>1. q \in Upcoming'
          BY <3>2, <3>3, <3>8, <4>1 DEF Unsent
        <5>2. After(q, queue[1])
          BY <1>0, <3>1, <3>5, <5>1, QueueShorter
        <5>. QED
          BY <3>2, <4>1, <5>2
      <4>2. CASE k = Len(batch)
        <5>1. q = queue[1] /\ k \in 1 .. Len(batch)
          BY <3>2, <3>3, <3>8, <4>2 DEF Unsent
        <5>2. q \in Unsent(k + 1)
          BY <3>1, <3>3, <4>2, <5>1 DEF Unsent, Upcoming
        <5>. QED
          BY <1>0, <3>2, <5>1, <5>2 DEF SentInv
      <4>3. CASE k \in 1 .. Len(batch) - 1
        <5>1. k \in 1 .. Len(batch) /\ k + 1 \in 1 .. Len(batch)
          BY <3>3, <4>3
        <5>2. q \in Unsent(k + 1)
          BY <3>2, <3>3, <3>8, <5>1 DEF Unsent
        <5>. QED
          BY <1>0, <3>2, <5>1, <5>2 DEF SentInv
      <4>. QED
        BY <3>3, <3>4, <4>1, <4>2, <4>3
    <3>. QED
      BY <3>7, <3>8 DEF SentInv, TwoSubmaps, After, Follows, NextIndex
  <2>. QED
    BY <1>0, <1>1, <1>4, <2>1, PopIs
<1>5. CASE SkipResult
  <2>1. batch = << >> /\ batch' = batch
    BY <1>0, <1>5 DEF BatchInv, SkipResult
  <2>. QED
    BY <1>1, <2>1
<1>6. CASE batch' = batch
  BY <1>3, <1>4, <1>5, <1>6, StepQueue
<1>7. CASE FinishTrajectory \/ NewSubmap \/ CloudCrashes
  <2>1. batch' = batch
    BY <1>0, <1>7, FinishTrajectoryIs DEF NewSubmap, CloudCrashes, uploaderVars
  <2>. QED
    BY <1>6, <2>1
<1>. QED
  BY <1>1, <1>4, <1>5, <1>6, <1>7, StepCases, RestIs, GoesOnIs, ChangesIs, RegisterIs, ReturnsIs,
     ResultIs, AddTrajectoryIs, WriteIs

\* What is finished has no name that may be finished again.
LEMMA StepFinished ==
  ASSUME IInv, [Next]_vars
  PROVE  FinishedInv'
<1>0. TypeOK /\ KnownInv /\ FinishedInv
  BY DEF IInv
<1>1. None \notin CloudIds /\ None \notin Trajectories
  BY NoneIsNone
<1>2. CASE UNCHANGED << active, adding, uplink, cloud >>
  BY <1>0, <1>2 DEF FinishedInv
<1>3. ASSUME NEW t \in Trajectories, AddTrajectory(t) PROVE FinishedInv'
  <2>1. active' = None /\ adding' = t /\ uplink[t] = None /\ UNCHANGED << cloud, uplink >>
    BY <1>3, AddTrajectoryIs
  <2>. QED
    BY <1>0, <1>1, <2>1 DEF FinishedInv
<1>4. CASE AddTrajectoryReturns
  <2>1. /\ adding \in Trajectories /\ adding' = None /\ active'.t = adding
        /\ UNCHANGED << cloud, uplink >> \/ \E j \in CloudIds : Registered(adding, j)
    BY <1>4, ReturnsIs
  <2>2. CASE UNCHANGED << cloud, uplink >>
    BY <1>0, <1>1, <2>1, <2>2 DEF FinishedInv
  <2>3. ASSUME NEW j \in CloudIds, Registered(adding, j) PROVE FinishedInv'
    <3>1. \A t \in Trajectories : uplink'[t] = IF t = adding THEN j ELSE uplink[t]
      BY <1>0, <2>1, <2>3 DEF Registered, TypeOK
    <3>2. ~ cloud'[j].finished /\ \A i \in CloudIds \ {j} : cloud'[i] # None => cloud'[i] = cloud[i]
      BY <2>1, <2>3, NewTrajectoryIs DEF Registered
    <3>. QED
      BY <1>0, <1>1, <2>1, <3>1, <3>2 DEF FinishedInv
  <2>. QED
    BY <2>1, <2>2, <2>3
<1>5. CASE Register
  <2>1. /\ Min(todo) \in Trajectories /\ UNCHANGED << active, adding >>
        /\ UNCHANGED << cloud, uplink >> \/ \E j \in CloudIds : Registered(Min(todo), j)
    BY <1>5, RegisterIs
  <2>2. ASSUME NEW j \in CloudIds, Registered(Min(todo), j) PROVE FinishedInv'
    <3>1. \A t \in Trajectories : uplink'[t] = IF t = Min(todo) THEN j ELSE uplink[t]
      BY <1>0, <2>1, <2>2 DEF Registered, TypeOK
    <3>2. ~ cloud'[j].finished /\ \A i \in CloudIds \ {j} : cloud'[i] # None => cloud'[i] = cloud[i]
      BY <2>1, <2>2, NewTrajectoryIs DEF Registered
    <3>. QED
      BY <1>0, <1>1, <2>1, <3>1, <3>2 DEF FinishedInv
  <2>. QED
    BY <1>2, <2>1, <2>2
<1>6. CASE OnLocalSlamResult
  BY <1>0, <1>6, ResultIs DEF FinishedInv
<1>7. CASE FinishTrajectory
  <2>1. /\ active # None /\ active' = None /\ UNCHANGED << adding, uplink >>
        /\ UNCHANGED cloud \/ \E i \in CloudIds : FinishedAt(i)
    BY <1>0, <1>7, FinishTrajectoryIs DEF uploaderVars, cloudVars
  <2>2. adding' = None
    BY <1>0, <2>1 DEF KnownInv
  <2>3. ASSUME NEW i \in CloudIds, FinishedAt(i) PROVE FinishedInv'
    BY <1>0, <1>1, <2>1, <2>2, <2>3 DEF FinishedAt, FinishedInv
  <2>. QED
    BY <1>0, <1>1, <2>1, <2>2, <2>3 DEF FinishedInv
<1>8. CASE Write
  <2>1. Kept(cloud') /\ UNCHANGED << active, adding, uplink >>
    BY <1>8, WriteIs DEF carVars
  <2>. QED
    BY <1>0, <2>1 DEF Kept, FinishedInv
<1>9. CASE NewSubmap \/ CloudCrashes
  <2>1. \A i \in CloudIds : cloud'[i] = None
    BY <1>9, NoneIsNone DEF NewSubmap, CloudCrashes, Named
  <2>. QED
    BY <2>1 DEF FinishedInv
<1>10. CASE Pop \/ SkipResult
  <2>1. UNCHANGED << active, adding, uplink, cloud >>
    BY <1>10 DEF Pop, SkipResult, cloudVars
  <2>. QED
    BY <1>2, <2>1
<1>. QED
  BY <1>2, <1>3, <1>4, <1>5, <1>6, <1>7, <1>8, <1>9, <1>10, StepCases, RestIs, GoesOnIs, ChangesIs

\* Whoever has results is named, and by the trajectory they are of.
LEMMA StepLatest ==
  ASSUME IInv, [Next]_vars
  PROVE  LatestInv'
<1>0. TypeOK /\ KnownInv /\ LatestInv
  BY DEF IInv
<1>1. \A i \in CloudIds : cloud[i] # None =>
        /\ cloud[i].of \in Trajectories
        /\ cloud[i].latest # None => cloud[i].latest \in Results
  BY <1>0 DEF TypeOK, CloudTrajectories
<1>2. \A r \in Results : Past(r) => Past(r)'
  BY StepPast DEF Past
<1>3. CASE UNCHANGED << uplink, cloud >> /\ (pc' = "register" => pc = "register")
  <2> SUFFICES ASSUME NEW i \in CloudIds, cloud[i] # None, cloud[i].latest # None
               PROVE  LatestOf(i, cloud[i])' /\ pc' # "register"
    BY <1>3 DEF LatestInv
  <2>1. LatestOf(i, cloud[i]) /\ pc # "register"
    BY <1>0 DEF LatestInv
  <2>. QED
    BY <1>1, <1>2, <1>3, <2>1 DEF LatestOf, TwoSubmaps
<1>4. CASE AddTrajectoryReturns
  <2>1. /\ adding \in Trajectories /\ pc' = pc
        /\ UNCHANGED << cloud, uplink >> \/ \E j \in CloudIds : Registered(adding, j)
    BY <1>4, ReturnsIs
  <2>2. ASSUME NEW j \in CloudIds, Registered(adding, j) PROVE LatestInv'
    <3> SUFFICES ASSUME NEW i \in CloudIds, cloud'[i] # None, cloud'[i].latest # None
                 PROVE  LatestOf(i, cloud[i])' /\ pc' # "register"
      BY DEF LatestInv
    <3>1. i # j /\ cloud'[i] = cloud[i]
      BY <2>1, <2>2, NewTrajectoryIs DEF Registered
    <3>2. LatestOf(i, cloud[i]) /\ pc # "register" /\ cloud[i].latest \in Results
      BY <1>0, <1>1, <3>1 DEF LatestInv
    <3>3. cloud[i].of # adding /\ cloud[i].of \in Trajectories
      <4>1. cloud[i].of < adding /\ cloud[i].of \in Trajectories
        BY <1>1, <2>1, <3>1, <3>2, NoneIsNone DEF LatestOf, Past
      <4>. QED
        BY <2>1, <4>1, UploaderAssumption DEF Trajectories
    <3>4. uplink'[cloud[i].of] = uplink[cloud[i].of]
      BY <1>0, <2>2, <3>3 DEF Registered, TypeOK
    <3>. QED
      BY <1>2, <2>1, <3>1, <3>2, <3>4 DEF LatestOf, TwoSubmaps
  <2>. QED
    BY <1>3, <2>1, <2>2
<1>5. CASE Register
  <2>1. /\ pc = "register" /\ Min(todo) \in Trajectories
        /\ UNCHANGED << cloud, uplink >> \/ \E j \in CloudIds : Registered(Min(todo), j)
    BY <1>5, RegisterIs
  <2>2. ASSUME NEW j \in CloudIds, Registered(Min(todo), j) PROVE LatestInv'
    BY <1>0, <2>1, <2>2, NewTrajectoryIs DEF LatestInv, Registered
  <2>. QED
    BY <1>3, <2>1, <2>2
<1>6. CASE FinishTrajectory
  <2>1. /\ UNCHANGED << uplink, pc >>
        /\ UNCHANGED cloud \/ \E i \in CloudIds : FinishedAt(i)
    BY <1>0, <1>6, FinishTrajectoryIs DEF uploaderVars, cloudVars
  <2>2. ASSUME NEW j \in CloudIds, FinishedAt(j) PROVE LatestInv'
    <3> SUFFICES ASSUME NEW i \in CloudIds, cloud'[i] # None, cloud'[i].latest # None
                 PROVE  LatestOf(i, cloud[i])' /\ pc' # "register"
      BY DEF LatestInv
    <3>1. cloud'[i] = cloud[i]
      BY <2>2 DEF FinishedAt
    <3>2. LatestOf(i, cloud[i]) /\ pc # "register" /\ cloud[i].latest \in Results
      BY <1>0, <1>1, <3>1 DEF LatestInv
    <3>. QED
      BY <1>2, <2>1, <3>1, <3>2 DEF LatestOf, TwoSubmaps
  <2>. QED
    BY <1>3, <2>1, <2>2
<1>7. CASE Write
  <2>1. Kept(cloud') /\ UNCHANGED << adding, known, uplink >> /\ pc' # "register"
    BY <1>7, WriteIs DEF carVars
  <2>2. ASSUME NEW i \in CloudIds, cloud'[i] # None, cloud'[i].latest # None
        PROVE  LatestOf(i, cloud[i])'
    <3>1. LatestOf(i, cloud'[i])
      BY <2>1, <2>2 DEF Kept
    <3>. QED
      BY <2>1, <3>1 DEF LatestOf, Past, TwoSubmaps
  <2>. QED
    BY <2>1, <2>2 DEF LatestInv
<1>8. CASE NewSubmap \/ CloudCrashes
  <2>1. \A i \in CloudIds : cloud'[i] = None
    BY <1>8, NoneIsNone DEF NewSubmap, CloudCrashes, Named
  <2>. QED
    BY <2>1 DEF LatestInv
<1>9. CASE Pop \/ SkipResult
  <2>1. UNCHANGED << uplink, cloud >> /\ (pc' = "register" => pc = "register")
    BY <1>9 DEF Pop, SkipResult, cloudVars
  <2>. QED
    BY <1>3, <2>1
<1>. QED
  BY <1>3, <1>4, <1>5, <1>6, <1>7, <1>8, <1>9, StepCases, RestIs, GoesOnIs, ChangesIs, ResultIs,
     AddTrajectoryIs

\* In the beginning there is nothing.
LEMMA InitIInv ==
  ASSUME Init
  PROVE  IInv
<1>1. TypeOK
  <2>1. /\ 0 \in SubmapIndices /\ Len(<< >>) <= MaxQueue /\ Len(<< >>) <= BatchSize
    BY UploaderAssumption DEF SubmapIndices
  <2>2. /\ active = None /\ adding = None /\ starting = 0 /\ queue = << >>
        /\ known = {} /\ uplink = [t \in Trajectories |-> None]
        /\ pc = "loop" /\ todo = {} /\ batch = << >> /\ server = "up"
        /\ net \in { "good", "bad", "dead" }
        /\ cloud = [i \in CloudIds |-> None] /\ failed = FALSE
    BY DEF Init
  <2>3. /\ queue \in Seq(Results) /\ Len(queue) <= MaxQueue
        /\ batch \in Seq([r : Results, id : CloudIds]) /\ Len(batch) <= BatchSize
    BY <2>1, <2>2
  <2>4. /\ uplink \in [Trajectories -> CloudIds \union {None}]
        /\ cloud \in [CloudIds -> CloudTrajectories \union {None}]
    BY <2>2
  <2>. QED
    BY <2>1, <2>2, <2>3, <2>4 DEF TypeOK
<1>2. BatchInv /\ KnownInv /\ QueueInv /\ SentInv
  BY UploaderAssumption DEF Init, BatchInv, KnownInv, QueueInv, SentInv
<1>3. CloudInv /\ FinishedInv /\ LatestInv
  BY DEF Init, CloudInv, FinishedInv, LatestInv
<1>. QED
  BY <1>1, <1>2, <1>3 DEF IInv

\* Every step keeps the invariant.
LEMMA StepIInv ==
  ASSUME IInv, [Next]_vars
  PROVE  IInv'
BY StepType, StepBatch, StepKnown, StepQueue, StepSent, StepCloud, StepFinished, StepLatest DEF IInv

\* The invariant holds throughout, whatever is lost on the way.
THEOREM Invariance == Spec => []IInv
<1>1. Init => IInv
  BY InitIInv
<1>2. IInv /\ [Next]_vars => IInv'
  BY StepIInv
<1>. QED
  BY <1>1, <1>2, PTL DEF Spec

\* Every variable of the uploader and of the cloud keeps its type.
THEOREM TypeCorrect == Spec => []TypeOK
<1>1. IInv => TypeOK
  BY DEF IInv
<1>. QED
  BY <1>1, Invariance, PTL

\* What a step other than a batch does to the cloud: a trajectory stays as it was,
\* or it is new, or finished.
LEMMA CloudStep ==
  ASSUME IInv, [Next]_vars, ~ Write
  PROVE  /\ failed' = failed
         /\ \A i \in CloudIds : cloud'[i] # None =>
              \/ cloud[i] # None /\ cloud'[i] = cloud[i]
              \/ /\ cloud'[i].latest = None /\ Fits(cloud'[i])
                 /\ cloud'[i].gap => cloud[i] # None /\ cloud[i].gap
<1> DEFINE Goal == /\ failed' = failed
                   /\ \A i \in CloudIds : cloud'[i] # None =>
                        \/ cloud[i] # None /\ cloud'[i] = cloud[i]
                        \/ /\ cloud'[i].latest = None /\ Fits(cloud'[i])
                           /\ cloud'[i].gap => cloud[i] # None /\ cloud[i].gap
<1>0. TypeOK /\ FinishedInv /\ KnownInv
  BY DEF IInv
<1>1. CASE UNCHANGED << cloud, failed >>
  BY <1>1
<1>2. ASSUME NEW t \in Trajectories, NEW j \in CloudIds, Registered(t, j), failed' = failed
      PROVE  Goal
  BY <1>2, NewTrajectoryIs DEF Registered
<1>3. CASE AddTrajectoryReturns \/ Register
  BY <1>1, <1>2, <1>3, ReturnsIs, RegisterIs
<1>4. CASE FinishTrajectory
  <2>1. active # None /\ (UNCHANGED cloudVars \/ \E i \in CloudIds : FinishedAt(i))
    BY <1>0, <1>4, FinishTrajectoryIs
  <2>2. ASSUME NEW i \in CloudIds, FinishedAt(i) PROVE Goal
    <3>1. active.t \in Trajectories
      BY <1>0, <2>1 DEF TypeOK, Insertions
    <3>2. ~ cloud[i].finished
      BY <1>0, <2>1, <2>2, <3>1 DEF FinishedAt, FinishedInv
    <3>3. failed' = failed
      BY <1>0, <2>2, <3>2 DEF FinishedAt, TypeOK
    <3>. QED
      BY <2>2, <3>3 DEF FinishedAt
  <2>. QED
    BY <1>1, <2>1, <2>2 DEF cloudVars
<1>5. CASE NewSubmap \/ CloudCrashes
  <2>1. failed' = failed /\ \A i \in CloudIds : cloud'[i] = None
    BY <1>5, NoneIsNone DEF NewSubmap, CloudCrashes, Named
  <2>. QED
    BY <2>1
<1>6. CASE Pop \/ SkipResult
  BY <1>1, <1>6 DEF Pop, SkipResult, cloudVars
<1>. QED
  BY <1>1, <1>3, <1>4, <1>5, <1>6, StepCases, RestIs, GoesOnIs, ChangesIs, ResultIs, AddTrajectoryIs

\* Steps that drop nothing.
LEMMA SyncKept ==
  ASSUME IInv, SyncInv, Synced, [Next]_vars, ~ Write, batch' = batch,
         Begun \/ \A q \in Upcoming' : q \in Upcoming
  PROVE  SyncInv'
<1>0. TypeOK /\ LatestInv /\ KnownInv
  BY DEF IInv
<1> SUFFICES ASSUME NEW i \in CloudIds, cloud'[i] # None, cloud'[i].latest # None,
                    NEW q \in Unsent(1)'
             PROVE  After(q, cloud'[i].latest)
  BY DEF SyncInv, After, Follows, NextIndex
<1>1. cloud[i] # None /\ cloud'[i] = cloud[i]
  BY CloudStep
<1>2. CASE q \in Unsent(1)
  BY <1>1, <1>2 DEF SyncInv
<1>3. CASE q \notin Unsent(1)
  <2>1. Begun /\ q.t = adding
    BY <1>3 DEF Unsent, Begun
  <2>2. LatestOf(i, cloud[i])
    BY <1>0, <1>1 DEF LatestInv
  <2>3. cloud[i].latest.t < adding
    BY <2>1, <2>2 DEF LatestOf, Past, Begun
  <2>4. cloud[i].latest.t \in Trajectories
    BY <1>0, <1>1, <2>2 DEF TypeOK, CloudTrajectories, LatestOf
  <2>5. adding \in Trajectories
    BY <1>0, <2>1 DEF Begun, TypeOK
  <2>. QED
    BY <1>1, <2>1, <2>3, <2>4, <2>5, UploaderAssumption DEF After, Trajectories
<1>. QED
  BY <1>2, <1>3

\* While the thread is in step, what it sends next comes after what the cloud has.
LEMMA StepSync ==
  ASSUME IInv, SyncInv, FitsInv, NothingLeftOut, NoCheckFails, ShortOutages, [Next]_vars
  PROVE  SyncInv'
<1>0. TypeOK /\ CloudInv /\ LatestInv /\ BatchInv /\ KnownInv
  BY DEF IInv
<1>1. CASE ~ Synced'
  BY <1>1 DEF SyncInv
<1>2. CASE pc' = "register"
  BY <1>2, StepLatest DEF SyncInv, LatestInv
<1>3. ASSUME Synced' => Synced, batch' = batch, ~ Write, ~ Pop, ~ SkipResult
      PROVE  SyncInv'
  BY <1>1, <1>3, StepQueue, SyncKept
<1>4. CASE Write
  <2>1. /\ pc' \in {"loop", "connect"} /\ batch' = << >>
        /\ UNCHANGED << queue, active, starting >>
        /\ pc' = "loop" => \A i \in CloudIds : cloud'[i] # None /\ cloud'[i].latest # None =>
                             \A q \in Upcoming : After(q, cloud'[i].latest)
    BY <1>4, WriteIs DEF carVars
  <2>2. Unsent(1)' = Upcoming
    BY <2>1 DEF Unsent, Upcoming, NextResult, LocalSlamResult, InsertRangeData, NextIndex
  <2>. QED
    BY <2>1, <2>2 DEF SyncInv, Synced, After, Follows, NextIndex
<1>5. CASE Pop
  <2>1. /\ pc = "pop" /\ queue # << >> /\ queue[1] \in Results /\ cloud' = cloud
        /\ \/ pc' = "connect"
           \/ /\ uplink[queue[1].t] \in CloudIds
              /\ batch' = Append(batch, [r |-> queue[1], id |-> uplink[queue[1].t]])
    BY <1>0, <1>5, PopIs DEF cloudVars
  <2>2. CASE pc' = "connect"
    BY <1>1, <2>2 DEF Synced
  <2>3. CASE /\ uplink[queue[1].t] \in CloudIds
             /\ batch' = Append(batch, [r |-> queue[1], id |-> uplink[queue[1].t]])
    <3>1. /\ Len(batch') = Len(batch) + 1 /\ Len(batch) \in Nat
          /\ batch'[Len(batch) + 1].r = queue[1]
          /\ \A k \in 1 .. Len(batch) : batch'[k] = batch[k]
      BY <1>0, <2>1, <2>3, BatchGets, BatchTypes
    <3>2. Unsent(1)' = Unsent(1)
      <4>1. CASE Len(batch) = 0
        BY <2>1, <3>1, <4>1 DEF Unsent, Upcoming
      <4>2. CASE Len(batch) # 0
        <5>1. 1 \in 1 .. Len(batch) /\ 1 <= Len(batch) /\ 1 <= Len(batch')
          BY <3>1, <4>2
        <5>. QED
          BY <3>1, <5>1 DEF Unsent
      <4>. QED
        BY <4>1, <4>2
    <3>. QED
      BY <2>1, <3>2 DEF SyncInv, Synced, After, Follows, NextIndex
  <2>. QED
    BY <2>1, <2>2, <2>3
<1>6. CASE SkipResult
  BY <1>1, <1>6 DEF SkipResult, Synced
<1>7. CASE NewSubmap
  BY <1>2, <1>7 DEF NewSubmap
<1>8. CASE Register
  <2>1. pc = "register" /\ batch' = batch
    BY <1>8, RegisterIs
  <2>. QED
    BY <1>3, <1>4, <1>5, <1>6, <2>1 DEF Synced
<1>9. CASE GoesOn
  <2>1. /\ batch' = batch /\ cloud' = cloud /\ server' = server
        /\ pc' # "write" /\ pc' # "register"
        /\ pc' = "pop" => pc = "loop" /\ server = "up"
        /\ pc' = "loop" =>
              \/ pc = "pop"
              \/ pc = "skip" /\ server # "up"
              \/ pc = "connect" /\ (net = "dead" \/ ~ ShortOutages)
    BY <1>9, GoesOnIs
  <2>2. CASE net = "dead"
    BY <1>0, <2>1, <2>2 DEF CloudInv, SyncInv
  <2>3. CASE net # "dead"
    <3>1. Synced' => Synced
      BY <2>1, <2>3 DEF Synced
    <3>. QED
      BY <1>3, <1>4, <1>5, <1>6, <2>1, <3>1
  <2>. QED
    BY <2>2, <2>3
<1>10. CASE UNCHANGED << pc, batch >> /\ (server' = "up" => server = "up")
  <2>1. Synced' => Synced
    BY <1>10 DEF Synced
  <2>. QED
    BY <1>3, <1>4, <1>5, <1>6, <1>10, <2>1
<1>11. CASE FinishTrajectory
  <2>1. UNCHANGED << pc, batch, server >>
    BY <1>0, <1>11, FinishTrajectoryIs DEF uploaderVars
  <2>. QED
    BY <1>10, <2>1
<1>12. CASE CloudCrashes
  <2>1. UNCHANGED << pc, batch, server >>
    BY <1>12 DEF CloudCrashes, uploaderVars
  <2>. QED
    BY <1>10, <2>1
<1>. QED
  BY <1>4, <1>5, <1>6, <1>7, <1>8, <1>9, <1>10, <1>11, <1>12, StepCases, RestIs, ChangesIs, ReturnsIs,
     ResultIs, AddTrajectoryIs

\* Every step keeps the order of results and the CHECKs, if outages are short.
LEMMA StepSafe ==
  ASSUME SafeInv, ShortOutages, [Next]_vars
  PROVE  SafeInv'
<1>0. IInv /\ SyncInv /\ FitsInv /\ NothingLeftOut /\ NoCheckFails
  BY DEF SafeInv
<1>1. IInv' /\ SyncInv'
  BY <1>0, StepIInv, StepSync
<1>2. CASE Write
  BY <1>0, <1>1, <1>2, WriteIs DEF SafeInv
<1>3. CASE ~ Write
  <2>1. FitsInv'
    BY <1>0, <1>3, CloudStep DEF FitsInv, Fits
  <2>2. NothingLeftOut'
    BY <1>0, <1>3, CloudStep DEF NothingLeftOut
  <2>3. NoCheckFails'
    BY <1>0, <1>3, CloudStep DEF NoCheckFails
  <2>. QED
    BY <1>1, <2>1, <2>2, <2>3 DEF SafeInv
<1>. QED
  BY <1>2, <1>3

\* An empty cloud has nothing that is out of order.
LEMMA InitSafe ==
  ASSUME Init
  PROVE  SafeInv
BY InitIInv DEF SafeInv, Init, SyncInv, FitsInv, NothingLeftOut, NoCheckFails

\* If outages are short, the uploader and the cloud stay in step.
THEOREM SafeInvariance == ShortOutages => (Spec => []SafeInv)
<1> SUFFICES ASSUME ShortOutages PROVE Spec => []SafeInv
  OBVIOUS
<1>1. Init => SafeInv
  BY InitSafe
<1>2. SafeInv /\ [Next]_vars => SafeInv'
  BY StepSafe
<1>. QED
  BY <1>1, <1>2, PTL DEF Spec

\* "We can no longer upload to those" (local_trajectory_uploader.cc:181): what a
\* trajectory of the cloud gets are results of one local trajectory, none left out and
\* none twice, for any number of trajectories, any size of submaps, batches and queue.
THEOREM NoResultLeftOut == ShortOutages => (Spec => []NothingLeftOut)
<1>1. SafeInv => NothingLeftOut
  BY DEF SafeInv
<1>. QED
  BY <1>1, SafeInvariance, PTL

\* The submaps of every node that the cloud gets fit its pose graph, and no trajectory
\* is finished twice: no CHECK of the cloud's server fails (pose_graph_2d.cc:80-122).
THEOREM CloudChecksHold == ShortOutages => (Spec => []NoCheckFails)
<1>1. SafeInv => NoCheckFails
  BY DEF SafeInv
<1>. QED
  BY <1>1, SafeInvariance, PTL
=============================================================================
