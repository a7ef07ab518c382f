---------------------------- MODULE CachesProofs ----------------------------
(***************************************************************************)
(* What a process learns from servers and keeps, for any quota windows,    *)
(* thresholds and times, any accounts that share a catalog, and any hosts  *)
(* and releases: one refresh and one fetch at a time, a warning per        *)
(* threshold and period, no cooldown lifted from an exhausted account, and *)
(* nothing known replaced by something worse.                              *)
(***************************************************************************)
EXTENDS MCCaches, FiniteSetTheorems, SequenceTheorems, TLAPS

-----------------------------------------------------------------------------
(* Greatest elements and counts                                            *)

\* A nonempty finite set of numbers has a greatest element, and Maximum is it.
LEMMA MaximumIsGreatest ==
    ASSUME NEW S \in SUBSET Nat, IsFiniteSet(S), S # {}
    PROVE  Maximum(S) \in S /\ \A k \in S : k <= Maximum(S)
<1> DEFINE Above(k) == {i \in S : i > k}
           T == {Above(k) : k \in S}
<1>1. T \subseteq FiniteSubsetsOf(S) /\ T # {}
  <2>1. ASSUME NEW k \in S PROVE Above(k) \in FiniteSubsetsOf(S)
    <3>1. Above(k) \in SUBSET S
      OBVIOUS
    <3> HIDE DEF Above
    <3> QED
      BY <3>1, FS_Subset DEF FiniteSubsetsOf
  <2> HIDE DEF Above
  <2> QED
    BY <2>1
<1>2. PICK U \in T : \A V \in T : <<V, U>> \notin StrictSubsetOrdering(S)
  <2> HIDE DEF T
  <2> QED
    BY <1>1, FS_StrictSubsetOrderingWellFounded, WFMin
<1>3. PICK k \in S : U = Above(k)
  BY <1>2
<1>4. ASSUME NEW i \in S PROVE i <= k
  <2>1. i \in Nat /\ k \in Nat
    BY <1>4
  <2>2. SUFFICES ASSUME i > k PROVE FALSE
    BY <2>1
  <2>3. Above(i) \subseteq U /\ i \in U /\ i \notin Above(i)
    <3>1. i \in U
      BY <1>3, <2>2
    <3>2. i \notin Above(i)
      BY <2>1
    <3>3. ASSUME NEW j \in Above(i) PROVE j \in U
      <4>1. j \in S /\ j \in Nat /\ j > i
        BY <3>3
      <4>2. j > k
        BY <2>1, <2>2, <4>1
      <4> QED
        BY <1>3, <4>1, <4>2
    <3> QED
      BY <3>1, <3>2, <3>3
  <2>4. Above(i) \in T /\ Above(i) \in SUBSET S /\ U \in SUBSET S
    BY <1>3, <1>4
  <2> HIDE DEF Above, T
  <2>5. <<Above(i), U>> \in StrictSubsetOrdering(S)
    BY <2>3, <2>4 DEF StrictSubsetOrdering
  <2> QED
    BY <1>2, <2>4, <2>5
<1> QED
  BY <1>4 DEF Maximum, Max

\* The greatest of numbers within a bound is within it; without any it is 0.
LEMMA MaximumWithin ==
    ASSUME NEW n \in Nat, NEW S \in SUBSET (0..n)
    PROVE  Maximum(S) \in 0..n
<1>1. IsFiniteSet(S) /\ S \in SUBSET Nat
  <2>1. IsFiniteSet(0..n)
    BY FS_Interval
  <2> QED
    BY <2>1, FS_Subset, 0..n \subseteq Nat
<1>2. CASE S = {}
  BY <1>2 DEF Maximum
<1>3. CASE S # {}
  BY <1>1, <1>3, MaximumIsGreatest
<1> QED
  BY <1>2, <1>3

\* The longest a cooldown may last.
Longest == Maximum({FallbackCool} \cup Range(Period))

LEMMA WindowsFinite == IsFiniteSet(Windows)
<1>1. IsFiniteSet({FiveHour})
  BY FS_Singleton
<1>2. IsFiniteSet({FiveHour} \cup {Weekly})
  BY <1>1, FS_AddElement
<1>3. Windows = {FiveHour} \cup {Weekly}
  BY DEF Windows
<1> QED
  BY <1>2, <1>3

LEMMA LongestBounds ==
    /\ Longest \in Nat /\ FallbackCool <= Longest
    /\ \A w \in Windows : Period[w] <= Longest
<1> DEFINE S == {FallbackCool} \cup Range(Period)
<1>1. Range(Period) \in SUBSET Nat /\ \A w \in Windows : Period[w] \in Range(Period)
  BY QuotaConstants DEF Range
<1>2. IsFiniteSet(Range(Period))
  <2>1. Period \in Surjection(Windows, Range(Period))
    BY QuotaConstants DEF Range, Surjection
  <2> QED
    BY <2>1, WindowsFinite, FS_Surjection
<1>3. IsFiniteSet(S) /\ S \in SUBSET Nat /\ S # {}
  <2>1. IsFiniteSet(Range(Period) \cup {FallbackCool})
    BY <1>2, FS_AddElement
  <2>2. S = Range(Period) \cup {FallbackCool}
    OBVIOUS
  <2> QED
    BY <1>1, <2>1, <2>2, QuotaConstants
<1>4. Maximum(S) \in S /\ \A k \in S : k <= Maximum(S)
  <2> HIDE DEF S
  <2> QED
    BY <1>3, MaximumIsGreatest
<1> QED
  BY <1>1, <1>3, <1>4 DEF Longest

\* The thresholds a quantity has reached are counted, and less reaches more.
LEMMA IndexType ==
    ASSUME NEW n \in Nat
    PROVE  Index(n) \in 0..Len(Thresholds)
<1>1. Len(Thresholds) \in Nat /\ DOMAIN Thresholds = 1..Len(Thresholds)
  BY QuotaConstants
<1>2. IsFiniteSet(1..Len(Thresholds)) /\ Cardinality(1..Len(Thresholds)) = Len(Thresholds)
  <2>1. ASSUME NEW m \in Nat PROVE IsFiniteSet(1..m) /\ Cardinality(1..m) = m
    <3>1. IsFiniteSet(1..m) /\ Cardinality(1..m) = IF 1 > m THEN 0 ELSE m - 1 + 1
      BY FS_Interval
    <3> QED
      BY <3>1
  <2> QED
    BY <1>1, <2>1
<1> DEFINE Reached == {i \in DOMAIN Thresholds : n =< Thresholds[i]}
<1>3. Reached \in SUBSET (1..Len(Thresholds))
  BY <1>1
<1> HIDE DEF Reached
<1>4. Cardinality(Reached) \in Nat /\ Cardinality(Reached) <= Len(Thresholds)
  <2>1. IsFiniteSet(Reached) /\ Cardinality(Reached) <= Cardinality(1..Len(Thresholds))
    BY <1>2, <1>3, FS_Subset
  <2> QED
    BY <1>2, <2>1, FS_CardinalityType
<1>5. Index(n) = Cardinality(Reached)
  BY DEF Index, Reached
<1> QED
  BY <1>1, <1>4, <1>5

LEMMA IndexNat == \A n \in Nat : Index(n) \in Nat
<1>1. Len(Thresholds) \in Nat
  BY QuotaConstants
<1>2. 0..Len(Thresholds) \subseteq Nat
  BY <1>1
<1> QED
  BY <1>2, IndexType

LEMMA IndexGrows ==
    ASSUME NEW n \in Nat, NEW m \in Nat, n <= m
    PROVE  Index(m) <= Index(n)
<1> DEFINE Reached(k) == {i \in DOMAIN Thresholds : k =< Thresholds[i]}
<1>1. DOMAIN Thresholds = 1..Len(Thresholds) /\ Len(Thresholds) \in Nat
      /\ \A i \in DOMAIN Thresholds : Thresholds[i] \in Nat
  BY QuotaConstants
<1>2. IsFiniteSet(Reached(n))
  <2>1. IsFiniteSet(1..Len(Thresholds)) /\ Reached(n) \in SUBSET (1..Len(Thresholds))
    BY <1>1, FS_Interval
  <2> HIDE DEF Reached
  <2> QED
    BY <2>1, FS_Subset
<1>3. Reached(m) \subseteq Reached(n)
  BY <1>1
<1> HIDE DEF Reached
<1>4. Cardinality(Reached(m)) <= Cardinality(Reached(n))
  BY <1>2, <1>3, FS_Subset
<1> QED
  BY <1>4 DEF Index, Reached

LEMMA IndexOrder == \A n, m \in Nat : n <= m => Index(m) <= Index(n)
BY IndexGrows
-----------------------------------------------------------------------------
(* The quota of an account                                                 *)

LEMMA QuotaNumbers ==
    /\ Ttl \in Nat /\ Retry \in Nat /\ FetchLimit \in Nat /\ FallbackCool \in Nat /\ MaxUsers \in Nat
    /\ Steps \in Nat /\ Steps >= 1 /\ Len(Thresholds) \in Nat
    /\ 0..Steps \subseteq Nat
BY QuotaConstants

Reports == [left : [Windows -> 0..Steps], shown : SUBSET Windows, told : SUBSET Windows,
            old : SUBSET Windows]
Job == [phase : {"fetch", "store", "cool"}, age : 0..FetchLimit, reading : Reports \cup {NoReading}]

\* The types of the quota's parts, one refresh at most.
QuotaTyped ==
  /\ left \in [Windows -> 0..Steps]
  /\ resetIn \in [Windows -> Nat] /\ \A w \in Windows : resetIn[w] \in 1..Period[w]
  /\ stored \in SUBSET Windows
  /\ cooling \in 0..Longest
  /\ users \in 0..MaxUsers
  /\ refreshIn \in 0..Ttl
  /\ tracker \in [index : [Windows -> 0..Len(Thresholds)], exhausted : [Windows -> BOOLEAN]]
  /\ jobs \in Seq(Job) /\ Len(jobs) <= 1
  /\ probe \in [phase : {"idle", "ask", "store", "lift"}, lifts : BOOLEAN,
                benching : SUBSET Windows, since : SUBSET Windows]
  /\ warned \in [Windows -> SUBSET Nat]
  /\ mixed \in SUBSET Windows

\* While a refresh is under way, its age and the time to the next make up the
\* period between two, and past its fetch it has a reading.
Paced ==
  \A j \in DOMAIN jobs : /\ jobs[j].age + refreshIn = Ttl
                         /\ jobs[j].phase # "fetch" => jobs[j].reading \in Reports

\* What was warned of since a window's reset had been reached by then: by the
\* server's count, by the tracker, and by a reading still to be evaluated that
\* shows the window.  A reading from before the reset finds no warnings after
\* it.  Nothing is said of a window for which another one was taken.
WarnedInOrder ==
  /\ \A w \in Windows \ mixed : \A n \in warned[w] : n <= Index(left[w]) /\ n <= tracker.index[w]
  /\ \A j \in DOMAIN jobs : jobs[j].phase = "store" =>
       \A w \in jobs[j].reading.shown \ mixed :
         IF w \in jobs[j].reading.old THEN warned[w] = {}
         ELSE /\ left[w] <= jobs[j].reading.left[w]
              /\ \A n \in warned[w] : n <= Index(jobs[j].reading.left[w])

\* What the status command saw exhausted has been since, and once it is shown
\* such a window it lifts nothing.
ProbeHolds ==
  /\ probe.phase = "ask" => \A w \in probe.since : left[w] = 0
  /\ probe.phase \in {"store", "lift"} /\ probe.lifts => probe.since = {}
  /\ probe.phase = "lift" => probe.lifts

QuotaInv == QuotaTyped /\ Paced /\ WarnedInOrder /\ ProbeHolds

-----------------------------------------------------------------------------
(* One refresh at a time, so its job is the first.                         *)

LEMMA OnlyJob ==
    ASSUME QuotaTyped, NEW j \in DOMAIN jobs
    PROVE  /\ j = 1 /\ DOMAIN jobs = {1} /\ jobs[1] \in Job
           /\ RemoveAt(jobs, j) = <<>>
<1>1. jobs \in Seq(Job) /\ Len(jobs) \in Nat /\ Len(jobs) <= 1 /\ DOMAIN jobs = 1..Len(jobs)
  BY DEF QuotaTyped
<1>2. Len(jobs) = 1 /\ j = 1
  BY <1>1
<1>3. RemoveAt(jobs, 1) = <<>>
  BY <1>1, <1>2 DEF RemoveAt
<1> QED
  BY <1>1, <1>2, <1>3

LEMMA ChangedJob ==
    ASSUME QuotaTyped, NEW j \in DOMAIN jobs, NEW x \in Job
    PROVE  LET s == [jobs EXCEPT ![j] = x]
           IN s \in Seq(Job) /\ Len(s) = 1 /\ DOMAIN s = {1} /\ s[1] = x
<1>1. j = 1 /\ jobs \in Seq(Job) /\ DOMAIN jobs = {1} /\ Len(jobs) \in Nat /\ DOMAIN jobs = 1..Len(jobs)
  BY OnlyJob DEF QuotaTyped
<1>2. Len(jobs) = 1
  BY <1>1
<1> QED
  BY <1>1, <1>2

\* Nothing under way: what is said of jobs holds of none.
LEMMA NoJob ==
    /\ <<>> \in Seq(Job) /\ Len(<<>>) <= 1 /\ DOMAIN <<>> = {}
OBVIOUS

\* A reading as it is taken, and as it ages.
LEMMA ReadingType ==
    ASSUME QuotaTyped, NEW r \in Readings
    PROVE  /\ r \in Reports /\ r.old = {}
           /\ \A w \in r.shown : w \in Windows /\ r.left[w] = left[w]
<1>1. PICK shown \in SUBSET Windows, told \in SUBSET Windows : r = Reading(shown, told)
  BY DEF Readings, Shows
<1>2. Steps \in 0..Steps
  BY QuotaNumbers
<1> QED
  BY <1>1, <1>2 DEF QuotaTyped, Reading, Reports

LEMMA BenchingType == ASSUME NEW r \in Reports PROVE Benching(r) \in SUBSET Windows
BY DEF Benching, Current, Reports

LEMMA AgedType ==
    ASSUME NEW r \in Reports \cup {NoReading}, NEW ws \in SUBSET Windows
    PROVE  /\ Aged(r, ws) \in Reports \cup {NoReading}
           /\ r \in Reports => /\ Aged(r, ws) \in Reports
                               /\ Aged(r, ws).left = r.left /\ Aged(r, ws).shown = r.shown
                               /\ Aged(r, ws).old = r.old \cup (ws \cap r.shown)
<1>1. CASE r = NoReading
  BY <1>1, QuotaConstants DEF Aged, Reports
<1>2. CASE r \in Reports
  <2>1. r # NoReading
    BY <1>2, QuotaConstants DEF Reports
  <2> QED
    BY <1>2, <2>1 DEF Aged, Reports
<1> QED
  BY <1>1, <1>2

\* A job a tick later, with the reading it has then.
LEMMA OlderJob ==
    ASSUME NEW x \in Job, x.age < FetchLimit, NEW r \in Reports \cup {NoReading}
    PROVE  LET y == [x EXCEPT !.age = @ + 1, !.reading = r]
           IN y \in Job /\ y.age = x.age + 1 /\ y.phase = x.phase /\ y.reading = r
<1>1. x.age + 1 \in 0..FetchLimit
  BY QuotaNumbers DEF Job
<1> QED
  BY <1>1 DEF Job

\* No cooldown is longer than the longest.
LEMMA ResetsWithin ==
    ASSUME QuotaTyped, NEW ws \in SUBSET Windows
    PROVE  Maximum({resetIn[w] : w \in ws}) \in 0..Longest
<1>1. \A w \in Windows : resetIn[w] \in Nat /\ Period[w] \in Nat /\ resetIn[w] <= Period[w]
                         /\ Period[w] <= Longest
  BY LongestBounds, QuotaConstants DEF QuotaTyped
<1> DEFINE S == {resetIn[w] : w \in ws}
<1>2. S \in SUBSET (0..Longest) /\ Longest \in Nat
  BY <1>1, LongestBounds
<1> HIDE DEF S
<1>3. Maximum(S) \in 0..Longest
  BY <1>2, MaximumWithin
<1> QED
  BY <1>3 DEF S

LEMMA BenchedType ==
    ASSUME QuotaTyped
    PROVE  Benched \in 0..Longest
<1>1. \A w \in Windows : resetIn[w] \in Nat /\ Period[w] \in Nat /\ resetIn[w] <= Period[w]
                         /\ Period[w] <= Longest
  BY LongestBounds, QuotaConstants DEF QuotaTyped
<1> DEFINE S == {cooling} \cup {resetIn[w] : w \in stored}
<1>2. S \in SUBSET (0..Longest) /\ Longest \in Nat
  <2>1. stored \in SUBSET Windows /\ cooling \in 0..Longest
    BY DEF QuotaTyped
  <2> QED
    BY <1>1, <2>1, LongestBounds
<1> HIDE DEF S
<1>3. Maximum(S) \in 0..Longest
  BY <1>2, MaximumWithin
<1> QED
  BY <1>3 DEF S, Benched

LEMMA CooldownType ==
    ASSUME QuotaTyped, NEW r \in Reports, NEW ws \in SUBSET Windows
    PROVE  Cooldown(r, ws) \in 0..Longest
<1>1. Current(r, ws) \in SUBSET Windows
  BY DEF Current
<1>2. Maximum(Ahead(r, ws)) \in 0..Longest
  BY <1>1, ResetsWithin DEF Ahead
<1> QED
  BY <1>2, LongestBounds, QuotaConstants DEF Cooldown

-----------------------------------------------------------------------------
(* Every step keeps the quota's invariant.                                 *)

LEMMA QuotaStarts == QuotaInit => QuotaInv
<1> SUFFICES ASSUME QuotaInit PROVE QuotaInv
  OBVIOUS
<1>1. QuotaTyped
  <2>1. \A w \in Windows : resetIn[w] \in 1..Period[w]
    BY QuotaConstants DEF QuotaInit
  <2>2. Len(Thresholds) \in Nat
    BY QuotaConstants
  <2> QED
    BY <2>1, <2>2, NoJob, LongestBounds, QuotaConstants DEF QuotaInit, QuotaTyped, Untracked, NoProbe
<1>2. Paced /\ WarnedInOrder /\ ProbeHolds
  BY NoJob DEF QuotaInit, Paced, WarnedInOrder, ProbeHolds, NoProbe
<1> QED
  BY <1>1, <1>2 DEF QuotaInv

LEMMA PickKeeps == QuotaInv /\ Pick => QuotaInv'
<1> SUFFICES ASSUME QuotaInv, Pick PROVE QuotaInv'
  OBVIOUS
<1> USE DEF QuotaInv
<1>1. users' \in 0..MaxUsers
  BY QuotaConstants DEF Pick, QuotaTyped
<1>2. QuotaTyped'
  BY <1>1, BenchedType DEF Pick, QuotaTyped
<1> QED
  BY <1>2 DEF Pick, Paced, WarnedInOrder, ProbeHolds

\* A refresh is scheduled only when none is under way: its period is not over.
LEMMA ScheduleKeeps ==
    ASSUME QuotaInv, NEW ok \in BOOLEAN, Answer(ok)
    PROVE  QuotaInv'
<1> USE DEF QuotaInv
<1>1. users' \in 0..MaxUsers /\ stored' \in SUBSET Windows
  <2>1. \A r \in Readings : Benching(r) \in SUBSET Windows
    BY ReadingType, BenchingType
  <2>2. users' \in 0..MaxUsers
    BY QuotaConstants DEF Answer, QuotaTyped
  <2> QED
    BY <2>1, <2>2 DEF Answer, QuotaTyped
<1>2. CASE UNCHANGED <<refreshIn, jobs>>
  <2>1. QuotaTyped'
    BY <1>1, <1>2 DEF Answer, QuotaTyped
  <2> QED
    BY <1>2, <2>1 DEF Answer, Paced, WarnedInOrder, ProbeHolds
<1>3. CASE ok /\ refreshIn = 0
  <2> DEFINE new == [phase |-> "fetch", age |-> 0, reading |-> NoReading]
  <2>1. jobs = <<>>
    <3>1. ASSUME NEW j \in DOMAIN jobs PROVE FALSE
      <4>1. jobs[j].age \in 0..FetchLimit /\ jobs[j].age + refreshIn = Ttl
        BY OnlyJob DEF Paced, Job
      <4> QED
        BY <1>3, <4>1, QuotaNumbers, TimingAssumption
    <3>2. jobs \in Seq(Job) /\ DOMAIN jobs = {}
      BY <3>1 DEF QuotaTyped
    <3> QED
      BY <3>2, EmptySeq
  <2>2. refreshIn' = Ttl /\ jobs' = <<new>> /\ new \in Job
    BY <1>3, <2>1, QuotaConstants DEF Answer, Schedule, Job
  <2>3. jobs' \in Seq(Job) /\ Len(jobs') <= 1 /\ DOMAIN jobs' = {1} /\ jobs'[1] = new
    <3> HIDE DEF new
    <3> QED
      BY <2>2
  <2>4. QuotaTyped'
    BY <1>1, <2>2, <2>3, QuotaConstants DEF Answer, QuotaTyped
  <2>5. Paced' /\ WarnedInOrder' /\ ProbeHolds'
    BY <2>2, <2>3, QuotaConstants DEF Answer, Paced, WarnedInOrder, ProbeHolds
  <2> QED
    BY <2>4, <2>5
<1> QED
  BY <1>2, <1>3 DEF Answer, Schedule

LEMMA FailsKeeps ==
    ASSUME QuotaInv, NEW j \in 1..2, Fails(j)
    PROVE  QuotaInv'
<1> USE DEF QuotaInv
<1>1. jobs' = <<>> /\ jobs[j] \in Job
  BY OnlyJob DEF Fails, Ended
<1>2. refreshIn' \in 0..Ttl
  BY <1>1, QuotaNumbers, TimingAssumption DEF Fails, Lower, Job
<1>3. QuotaTyped'
  BY <1>1, <1>2, NoJob DEF Fails, QuotaTyped
<1> QED
  BY <1>1, <1>3, NoJob DEF Fails, Paced, WarnedInOrder, ProbeHolds

LEMMA FetchedKeeps ==
    ASSUME QuotaInv, NEW j \in 1..2, NEW r \in Readings, Fetched(j, r)
    PROVE  QuotaInv'
<1> USE DEF QuotaInv
<1> DEFINE x == [jobs[j] EXCEPT !.phase = "store", !.reading = r]
<1>1. j \in DOMAIN jobs /\ jobs[j] \in Job
  BY OnlyJob DEF Fetched, At
<1>2. x \in Job /\ x.age = jobs[j].age /\ x.phase = "store" /\ x.reading = r
      /\ r \in Reports
  BY <1>1, ReadingType DEF Job
<1>3. jobs' = [jobs EXCEPT ![j] = x]
  BY DEF Fetched
<1> HIDE DEF x
<1>4. jobs' \in Seq(Job) /\ Len(jobs') = 1 /\ DOMAIN jobs' = {1} /\ jobs'[1] = x
  BY <1>1, <1>2, <1>3, ChangedJob
<1>5. QuotaTyped'
  BY <1>4 DEF Fetched, QuotaTyped
<1>6. Paced'
  BY <1>1, <1>2, <1>4, OnlyJob DEF Fetched, Paced
<1>7. WarnedInOrder'
  <2>1. ASSUME NEW w \in r.shown \ mixed
        PROVE  /\ r.left[w] = left[w] /\ left[w] \in Nat /\ w \notin r.old
               /\ \A n \in warned[w] : n <= Index(left[w])
    BY <2>1, ReadingType, QuotaNumbers DEF QuotaTyped, WarnedInOrder
  <2> QED
    BY <1>2, <1>4, <2>1 DEF Fetched, WarnedInOrder
<1> QED
  BY <1>5, <1>6, <1>7 DEF Fetched, ProbeHolds

LEMMA CoolKeeps ==
    ASSUME QuotaInv, NEW j \in 1..2, Cool(j)
    PROVE  QuotaInv'
<1> USE DEF QuotaInv
<1>1. jobs' = <<>> /\ jobs[j].reading \in Reports
  BY OnlyJob DEF Cool, Ended, At, Paced
<1>2. cooling' \in 0..Longest
  BY <1>1, CooldownType DEF Cool, Crossed
<1>3. QuotaTyped'
  BY <1>1, <1>2, NoJob DEF Cool, QuotaTyped
<1> QED
  BY <1>1, <1>3, NoJob DEF Cool, Paced, WarnedInOrder, ProbeHolds

\* Evaluating: a warning is of what the reading shows, and a reading shows at
\* least what is left now.
LEMMA EvaluateKeeps ==
    ASSUME QuotaInv, NEW j \in 1..2, Evaluate(j)
    PROVE  QuotaInv'
<1> USE DEF QuotaInv
<1> DEFINE r == jobs[j].reading
           amount == [w \in Windows |-> Amount(r, w)]
<1>1. j \in DOMAIN jobs /\ jobs[j] \in Job /\ r \in Reports /\ j = 1 /\ jobs[j].phase = "store"
  BY OnlyJob DEF Evaluate, At, Paced
<1>2. /\ stored' = Benching(r) /\ tracker' = Tracked(r)
      /\ warned' = [w \in Windows |-> IF w \in Warnings(r) \ r.old
                                      THEN warned[w] \cup {Index(Amount(r, w))} ELSE warned[w]]
      /\ mixed' = mixed \cup (Evaluated(r) \ r.shown)
      /\ UNCHANGED <<left, resetIn, cooling, users, refreshIn, probe>>
  BY DEF Evaluate
<1>3. /\ \A w \in Windows : Amount(r, w) \in Nat /\ Index(Amount(r, w)) \in 0..Len(Thresholds)
      /\ Evaluated(r) \in SUBSET Windows
      /\ tracker' \in [index : [Windows -> 0..Len(Thresholds)], exhausted : [Windows -> BOOLEAN]]
      /\ \A w \in Windows : tracker'.index[w] = IF w \in Evaluated(r) THEN Index(Amount(r, w))
                                                                 ELSE tracker.index[w]
  <2>1. \A w \in Windows : Amount(r, w) \in Nat /\ Index(Amount(r, w)) \in 0..Len(Thresholds)
    <3>1. \A w \in Windows : Source(r, w) \in Windows
      BY DEF Source, Windows
    <3>2. \A w \in Windows : Amount(r, w) \in Nat
      BY <1>1, <3>1, QuotaNumbers DEF Reports, Amount
    <3> HIDE DEF r
    <3> QED
      BY <3>2, IndexType
  <2>2. Evaluated(r) \in SUBSET Windows
    BY <1>1 DEF Evaluated, Reports, Windows
  <2> HIDE DEF r
  <2>3. tracker \in [index : [Windows -> 0..Len(Thresholds)], exhausted : [Windows -> BOOLEAN]]
    BY DEF QuotaTyped
  <2> QED
    BY <1>2, <2>1, <2>2, <2>3 DEF Tracked
<1>4. \/ jobs' = <<>>
      \/ /\ jobs' \in Seq(Job) /\ Len(jobs') = 1 /\ DOMAIN jobs' = {1}
         /\ jobs'[1].age = jobs[1].age /\ jobs'[1].phase = "cool" /\ jobs'[1].reading \in Reports
  <2>1. CASE Crossings(r) = {}
    BY <1>1, <2>1, OnlyJob DEF Evaluate, Ended
  <2>2. CASE Crossings(r) # {}
    <3> DEFINE l == [w \in Windows |-> IF \E v \in Crossings(r) : w = Source(r, v) THEN 0 ELSE 1]
               x == [jobs[j] EXCEPT !.phase = "cool", !.reading = [r EXCEPT !.left = l]]
    <3>1. l \in [Windows -> 0..Steps]
      BY QuotaConstants
    <3>2. jobs' = [jobs EXCEPT ![j] = x]
      BY <1>1, <2>2 DEF Evaluate, Job
    <3> HIDE DEF l
    <3>3. x \in Job /\ x.age = jobs[1].age /\ x.phase = "cool" /\ x.reading \in Reports
      BY <1>1, <3>1 DEF Job, Reports
    <3> HIDE DEF x
    <3> QED
      BY <1>1, <3>2, <3>3, ChangedJob
  <2> QED
    BY <2>1, <2>2
<1>5. warned' \in [Windows -> SUBSET Nat] /\ mixed' \in SUBSET Windows
  <2> HIDE DEF r
  <2>1. \A w \in Windows : Index(Amount(r, w)) \in Nat
    BY <1>3, QuotaNumbers
  <2> QED
    BY <1>2, <1>3, <2>1 DEF QuotaTyped
<1>6. QuotaTyped'
  <2>1. jobs' \in Seq(Job) /\ Len(jobs') <= 1
    <3>1. CASE jobs' = <<>>
      BY <3>1, NoJob
    <3>2. CASE jobs' # <<>>
      <4>1. jobs' \in Seq(Job) /\ Len(jobs') = 1
        BY <1>4, <3>2
      <4> QED
        BY <4>1
    <3> QED
      BY <3>1, <3>2
  <2>2. stored' \in SUBSET Windows
    BY <1>1, <1>2, BenchingType
  <2> QED
    BY <1>2, <1>3, <1>5, <2>1, <2>2 DEF QuotaTyped
<1>7. Paced'
  BY <1>1, <1>2, <1>4, NoJob DEF Paced
<1>8. WarnedInOrder'
  <2>1. ASSUME NEW w \in Windows \ mixed', NEW n \in warned'[w]
        PROVE  n <= Index(left'[w]) /\ n <= tracker'.index[w]
    <3>1. w \notin mixed /\ left' = left /\ left[w] \in Nat
      BY <1>2, <2>1, QuotaNumbers DEF QuotaTyped
    <3>2. CASE w \notin r.shown
      <4>1. w \notin Evaluated(r)
        BY <1>2, <2>1, <3>2
      <4>2. n \in warned[w] /\ tracker'.index[w] = tracker.index[w]
        BY <1>2, <1>3, <2>1, <4>1 DEF Warnings
      <4> QED
        BY <3>1, <4>2 DEF WarnedInOrder
    <3>3. CASE w \in r.shown
      <4>1. /\ w \in Windows /\ r.left[w] \in Nat /\ tracker'.index[w] = Index(r.left[w])
            /\ n \in Nat /\ Amount(r, w) = r.left[w]
        BY <1>3, <1>5, <2>1, <3>3 DEF Amount, Source, Evaluated
      <4>2. Index(left[w]) \in Nat /\ Index(r.left[w]) \in Nat
        <5> HIDE DEF r
        <5> QED BY <3>1, <4>1, IndexNat
      <4>3. CASE w \in r.old
        BY <1>1, <1>2, <2>1, <3>1, <3>3, <4>3 DEF WarnedInOrder
      <4>4. CASE w \notin r.old
        <5>1. left[w] <= r.left[w] /\ \A m \in warned[w] : m <= Index(r.left[w])
          BY <1>1, <3>1, <3>3, <4>4 DEF WarnedInOrder
        <5> HIDE DEF r
        <5>2. Index(r.left[w]) <= Index(left[w])
          BY <3>1, <4>1, <5>1, IndexGrows
        <5>3. n <= Index(r.left[w])
          BY <1>2, <2>1, <4>1, <4>2, <5>1
        <5> QED
          BY <3>1, <4>1, <4>2, <5>2, <5>3
      <4> QED
        BY <4>3, <4>4
    <3> QED
      BY <3>2, <3>3
  <2>2. \A i \in DOMAIN jobs' : jobs'[i].phase # "store"
    BY <1>4, NoJob
  <2> QED
    BY <2>1, <2>2 DEF WarnedInOrder
<1> QED
  BY <1>2, <1>6, <1>7, <1>8 DEF ProbeHolds

LEMMA ProbeKeeps == QuotaInv /\ ProbeStep => QuotaInv'
<1> SUFFICES ASSUME QuotaInv, ProbeStep PROVE QuotaInv'
  OBVIOUS
<1> USE DEF QuotaInv
<1>1. UNCHANGED <<left, resetIn, users, refreshIn, tracker, jobs, warned, mixed>>
  BY DEF ProbeStep, ProbeStarts, ProbeAnswered, ProbeStores, ProbeLifts, ProbeFails
<1>2. stored' \in SUBSET Windows /\ cooling' \in 0..Longest
  <2>1. stored' \in {stored, probe.benching} /\ cooling' \in {cooling, 0}
    BY DEF ProbeStep, ProbeStarts, ProbeAnswered, ProbeStores, ProbeLifts, ProbeFails
  <2>2. stored \in SUBSET Windows /\ probe.benching \in SUBSET Windows /\ cooling \in 0..Longest
    BY DEF QuotaTyped
  <2> QED
    BY <2>1, <2>2, LongestBounds
<1>3. /\ probe' \in [phase : {"idle", "ask", "store", "lift"}, lifts : BOOLEAN,
                     benching : SUBSET Windows, since : SUBSET Windows]
      /\ ProbeHolds'
  <2>1. CASE ProbeStarts
    BY <1>1, <2>1 DEF ProbeStarts, QuotaTyped, ProbeHolds
  <2>2. ASSUME NEW r \in Readings, ProbeAnswered(r)
        PROVE  <1>3!1 /\ ProbeHolds'
    <3>1. Benching(r) \in SUBSET Windows /\ Available(r) \in BOOLEAN
      BY ReadingType, BenchingType DEF Available
    <3>2. /\ probe'.since \subseteq probe.since \cap r.shown /\ probe'.phase = "store"
          /\ probe'.lifts = (probe.lifts /\ Available(r))
      BY <2>2 DEF ProbeAnswered, QuotaTyped
    <3>3. probe'.lifts => \A w \in r.shown : left[w] > 0
      BY <3>2, ReadingType DEF Available
    <3>4. \A w \in probe.since : left[w] = 0
      BY <2>2 DEF ProbeAnswered, ProbeHolds
    <3>5. probe'.lifts => probe'.since = {}
      BY <3>2, <3>3, <3>4
    <3>6. /\ probe' \in [phase : {"idle", "ask", "store", "lift"}, lifts : BOOLEAN,
                          benching : SUBSET Windows, since : SUBSET Windows]
      BY <2>2, <3>1 DEF ProbeAnswered, QuotaTyped
    <3> QED
      BY <3>2, <3>5, <3>6 DEF ProbeHolds
  <2>3. CASE ProbeStores
    BY <1>1, <2>3 DEF ProbeStores, QuotaTyped, ProbeHolds, NoProbe
  <2>4. CASE ProbeLifts \/ ProbeFails
    <3>1. probe' = NoProbe
      BY <2>4 DEF ProbeLifts, ProbeFails
    <3> QED
      BY <3>1 DEF ProbeHolds, NoProbe
  <2> QED
    BY <2>1, <2>2, <2>3, <2>4 DEF ProbeStep
<1>4. QuotaTyped'
  BY <1>1, <1>2, <1>3 DEF QuotaTyped
<1> QED
  BY <1>1, <1>3, <1>4 DEF Paced, WarnedInOrder

LEMMA ConsumeKeeps ==
    ASSUME QuotaInv, NEW w \in Windows, Consume(w)
    PROVE  QuotaInv'
<1> USE DEF QuotaInv
<1>1. left' \in [Windows -> 0..Steps] /\ \A v \in Windows : left'[v] <= left[v]
  BY QuotaNumbers DEF Consume, QuotaTyped
<1>2. QuotaTyped'
  BY <1>1 DEF Consume, QuotaTyped
<1>3. \A v \in Windows : left[v] \in Nat /\ left'[v] \in Nat
  BY <1>1, QuotaNumbers DEF QuotaTyped
<1>4. \A v \in Windows : Index(left[v]) \in Nat /\ Index(left'[v]) \in Nat /\ Index(left[v]) <= Index(left'[v])
  <2> SUFFICES ASSUME NEW v \in Windows
               PROVE  /\ Index(left[v]) \in Nat /\ Index(left'[v]) \in Nat
                      /\ Index(left[v]) <= Index(left'[v])
    OBVIOUS
  <2>1. left[v] \in Nat /\ left'[v] \in Nat /\ left'[v] <= left[v]
    BY <1>1, <1>3
  <2> QED
    BY <2>1, IndexNat, IndexOrder
<1>5. WarnedInOrder'
  <2>1. ASSUME NEW v \in Windows \ mixed, NEW n \in warned[v]
        PROVE  n <= Index(left'[v]) /\ n <= tracker.index[v]
    BY <1>4, <2>1 DEF WarnedInOrder, QuotaTyped
  <2>2. ASSUME NEW i \in DOMAIN jobs, jobs[i].phase = "store",
               NEW v \in jobs[i].reading.shown \ mixed
        PROVE  IF v \in jobs[i].reading.old THEN warned[v] = {}
               ELSE /\ left'[v] <= jobs[i].reading.left[v]
                    /\ \A n \in warned[v] : n <= Index(jobs[i].reading.left[v])
    <3>1. jobs[i].reading \in Reports
      BY <2>2 DEF Paced
    <3>2. jobs[i].reading.left[v] \in Nat /\ v \in Windows
      BY <3>1, QuotaConstants DEF Reports
    <3> QED
      BY <1>1, <1>3, <2>2, <3>2 DEF WarnedInOrder
  <2>3. UNCHANGED <<jobs, warned, tracker, mixed>>
    BY DEF Consume
  <2> QED
    BY <2>1, <2>2, <2>3 DEF WarnedInOrder
<1>6. ProbeHolds'
  BY DEF Consume, ProbeHolds, QuotaTyped
<1> QED
  BY <1>2, <1>5, <1>6 DEF Consume, Paced

\* Time: what is new in a window has not been warned of, and what is past of a
\* reading is marked.
LEMMA TickKeeps == QuotaInv /\ Tick => QuotaInv'
<1> SUFFICES ASSUME QuotaInv, Tick PROVE QuotaInv'
  OBVIOUS
<1> USE DEF QuotaInv
<1> DEFINE reset == {w \in Windows : resetIn[w] = 1}
<1>1. /\ \A j \in DOMAIN jobs : jobs[j].age < FetchLimit
      /\ left' = [w \in Windows |-> IF w \in reset THEN Steps ELSE left[w]]
      /\ resetIn' = [w \in Windows |-> IF w \in reset THEN Period[w] ELSE resetIn[w] - 1]
      /\ stored' = stored \ reset
      /\ cooling' = Lower(cooling, 1)
      /\ refreshIn' = Lower(refreshIn, 1)
      /\ jobs' = [j \in DOMAIN jobs |-> [jobs[j] EXCEPT !.age = @ + 1, !.reading = Aged(@, reset)]]
      /\ probe' = [probe EXCEPT !.benching = @ \ reset, !.since = @ \ reset]
      /\ warned' = [w \in Windows |-> IF w \in reset THEN {} ELSE warned[w]]
      /\ mixed' = mixed \ reset
      /\ UNCHANGED <<users, tracker>>
  BY DEF Tick
<1>2. \A w \in Windows : resetIn'[w] \in Nat /\ resetIn'[w] \in 1..Period[w]
  <2> SUFFICES ASSUME NEW w \in Windows PROVE resetIn'[w] \in Nat /\ resetIn'[w] \in 1..Period[w]
    OBVIOUS
  <2>1. Period[w] \in Nat \ {0} /\ resetIn[w] \in 1..Period[w]
    BY QuotaConstants DEF QuotaTyped
  <2>2. resetIn'[w] = IF resetIn[w] = 1 THEN Period[w] ELSE resetIn[w] - 1
    BY <1>1
  <2> QED
    BY <2>1, <2>2
<1>3. ASSUME NEW j \in DOMAIN jobs
      PROVE  /\ jobs[j] \in Job /\ jobs'[j] \in Job
             /\ jobs'[j].age = jobs[j].age + 1 /\ jobs'[j].phase = jobs[j].phase
             /\ jobs'[j].reading = Aged(jobs[j].reading, reset)
  <2>1. jobs[j] \in Job /\ jobs[j].age < FetchLimit
    BY <1>1, OnlyJob
  <2>2. Aged(jobs[j].reading, reset) \in Reports \cup {NoReading}
    BY <2>1, AgedType DEF Job
  <2>3. jobs'[j] = [jobs[j] EXCEPT !.age = @ + 1, !.reading = Aged(jobs[j].reading, reset)]
    BY <1>1
  <2> DEFINE r == Aged(jobs[j].reading, reset)
             y == [jobs[j] EXCEPT !.age = @ + 1, !.reading = r]
  <2>4. jobs'[j] = y
    BY <2>3
  <2> HIDE DEF r
  <2>5. y \in Job /\ y.age = jobs[j].age + 1 /\ y.phase = jobs[j].phase /\ y.reading = r
    BY <2>1, <2>2, OlderJob DEF r
  <2> HIDE DEF y
  <2> QED
    BY <2>1, <2>4, <2>5 DEF r
<1>4. jobs' \in Seq(Job) /\ Len(jobs') <= 1 /\ DOMAIN jobs' = DOMAIN jobs
  <2>1. jobs \in Seq(Job) /\ Len(jobs) \in Nat /\ DOMAIN jobs = 1..Len(jobs) /\ Len(jobs) <= 1
    BY DEF QuotaTyped
  <2>2. DOMAIN jobs' = 1..Len(jobs) /\ jobs' = [j \in 1..Len(jobs) |-> jobs'[j]]
    BY <1>1, <2>1
  <2>3. \A j \in 1..Len(jobs) : jobs'[j] \in Job
    BY <1>3, <2>1
  <2>4. jobs' \in Seq(Job)
    BY <2>1, <2>2, <2>3, SeqDef
  <2> QED
    BY <2>1, <2>2, <2>4
<1>5. QuotaTyped'
  <2>1. left' \in [Windows -> 0..Steps]
    <3>1. left \in [Windows -> 0..Steps] /\ Steps \in 0..Steps
      BY QuotaNumbers DEF QuotaTyped
    <3> HIDE DEF reset
    <3> QED
      BY <1>1, <3>1
  <2>2. resetIn' \in [Windows -> Nat] /\ \A w \in Windows : resetIn'[w] \in 1..Period[w]
    BY <1>1, <1>2
  <2>3. cooling' \in 0..Longest /\ refreshIn' \in 0..Ttl
    <3>1. cooling \in 0..Longest /\ refreshIn \in 0..Ttl /\ Longest \in Nat /\ Ttl \in Nat
      BY LongestBounds, QuotaNumbers DEF QuotaTyped
    <3>2. cooling' = Lower(cooling, 1) /\ refreshIn' = Lower(refreshIn, 1)
      BY <1>1
    <3> QED
      BY <3>1, <3>2 DEF Lower
  <2>4. probe' \in [phase : {"idle", "ask", "store", "lift"}, lifts : BOOLEAN,
                    benching : SUBSET Windows, since : SUBSET Windows]
    BY <1>1 DEF QuotaTyped
  <2>5. warned' \in [Windows -> SUBSET Nat] /\ stored' \in SUBSET Windows /\ mixed' \in SUBSET Windows
    BY <1>1 DEF QuotaTyped
  <2> QED
    BY <1>1, <1>4, <2>1, <2>2, <2>3, <2>4, <2>5 DEF QuotaTyped
<1>6. Paced'
  <2> SUFFICES ASSUME NEW j \in DOMAIN jobs
               PROVE  /\ jobs'[j].age + refreshIn' = Ttl
                      /\ jobs'[j].phase # "fetch" => jobs'[j].reading \in Reports
    BY <1>4 DEF Paced
  <2>1. jobs[j].age \in Nat /\ jobs[j].age < FetchLimit /\ jobs[j].age + refreshIn = Ttl
        /\ refreshIn \in Nat
    <3>1. jobs[j] \in Job /\ jobs[j].age < FetchLimit
      BY <1>1, <1>3
    <3>2. jobs[j].age + refreshIn = Ttl /\ refreshIn \in 0..Ttl
      BY DEF Paced, QuotaTyped
    <3> QED
      BY <3>1, <3>2, QuotaNumbers DEF Job
  <2>2. refreshIn' = refreshIn - 1
    <3>1. refreshIn' = Lower(refreshIn, 1)
      BY <1>1
    <3> QED
      BY <2>1, <3>1, QuotaNumbers, TimingAssumption DEF Lower
  <2>3. jobs[j].phase # "fetch" => jobs[j].reading \in Reports
    BY DEF Paced
  <2>4. jobs[j].reading \in Reports => Aged(jobs[j].reading, reset) \in Reports
    BY AgedType
  <2>5. jobs'[j].age + refreshIn' = Ttl
    <3>1. jobs'[j].age = jobs[j].age + 1
      BY <1>3
    <3> QED
      BY <2>1, <2>2, <3>1, QuotaNumbers
  <2> QED
    BY <1>3, <2>3, <2>4, <2>5
<1>7. WarnedInOrder'
  <2>1. ASSUME NEW w \in Windows \ mixed', NEW n \in warned'[w]
        PROVE  n <= Index(left'[w]) /\ n <= tracker'.index[w]
    BY <1>1, <2>1 DEF WarnedInOrder
  <2>2. ASSUME NEW j \in DOMAIN jobs, jobs'[j].phase = "store",
               NEW w \in jobs'[j].reading.shown \ mixed'
        PROVE  IF w \in jobs'[j].reading.old THEN warned'[w] = {}
               ELSE /\ left'[w] <= jobs'[j].reading.left[w]
                    /\ \A n \in warned'[w] : n <= Index(jobs'[j].reading.left[w])
    <3> DEFINE r == jobs[j].reading
    <3>1. jobs[j].phase = "store" /\ r \in Reports
      BY <1>3, <2>2 DEF Paced
    <3>2. /\ jobs'[j].reading.left = r.left /\ jobs'[j].reading.shown = r.shown
          /\ jobs'[j].reading.old = r.old \cup (reset \cap r.shown)
      <4>1. reset \in SUBSET Windows /\ jobs'[j].reading = Aged(r, reset)
        BY <1>3
      <4> HIDE DEF r, reset
      <4> QED
        BY <3>1, <4>1, AgedType
    <3>3. w \in Windows /\ w \in r.shown /\ (w \in reset \/ w \notin mixed)
      BY <1>1, <2>2, <3>1, <3>2 DEF Reports
    <3>4. w \notin mixed => IF w \in r.old THEN warned[w] = {}
                          ELSE left[w] <= r.left[w] /\ \A n \in warned[w] : n <= Index(r.left[w])
      BY <3>1, <3>3 DEF WarnedInOrder
    <3> HIDE DEF r
    <3> QED
      BY <1>1, <3>2, <3>3, <3>4
  <2> QED
    BY <1>4, <2>1, <2>2 DEF WarnedInOrder
<1>8. ProbeHolds'
  BY <1>1 DEF ProbeHolds, QuotaTyped
<1> QED
  BY <1>5, <1>6, <1>7, <1>8

LEMMA QuotaKeeps == QuotaInv /\ [QuotaNext]_quotaVars => QuotaInv'
<1> SUFFICES ASSUME QuotaInv, [QuotaNext]_quotaVars PROVE QuotaInv'
  OBVIOUS
<1>1. CASE UNCHANGED quotaVars
  BY <1>1 DEF quotaVars, QuotaInv, QuotaTyped, Paced, WarnedInOrder, ProbeHolds
<1>2. CASE JobStep
  BY <1>2, FetchedKeeps, EvaluateKeeps, CoolKeeps, FailsKeeps DEF JobStep
<1> QED
  BY <1>1, <1>2, PickKeeps, ScheduleKeeps, ProbeKeeps, ConsumeKeeps, TickKeeps DEF QuotaNext

\* What the invariant says of the warnings and of the lift of a cooldown.
LEMMA QuotaSound ==
    ASSUME QuotaInv
    PROVE  QuotaTypeOK /\ OneRefresh
<1>1. \A j \in DOMAIN jobs : jobs[j] \in Job
  BY OnlyJob DEF QuotaInv
<1> QED
  BY <1>1 DEF QuotaInv, QuotaTyped, QuotaTypeOK, OneRefresh, Job, Longest

LEMMA WarnsOnce ==
    ASSUME QuotaInv, NEW j \in DOMAIN jobs, Evaluate(j),
           NEW w \in Warnings(jobs[j].reading) \ (jobs[j].reading.old \cup mixed)
    PROVE  Index(Amount(jobs[j].reading, w)) \notin warned[w]
<1>2. jobs[j].reading \in Reports
  BY DEF Evaluate, At, QuotaInv, Paced
<1>1. w \in Windows /\ w \notin mixed /\ Index(Amount(jobs[j].reading, w)) > tracker.index[w]
  BY <1>2 DEF Warnings, Evaluated, Reports, Windows
<1>3. Index(Amount(jobs[j].reading, w)) \in Nat /\ tracker.index[w] \in Nat
  <2>1. Amount(jobs[j].reading, w) \in Nat
    BY <1>1, <1>2, QuotaNumbers DEF Reports, Amount, Source, Windows
  <2>2. tracker.index[w] \in Nat
    BY <1>1, QuotaNumbers DEF QuotaInv, QuotaTyped
  <2> QED
    BY <2>1, <2>2, IndexNat
<1>4. \A n \in warned[w] : n <= tracker.index[w]
  BY <1>1 DEF QuotaInv, WarnedInOrder
<1> QED
  BY <1>1, <1>3, <1>4

LEMMA LiftSpares ==
    ASSUME QuotaInv, ProbeLifts
    PROVE  probe.since = {}
BY DEF QuotaInv, ProbeHolds, ProbeLifts

-----------------------------------------------------------------------------
(* The catalog                                                             *)

Entries == [from : {"server", "github"}, fresh : BOOLEAN, fallback : BOOLEAN]
CallStates == {"idle", "tag", "ask", "snapshot", "meta", "memory", "disk", "fetch", "joined",
               "store", "write", "fallback", "choose"}
Calls == [pc : CallStates, next : {"idle", "memory", "store", "choose"}, token : BOOLEAN,
          etag : BOOLEAN, disk : BOOLEAN, failed : BOOLEAN]

CatalogTyped ==
  /\ memory \in Entries \cup {Nothing} /\ disk \in Entries \cup {Nothing}
  /\ shared \in BOOLEAN /\ tag \in BOOLEAN
  /\ owner \in Callers \cup {Nothing}
  /\ call \in [Callers -> Calls]
  /\ known \in [Accounts -> {"server", "github", Nothing}]

\* While a call refreshes the snapshot, `next' says where it goes from there.
Refreshing == {"tag", "ask", "snapshot", "meta"}
Towards(c, pcs) == call[c].pc \in pcs \/ (call[c].pc \in Refreshing /\ call[c].next \in pcs)
Fetching(c) == Towards(c, {"fetch", "store", "write", "fallback", "choose"})

\* Whoever owns the shared fetch is past the caches and has a token; only the
\* owner fetches, and who joined waits for it.
OneOwner ==
  /\ owner # Nothing => Fetching(owner) /\ call[owner].token
  /\ \A c \in Callers : /\ call[c].pc = "fetch" => owner = c
                        /\ call[c].pc = "joined" => owner # Nothing
                        /\ call[c].pc \in Refreshing => call[c].next # "idle"

\* A fallback is the choice of who has no token or had a fetch fail, one it
\* joined included; what memory and disk hold beyond fallbacks is the server's.
FailuresAreKnown ==
  /\ \A c \in Callers : call[c].token /\ Towards(c, {"fallback", "choose"}) => call[c].failed
  /\ \A c \in Callers : call[c].pc = "joined" /\ call[owner].failed => call[c].failed
  /\ \A c \in Accounts : call[c].pc # "idle" => call[c].token
  /\ \A c \in Callers : call[c].disk => disk # Nothing
  /\ memory # Nothing /\ ~memory.fallback => memory.from = "server"
  /\ disk # Nothing => disk.from = "server" /\ ~disk.fallback

CatalogInv == CatalogTyped /\ OneOwner /\ FailuresAreKnown

\* A call that moves on within its way keeps what holds of owners and failures.
GoodMove(c, x) ==
    /\ x \in Calls
    /\ call[c].pc # "joined" /\ x.pc \notin {"fetch", "joined"}
    /\ x.pc \in Refreshing => x.next # "idle"
    /\ owner = c => x.failed = call[c].failed
    /\ x.disk => disk # Nothing
    /\ owner = c => x.token /\ (\/ x.pc \in {"store", "write", "fallback", "choose"}
                                \/ x.pc \in Refreshing /\ x.next \in {"store", "choose"})
    /\ x.token /\ (x.pc \in {"fallback", "choose"} \/ (x.pc \in Refreshing /\ x.next = "choose"))
          => x.failed
    /\ c \in Accounts /\ x.pc # "idle" => x.token

\* What the steps leave in memory and in the files.
CachesKept ==
    /\ memory' \in Entries \cup {Nothing} /\ disk' \in Entries \cup {Nothing}
    /\ shared' \in BOOLEAN /\ tag' \in BOOLEAN
    /\ memory' # Nothing /\ ~memory'.fallback => memory'.from = "server"
    /\ disk' # Nothing => disk'.from = "server" /\ ~disk'.fallback
    /\ disk # Nothing => disk' # Nothing

LEMMA MoveKeeps ==
    ASSUME CatalogInv, NEW c \in Callers, NEW x, GoodMove(c, x), CachesKept,
           call' = [call EXCEPT ![c] = x], UNCHANGED <<owner, known>>
    PROVE  CatalogInv'
<1> USE DEF CatalogInv, GoodMove, CachesKept
<1>1. call' \in [Callers -> Calls] /\ call'[c] = x /\ \A d \in Callers \ {c} : call'[d] = call[d]
  BY DEF CatalogTyped
<1>2. CatalogTyped'
  BY <1>1 DEF CatalogTyped
<1>3. OneOwner'
  <2>1. ASSUME NEW d \in Callers
        PROVE  /\ call'[d].pc = "fetch" => owner = d
               /\ call'[d].pc = "joined" => owner # Nothing
               /\ call'[d].pc \in Refreshing => call'[d].next # "idle"
    BY <1>1 DEF OneOwner
  <2>2. owner \in Callers => Towards(owner, {"fetch", "store", "write", "fallback", "choose"})'
                             /\ call'[owner].token
    <3>1. CASE owner = c
      BY <1>1, <3>1 DEF Towards, Refreshing
    <3>2. CASE owner \in Callers \ {c}
      BY <1>1, <3>2, CatalogConstants DEF OneOwner, Fetching, Towards, Callers
    <3> QED
      BY <3>1, <3>2
  <2> QED
    BY <2>1, <2>2 DEF OneOwner, Fetching, CatalogTyped
<1>4. FailuresAreKnown'
  <2>1. ASSUME NEW d \in Callers
        PROVE  /\ call'[d].token /\ Towards(d, {"fallback", "choose"})' => call'[d].failed
               /\ call'[d].pc = "joined" /\ call'[owner].failed => call'[d].failed
               /\ call'[d].disk => disk' # Nothing
    <3>1. CASE d = c
      <4>1. call'[d] = x
        BY <1>1, <3>1
      <4>2. Towards(d, {"fallback", "choose"})' =>
              x.pc \in {"fallback", "choose"} \/ (x.pc \in Refreshing /\ x.next = "choose")
        BY <4>1 DEF Towards, Calls
      <4> QED
        BY <4>1, <4>2
    <3>2. CASE d # c
      <4>1. call'[d] = call[d]
        BY <1>1, <3>2
      <4>2. call[d].pc = "joined" => owner \in Callers
        BY DEF OneOwner, CatalogTyped
      <4>3. owner \in Callers => call'[owner].failed = call[owner].failed
        <5>1. CASE owner = c
          BY <1>1, <5>1
        <5>2. CASE owner # c
          BY <1>1, <5>2
        <5> QED
          BY <5>1, <5>2
      <4> QED
        BY <4>1, <4>2, <4>3 DEF FailuresAreKnown, Towards
    <3> QED
      BY <3>1, <3>2
  <2>2. \A d \in Accounts : call'[d].pc # "idle" => call'[d].token
    BY <1>1 DEF FailuresAreKnown, Callers
  <2> QED
    BY <2>1, <2>2 DEF FailuresAreKnown
<1> QED
  BY <1>2, <1>3, <1>4

\* A call that ends takes along who joined it.
LEMMA EndKeeps ==
    ASSUME CatalogInv, NEW c \in Callers, NEW from \in {"server", "github", Nothing}, Ends(c, from),
           CachesKept
    PROVE  CatalogInv'
<1> USE DEF CatalogInv, CachesKept
<1> DEFINE S == {c} \cup Joined(c)
<1>1. /\ known' = [d \in Accounts |-> IF d \in S THEN from ELSE known[d]]
      /\ call' = [d \in Callers |-> IF d \in S THEN Idle ELSE call[d]]
      /\ owner' = IF owner = c THEN Nothing ELSE owner
  BY DEF Ends, Settle
<1>2. Idle \in Calls /\ Idle.pc = "idle" /\ ~Idle.token /\ ~Idle.disk /\ ~Idle.failed
  BY DEF Idle, Calls, CallStates
<1>3. CatalogTyped'
  <2> HIDE DEF S
  <2> QED
    BY <1>1, <1>2 DEF CatalogTyped
<1>4. ASSUME NEW d \in Callers PROVE call'[d] = Idle \/ call'[d] = call[d]
  BY <1>1
<1>5. ASSUME NEW d \in Callers, call'[d].pc = "joined"
      PROVE  /\ call'[d] = call[d] /\ owner' = owner /\ owner \in Callers
             /\ owner # c /\ call'[owner] = call[owner]
  <2>1. d \notin S /\ call'[d] = call[d]
    BY <1>1, <1>2, <1>5
  <2>2. owner # c /\ owner' = owner /\ owner \in Callers
    BY <1>1, <1>5, <2>1 DEF Joined, OneOwner, CatalogTyped
  <2>3. owner \notin S
    BY <2>2 DEF Joined, OneOwner
  <2> QED
    BY <1>1, <2>1, <2>2, <2>3
<1>6. OneOwner'
  <2>1. owner' # Nothing => Fetching(owner)' /\ call'[owner'].token
    <3> SUFFICES ASSUME owner' # Nothing PROVE Fetching(owner)' /\ call'[owner'].token
      OBVIOUS
    <3>1. owner' = owner /\ owner \in Callers \ S
      BY <1>1, CatalogConstants DEF CatalogTyped, Joined, OneOwner
    <3>2. call'[owner] = call[owner]
      BY <1>1, <3>1
    <3> QED
      BY <3>1, <3>2, CatalogConstants DEF OneOwner, Fetching, Towards, Callers
  <2>2. ASSUME NEW d \in Callers
        PROVE  /\ call'[d].pc = "fetch" => owner' = d
               /\ call'[d].pc = "joined" => owner' # Nothing
               /\ call'[d].pc \in Refreshing => call'[d].next # "idle"
    <3>1. CASE call'[d] = Idle
      BY <1>2, <3>1 DEF Refreshing
    <3>2. CASE call'[d] = call[d] /\ call'[d] # Idle
      <4>1. call[d].pc = "fetch" => owner' = d
        BY <1>1, <3>2 DEF OneOwner
      <4> QED
        BY <1>5, <3>2, <4>1, CatalogConstants DEF OneOwner, Callers
    <3> QED
      BY <1>4, <3>1, <3>2
  <2> QED
    BY <2>1, <2>2 DEF OneOwner
<1>7. FailuresAreKnown'
  <2>1. ASSUME NEW d \in Callers
        PROVE  /\ call'[d].token /\ Towards(d, {"fallback", "choose"})' => call'[d].failed
               /\ call'[d].pc = "joined" /\ call'[owner'].failed => call'[d].failed
               /\ call'[d].disk => disk' # Nothing
    <3>1. CASE call'[d] = Idle
      BY <1>2, <3>1
    <3>2. CASE call'[d] = call[d]
      BY <1>5, <3>2 DEF FailuresAreKnown, Towards
    <3> QED
      BY <1>4, <3>1, <3>2
  <2>2. \A d \in Accounts : call'[d].pc # "idle" => call'[d].token
    BY <1>2, <1>4 DEF FailuresAreKnown, Callers
  <2> QED
    BY <2>1, <2>2 DEF FailuresAreKnown
<1> QED
  BY <1>3, <1>6, <1>7

LEMMA CatalogStarts == CatalogInit => CatalogInv
<1>1. Idle \in Calls /\ Idle.pc = "idle" /\ ~Idle.token /\ ~Idle.disk /\ ~Idle.failed
  BY DEF Idle, Calls, CallStates
<1> QED
  BY <1>1 DEF CatalogInit, CatalogInv, CatalogTyped, OneOwner, FailuresAreKnown, Callers, Refreshing, Towards

\* The steps between the caches and the fetch.
LEMMA CallMoves ==
    ASSUME CatalogInv, NEW c \in Callers,
           \/ ReadTag(c) \/ WriteSnapshot(c) \/ WriteTag(c)
           \/ \E outcome \in {"ok", "not_modified", "failed"} : AnswerGitHub(c, outcome)
           \/ CheckMemory(c) /\ ~MemoryHit(c)
           \/ ReadDisk(c) /\ ~Fresh(disk) /\ ~call[c].token
           \/ LockFails(c) \/ CatalogFetched(c) \/ Store(c) \/ Fallback(c)
    PROVE  CatalogInv'
<1> DEFINE z == call[c]
<1>1. /\ z \in Calls /\ (owner = c => Fetching(c) /\ z.token)
      /\ z.pc \in Refreshing => z.next # "idle"
      /\ z.token /\ Towards(c, {"fallback", "choose"}) => z.failed
      /\ c \in Accounts /\ z.pc # "idle" => z.token
      /\ z.disk => disk # Nothing
  BY CatalogConstants DEF CatalogInv, CatalogTyped, OneOwner, FailuresAreKnown, Callers
<1>2. UNCHANGED <<memory, files>> => CachesKept
  BY DEF CatalogInv, CatalogTyped, FailuresAreKnown, files, CachesKept
<1> USE DEF GoodMove, Fetching, Towards, Refreshing, Calls, CallStates
<1>3. CASE ReadTag(c)
  <2> DEFINE x == [z EXCEPT !.pc = IF tag /\ shared THEN z.next ELSE "ask", !.etag = tag]
  <2>1. GoodMove(c, x)
    BY <1>1, <1>3 DEF ReadTag, CatalogInv, CatalogTyped
  <2>2. call' = [call EXCEPT ![c] = x]
    BY <1>3 DEF ReadTag
  <2> HIDE DEF x
  <2> QED
    BY <1>2, <1>3, <2>1, <2>2, MoveKeeps DEF ReadTag
<1>4. ASSUME NEW outcome \in {"ok", "not_modified", "failed"}, AnswerGitHub(c, outcome)
      PROVE  CatalogInv'
  <2> DEFINE pc == CASE outcome = "ok" -> "snapshot" [] outcome = "not_modified" -> "meta"
                     [] OTHER -> z.next
             x == [z EXCEPT !.pc = pc]
  <2>1. GoodMove(c, x)
    BY <1>1, <1>4 DEF AnswerGitHub
  <2>2. call' = [call EXCEPT ![c] = x]
    BY <1>4 DEF AnswerGitHub, Goes
  <2> QED
    BY <1>2, <1>4, <2>1, <2>2, MoveKeeps DEF AnswerGitHub
<1>5. CASE WriteSnapshot(c)
  <2> DEFINE x == [z EXCEPT !.pc = "meta"]
  <2>1. GoodMove(c, x)
    BY <1>1, <1>5 DEF WriteSnapshot
  <2>2. CachesKept
    BY <1>5 DEF WriteSnapshot, CatalogInv, CatalogTyped, FailuresAreKnown, CachesKept
  <2> QED
    BY <1>5, <2>1, <2>2, MoveKeeps DEF WriteSnapshot, Goes
<1>6. CASE WriteTag(c)
  <2> DEFINE x == [z EXCEPT !.pc = z.next]
  <2>1. GoodMove(c, x)
    BY <1>1, <1>6 DEF WriteTag
  <2>2. CachesKept
    BY <1>6 DEF WriteTag, CatalogInv, CatalogTyped, FailuresAreKnown, CachesKept
  <2> QED
    BY <1>6, <2>1, <2>2, MoveKeeps DEF WriteTag, Goes
<1>7. CASE CheckMemory(c) /\ ~MemoryHit(c)
  <2> DEFINE x == [z EXCEPT !.pc = "disk"]
  <2>1. GoodMove(c, x)
    BY <1>1, <1>7 DEF CheckMemory
  <2> QED
    BY <1>2, <1>7, <2>1, MoveKeeps DEF CheckMemory, Goes
<1>8. CASE ReadDisk(c) /\ ~Fresh(disk) /\ ~call[c].token
  <2> DEFINE x == [z EXCEPT !.pc = "fallback", !.disk = disk # Nothing]
  <2>1. GoodMove(c, x)
    BY <1>1, <1>8 DEF ReadDisk
  <2>2. /\ call' = [call EXCEPT ![c] = x]
        /\ UNCHANGED <<memory, files, owner, known>>
    BY <1>8 DEF ReadDisk
  <2> QED
    BY <1>2, <2>1, <2>2, MoveKeeps
<1>9. CASE LockFails(c)
  <2>1. GoodMove(c, Idle)
    BY <1>1, <1>9 DEF LockFails, Idle
  <2> QED
    BY <1>2, <1>9, <2>1, MoveKeeps DEF LockFails
<1>10. CASE CatalogFetched(c)
  <2> DEFINE x == [z EXCEPT !.pc = "tag", !.next = "store"]
  <2>1. GoodMove(c, x)
    BY <1>1, <1>10 DEF CatalogFetched
  <2>2. call' = [call EXCEPT ![c] = x]
    BY <1>10 DEF CatalogFetched
  <2> HIDE DEF x
  <2> QED
    BY <1>2, <1>10, <2>1, <2>2, MoveKeeps DEF CatalogFetched
<1>11. CASE Store(c)
  <2> DEFINE x == [z EXCEPT !.pc = "write"]
  <2>1. GoodMove(c, x)
    BY <1>1, <1>11 DEF Store
  <2>2. CachesKept
    BY <1>11 DEF Store, CatalogInv, CatalogTyped, FailuresAreKnown, CachesKept, Entry, Entries, files
  <2> QED
    BY <1>11, <2>1, <2>2, MoveKeeps DEF Store, Goes
<1>12. CASE Fallback(c)
  <2> DEFINE x == [z EXCEPT !.pc = IF ~shared THEN "tag" ELSE "choose", !.next = "choose"]
  <2>1. GoodMove(c, x)
    BY <1>1, <1>12 DEF Fallback
  <2>2. call' = [call EXCEPT ![c] = x]
    BY <1>12 DEF Fallback
  <2> HIDE DEF x
  <2> QED
    BY <1>2, <1>12, <2>1, <2>2, MoveKeeps DEF Fallback
<1> QED
  BY <1>3, <1>4, <1>5, <1>6, <1>7, <1>8, <1>9, <1>10, <1>11, <1>12

\* Who finds the caches wanting joins the fetch under way, or begins it.
LEMMA JoinKeeps ==
    ASSUME CatalogInv, NEW c \in Callers, call[c].pc = "disk", call[c].token, JoinOrFetch(c),
           UNCHANGED <<memory, files, known>>
    PROVE  CatalogInv'
<1> DEFINE z == call[c]
           x == [z EXCEPT !.pc = IF owner = Nothing THEN "fetch" ELSE "joined",
                          !.disk = disk # Nothing,
                          !.failed = owner # Nothing /\ call[owner].failed]
<1>1. z \in Calls /\ (owner # Nothing => owner \in Callers /\ owner # c)
  BY DEF CatalogInv, CatalogTyped, OneOwner, Fetching, Towards, Refreshing
<1>2. (owner # Nothing /\ call[owner].failed) \in BOOLEAN
  OBVIOUS
<1>3. /\ x \in Calls /\ x.pc = (IF owner = Nothing THEN "fetch" ELSE "joined") /\ x.token
      /\ x.disk = (disk # Nothing) /\ x.failed = (owner # Nothing /\ call[owner].failed)
  BY <1>1, <1>2 DEF Calls, CallStates
<1>4. call' = [call EXCEPT ![c] = x] /\ owner' = IF owner = Nothing THEN c ELSE owner
  BY DEF JoinOrFetch
<1> HIDE DEF x
<1>5. call' \in [Callers -> Calls] /\ call'[c] = x /\ \A d \in Callers \ {c} : call'[d] = call[d]
  BY <1>3, <1>4 DEF CatalogInv, CatalogTyped
<1>6. CatalogTyped'
  BY <1>4, <1>5 DEF CatalogInv, CatalogTyped, files
<1>7. owner' \in Callers /\ call'[owner'].token /\ Fetching(owner)'
  <2>1. CASE owner = Nothing
    BY <1>3, <1>4, <1>5, <2>1 DEF Fetching, Towards
  <2>2. CASE owner # Nothing
    <3>1. owner' = owner /\ owner \in Callers /\ call'[owner] = call[owner]
      BY <1>1, <1>4, <1>5, <2>2
    <3> QED
      BY <2>2, <3>1 DEF CatalogInv, OneOwner, Fetching, Towards
  <2> QED
    BY <2>1, <2>2
<1>8. OneOwner'
  <2>1. ASSUME NEW d \in Callers
        PROVE  /\ call'[d].pc = "fetch" => owner' = d
               /\ call'[d].pc = "joined" => owner' # Nothing
               /\ call'[d].pc \in Refreshing => call'[d].next # "idle"
    <3>1. owner' # Nothing
      BY <1>7, CatalogConstants DEF Callers
    <3>2. CASE d = c
      BY <1>3, <1>4, <1>5, <3>1, <3>2 DEF Refreshing
    <3>3. CASE d # c
      <4>1. call'[d] = call[d]
        BY <1>5, <3>3
      <4>2. call[d].pc = "fetch" => owner = d /\ owner' = d
        BY <1>4, CatalogConstants DEF CatalogInv, OneOwner, Callers
      <4> QED
        BY <3>1, <4>1, <4>2 DEF CatalogInv, OneOwner
    <3> QED
      BY <3>2, <3>3
  <2> QED
    BY <1>7, <2>1 DEF OneOwner
<1>9. FailuresAreKnown'
  <2>1. ASSUME NEW d \in Callers
        PROVE  /\ call'[d].token /\ Towards(d, {"fallback", "choose"})' => call'[d].failed
               /\ call'[d].pc = "joined" /\ call'[owner'].failed => call'[d].failed
               /\ call'[d].disk => disk' # Nothing
    <3>1. CASE d = c
      <4>1. ~Towards(d, {"fallback", "choose"})'
        BY <1>3, <1>5, <3>1 DEF Towards, Refreshing
      <4>2. call'[d].pc = "joined" => owner' = owner /\ owner # Nothing /\ call'[owner] = call[owner]
        BY <1>1, <1>3, <1>4, <1>5, <3>1
      <4> QED
        BY <1>3, <1>5, <3>1, <4>1, <4>2 DEF files
    <3>2. CASE d # c
      <4>1. call'[d] = call[d]
        BY <1>5, <3>2
      <4>2. call[d].pc = "joined" => owner' = owner /\ call'[owner] = call[owner]
        BY <1>1, <1>4, <1>5 DEF CatalogInv, OneOwner
      <4> QED
        BY <4>1, <4>2 DEF CatalogInv, FailuresAreKnown, Towards, files
    <3> QED
      BY <3>1, <3>2
  <2>2. \A d \in Accounts : call'[d].pc # "idle" => call'[d].token
    BY <1>3, <1>5 DEF CatalogInv, FailuresAreKnown, Callers
  <2> QED
    BY <2>1, <2>2 DEF CatalogInv, FailuresAreKnown, files
<1> QED
  BY <1>6, <1>8, <1>9 DEF CatalogInv

\* A failed fetch is told to everyone who joined it.
LEMMA FailureKeeps ==
    ASSUME CatalogInv, NEW c \in Callers, FetchFails(c)
    PROVE  CatalogInv'
<1>1. owner = c /\ Joined(c) = {d \in Callers : call[d].pc = "joined"}
  BY DEF FetchFails, CatalogInv, OneOwner, Joined
<1>2. /\ call' = [d \in Callers |-> [call[d] EXCEPT !.failed = @ \/ d \in {c} \cup Joined(c),
                                                     !.pc = IF d = c THEN "fallback" ELSE @]]
      /\ UNCHANGED <<memory, disk, shared, tag, owner, known>>
  BY DEF FetchFails, files
<1>3. ASSUME NEW d \in Callers
      PROVE  /\ call[d] \in Calls /\ call'[d] \in Calls
             /\ call'[d].next = call[d].next /\ call'[d].token = call[d].token
             /\ call'[d].disk = call[d].disk
             /\ call'[d].pc = (IF d = c THEN "fallback" ELSE call[d].pc)
             /\ d # c => call'[d].failed = (call[d].failed \/ call[d].pc = "joined")
             /\ d = c => call'[d].failed
  <2> DEFINE f == call[d].failed \/ d \in {c} \cup Joined(c)
             p == IF d = c THEN "fallback" ELSE call[d].pc
  <2>1. call[d] \in Calls
    BY DEF CatalogInv, CatalogTyped
  <2>2. call'[d] = [call[d] EXCEPT !.failed = f, !.pc = p]
    BY <1>2
  <2>3. f \in BOOLEAN /\ p \in CallStates /\ (d = c => f = TRUE)
        /\ (d # c => f = (call[d].failed \/ call[d].pc = "joined"))
    BY <1>1, <2>1 DEF Calls, CallStates
  <2> HIDE DEF f, p
  <2>4. /\ call'[d] \in Calls /\ call'[d].failed = f /\ call'[d].pc = p
        /\ call'[d].next = call[d].next /\ call'[d].token = call[d].token
        /\ call'[d].disk = call[d].disk
    BY <2>1, <2>2, <2>3 DEF Calls
  <2> QED
    BY <2>1, <2>3, <2>4 DEF p
<1>9. /\ call'[c].pc = "fallback" /\ call'[c].failed /\ call[c].pc = "fetch"
      /\ \A d \in Callers \ {c} : call'[d].pc = call[d].pc
      /\ \A d \in Callers : call[d].failed => call'[d].failed
  BY <1>3 DEF FetchFails
<1>4. CatalogTyped'
  <2>1. call' \in [Callers -> Calls]
    BY <1>2, <1>3
  <2> QED
    BY <1>2, <2>1 DEF CatalogInv, CatalogTyped
<1>5. OneOwner'
  <2>1. Fetching(owner)' /\ call'[owner'].token
    <3>1. call[c].token /\ owner' = c
      BY <1>1, <1>2, CatalogConstants DEF CatalogInv, OneOwner, Callers
    <3>2. call'[c].token
      BY <1>3, <3>1
    <3> QED
      BY <1>1, <1>9, <3>1, <3>2 DEF Fetching, Towards
  <2>2. ASSUME NEW d \in Callers
        PROVE  /\ call'[d].pc = "fetch" => owner' = d
               /\ call'[d].pc = "joined" => owner' # Nothing
               /\ call'[d].pc \in Refreshing => call'[d].next # "idle"
    <3>1. CASE d = c
      BY <1>9, <3>1 DEF Refreshing
    <3>2. CASE d # c
      <4>1. call'[d].pc = call[d].pc /\ call'[d].next = call[d].next
        BY <1>3, <1>9, <3>2
      <4> QED
        BY <1>2, <4>1 DEF CatalogInv, OneOwner
    <3> QED
      BY <3>1, <3>2
  <2> QED
    BY <2>1, <2>2 DEF OneOwner
<1>6. FailuresAreKnown'
  <2>1. ASSUME NEW d \in Callers
        PROVE  /\ call'[d].token /\ Towards(d, {"fallback", "choose"})' => call'[d].failed
               /\ call'[d].pc = "joined" /\ call'[owner'].failed => call'[d].failed
               /\ call'[d].disk => disk' # Nothing
    <3>1. CASE d = c
      BY <1>1, <1>2, <1>3, <3>1 DEF CatalogInv, FailuresAreKnown
    <3>2. CASE d # c
      <4>1. Towards(d, {"fallback", "choose"})' => Towards(d, {"fallback", "choose"})
        BY <1>3, <3>2 DEF Towards
      <4> QED
        <5>1. call'[d].token = call[d].token /\ call'[d].disk = call[d].disk
              /\ call'[d].pc = call[d].pc /\ (call[d].failed => call'[d].failed)
              /\ (call[d].pc = "joined" => call'[d].failed)
          BY <1>3, <1>9, <3>2
        <5> QED
          BY <1>2, <4>1, <5>1 DEF CatalogInv, FailuresAreKnown
    <3> QED
      BY <3>1, <3>2
  <2>2. \A d \in Accounts : call'[d].pc # "idle" => call'[d].token
    <3>1. \A d \in Accounts : d \in Callers
      BY DEF Callers
    <3>2. \A d \in Callers : call'[d].pc # "idle" => call[d].pc # "idle"
      BY <1>9
    <3>3. \A d \in Callers : call'[d].token = call[d].token
      BY <1>3
    <3> QED
      BY <3>1, <3>2, <3>3 DEF CatalogInv, FailuresAreKnown
  <2> QED
    BY <1>2, <2>1, <2>2 DEF CatalogInv, FailuresAreKnown
<1> QED
  BY <1>4, <1>5, <1>6 DEF CatalogInv

\* The steps that end a call.
LEMMA CallEnds ==
    ASSUME CatalogInv, NEW c \in Callers,
           \/ CheckMemory(c) /\ MemoryHit(c)
           \/ ReadDisk(c) /\ Fresh(disk)
           \/ WriteDisk(c) \/ Choose(c)
    PROVE  CatalogInv'
<1> USE DEF CatalogInv
<1>1. CASE CheckMemory(c) /\ MemoryHit(c)
  <2>1. memory.from \in {"server", "github"}
    BY <1>1 DEF MemoryHit, Fresh, CatalogTyped, Entries
  <2>2. CachesKept
    BY <1>1 DEF CheckMemory, CachesKept, CatalogTyped, FailuresAreKnown, files
  <2> QED
    BY <1>1, <2>1, <2>2, EndKeeps DEF CheckMemory
<1>2. CASE ReadDisk(c) /\ Fresh(disk)
  <2>1. disk \in Entries /\ disk.from = "server" /\ ~disk.fallback
    BY <1>2 DEF Fresh, CatalogTyped, FailuresAreKnown
  <2>2. memory' = disk /\ Ends(c, disk.from) /\ UNCHANGED <<disk, shared, tag>>
    BY <1>2 DEF ReadDisk, files
  <2>3. CachesKept
    BY <2>1, <2>2 DEF CachesKept, CatalogTyped
  <2> QED
    BY <2>1, <2>2, <2>3, EndKeeps
<1>3. CASE WriteDisk(c)
  <2>1. Entry("server") \in Entries /\ Entry("server").from = "server" /\ ~Entry("server").fallback
    BY DEF Entry, Entries
  <2>2. disk' \in {disk, Entry("server")} /\ UNCHANGED <<memory, shared, tag>>
    BY <1>3 DEF WriteDisk
  <2>3. Entry("server") # Nothing
    BY <2>1, CatalogConstants DEF Entries
  <2>4. CachesKept
    BY <2>1, <2>2, <2>3 DEF CachesKept, CatalogTyped, FailuresAreKnown
  <2> QED
    BY <1>3, <2>4, EndKeeps DEF WriteDisk
<1>4. CASE Choose(c)
  <2> DEFINE from == IF call[c].disk THEN disk.from ELSE IF shared THEN "github" ELSE Nothing
  <2>1. call[c].disk => disk \in Entries /\ disk.from = "server" /\ ~disk.fallback
    BY DEF CatalogTyped, FailuresAreKnown
  <2>2. from \in {"server", "github", Nothing}
    BY <2>1
  <2>3. /\ memory' = CASE from = Nothing -> memory
                       [] from # Nothing /\ call[c].disk /\ ~call[c].token -> disk
                       [] OTHER -> FallbackEntry(from)
        /\ Ends(c, from) /\ UNCHANGED <<disk, shared, tag>>
    BY <1>4 DEF Choose, files
  <2>4. from # Nothing => FallbackEntry(from) \in Entries /\ FallbackEntry(from).fallback
    BY <2>2 DEF FallbackEntry, Entry, Entries
  <2> HIDE DEF from
  <2>5. CachesKept
    BY <2>1, <2>3, <2>4 DEF CachesKept, CatalogTyped, FailuresAreKnown
  <2> QED
    BY <2>2, <2>3, <2>5, EndKeeps
<1> QED
  BY <1>1, <1>2, <1>3, <1>4

\* The steps outside the calls.
LEMMA AskKeeps ==
    ASSUME CatalogInv, NEW c \in Callers, NEW token \in BOOLEAN, c \in Accounts => token, Ask(c, token)
    PROVE  CatalogInv'
<1> DEFINE z == call[c]
           x == [z EXCEPT !.pc = IF token THEN "tag" ELSE "memory", !.next = "memory", !.token = token]
<1>1. z \in Calls /\ z.pc = "idle" /\ owner # c /\ (z.disk => disk # Nothing)
  BY CatalogConstants
     DEF Ask, CatalogInv, CatalogTyped, OneOwner, FailuresAreKnown, Fetching, Towards, Refreshing, Callers
<1>2. GoodMove(c, x)
  BY <1>1 DEF GoodMove, Calls, CallStates, Refreshing
<1>3. call' = [call EXCEPT ![c] = x] /\ UNCHANGED <<memory, files, owner, known>>
  BY DEF Ask
<1>4. CachesKept
  BY <1>3 DEF CatalogInv, CatalogTyped, FailuresAreKnown, files, CachesKept
<1> HIDE DEF x
<1> QED
  BY <1>2, <1>3, <1>4, MoveKeeps

LEMMA ElapseKeeps == CatalogInv /\ Elapse => CatalogInv'
<1> SUFFICES ASSUME CatalogInv, Elapse PROVE CatalogInv'
  OBVIOUS
<1>1. ASSUME NEW e \in Entries \cup {Nothing}
      PROVE  /\ Stale(e) \in Entries \cup {Nothing} /\ (Stale(e) = Nothing <=> e = Nothing)
             /\ e # Nothing => Stale(e).from = e.from /\ Stale(e).fallback = e.fallback
  <2>1. Nothing \notin Entries
    BY CatalogConstants DEF Entries
  <2> QED
    BY <1>1, <2>1 DEF Stale, Entries
<1>2. \/ memory' = Stale(memory) /\ UNCHANGED disk
      \/ disk' = Stale(disk) /\ UNCHANGED memory
  BY DEF Elapse
<1>3. UNCHANGED <<shared, tag, owner, call, known>>
  BY DEF Elapse
<1>4. memory \in Entries \cup {Nothing} /\ disk \in Entries \cup {Nothing}
  BY DEF CatalogInv, CatalogTyped
<1>5. CachesKept
  BY <1>1, <1>2, <1>3, <1>4 DEF CatalogInv, CatalogTyped, FailuresAreKnown, CachesKept
<1> QED
  BY <1>3, <1>5
     DEF CatalogInv, CatalogTyped, OneOwner, FailuresAreKnown, Fetching, Towards, CachesKept

LEMMA RestartKeeps == CatalogInv /\ Restart => CatalogInv'
<1> SUFFICES ASSUME CatalogInv, Restart PROVE CatalogInv'
  OBVIOUS
<1>1. Idle \in Calls /\ Idle.pc = "idle" /\ ~Idle.token /\ ~Idle.disk /\ ~Idle.failed
  BY DEF Idle, Calls, CallStates
<1>2. /\ memory' = Nothing /\ owner' = Nothing /\ UNCHANGED <<disk, tag>>
      /\ call' = [c \in Callers |-> Idle] /\ known' = [c \in Accounts |-> Nothing]
  BY DEF Restart
<1>3. shared' \in BOOLEAN
  BY DEF Restart, CatalogInv, CatalogTyped
<1>4. CatalogTyped'
  BY <1>1, <1>2, <1>3 DEF CatalogInv, CatalogTyped
<1>5. OneOwner' /\ FailuresAreKnown'
  BY <1>1, <1>2 DEF CatalogInv, CatalogTyped, OneOwner, FailuresAreKnown, Callers, Refreshing, Towards
<1> QED
  BY <1>4, <1>5 DEF CatalogInv

LEMMA CatalogKeeps == CatalogInv /\ [CatalogNext]_catalogVars => CatalogInv'
<1> SUFFICES ASSUME CatalogInv, [CatalogNext]_catalogVars PROVE CatalogInv'
  OBVIOUS
<1>1. CASE UNCHANGED catalogVars
  BY <1>1 DEF catalogVars, CatalogInv, CatalogTyped, OneOwner, FailuresAreKnown, Fetching, Towards
<1>2. ASSUME NEW c \in Callers, CallStep(c) PROVE CatalogInv'
  <2>1. ReadDisk(c) /\ ~Fresh(disk) /\ call[c].token => CatalogInv'
    BY JoinKeeps DEF ReadDisk
  <2> QED
    BY <1>2, <2>1, CallMoves, CallEnds, FailureKeeps DEF CallStep
<1>3. ASSUME NEW c \in Accounts, Ask(c, TRUE) PROVE CatalogInv'
  BY <1>3, AskKeeps DEF Callers
<1>4. ASSUME NEW token \in BOOLEAN, Ask(Boot, token) PROVE CatalogInv'
  BY <1>4, AskKeeps, CatalogConstants DEF Callers
<1> QED
  BY <1>1, <1>2, <1>3, <1>4, ElapseKeeps, RestartKeeps DEF CatalogNext

LEMMA CatalogSound ==
    ASSUME CatalogInv
    PROVE  CatalogTypeOK /\ OneFetch
<1>1. CatalogTypeOK
  BY CatalogConstants DEF CatalogInv, CatalogTyped, CatalogTypeOK, Entries, Calls, CallStates
<1>2. Cardinality({c \in Callers : call[c].pc = "fetch"}) =< 1
  <2> DEFINE F == {c \in Callers : call[c].pc = "fetch"}
  <2>1. F = {} \/ F = {owner}
    BY DEF CatalogInv, OneOwner
  <2> HIDE DEF F
  <2>2. Cardinality(F) = 0 \/ Cardinality(F) = 1
    BY <2>1, FS_EmptySet, FS_Singleton
  <2> QED
    BY <2>2 DEF F
<1>3. \A c \in Callers : call[c].pc = "joined" => owner # Nothing /\ call[owner].pc # "idle"
  BY DEF CatalogInv, OneOwner, Fetching, Towards, Refreshing
<1> QED
  BY <1>1, <1>2, <1>3 DEF OneFetch

\* Only the choice of a fallback hands out the snapshot, and among the accounts
\* only those get it whose fetch failed.
LEMMA LiveUnlessFailed ==
    ASSUME CatalogInv, [CatalogNext]_catalogVars, NEW a \in Accounts,
           known[a] # "github", known'[a] = "github"
    PROVE  call[a].failed
<1> USE DEF CatalogInv
<1>1. "github" # Nothing
  BY CatalogConstants
<1>2. a \in Callers
  BY DEF Callers
<1>3. ASSUME NEW c \in Callers, NEW from, Ends(c, from)
      PROVE  from = "github" /\ (a = c \/ (a \in Callers /\ call[a].pc = "joined" /\ owner = c))
  BY <1>3 DEF Ends, Settle, Joined
<1>4. ASSUME NEW c \in Callers, CheckMemory(c), MemoryHit(c) PROVE FALSE
  <2>1. memory.from = "github" /\ a = c /\ call[c].token
    <3>1. call[c].pc = "memory" /\ Ends(c, memory.from)
      BY <1>4 DEF CheckMemory
    <3>2. owner # c
      BY <3>1, CatalogConstants DEF OneOwner, Fetching, Towards, Refreshing, Callers
    <3>3. memory.from = "github" /\ a = c
      BY <1>3, <3>1, <3>2
    <3> QED
      BY <3>1, <3>3 DEF FailuresAreKnown
  <2>2. memory # Nothing /\ ~memory.fallback
    BY <1>4, <2>1 DEF MemoryHit, Fresh
  <2> QED
    BY <2>1, <2>2 DEF FailuresAreKnown
<1>5. ASSUME NEW c \in Callers, ReadDisk(c), Fresh(disk) PROVE FALSE
  <2>1. Ends(c, disk.from) /\ disk.from = "server"
    BY <1>5 DEF ReadDisk, FailuresAreKnown, Fresh
  <2> QED
    BY <1>3, <2>1
<1>6. ASSUME NEW c \in Callers, WriteDisk(c) PROVE FALSE
  <2>1. Ends(c, "server")
    BY <1>6 DEF WriteDisk
  <2> QED
    BY <1>3, <2>1
<1>7. ASSUME NEW c \in Callers, Choose(c) PROVE call[a].failed
  <2>1. call[c].pc = "choose" /\ \E from : Ends(c, from)
    BY <1>7 DEF Choose
  <2>2. CASE a = c
    BY <2>1, <2>2 DEF FailuresAreKnown, Towards
  <2>3. CASE a # c
    <3>1. call[a].pc = "joined" /\ owner = c
      BY <1>3, <2>1, <2>3
    <3>2. call[c].token
      BY <3>1, CatalogConstants DEF OneOwner, Callers
    <3>3. call[c].failed
      BY <2>1, <3>2 DEF FailuresAreKnown, Towards
    <3> QED
      BY <1>2, <3>1, <3>3 DEF FailuresAreKnown
  <2> QED
    BY <2>2, <2>3
<1>8. known' # known
  BY <1>1, <1>2
<1>9. ~UNCHANGED catalogVars /\ ~Elapse /\ ~Restart /\ \A c, token : ~Ask(c, token)
  BY <1>1, <1>8 DEF catalogVars, Elapse, Restart, Ask
<1>10. PICK c \in Callers : CallStep(c)
  BY <1>9 DEF CatalogNext
<1>11. \/ CheckMemory(c) /\ MemoryHit(c)
       \/ ReadDisk(c) /\ Fresh(disk)
       \/ WriteDisk(c) \/ Choose(c)
  BY <1>8, <1>10
     DEF CallStep, ReadTag, WriteSnapshot, WriteTag, AnswerGitHub, CheckMemory, ReadDisk, LockFails,
         CatalogFetched, FetchFails, Store, Fallback
<1> QED
  BY <1>4, <1>5, <1>6, <1>7, <1>11

-----------------------------------------------------------------------------
(* The client version                                                      *)

Files == [version : 1..MaxRelease, fresh : BOOLEAN]
Fetches == [page : {"none", "api", "html"}, hops : 0..MaxRedirects,
            host : Allowed \cup {"none"}, was : 0..MaxRelease, since : 0..MaxRelease]
VersionTyped ==
  /\ release \in 1..MaxRelease
  /\ saved \in Files \cup {NoVersion}
  /\ cached \in (0..MaxRelease) \cup {NoVersion}
  /\ fetch \in Fetches
  /\ callers \in 0..2
  /\ asked \in Seq(Allowed) /\ Len(asked) <= fetch.hops + 1
  /\ lost \in BOOLEAN /\ peered \in BOOLEAN

\* Only what was released is saved, and answers are no older than the request.
Released ==
  /\ Known <= release
  /\ fetch # NoFetch => fetch.since \in 1..release

\* While the file is kept and no other process writes it, it says at least what
\* memory says, a refresh under way falls back to what it says, and no answer
\* to come is older than that.
FileIsAhead ==
  ~lost /\ ~peered => /\ cached # NoVersion => cached <= Known
                      /\ fetch # NoFetch => fetch.was = Known /\ Known <= fetch.since

VersionInv == VersionTyped /\ Released /\ FileIsAhead

LEMMA VersionNumbers ==
    /\ MaxRelease \in Nat /\ MaxRelease >= 1 /\ MaxRedirects \in Nat
    /\ NoVersion \notin 0..MaxRelease /\ NoVersion \notin Files
    /\ Default \in 0..MaxRelease
BY VersionConstants DEF Files, Default

LEMMA KnownType == VersionTyped => Known \in 0..MaxRelease
BY VersionNumbers DEF VersionTyped, Known, Files

\* A page that is asked for, and one that is over.
LEMMA PageType ==
    ASSUME NEW page \in {"api", "html"}, NEW was \in 0..MaxRelease, Page(page, was),
           release \in 1..MaxRelease
    PROVE  /\ fetch' \in Fetches
           /\ fetch'.was = was /\ fetch'.since = release
           /\ asked' \in Seq(Allowed) /\ Len(asked') <= fetch'.hops + 1
<1>1. PICK host \in Allowed :
        /\ fetch' = [page |-> page, hops |-> 0, host |-> host, was |-> was, since |-> release]
        /\ asked' = <<host>>
  BY DEF Page
<1>2. asked' \in Seq(Allowed) /\ Len(asked') = 1
  BY <1>1
<1> QED
  BY <1>1, <1>2, VersionNumbers DEF Fetches

LEMMA OverType ==
    ASSUME fetch' = NoFetch, callers' = 0, asked' = <<>>
    PROVE  /\ fetch' \in Fetches
           /\ asked' \in Seq(Allowed) /\ Len(asked') <= fetch'.hops + 1
           /\ callers' \in 0..2
BY VersionNumbers DEF NoFetch, Fetches

LEMMA VersionStarts == VersionInit => VersionInv
<1> SUFFICES ASSUME VersionInit PROVE VersionInv
  OBVIOUS
<1>1. VersionTyped
  <2>1. NoFetch \in Fetches
    BY VersionNumbers DEF NoFetch, Fetches
  <2>2. <<>> \in Seq(Allowed) /\ Len(<<>>) <= NoFetch.hops + 1
    BY DEF NoFetch
  <2>3. fetch = NoFetch /\ asked = <<>>
    BY DEF VersionInit
  <2>4. release \in 1..MaxRelease /\ saved \in Files \cup {NoVersion}
        /\ cached \in (0..MaxRelease) \cup {NoVersion} /\ callers \in 0..2 /\ lost \in BOOLEAN
        /\ peered \in BOOLEAN
    <3>1. 1 \in 1..MaxRelease /\ 0 \in 0..2
      BY VersionNumbers
    <3> QED
      BY <3>1 DEF VersionInit
  <2> QED
    BY <2>1, <2>2, <2>3, <2>4 DEF VersionTyped
<1>2. Released /\ FileIsAhead
  BY VersionNumbers DEF VersionInit, Released, FileIsAhead, Known, Default
<1> QED
  BY <1>1, <1>2 DEF VersionInv

LEMMA ReadsKeep == VersionInv /\ (Resolve \/ Refresh) => VersionInv'
<1> SUFFICES ASSUME VersionInv, Resolve \/ Refresh PROVE VersionInv'
  OBVIOUS
<1> USE DEF VersionInv
<1>1. UNCHANGED <<release, saved, lost>> /\ Known' = Known
  BY DEF Resolve, Refresh, Known
<1>2. Known \in 0..MaxRelease /\ release \in 1..MaxRelease
  BY KnownType DEF VersionTyped
<1>3. CASE cached' = Known /\ UNCHANGED <<fetch, callers, asked>> /\ peered' \in BOOLEAN
           /\ (~peered' => ~peered \/ fetch = NoFetch)
  <2>1. VersionTyped'
    BY <1>1, <1>2, <1>3 DEF VersionTyped
  <2> QED
    BY <1>1, <1>2, <1>3, <2>1 DEF Released, FileIsAhead
<1>4. CASE Refresh /\ ~(saved # NoVersion /\ saved.fresh)
  <2>1. callers < 2 /\ callers' = callers + 1 /\ UNCHANGED <<cached, peered>>
        /\ (Page("api", Known) \/ UNCHANGED <<fetch, asked>>)
    BY <1>4 DEF Refresh
  <2>2. callers' \in 0..2
    BY <2>1 DEF VersionTyped
  <2>3. CASE Page("api", Known)
    <3>1. fetch' \in Fetches /\ fetch'.was = Known /\ fetch'.since = release
          /\ asked' \in Seq(Allowed) /\ Len(asked') <= fetch'.hops + 1
      BY <1>2, <2>3, PageType
    <3>2. VersionTyped'
      BY <1>1, <2>1, <2>2, <3>1 DEF VersionTyped
    <3> QED
      BY <1>1, <1>2, <2>1, <3>1, <3>2 DEF Released, FileIsAhead
  <2>4. CASE UNCHANGED <<fetch, asked>>
    <3>1. VersionTyped'
      BY <1>1, <2>1, <2>2, <2>4 DEF VersionTyped
    <3> QED
      BY <1>1, <2>1, <2>4, <3>1 DEF Released, FileIsAhead
  <2> QED
    BY <2>1, <2>3, <2>4
<1>5. CASE Resolve
  BY <1>3, <1>5 DEF Resolve, VersionTyped
<1>6. CASE Refresh /\ saved # NoVersion /\ saved.fresh
  BY <1>3, <1>6 DEF Refresh, Known, VersionTyped
<1> QED
  BY <1>4, <1>5, <1>6

LEMMA PageFailsKeeps == VersionInv /\ PageFails => VersionInv'
<1> SUFFICES ASSUME VersionInv, PageFails PROVE VersionInv'
  OBVIOUS
<1> USE DEF VersionInv
<1>1. /\ fetch.was \in 0..MaxRelease /\ release \in 1..MaxRelease /\ Known \in 0..MaxRelease
      /\ ~lost /\ ~peered => fetch.was = Known
  BY KnownType DEF PageFails, VersionTyped, Fetches, FileIsAhead
<1>2. CASE fetch.page = "api"
  <2>1. Page("html", fetch.was) /\ UNCHANGED <<release, saved, cached, callers, lost, peered>>
    BY <1>2 DEF PageFails
  <2>2. fetch' \in Fetches /\ fetch'.was = fetch.was /\ fetch'.since = release
        /\ asked' \in Seq(Allowed) /\ Len(asked') <= fetch'.hops + 1
    BY <1>1, <2>1, PageType
  <2>3. VersionTyped'
    BY <2>1, <2>2 DEF VersionTyped
  <2>4. Known' = Known
    BY <2>1 DEF Known
  <2> QED
    BY <1>1, <2>1, <2>2, <2>3, <2>4 DEF Released, FileIsAhead
<1>3. CASE fetch.page # "api"
  <2>1. cached' = fetch.was /\ Over /\ UNCHANGED <<release, saved, lost, peered>>
    BY <1>3 DEF PageFails, FallsBack
  <2>2. VersionTyped'
    BY <1>1, <2>1, OverType DEF Over, VersionTyped
  <2>3. Known' = Known
    BY <2>1 DEF Known
  <2> QED
    BY <1>1, <2>1, <2>2, <2>3 DEF Released, FileIsAhead, Over
<1> QED
  BY <1>2, <1>3

LEMMA FollowKeeps ==
    ASSUME VersionInv, NEW host \in Allowed \cup Foreign, Redirected(host)
    PROVE  VersionInv'
<1> USE DEF VersionInv
<1>1. CASE fetch.hops < MaxRedirects /\ host \in Allowed
  <2>1. /\ fetch' = [fetch EXCEPT !.hops = @ + 1, !.host = host]
        /\ asked' = Append(asked, host)
        /\ UNCHANGED <<release, saved, cached, callers, lost, peered>>
    BY <1>1 DEF Redirected, Follow
  <2>2. /\ fetch' \in Fetches
        /\ fetch'.hops = fetch.hops + 1 /\ fetch'.was = fetch.was /\ fetch'.since = fetch.since
    <3>1. fetch.hops + 1 \in 0..MaxRedirects
      BY <1>1, VersionNumbers DEF VersionTyped, Fetches
    <3> QED
      BY <1>1, <2>1, <3>1 DEF VersionTyped, Fetches
  <2>3. asked' \in Seq(Allowed) /\ Len(asked') <= fetch'.hops + 1
    <3>1. asked \in Seq(Allowed) /\ Len(asked) \in Nat /\ Len(asked) <= fetch.hops + 1
          /\ fetch.hops \in Nat
      BY VersionNumbers DEF VersionTyped, Fetches
    <3> QED
      BY <1>1, <2>1, <2>2, <3>1
  <2>4. VersionTyped'
    BY <2>1, <2>2, <2>3 DEF VersionTyped
  <2>5. fetch # NoFetch /\ Known' = Known
    BY <2>1 DEF Redirected, Known
  <2> QED
    BY <2>1, <2>2, <2>4, <2>5 DEF Released, FileIsAhead
<1>2. CASE ~(fetch.hops < MaxRedirects /\ host \in Allowed)
  <2>1. PageFails
    BY <1>2 DEF Redirected, Follow
  <2> QED
    BY <2>1, PageFailsKeeps
<1> QED
  BY <1>1, <1>2

LEMMA AnswerKeeps == VersionInv /\ Answered => VersionInv'
<1> SUFFICES ASSUME VersionInv, Answered PROVE VersionInv'
  OBVIOUS
<1> USE DEF VersionInv
<1>1. PICK version \in fetch.since..release :
        /\ cached' = version
        /\ \/ saved' = [version |-> version, fresh |-> TRUE] /\ UNCHANGED lost
           \/ lost' = TRUE /\ UNCHANGED saved
  BY DEF Answered
<1>2. /\ fetch.since \in 1..release /\ release \in 1..MaxRelease /\ Over /\ UNCHANGED release
      /\ peered' = FALSE
  BY DEF Answered, VersionTyped, Released
<1>3. version \in 1..MaxRelease /\ version <= release /\ [version |-> version, fresh |-> TRUE] \in Files
  BY <1>2, VersionNumbers DEF Files
<1>4. VersionTyped'
  <2>1. saved' \in Files \cup {NoVersion} /\ lost' \in BOOLEAN
    BY <1>1, <1>3 DEF VersionTyped
  <2>2. cached' \in 0..MaxRelease /\ release' \in 1..MaxRelease
    BY <1>1, <1>2, <1>3, VersionNumbers
  <2> QED
    BY <1>2, <2>1, <2>2, OverType DEF Over, VersionTyped
<1>5. CASE saved' = [version |-> version, fresh |-> TRUE]
  <2>1. saved' # NoVersion
    BY <1>3, <1>5, VersionNumbers
  <2>2. Known' = version
    BY <1>5, <2>1 DEF Known
  <2> QED
    BY <1>1, <1>2, <1>3, <1>4, <2>2, VersionNumbers DEF Released, FileIsAhead, Over
<1>6. CASE lost' = TRUE /\ UNCHANGED saved
  <2>1. Known' = Known
    BY <1>6 DEF Known
  <2> QED
    BY <1>2, <1>4, <1>6, <2>1 DEF Released, FileIsAhead, Over
<1> QED
  BY <1>1, <1>5, <1>6

LEMMA OthersKeep == VersionInv /\ (Publish \/ PeerSaves \/ Age \/ Reboot) => VersionInv'
<1> SUFFICES ASSUME VersionInv, Publish \/ PeerSaves \/ Age \/ Reboot PROVE VersionInv'
  OBVIOUS
<1> USE DEF VersionInv
<1>1. Known \in 0..MaxRelease /\ release \in 1..MaxRelease
  BY KnownType DEF VersionTyped
<1>2. CASE Publish
  <2>1. release' \in 1..MaxRelease /\ release' = release + 1
    BY <1>1, <1>2, VersionNumbers DEF Publish
  <2>2. VersionTyped'
    BY <1>2, <2>1 DEF Publish, VersionTyped
  <2>3. Known' = Known /\ UNCHANGED <<cached, fetch, lost, peered>>
    BY <1>2 DEF Publish, Known
  <2>4. fetch # NoFetch => fetch.since \in 1..release'
    BY <1>1, <2>1 DEF Released
  <2> QED
    BY <1>1, <2>1, <2>2, <2>3, <2>4 DEF Released, FileIsAhead
<1>3. CASE Age
  <2>1. /\ saved # NoVersion /\ saved \in Files
        /\ \/ saved' = [saved EXCEPT !.fresh = FALSE] /\ UNCHANGED lost
           \/ saved' = NoVersion /\ lost' = TRUE
        /\ UNCHANGED <<release, cached, fetch, callers, asked, peered>>
    BY <1>3 DEF Age, VersionTyped
  <2>2. saved' \in Files \cup {NoVersion} /\ lost' \in BOOLEAN
    BY <2>1 DEF Files, VersionTyped
  <2>3. VersionTyped'
    BY <2>1, <2>2 DEF VersionTyped
  <2>4. IF lost' THEN Known' \in {Known, Default} ELSE Known' = Known /\ lost' = lost
    <3>1. [saved EXCEPT !.fresh = FALSE] \in Files /\ [saved EXCEPT !.fresh = FALSE].version = saved.version
      BY <2>1 DEF Files
    <3> QED
      BY <2>1, <3>1, VersionNumbers DEF Known
  <2> QED
    BY <1>1, <2>1, <2>3, <2>4 DEF Released, FileIsAhead, Default
<1>4. CASE Reboot
  <2>1. cached' = NoVersion /\ Over /\ peered' = FALSE /\ UNCHANGED <<release, saved, lost>>
    BY <1>4 DEF Reboot
  <2>2. VersionTyped'
    BY <2>1, OverType DEF Over, VersionTyped
  <2>3. Known' = Known
    BY <2>1 DEF Known
  <2> QED
    BY <2>1, <2>2, <2>3 DEF Released, FileIsAhead, Over
<1>5. CASE PeerSaves
  <2>1. PICK version \in 1..release : saved' = [version |-> version, fresh |-> TRUE]
    BY <1>5 DEF PeerSaves
  <2>2. saved' \in Files /\ saved' # NoVersion /\ saved'.version = version
    <3>1. version \in 1..MaxRelease
      BY <1>1, VersionNumbers
    <3>2. [version |-> version, fresh |-> TRUE] \in Files
      BY <3>1 DEF Files
    <3> QED
      BY <2>1, <3>2, VersionNumbers
  <2>3. VersionTyped'
    BY <1>5, <2>2 DEF PeerSaves, VersionTyped
  <2>4. Known' = version
    BY <2>2 DEF Known
  <2> QED
    BY <1>1, <1>5, <2>3, <2>4 DEF PeerSaves, Released, FileIsAhead
<1> QED
  BY <1>2, <1>3, <1>4, <1>5

LEMMA VersionKeeps == VersionInv /\ [VersionNext]_versionVars => VersionInv'
<1> SUFFICES ASSUME VersionInv, [VersionNext]_versionVars PROVE VersionInv'
  OBVIOUS
<1>1. CASE UNCHANGED versionVars
  BY <1>1 DEF versionVars, VersionInv, VersionTyped, Released, FileIsAhead, Known
<1> QED
  BY <1>1, ReadsKeep, PageFailsKeeps, FollowKeeps, AnswerKeeps, OthersKeep DEF VersionNext, FetchStep

LEMMA VersionSound ==
    ASSUME VersionInv
    PROVE  VersionTypeOK /\ AsksAllowedHosts
<1>1. VersionTypeOK
  BY DEF VersionInv, VersionTyped, VersionTypeOK, Files, Fetches
<1>2. asked \in Seq(Allowed) /\ Len(asked) \in Nat /\ Len(asked) <= fetch.hops + 1
      /\ fetch.hops \in 0..MaxRedirects
  BY DEF VersionInv, VersionTyped, Fetches
<1>3. \A i \in DOMAIN asked : asked[i] \in Allowed
  BY <1>2
<1>4. Len(asked) =< MaxRedirects + 1
  BY <1>2, VersionNumbers
<1> QED
  BY <1>1, <1>3, <1>4 DEF AsksAllowedHosts

LEMMA NeverOlder ==
    ASSUME VersionInv, [VersionNext]_versionVars, ~lost', ~peered, NoVersion \notin {cached, cached'}
    PROVE  cached <= cached'
<1> USE DEF VersionInv
<1>1. ~lost
  BY DEF VersionNext, versionVars, Resolve, Refresh, FetchStep, Answered, PageFails, FallsBack,
         Redirected, Follow, Publish, PeerSaves, Age, Reboot
<1>2. /\ cached \in 0..MaxRelease /\ cached <= Known /\ Known \in 0..MaxRelease
      /\ release \in 1..MaxRelease
      /\ fetch # NoFetch => /\ fetch.was = Known /\ Known <= fetch.since
                            /\ fetch.since \in 1..release
  BY <1>1, KnownType DEF Released, FileIsAhead, VersionTyped
<1>3. cached' \in {cached, Known} \/ (fetch # NoFetch /\ cached' \in fetch.since..release)
  <2>1. CASE PageFails
    BY <1>2, <2>1 DEF PageFails, FallsBack
  <2>2. CASE Refresh
    BY <2>2 DEF Refresh, Known
  <2>3. CASE Answered
    BY <2>3 DEF Answered
  <2> QED
    BY <2>1, <2>2, <2>3
       DEF VersionNext, versionVars, Resolve, FetchStep, Redirected, Follow, Publish, PeerSaves, Age, Reboot
<1> QED
  BY <1>2, <1>3, VersionNumbers

-----------------------------------------------------------------------------
(* The parts together                                                      *)

CachesInv == QuotaInv /\ CatalogInv /\ VersionInv

LEMMA PartsStep ==
    ASSUME [Next]_vars
    PROVE  [QuotaNext]_quotaVars /\ [CatalogNext]_catalogVars /\ [VersionNext]_versionVars
BY DEF Next, vars, OnlyQuota, OnlyCatalog, OnlyVersion, Only

LEMMA CachesInvariant == Spec => []CachesInv
<1>1. Init => CachesInv
  BY QuotaStarts, CatalogStarts, VersionStarts DEF Init, CachesInv
<1>2. CachesInv /\ [Next]_vars => CachesInv'
  BY PartsStep, QuotaKeeps, CatalogKeeps, VersionKeeps DEF CachesInv
<1> QED
  BY <1>1, <1>2, PTL DEF Spec

\* Every variable of the caches has its type, one refresh of a quota and one
\* fetch of a catalog are under way at a time, and only allowed hosts are asked
\* (scheduleQuotaRefresh, inFlightCatalogFetches, fetchRemoteText).
THEOREM CachesAreSound == Spec => []CachesSound
<1>1. CachesInv => CachesSound
  BY QuotaSound, CatalogSound, VersionSound DEF CachesInv, CachesSound
<1> QED
  BY <1>1, CachesInvariant, PTL

\* Each threshold of a quota window is warned of once until the window resets,
\* unless another window was taken for it since its reset; and the status
\* command lifts no cooldown of an account of which it is shown a window that
\* has been exhausted since before it asked (evaluateQuotaThresholds,
\* limitsIndicateAvailability).
THEOREM QuotasAreHeeded == Spec => QuotaIsHeeded
<1> DEFINE Once == \A j \in DOMAIN jobs : Evaluate(j) =>
                      LET r == jobs[j].reading
                      IN \A w \in Warnings(r) \ (r.old \cup mixed) :
                           Index(Amount(r, w)) \notin warned[w]
           Spares == ProbeLifts => probe.since = {}
<1>1. CachesInv => [Once]_quotaVars /\ [Spares]_quotaVars
  BY WarnsOnce, LiftSpares DEF CachesInv
<1>2. Spec => [][Once]_quotaVars /\ [][Spares]_quotaVars
  BY <1>1, CachesInvariant, PTL
<1> QED
  BY <1>2 DEF QuotaIsHeeded, WarnedOnce, LiftSparesExhausted

\* No account that asks for its catalog is given the shared snapshot unless a
\* fetch it depended on failed, and while the file of the client version can be
\* kept no reported version is replaced by an older one unless another process
\* wrote the file since this one knew it (getCodexModelCatalog,
\* refreshCodexClientVersion).
THEOREM BetterStays == Spec => BetterIsKept
<1> DEFINE Live == \A c \in Accounts : known[c] # "github" /\ known'[c] = "github" => call[c].failed
           Kept == ~lost' /\ NoVersion \notin {cached, cached'} /\ cached' < cached => peered
<1>1. CachesInv /\ [Next]_vars => [Live]_catalogVars /\ [Kept]_versionVars
  <2> SUFFICES ASSUME CachesInv, [Next]_vars PROVE [Live]_catalogVars /\ [Kept]_versionVars
    OBVIOUS
  <2>1. VersionInv /\ [VersionNext]_versionVars
    BY PartsStep DEF CachesInv
  <2>2. cached \in Int \cup {NoVersion} /\ cached' \in Int \cup {NoVersion}
    <3>1. VersionInv'
      BY <2>1, VersionKeeps
    <3> QED
      BY <2>1, <3>1, VersionNumbers DEF VersionInv, VersionTyped
  <2>3. ASSUME ~lost', NoVersion \notin {cached, cached'}, cached' < cached, ~peered PROVE FALSE
    BY <2>1, <2>2, <2>3, NeverOlder
  <2> QED
    BY <2>3, PartsStep, LiveUnlessFailed DEF CachesInv
<1>2. Spec => [][Live]_catalogVars /\ [][Kept]_versionVars
  BY <1>1, CachesInvariant, PTL DEF Spec
<1> QED
  BY <1>2 DEF BetterIsKept, TokenGetsLive, VersionIsKept
=============================================================================
