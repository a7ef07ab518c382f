-------------------------- MODULE AuthRefreshProofs --------------------------
(***************************************************************************)
(* The account leases, for every set of accounts, processes and flows:     *)
(* what the locked saves do to a record, type correctness, and the         *)
(* promises of the leases - one refresh per token, no lost token, no       *)
(* rollback and no spurious disabling.  The promises rest on one           *)
(* assumption about the timeouts: a lease outlives the refresh it covers.  *)
(***************************************************************************)
EXTENDS AuthRefresh, TLAPS

-----------------------------------------------------------------------------
(* What a flow's save does to the record, whatever the flow.               *)

ClaimOf(p) == [seen |-> job[p].seen, lease |-> job[p].lease]

\* A stored pair: the record keeps its place and its enabled flag, the lease goes.
LEMMA StoredEffect ==
    ASSUME NEW r \in Record, NEW new \in Nat, NEW now \in Nat, NEW cd \in Nat
    PROVE  /\ Stored(r, new, now, cd) \in Record
           /\ Stored(r, new, now, cd).present = r.present
           /\ Stored(r, new, now, cd).enabled = r.enabled
           /\ Stored(r, new, now, cd).token = new
           /\ Stored(r, new, now, cd).lease = 0
<1> DEFINE e == now + TokenLife
<1>1. e \in Nat
  BY LeaseConstants
<1>2. Stored(r, new, now, cd)
        = [r EXCEPT !.token = new, !.expires = e, !.lease = 0, !.cooldown = cd]
  BY DEF Stored
<1> HIDE DEF e
<1> QED
  <2> DEFINE s == [r EXCEPT !.token = new, !.expires = e, !.lease = 0, !.cooldown = cd]
  <2>1. /\ s \in Record /\ s.present = r.present /\ s.enabled = r.enabled
        /\ s.token = new /\ s.lease = 0
    BY <1>1 DEF Record
  <2> HIDE DEF s
  <2> QED
    BY <1>2, <2>1 DEF s

\* Cooling down keeps the tokens and gives the lease up.
LEMMA CooledEffect ==
    ASSUME NEW r \in Record, NEW now \in Nat
    PROVE  /\ CooledDown(r, now) \in Record
           /\ CooledDown(r, now).present = r.present
           /\ CooledDown(r, now).enabled = r.enabled
           /\ CooledDown(r, now).token = r.token
           /\ CooledDown(r, now).lease = 0
<1> DEFINE e == IF r.enabled THEN now + FailureCooldown ELSE r.cooldown
<1>1. e \in Nat
  BY LeaseConstants DEF Record
<1>2. CooledDown(r, now) = [r EXCEPT !.lease = 0, !.cooldown = e]
  BY DEF CooledDown
<1> HIDE DEF e
<1> QED
  <2> DEFINE s == [r EXCEPT !.lease = 0, !.cooldown = e]
  <2>1. /\ s \in Record /\ s.present = r.present /\ s.enabled = r.enabled
        /\ s.token = r.token /\ s.lease = 0
    BY <1>1 DEF Record
  <2> HIDE DEF s
  <2> QED
    BY <1>2, <2>1 DEF s

\* Dropping a lease touches nothing but the lease, and only the claim's own.
LEMMA DropEffect ==
    ASSUME NEW r \in Record, NEW c
    PROVE  /\ DropLease(r, c) \in Record
           /\ DropLease(r, c).present = r.present
           /\ DropLease(r, c).enabled = r.enabled
           /\ DropLease(r, c).token = r.token
           /\ \/ DropLease(r, c).lease = r.lease
              \/ r.lease = c.lease /\ DropLease(r, c).lease = 0
BY DEF DropLease, Record

\* What a successful save may do to a record.
PersistOk(r, s, c, new, now) ==
    /\ s \in Record
    /\ s.present = r.present
    /\ s.enabled = r.enabled
    /\ \/ /\ r.present /\ r.enabled /\ Mine(r, c)
          /\ s.token = new
          /\ s.lease = 0
       \/ /\ ~(r.present /\ r.enabled /\ Mine(r, c) /\ Leased(r, now))
          /\ s.token = r.token
          /\ s.lease = r.lease \/ (r.lease = c.lease /\ s.lease = 0)

\* Every flow: a success stores the new pair over a record it still owns, or leaves
\* the tokens alone and at most takes its own lease away.
LEMMA PersistedEffect ==
    ASSUME TypeOK, NEW p \in Proc, NEW r \in Record
    PROVE  PersistOk(r, Persisted(p, r), ClaimOf(p), job[p].answer, clock)
<1> DEFINE c == ClaimOf(p)
           new == job[p].answer
           K == IF TokenLife <= DueBuffer THEN clock + FailureCooldown ELSE 0
<1>1. clock \in Nat /\ new \in Nat /\ K \in Nat /\ Kind[p] \in Kinds
  BY RefreshConstants, LeaseConstants DEF TypeOK, Job
<1>2. ASSUME r.present, r.enabled, Mine(r, c), NEW k \in Nat
      PROVE  PersistOk(r, Stored(r, new, clock, k), c, new, clock)
  BY <1>1, <1>2, StoredEffect, Zenon DEF PersistOk
<1>3. ASSUME ~(r.present /\ r.enabled /\ Mine(r, c) /\ Leased(r, clock))
      PROVE  PersistOk(r, DropLease(r, c), c, new, clock) /\ PersistOk(r, r, c, new, clock)
  BY <1>3, DropEffect, Zenon DEF PersistOk
<1>4. CASE Kind[p] \in {"acquire", "menu"}
  <2>1. Persisted(p, r) = PersistUnderLease(r, c, new, clock)
    BY <1>4 DEF Persisted, ClaimOf
  <2> QED
    BY <1>1, <1>2, <1>3, <2>1 DEF PersistUnderLease
<1>5. CASE Kind[p] = "quota"
  <2>1. Persisted(p, r) = PersistQuota(r, c, new, clock)
    BY <1>5 DEF Persisted, ClaimOf
  <2> QED
    BY <1>1, <1>2, <1>3, <2>1 DEF PersistQuota, PersistUnderLease
<1>6. CASE Kind[p] = "proactive"
  <2>1. Persisted(p, r) = PersistProactive(r, c, new, clock)
    BY <1>6 DEF Persisted, ClaimOf
  <2> QED
    BY <1>1, <1>2, <1>3, <2>1 DEF PersistProactive
<1>7. CASE Kind[p] = "reactive"
  <2>1. Persisted(p, r) = PersistReactive(r, c, new, clock)
    BY <1>7 DEF Persisted, ClaimOf
  <2> QED
    BY <1>1, <1>2, <1>3, <2>1 DEF PersistReactive
<1> QED
  BY <1>1, <1>4, <1>5, <1>6, <1>7 DEF Kinds

\* What a failed save may do to a record.
ReleaseOk(r, s, c, terminal) ==
    /\ s \in Record
    /\ s.present = r.present
    /\ s.token = r.token
    /\ s.lease = r.lease \/ (r.lease = c.lease /\ s.lease = 0)
    /\ s.enabled = r.enabled \/ (r.present /\ Mine(r, c) /\ terminal)

\* Every flow: a failure keeps the tokens, at most takes its own lease away, and
\* disables only a record it still owns and whose token the server rejected.
LEMMA ReleasedEffect ==
    ASSUME TypeOK, NEW p \in Proc, NEW r \in Record
    PROVE  ReleaseOk(r, Released(p, r), ClaimOf(p), pc[p] = "rejected")
<1> DEFINE c == ClaimOf(p)
           t == pc[p] = "rejected"
<1>1. clock \in Nat /\ Kind[p] \in Kinds
  BY RefreshConstants DEF TypeOK
<1>2. ReleaseOk(r, DropLease(r, c), c, t) /\ ReleaseOk(r, r, c, t)
  BY DropEffect, Zenon DEF ReleaseOk
<1>3. ASSUME Mine(r, c)
      PROVE  ReleaseOk(r, CooledDown(r, clock), c, t)
  BY <1>1, <1>3, CooledEffect, Zenon DEF ReleaseOk, Mine
<1>4. ASSUME Mine(r, c), r.present, t
      PROVE  ReleaseOk(r, Disabled(r), c, t)
  <2>1. Disabled(r) \in Record /\ Disabled(r).present = r.present
        /\ Disabled(r).token = r.token /\ Disabled(r).lease = 0
    BY DEF Disabled, Record
  <2> QED
    BY <1>4, <2>1, Zenon DEF ReleaseOk, Mine
<1>5. ASSUME Mine(r, c)
      PROVE  ReleaseOk(r, [r EXCEPT !.lease = 0], c, t)
  <2>1. [r EXCEPT !.lease = 0] \in Record
    BY DEF Record
  <2> QED
    BY <1>5, <2>1 DEF ReleaseOk, Mine, Record
<1>6. CASE Kind[p] = "acquire"
  <2>1. Released(p, r) = ReleaseAcquire(r, c, t, clock)
    BY <1>6 DEF Released, ClaimOf
  <2> QED
    BY <1>2, <1>3, <1>4, <2>1 DEF ReleaseAcquire
<1>7. CASE Kind[p] \in {"menu", "quota"}
  <2>1. Released(p, r) = ReleaseMenu(r, c, clock)
    BY <1>7 DEF Released, ClaimOf
  <2> QED
    BY <1>2, <1>3, <2>1 DEF ReleaseMenu
<1>8. CASE Kind[p] = "proactive"
  <2>1. Released(p, r) = ReleaseProactive(r, c, t, clock)
    BY <1>8 DEF Released, ClaimOf
  <2> QED
    BY <1>2, <1>3, <1>4, <2>1 DEF ReleaseProactive
<1>9. CASE Kind[p] = "reactive"
  <2>1. Released(p, r) = ReleaseReactive(r, c)
    BY <1>9 DEF Released, ClaimOf
  <2> QED
    BY <1>2, <1>5, <2>1 DEF ReleaseReactive
<1> QED
  BY <1>1, <1>6, <1>7, <1>8, <1>9 DEF Kinds

-----------------------------------------------------------------------------
(* Type correctness                                                        *)

\* The answer of the server is noted in the job, nothing else of it changes.
LEMMA AnsweredEffect ==
    ASSUME TypeOK, NEW p \in Proc, NEW outcome, NEW new \in Nat, Answered(p, outcome, new)
    PROVE  /\ pc[p] = "sent"
           /\ pc' = [pc EXCEPT ![p] = outcome]
           /\ job' \in [Proc -> Job]
           /\ \A q \in Proc \ {p} : job'[q] = job[q]
           /\ job'[p].acct = job[p].acct
           /\ job'[p].seen = job[p].seen
           /\ job'[p].stamp = job[p].stamp
           /\ job'[p].lease = job[p].lease
           /\ job'[p].answer = new
           /\ job'[p].until = clock + CommitDelay
<1> DEFINE u == clock + CommitDelay
           j == [job[p] EXCEPT !.answer = new, !.until = u]
<1>1. u \in Nat
  BY RefreshConstants DEF TypeOK
<1>2. /\ j \in Job
      /\ j.acct = job[p].acct /\ j.seen = job[p].seen /\ j.stamp = job[p].stamp
      /\ j.lease = job[p].lease /\ j.answer = new /\ j.until = u
  <2> HIDE DEF u
  <2> QED
    BY <1>1 DEF TypeOK, Job
<1>3. job' = [job EXCEPT ![p] = j]
  BY DEF Answered
<1> HIDE DEF j
<1> QED
  BY <1>2, <1>3 DEF Answered, TypeOK

LEMMA InitTypeOK == Init => TypeOK
<1>1. Imported(0) \in Record /\ Imported(1) \in Record /\ NoJob \in Job
  BY DEF Imported, Record, NoJob, Job
<1> QED
  BY <1>1 DEF Init, TypeOK, PCs

LEMMA NextTypeOK ==
    ASSUME TypeOK, [Next]_vars
    PROVE  TypeOK'
<1> USE RefreshConstants, LeaseConstants
<1>0. NoJob \in Job
  BY DEF NoJob, Job
<1>1. ASSUME NEW p \in Proc, NEW a \in Accounts, NEW stamp \in Nat,
             TakeLease(p, a, stamp), UNCHANGED <<clock, issued, valid, stale, lost>>
      PROVE  TypeOK'
  <2>1. store' \in [Accounts -> Record]
    BY <1>1 DEF TakeLease, TypeOK, WithLease, Record
  <2>2. job' \in [Proc -> Job] /\ job'[p].acct = a
    BY <1>1 DEF TakeLease, TypeOK, Job, Record
  <2> QED
    BY <1>1, <2>1, <2>2 DEF TakeLease, TypeOK, PCs, Refreshing
<1>2. ASSUME NEW p \in Proc, Finish(p), store' \in [Accounts -> Record],
             stale' \in [Proc -> SUBSET Accounts], lost' \subseteq Accounts,
             UNCHANGED <<clock, issued, valid>>
      PROVE  TypeOK'
  BY <1>0, <1>2 DEF Finish, TypeOK, PCs
<1>3. ASSUME NEW p \in Proc, NEW outcome \in Refreshing, NEW new \in Nat,
             Answered(p, outcome, new), issued' \in [Accounts -> Nat],
             valid' \in [Accounts -> SUBSET Nat], lost' \subseteq Accounts,
             UNCHANGED <<clock, store, stale>>
      PROVE  TypeOK'
  <2>1. job' \in [Proc -> Job] /\ \A q \in Proc : job'[q].acct = job[q].acct
    BY <1>3, AnsweredEffect
  <2> QED
    BY <1>3, <2>1 DEF Answered, TypeOK, PCs, Refreshing
<1>4. CASE Tick
  BY <1>4 DEF Tick, TypeOK
<1>5. ASSUME NEW p \in Proc, NEW a \in Accounts, AcquireSelects(p, a)
      PROVE  TypeOK'
  <2>1. job' \in [Proc -> Job] /\ job'[p].acct = a
    BY <1>5 DEF AcquireSelects, TypeOK, Job, NoJob, Record
  <2> QED
    BY <1>5, <2>1 DEF AcquireSelects, TypeOK, PCs
<1>6. ASSUME NEW p \in Proc, AcquireClaims(p)
      PROVE  TypeOK'
  <2>1. job[p].acct \in Accounts /\ job[p].stamp \in Nat
    BY <1>6 DEF AcquireClaims, TypeOK, Job
  <2>2. CASE TakeLease(p, job[p].acct, job[p].stamp)
    BY <1>1, <1>6, <2>1, <2>2 DEF AcquireClaims
  <2>3. CASE Finish(p) /\ UNCHANGED store
    BY <1>2, <1>6, <2>3 DEF AcquireClaims, TypeOK
  <2> QED
    BY <1>6, <2>2, <2>3 DEF AcquireClaims, Finish
<1>7. ASSUME NEW p \in Proc, NEW a \in Accounts, ProactiveClaims(p, a) \/ OtherClaims(p, a)
      PROVE  TypeOK'
  BY <1>1, <1>7 DEF ProactiveClaims, OtherClaims, TypeOK
<1>8. ASSUME NEW p \in Proc, ProactiveTickEnds(p)
      PROVE  TypeOK'
  BY <1>8 DEF ProactiveTickEnds, TypeOK
<1>9. ASSUME NEW p \in Proc, ServerRotates(p) \/ ResponseLost(p)
      PROVE  TypeOK'
  <2>1. job[p].acct \in Accounts
    BY <1>9 DEF ServerRotates, ResponseLost, Answered, TypeOK
  <2>2. issued' \in [Accounts -> Nat] /\ valid' \in [Accounts -> SUBSET Nat]
    BY <1>9, <2>1 DEF ServerRotates, ResponseLost, Rotate, TypeOK
  <2>3. issued[job[p].acct] + 1 \in Nat
    BY <2>1 DEF TypeOK
  <2> QED
    BY <1>3, <1>9, <2>1, <2>2, <2>3 DEF ServerRotates, ResponseLost, Refreshing, TypeOK
<1>10. ASSUME NEW p \in Proc, ServerRejects(p) \/ RequestFails(p)
       PROVE  TypeOK'
  BY <1>3, <1>10 DEF ServerRejects, RequestFails, Refreshing, TypeOK
<1>11. ASSUME NEW p \in Proc, Succeed(p) \/ Fail(p)
       PROVE  TypeOK'
  <2>1. job[p].acct \in Accounts
    BY <1>11 DEF Succeed, Fail, TypeOK
  <2>2. /\ Persisted(p, store[job[p].acct]) \in Record
        /\ Released(p, store[job[p].acct]) \in Record
    BY <2>1, PersistedEffect, ReleasedEffect DEF TypeOK, PersistOk, ReleaseOk
  <2>3. store' \in [Accounts -> Record] /\ lost' \subseteq Accounts
    BY <1>11, <2>1, <2>2 DEF Succeed, Fail, TypeOK
  <2>4. stale' \in [Proc -> SUBSET Accounts]
    BY <1>11, <2>1 DEF Succeed, Fail, NoteStale, TypeOK
  <2> QED
    BY <1>2, <1>11, <2>3, <2>4 DEF Succeed, Fail
<1>12. ASSUME NEW p \in Proc, Crash(p)
       PROVE  TypeOK'
  BY <1>2, <1>12 DEF Crash, TypeOK
<1>13. ASSUME NEW a \in Accounts, UserStep(a)
       PROVE  TypeOK'
  <2>1. store' \in [Accounts -> Record]
    <3>1. CASE AcquireFindsNoRefresh(a) \/ RateLimited(a)
      <4>1. clock + FailureCooldown \in Nat
        BY DEF TypeOK
      <4> QED
        <5> DEFINE r == [store[a] EXCEPT !.cooldown = clock + FailureCooldown]
        <5>1. r \in Record
          BY <4>1 DEF TypeOK, Record
        <5>2. store' = [store EXCEPT ![a] = r]
          BY <3>1 DEF AcquireFindsNoRefresh, RateLimited
        <5> HIDE DEF r
        <5> QED
          BY <5>1, <5>2 DEF TypeOK
    <3>2. CASE Login(a)
      <4>1. issued[a] + 1 \in Nat /\ clock + TokenLife \in Nat
        BY DEF TypeOK
      <4> QED
        BY <3>2, <4>1 DEF Login, TypeOK, Record
    <3>3. CASE Toggle(a) \/ Remove(a)
      <4>1. Absent \in Record /\ [store[a] EXCEPT !.enabled = ~store[a].enabled] \in Record
        BY DEF TypeOK, Record, Absent
      <4> QED
        BY <3>3, <4>1 DEF Toggle, Remove, TypeOK
    <3> QED
      BY <1>13, <3>1, <3>2, <3>3 DEF UserStep
  <2> QED
    BY <1>13, <2>1 DEF UserStep, AcquireFindsNoRefresh, Login, Toggle, Remove, RateLimited, TypeOK
<1>14. CASE UNCHANGED vars
  BY <1>14 DEF vars, TypeOK
<1>15. ASSUME NEW p \in Proc, SaveThrows(p)
       PROVE  TypeOK'
  <2>1. job' \in [Proc -> Job] /\ \A q \in Proc : job'[q].acct = job[q].acct
    BY <1>15 DEF SaveThrows, TypeOK, Job
  <2>2. lost' \subseteq Accounts
    BY <1>15 DEF SaveThrows, TypeOK
  <2> QED
    BY <1>15, <2>1, <2>2 DEF SaveThrows, TypeOK, PCs, Refreshing
<1> QED
  BY <1>4, <1>5, <1>6, <1>7, <1>8, <1>9, <1>10, <1>11, <1>12, <1>13, <1>14, <1>15
     DEF Next, ProcessStep

\* The state of the leases always has the type TypeOK gives it.
THEOREM TypeCorrect == Spec => []TypeOK
BY InitTypeOK, NextTypeOK, PTL DEF Spec

-----------------------------------------------------------------------------
(* What a step may rely on beyond the types.                               *)

\* The clock stays within the current step of every process, and that step
\* within the slack after the timestamp of its claim.
Timely ==
    \A p \in Proc : pc[p] # "idle" =>
        /\ job[p].stamp <= clock
        /\ clock <= job[p].until
        /\ pc[p] = "selected" => job[p].until <= job[p].stamp + ClaimDelay
        /\ pc[p] = "sent" => job[p].until <= job[p].stamp + ClaimDelay + HttpTimeout
        /\ job[p].until <= job[p].stamp + Slack
        /\ pc[p] \in Refreshing => job[p].lease = job[p].stamp + LeaseLength[Kind[p]]

\* Tokens are numbered in the order they were issued, and what a process saw
\* in the store is never newer than what is there.
Ordered ==
    /\ \A a \in Accounts :
          /\ store[a].token <= issued[a]
          /\ \A t \in valid[a] : t <= issued[a]
          /\ ~store[a].present => store[a].token = 0 /\ store[a].lease = 0
    /\ \A p \in Proc : pc[p] # "idle" =>
          /\ job[p].seen # 0
          /\ job[p].seen <= issued[job[p].acct]
          /\ store[job[p].acct].present => job[p].seen <= store[job[p].acct].token
          /\ pc[p] = "answered" =>
                job[p].seen < job[p].answer /\ job[p].answer <= issued[job[p].acct]

\* A refreshing process whose token is still the stored one owns the lease.
Owned ==
    \A p \in Proc : pc[p] \in Refreshing /\ store[job[p].acct].token = job[p].seen
        => store[job[p].acct].lease = job[p].lease

\* A refresh of a replaced token began before anything was claimed for the new one.
Succession ==
    \A p \in Proc : pc[p] \in Refreshing =>
        /\ store[job[p].acct].token > job[p].seen => job[p].stamp < clock
        /\ \A q \in Proc :
              pc[q] # "idle" /\ job[q].acct = job[p].acct /\ job[q].seen > job[p].seen
                => job[p].stamp < job[q].stamp

\* What the server said stays true: a rejected token stays rejected, and a new
\* pair is valid and known to nobody else until its owner stores it.
Answers ==
    \A p \in Proc :
        /\ pc[p] = "rejected" => job[p].seen \notin valid[job[p].acct]
        /\ pc[p] = "answered" =>
              /\ job[p].answer \in valid[job[p].acct]
              /\ store[job[p].acct].token # job[p].answer
              /\ \A q \in Proc : pc[q] # "idle" /\ job[q].acct = job[p].acct =>
                    /\ job[q].seen # job[p].answer
                    /\ pc[q] = "answered" /\ q # p => job[q].answer # job[p].answer

IInv ==
    /\ TypeOK
    /\ Timely
    /\ Ordered
    /\ OneRefreshPerToken
    /\ Owned
    /\ Succession
    /\ Answers
    /\ NoTokenLost

-----------------------------------------------------------------------------
(* Facts about the numbers in a state                                      *)

Numbers ==
    /\ clock \in Nat
    /\ \A a \in Accounts :
          /\ store[a].token \in Nat /\ store[a].lease \in Nat /\ store[a].present \in BOOLEAN
          /\ issued[a] \in Nat
          /\ \A t \in valid[a] : t \in Nat
    /\ \A p \in Proc :
          /\ job[p].seen \in Nat /\ job[p].stamp \in Nat /\ job[p].lease \in Nat
          /\ job[p].answer \in Nat /\ job[p].until \in Nat
          /\ LeaseLength[Kind[p]] \in Nat /\ Kind[p] \in Kinds
          /\ pc[p] # "idle" => job[p].acct \in Accounts

\* Everything the invariant counts with is a natural number.
LEMMA AllNumbers == TypeOK => Numbers
BY RefreshConstants, LeaseConstants DEF TypeOK, Numbers, Record, Job

Delays == ClaimDelay \in Nat /\ HttpTimeout \in Nat /\ CommitDelay \in Nat

\* The lease of a refreshing process has not run out.
LEMMA LiveLease ==
    ASSUME LeasesOutliveRefreshes, IInv, NEW p \in Proc, pc[p] \in Refreshing
    PROVE  job[p].lease > clock
<1>1. Numbers /\ Delays
  BY AllNumbers, RefreshConstants DEF IInv, Delays
<1>2. LeaseLength[Kind[p]] > Slack
  BY <1>1 DEF LeasesOutliveRefreshes, Numbers
<1>3. /\ job[p].lease = job[p].stamp + LeaseLength[Kind[p]]
      /\ clock <= job[p].until
      /\ job[p].until <= job[p].stamp + Slack
  BY DEF IInv, Timely, Refreshing
<1>4. Slack \in Nat
  BY <1>1 DEF Delays, Slack
<1> QED
  BY <1>1, <1>2, <1>3, <1>4 DEF Numbers

\* A process whose token is still the stored one shares its lease with nobody.
LEMMA DistinctLeases ==
    ASSUME LeasesOutliveRefreshes, IInv,
           NEW p \in Proc, NEW q \in Proc, p # q,
           pc[p] \in Refreshing, pc[q] \in Refreshing,
           job[p].acct = job[q].acct, store[job[q].acct].token = job[q].seen
    PROVE  job[p].lease # job[q].lease
<1> DEFINE a == job[q].acct
<1>1. Numbers /\ Delays /\ Slack \in Nat
  BY AllNumbers, RefreshConstants DEF IInv, Delays, Slack
<1>2. a \in Accounts /\ job[q].seen # 0 /\ store[a].present
  BY <1>1 DEF Numbers, IInv, Ordered, Refreshing
<1>3. job[p].seen < job[q].seen
  <2>1. job[p].seen <= job[q].seen
    BY <1>2 DEF IInv, Ordered, Refreshing
  <2>2. job[p].seen # job[q].seen
    BY <1>2 DEF IInv, OneRefreshPerToken, Holding
  <2> QED
    BY <1>1, <2>1, <2>2 DEF Numbers
<1>4. job[p].stamp < job[q].stamp
  BY <1>3 DEF IInv, Succession, Refreshing
<1>5. /\ job[p].lease = job[p].stamp + LeaseLength[Kind[p]]
      /\ job[q].lease = job[q].stamp + LeaseLength[Kind[q]]
      /\ clock <= job[p].until
      /\ job[p].until <= job[p].stamp + Slack
      /\ job[q].stamp <= clock
  BY DEF IInv, Timely, Refreshing
<1>6. LeaseLength[Kind[p]] > LeaseLength[Kind[q]]
        => LeaseLength[Kind[p]] > LeaseLength[Kind[q]] + Slack
  BY <1>1 DEF LeasesOutliveRefreshes, Numbers
<1> QED
  BY <1>1, <1>4, <1>5, <1>6 DEF Numbers

-----------------------------------------------------------------------------
(* The steps, by what they do to the leases                                *)

\* Process p ends: the record it worked on keeps its tokens and at most loses the
\* lease of p (kept), or gets the new pair of a process that still owned it (renewed).
Kept(p, r, s) ==
    /\ s.token = r.token
    /\ s.lease = r.lease \/ (pc[p] \in Refreshing /\ r.lease = job[p].lease /\ s.lease = 0)
    /\ pc[p] = "answered" /\ r.present /\ r.token = job[p].seen => job[p].acct \in lost'

Renewed(p, r, s) ==
    /\ pc[p] = "answered" /\ r.present /\ r.token = job[p].seen
    /\ s.token = job[p].answer
    /\ s.lease = 0

LEMMA FinishStep ==
    ASSUME LeasesOutliveRefreshes, IInv, TypeOK', NEW p \in Proc, pc[p] # "idle", Finish(p),
           UNCHANGED <<clock, issued, valid>>, lost \subseteq lost',
           NEW s, s.present = store[job[p].acct].present,
           store' = [store EXCEPT ![job[p].acct] = s],
           Kept(p, store[job[p].acct], s) \/ Renewed(p, store[job[p].acct], s)
    PROVE  IInv'
<1> DEFINE a == job[p].acct
           r == store[a]
<1>1. Numbers /\ Numbers'
  BY AllNumbers, PTL DEF IInv
<1>2. /\ a \in Accounts
      /\ store'[a] = s
      /\ \A b \in Accounts \ {a} : store'[b] = store[b]
      /\ pc'[p] = "idle"
      /\ \A q \in Proc \ {p} : pc'[q] = pc[q] /\ job'[q] = job[q]
  BY DEF Finish, IInv, TypeOK
<1>3. ASSUME NEW q \in Proc \ {p}, pc[q] \in Refreshing, job[q].acct = a, r.token = job[q].seen
      PROVE  s.token = r.token /\ s.lease = r.lease
  <2>1. pc[p] \in Refreshing => job[p].lease # job[q].lease /\ job[p].seen # job[q].seen
    BY <1>2, <1>3, DistinctLeases DEF IInv, OneRefreshPerToken, Holding
  <2>2. r.lease = job[q].lease
    BY <1>3 DEF IInv, Owned
  <2> QED
    BY <1>3, <2>1, <2>2 DEF Kept, Renewed, Refreshing
<1>4. Renewed(p, r, s) =>
        /\ \A q \in Proc \ {p} : pc[q] # "idle" /\ job[q].acct = a => job[q].seen # job[p].answer
        /\ \A q \in Proc \ {p} : pc[q] = "answered" /\ job[q].acct = a =>
              job[q].answer # job[p].answer
        /\ job[p].answer \in valid[a] /\ job[p].answer <= issued[a]
        /\ r.token < job[p].answer
  BY DEF Renewed, IInv, Answers, Ordered
<1> USE DEF Refreshing
<1>5. Timely'
  BY <1>1, <1>2 DEF IInv, Timely
<1>6. Ordered'
  BY <1>1, <1>2, <1>4 DEF IInv, Ordered, Numbers, Kept, Renewed
<1>7. OneRefreshPerToken'
  BY <1>2 DEF IInv, OneRefreshPerToken, Holding
<1>8. Owned'
  BY <1>1, <1>2, <1>3, <1>4 DEF IInv, Owned, Kept, Renewed
<1>9. Succession'
  <2>1. ASSUME Renewed(p, r, s), NEW q \in Proc \ {p}, pc[q] \in Refreshing, job[q].acct = a
        PROVE  job[q].stamp < clock
    <3>1. job[q].seen # r.token
      BY <1>2, <2>1 DEF IInv, OneRefreshPerToken, Holding, Renewed
    <3>2. job[q].seen < r.token
      BY <1>1, <1>2, <2>1, <3>1 DEF IInv, Ordered, Renewed, Numbers
    <3> QED
      BY <2>1, <3>2 DEF IInv, Succession
  <2>2. ASSUME NEW q \in Proc, pc'[q] \in Refreshing,
               store'[job'[q].acct].token > job'[q].seen
        PROVE  job'[q].stamp < clock
    <3>1. q # p /\ pc[q] \in Refreshing /\ job'[q] = job[q] /\ job[q].acct \in Accounts
      BY <1>1, <1>2, <2>2 DEF Numbers
    <3>2. CASE job[q].acct = a /\ Renewed(p, r, s)
      BY <2>1, <3>1, <3>2
    <3>3. CASE ~(job[q].acct = a /\ Renewed(p, r, s))
      <4>1. store'[job[q].acct].token = store[job[q].acct].token
        BY <1>2, <3>1, <3>3 DEF Kept
      <4> QED
        BY <2>2, <3>1, <4>1 DEF IInv, Succession
    <3> QED
      BY <3>2, <3>3
  <2> QED
    BY <1>2, <2>2 DEF IInv, Succession
<1>10. Answers'
  BY <1>1, <1>2, <1>4 DEF IInv, Answers, Kept, Renewed
<1>11. NoTokenLost'
  BY <1>1, <1>2, <1>3, <1>4 DEF IInv, NoTokenLost, Holding, Kept, Renewed
<1> QED
  BY <1>5, <1>6, <1>7, <1>8, <1>9, <1>10, <1>11 DEF IInv

\* Nothing the leases depend on changes, but time may pass within the limits.
LEMMA QuietStep ==
    ASSUME LeasesOutliveRefreshes, IInv, TypeOK', UNCHANGED <<issued, valid, pc, job, lost>>,
           clock' = clock \/ (clock' = clock + 1 /\ \A p \in Proc : pc[p] # "idle" => clock < job[p].until),
           \A a \in Accounts : /\ store'[a].token = store[a].token
                               /\ store'[a].lease = store[a].lease
                               /\ store'[a].present = store[a].present
    PROVE  IInv'
<1>1. Numbers /\ Numbers'
  BY AllNumbers, PTL DEF IInv
<1> USE DEF Refreshing
<1>2. Timely'
  BY <1>1 DEF IInv, Timely, Numbers
<1>3. Ordered'
  BY <1>1 DEF IInv, Ordered, Numbers
<1>4. OneRefreshPerToken'
  BY DEF IInv, OneRefreshPerToken, Holding
<1>5. Owned'
  BY <1>1 DEF IInv, Owned, Numbers
<1>6. Succession'
  BY <1>1 DEF IInv, Succession, Numbers
<1>7. Answers'
  BY <1>1 DEF IInv, Answers, Numbers
<1>8. NoTokenLost'
  BY <1>1 DEF IInv, NoTokenLost, Holding
<1> QED
  BY <1>2, <1>3, <1>4, <1>5, <1>6, <1>7, <1>8 DEF IInv

\* acquireOpenAIAuth takes an unlocked look at the store.
LEMMA SelectStep ==
    ASSUME LeasesOutliveRefreshes, IInv, TypeOK', NEW p \in Proc, NEW a \in Accounts,
           AcquireSelects(p, a)
    PROVE  IInv'
<1>0. Delays /\ Slack \in Nat /\ ClaimDelay <= Slack
  BY RefreshConstants DEF Delays, Slack
<1>1. Numbers /\ Numbers'
  BY AllNumbers, PTL DEF IInv
<1>2. /\ pc[p] = "idle" /\ pc'[p] = "selected"
      /\ job'[p].acct = a /\ job'[p].seen = store[a].token /\ job'[p].stamp = clock
      /\ job'[p].until = clock + ClaimDelay
      /\ \A q \in Proc \ {p} : pc'[q] = pc[q] /\ job'[q] = job[q]
      /\ store[a].present /\ store[a].token # 0
      /\ UNCHANGED <<clock, store, issued, valid, lost>>
  BY DEF AcquireSelects, Eligible, IInv, TypeOK
<1> USE DEF Refreshing
<1>3. Timely'
  BY <1>0, <1>1, <1>2 DEF IInv, Timely, Numbers, Delays
<1>4. Ordered'
  BY <1>1, <1>2 DEF IInv, Ordered, Numbers
<1>5. OneRefreshPerToken'
  BY <1>2 DEF IInv, OneRefreshPerToken, Holding
<1>6. Owned'
  BY <1>1, <1>2 DEF IInv, Owned
<1>7. Succession'
  BY <1>1, <1>2 DEF IInv, Succession, Numbers
<1>8. Answers'
  BY <1>1, <1>2 DEF IInv, Answers
<1>9. NoTokenLost'
  BY <1>1, <1>2 DEF IInv, NoTokenLost, Holding
<1> QED
  BY <1>3, <1>4, <1>5, <1>6, <1>7, <1>8, <1>9 DEF IInv

\* A claim: nobody refreshes the token it claims, and what it lands on is still valid.
LEMMA ClaimStep ==
    ASSUME LeasesOutliveRefreshes, IInv, TypeOK', NEW p \in Proc, NEW a \in Accounts,
           NEW stamp \in Nat, TakeLease(p, a, stamp), UNCHANGED <<clock, issued, valid, lost>>,
           store[a].present, store[a].token # 0, ~Leased(store[a], stamp),
           \/ pc[p] = "idle" /\ stamp = clock
           \/ /\ pc[p] = "selected"
              /\ job[p].acct = a /\ job[p].seen = store[a].token /\ job[p].stamp = stamp
    PROVE  IInv'
<1> DEFINE length == LeaseLength[Kind[p]]
<1>0. Delays /\ Slack = ClaimDelay + HttpTimeout + CommitDelay
  BY RefreshConstants DEF Delays, Slack
<1>1. Numbers /\ Numbers'
  BY AllNumbers, PTL DEF IInv
<1>2. /\ pc'[p] = "sent" /\ pc[p] \notin Refreshing
      /\ job'[p].acct = a /\ job'[p].seen = store[a].token /\ job'[p].stamp = stamp
      /\ job'[p].lease = stamp + length /\ job'[p].until = clock + HttpTimeout
      /\ \A q \in Proc \ {p} : pc'[q] = pc[q] /\ job'[q] = job[q]
      /\ store'[a].token = store[a].token /\ store'[a].present = store[a].present
      /\ store'[a].lease = stamp + length
      /\ \A b \in Accounts \ {a} : store'[b] = store[b]
  <2>1. /\ pc'[p] = "sent" /\ pc[p] \notin Refreshing
        /\ \A q \in Proc \ {p} : pc'[q] = pc[q]
    BY DEF TakeLease, IInv, TypeOK, Refreshing
  <2>2. /\ job'[p].acct = a /\ job'[p].seen = store[a].token /\ job'[p].stamp = stamp
        /\ job'[p].lease = stamp + length /\ job'[p].until = clock + HttpTimeout
        /\ \A q \in Proc \ {p} : job'[q] = job[q]
    BY DEF TakeLease, IInv, TypeOK
  <2>3. /\ store'[a] = [store[a] EXCEPT !.lease = stamp + length]
        /\ \A b \in Accounts \ {a} : store'[b] = store[b]
    BY DEF TakeLease, WithLease, IInv, TypeOK
  <2>4. /\ store'[a].token = store[a].token /\ store'[a].present = store[a].present
        /\ store'[a].lease = stamp + length
    <3> DEFINE e == stamp + length
    <3>1. store'[a] = [store[a] EXCEPT !.lease = e]
      BY <2>3
    <3> HIDE DEF e
    <3>2. store'[a].token = store[a].token /\ store'[a].present = store[a].present /\ store'[a].lease = e
      BY <3>1 DEF IInv, TypeOK, Record
    <3> QED
      BY <3>2 DEF e
  <2> QED
    BY <2>1, <2>2, <2>3, <2>4
<1>3. stamp <= clock /\ clock <= stamp + ClaimDelay
  BY <1>0, <1>1 DEF IInv, Timely, Numbers, Delays
<1>4. \A q \in Proc : Holding(q, a) => job[q].seen # store[a].token
  <2>1. SUFFICES ASSUME NEW q \in Proc, Holding(q, a), job[q].seen = store[a].token
                 PROVE  FALSE
    OBVIOUS
  <2>2. store[a].lease = job[q].lease /\ job[q].lease > clock
    BY <2>1, LiveLease DEF Holding, IInv, Owned
  <2> QED
    BY <1>1, <1>3, <2>2 DEF Leased, Numbers
<1> USE DEF Refreshing
<1>5. Timely'
  BY <1>0, <1>1, <1>2, <1>3 DEF IInv, Timely, Numbers, Delays
<1>6. Ordered'
  <2>1. store[a].token <= issued[a]
    BY DEF IInv, Ordered
  <2>2. \A b \in Accounts : store'[b].token = store[b].token /\ store'[b].present = store[b].present
    BY <1>2
  <2>3. \A b \in Accounts : ~store'[b].present => store'[b].token = 0 /\ store'[b].lease = 0
    BY <1>2 DEF IInv, Ordered
  <2> QED
    BY <1>1, <1>2, <2>1, <2>2, <2>3 DEF IInv, Ordered, Numbers
<1>7. OneRefreshPerToken'
  BY <1>2, <1>4 DEF IInv, OneRefreshPerToken, Holding
<1>8. Owned'
  BY <1>1, <1>2, <1>4 DEF IInv, Owned, Holding, Numbers
<1>9. Succession'
  <2>1. ASSUME NEW q \in Proc \ {p}, pc[q] \in Refreshing, job[q].acct = a,
               store[a].token > job[q].seen
        PROVE  job[q].stamp < stamp
    BY <2>1 DEF IInv, Succession
  <2>2. \A q \in Proc : pc[q] # "idle" /\ job[q].acct = a => job[q].seen <= store[a].token
    BY DEF IInv, Ordered
  <2> QED
    BY <1>1, <1>2, <2>1, <2>2 DEF IInv, Succession, Numbers
<1>10. Answers'
  BY <1>1, <1>2 DEF IInv, Answers, Numbers
<1>11. NoTokenLost'
  BY <1>1, <1>2, <1>4 DEF IInv, NoTokenLost, Holding, Numbers
<1> QED
  BY <1>5, <1>6, <1>7, <1>8, <1>9, <1>10, <1>11 DEF IInv

\* The server's answer, or none, to the request of p.  Rejections and failures
\* leave the server alone; a rotation issues a pair nobody has seen.
LEMMA AnswerStep ==
    ASSUME LeasesOutliveRefreshes, IInv, TypeOK', NEW p \in Proc, NEW outcome, NEW new \in Nat,
           Answered(p, outcome, new), UNCHANGED <<clock, store>>, lost \subseteq lost',
           \/ /\ outcome \in {"rejected", "failed"}
              /\ outcome = "rejected" => job[p].seen \notin valid[job[p].acct]
              /\ UNCHANGED <<issued, valid>>
           \/ /\ Rotate(job[p].acct, job[p].seen)
              /\ \/ outcome = "answered" /\ new = issued[job[p].acct] + 1
                 \/ outcome = "failed" /\ job[p].acct \in lost'
    PROVE  IInv'
<1> DEFINE a == job[p].acct
           next == issued[a] + 1
           Rotated == Rotate(job[p].acct, job[p].seen)
<1>0. Delays /\ Slack = ClaimDelay + HttpTimeout + CommitDelay
  BY RefreshConstants DEF Delays, Slack
<1>1. Numbers /\ Numbers'
  BY AllNumbers, PTL DEF IInv
<1>2. /\ pc[p] = "sent" /\ pc'[p] = outcome
      /\ job'[p].acct = a /\ job'[p].seen = job[p].seen /\ job'[p].stamp = job[p].stamp
      /\ job'[p].lease = job[p].lease /\ job'[p].answer = new
      /\ job'[p].until = clock + CommitDelay
      /\ \A q \in Proc \ {p} : pc'[q] = pc[q] /\ job'[q] = job[q]
  BY AnsweredEffect DEF IInv, TypeOK
<1>3. /\ a \in Accounts /\ next \in Nat
      /\ Rotated => /\ issued'[a] = next
                    /\ valid'[a] = (valid[a] \ {job[p].seen}) \union {next}
                    /\ \A b \in Accounts \ {a} : issued'[b] = issued[b] /\ valid'[b] = valid[b]
      /\ ~Rotated => UNCHANGED <<issued, valid>>
  BY <1>1, <1>2 DEF Rotate, IInv, TypeOK, Numbers
<1>4. outcome \in Refreshing /\ "sent" \in Refreshing
  BY DEF Refreshing
<1>5. \A b \in Accounts, t \in Nat : t \in valid'[b] <=>
         \/ t \in valid[b] /\ ~(Rotated /\ b = a /\ t = job[p].seen)
         \/ Rotated /\ b = a /\ t = next
  <2>1. next # job[p].seen
    BY <1>1, <1>2, <1>3 DEF IInv, Ordered, Numbers
  <2> QED
    BY <1>3, <2>1
<1>6. \A b \in Accounts : issued[b] <= issued'[b] /\ issued'[b] \in Nat
  BY <1>1, <1>3 DEF Numbers
<1>7. Rotated /\ outcome = "answered" => new = next /\ outcome # "rejected"
  <2>1. CASE outcome = "answered"
    BY <2>1
  <2> QED
    BY <2>1
<1>8. outcome = "answered" => Rotated
  OBVIOUS
<1>9. /\ outcome = "rejected" => job[p].seen \notin valid[a] /\ ~Rotated
      /\ Rotated => outcome = "answered" \/ a \in lost'
  <2>1. issued'[a] # issued[a] \/ ~Rotated
    BY <1>1, <1>3 DEF Numbers
  <2> QED
    BY <2>1 DEF Rotate
<1> HIDE DEF Rotated
<1>10. Timely'
  BY <1>0, <1>1, <1>2, <1>4 DEF IInv, Timely, Numbers, Delays, Refreshing
<1>11. Ordered'
  <2>1. \A b \in Accounts : \A t \in valid'[b] : t <= issued'[b]
    BY <1>1, <1>3, <1>5, <1>6 DEF IInv, Ordered, Numbers
  <2>2. \A q \in Proc \ {p} : pc[q] = "answered" => job[q].answer <= issued'[job[q].acct]
    BY <1>1, <1>6 DEF IInv, Ordered, Numbers
  <2>3. outcome = "answered" => job[p].seen < new /\ new <= issued'[a]
    BY <1>1, <1>2, <1>3, <1>7, <1>8 DEF IInv, Ordered, Numbers
  <2>4. \A q \in Proc : pc[q] # "idle" => job[q].seen <= issued'[job[q].acct]
    BY <1>1, <1>6 DEF IInv, Ordered, Numbers
  <2>5. \A b \in Accounts : store[b].token <= issued'[b]
    BY <1>1, <1>6 DEF IInv, Ordered, Numbers
  <2> QED
    BY <1>1, <1>2, <2>1, <2>2, <2>3, <2>4, <2>5 DEF IInv, Ordered, Numbers
<1>12. OneRefreshPerToken'
  BY <1>2, <1>4 DEF IInv, OneRefreshPerToken, Holding
<1>13. Owned'
  BY <1>2, <1>4 DEF IInv, Owned
<1>14. Succession'
  BY <1>2, <1>4 DEF IInv, Succession, Refreshing
<1>15. Answers'
  <2>1. ASSUME NEW q \in Proc, pc'[q] = "rejected"
        PROVE  job'[q].seen \notin valid'[job'[q].acct]
    <3>1. job'[q].seen = job[q].seen /\ job'[q].acct = job[q].acct /\ job[q].acct \in Accounts
      BY <1>1, <1>2, <1>3, <2>1 DEF Numbers
    <3>2. job[q].seen \notin valid[job[q].acct]
      BY <1>2, <1>9, <2>1 DEF IInv, Answers
    <3>3. job[q].seen <= issued[job[q].acct]
      BY <1>2, <2>1 DEF IInv, Ordered
    <3> QED
      BY <1>1, <1>3, <1>5, <3>1, <3>2, <3>3 DEF Numbers
  <2>2. ASSUME NEW q \in Proc \ {p}, pc[q] = "answered"
        PROVE  /\ job[q].answer \in valid'[job[q].acct]
               /\ store[job[q].acct].token # job[q].answer
               /\ \A o \in Proc : pc[o] # "idle" /\ job[o].acct = job[q].acct =>
                     job[o].seen # job[q].answer
               /\ \A o \in Proc : pc[o] = "answered" /\ o # q /\ job[o].acct = job[q].acct =>
                     job[o].answer # job[q].answer
               /\ job[q].answer <= issued[job[q].acct]
    <3>1. job[q].acct \in Accounts
      BY <1>1, <2>2 DEF Numbers
    <3>2. job[q].answer \in valid[job[q].acct] /\ job[q].answer \in Nat
      BY <1>1, <2>2 DEF IInv, Answers, Numbers
    <3>3. job[q].acct = a => job[p].seen # job[q].answer
      BY <1>2, <2>2 DEF IInv, Answers
    <3> QED
      BY <1>5, <2>2, <3>1, <3>2, <3>3 DEF IInv, Answers, Ordered
  <2>3. ASSUME outcome = "answered"
        PROVE  /\ new \in valid'[a] /\ store[a].token # new
               /\ \A o \in Proc : pc[o] # "idle" /\ job[o].acct = a => job[o].seen # new
               /\ \A o \in Proc \ {p} : pc[o] = "answered" /\ job[o].acct = a => job[o].answer # new
    <3>1. new = next /\ Rotated
      BY <1>7, <1>8, <2>3
    <3>2. \A t \in Nat : t <= issued[a] => t # new
      BY <1>1, <1>3, <3>1 DEF Numbers
    <3> QED
      BY <1>1, <1>3, <1>5, <3>1, <3>2 DEF IInv, Ordered, Numbers
  <2> QED
    BY <1>2, <1>4, <2>1, <2>2, <2>3 DEF Answers
<1>16. NoTokenLost'
  <2>1. SUFFICES ASSUME NEW b \in Accounts \ lost', store[b].present, store[b].token # 0,
                        store[b].token \notin valid'[b]
                 PROVE  \E q \in Proc : /\ Holding(q, b)' /\ pc'[q] = "answered"
                                        /\ job'[q].seen = store[b].token
                                        /\ job'[q].lease = store[b].lease
                                        /\ job'[q].answer \in valid'[b]
    BY DEF NoTokenLost
  <2>2. CASE store[b].token \in valid[b]
    <3>1. Rotated /\ b = a /\ store[a].token = job[p].seen
      BY <1>1, <1>5, <2>1, <2>2 DEF Numbers
    <3>2. outcome = "answered" /\ new = next
      BY <2>1, <3>1, <1>7, <1>9
    <3>3. store[a].lease = job[p].lease
      BY <1>2, <1>4, <3>1 DEF IInv, Owned
    <3>4. new \in valid'[a]
      BY <1>3, <1>5, <3>1, <3>2
    <3> QED
      BY <1>2, <1>4, <3>1, <3>2, <3>3, <3>4 DEF Holding
  <2>3. CASE store[b].token \notin valid[b]
    <3>1. PICK q \in Proc : /\ Holding(q, b) /\ pc[q] = "answered"
                            /\ job[q].seen = store[b].token /\ job[q].lease = store[b].lease
                            /\ job[q].answer \in valid[b]
      BY <2>1, <2>3 DEF IInv, NoTokenLost
    <3>2. q # p
      BY <1>2, <3>1
    <3>3. job[q].answer \in Nat /\ (b = a => job[p].seen # job[q].answer)
      BY <1>1, <1>2, <3>1 DEF IInv, Answers, Holding, Numbers
    <3>4. job[q].answer \in valid'[b]
      BY <1>5, <2>1, <3>1, <3>3
    <3> QED
      BY <1>2, <3>1, <3>2, <3>4 DEF Holding
  <2> QED
    BY <2>2, <2>3
<1> QED
  BY <1>10, <1>11, <1>12, <1>13, <1>14, <1>15, <1>16 DEF IInv

\* The save of the new pair threw: the process goes on as after a failed refresh, and
\* the account counts as lost.
LEMMA ThrowStep ==
    ASSUME LeasesOutliveRefreshes, IInv, TypeOK', NEW p \in Proc, SaveThrows(p)
    PROVE  IInv'
<1> DEFINE a == job[p].acct
<1>1. Numbers /\ Numbers'
  BY AllNumbers, PTL DEF IInv
<1>2. /\ pc[p] = "answered" /\ pc'[p] = "failed"
      /\ job'[p].acct = a /\ job'[p].seen = job[p].seen /\ job'[p].stamp = job[p].stamp
      /\ job'[p].lease = job[p].lease /\ job'[p].until = job[p].until
      /\ \A q \in Proc \ {p} : pc'[q] = pc[q] /\ job'[q] = job[q]
      /\ UNCHANGED <<clock, store, issued, valid>> /\ lost' = lost \union {a}
  BY DEF SaveThrows, IInv, TypeOK, Job
<1> USE DEF Refreshing
<1>3. Timely'
  BY <1>2 DEF IInv, Timely
<1>4. Ordered'
  BY <1>2 DEF IInv, Ordered
<1>5. OneRefreshPerToken'
  BY <1>2 DEF IInv, OneRefreshPerToken, Holding
<1>6. Owned'
  BY <1>2 DEF IInv, Owned
<1>7. Succession'
  BY <1>2 DEF IInv, Succession
<1>8. Answers'
  BY <1>2 DEF IInv, Answers
<1>9. NoTokenLost'
  BY <1>2 DEF IInv, NoTokenLost, Holding
<1> QED
  BY <1>3, <1>4, <1>5, <1>6, <1>7, <1>8, <1>9 DEF IInv

\* A login puts the newest pair into the record, whatever refreshes are under way.
LEMMA LoginStep ==
    ASSUME LeasesOutliveRefreshes, IInv, TypeOK', NEW a \in Accounts, Login(a)
    PROVE  IInv'
<1> DEFINE next == issued[a] + 1
<1>1. Numbers /\ Numbers'
  BY AllNumbers, PTL DEF IInv
<1>2. /\ next \in Nat
      /\ store'[a].present /\ store'[a].token = next /\ store'[a].lease = 0
      /\ issued'[a] = next /\ valid'[a] = valid[a] \union {next}
      /\ \A b \in Accounts \ {a} :
            store'[b] = store[b] /\ issued'[b] = issued[b] /\ valid'[b] = valid[b]
      /\ UNCHANGED <<clock, pc, job>> /\ lost' = lost \ {a}
      /\ \A p \in Proc : pc[p] \in Refreshing /\ job[p].acct = a => job[p].stamp < clock
  BY <1>1 DEF Login, IInv, TypeOK, Numbers
<1>3. next > issued[a] /\ next # 0
  BY <1>1 DEF Numbers
<1> HIDE DEF next
<1>4. Timely'
  BY <1>2 DEF IInv, Timely
<1>5. Ordered'
  <2>1. \A b \in Accounts : issued[b] <= issued'[b]
    BY <1>1, <1>2, <1>3 DEF Numbers
  <2>2. \A b \in Accounts : /\ store'[b].token <= issued'[b]
                            /\ \A t \in valid'[b] : t <= issued'[b]
                            /\ ~store'[b].present => store'[b].token = 0 /\ store'[b].lease = 0
    BY <1>1, <1>2, <1>3 DEF IInv, Ordered, Numbers
  <2>3. \A p \in Proc : pc[p] # "idle" =>
           /\ job[p].seen # 0
           /\ job[p].seen <= issued'[job[p].acct]
           /\ store'[job[p].acct].present => job[p].seen <= store'[job[p].acct].token
           /\ pc[p] = "answered" =>
                 job[p].seen < job[p].answer /\ job[p].answer <= issued'[job[p].acct]
    BY <1>1, <1>2, <1>3, <2>1 DEF IInv, Ordered, Numbers
  <2> QED
    BY <1>2, <2>2, <2>3 DEF Ordered
<1>6. OneRefreshPerToken'
  BY <1>2 DEF IInv, OneRefreshPerToken, Holding
<1>7. \A p \in Proc : pc[p] # "idle" /\ job[p].acct = a =>
         job[p].seen # next /\ (pc[p] = "answered" => job[p].answer # next)
  BY <1>1, <1>3 DEF IInv, Ordered, Numbers
<1>8. Owned'
  BY <1>1, <1>2, <1>7 DEF IInv, Owned, Numbers, Refreshing
<1>9. Succession'
  BY <1>1, <1>2 DEF IInv, Succession, Numbers, Refreshing
<1>10. Answers'
  BY <1>1, <1>2, <1>7 DEF IInv, Answers, Numbers
<1>11. NoTokenLost'
  BY <1>2 DEF IInv, NoTokenLost, Holding
<1> QED
  BY <1>4, <1>5, <1>6, <1>8, <1>9, <1>10, <1>11 DEF IInv

\* A removed account is free for a login; refreshes of it end without a trace.
LEMMA RemoveStep ==
    ASSUME LeasesOutliveRefreshes, IInv, TypeOK', NEW a \in Accounts, Remove(a)
    PROVE  IInv'
<1>1. Numbers /\ Numbers'
  BY AllNumbers, PTL DEF IInv
<1>2. /\ ~store'[a].present /\ store'[a].token = 0 /\ store'[a].lease = 0
      /\ \A b \in Accounts \ {a} : store'[b] = store[b]
      /\ UNCHANGED <<clock, issued, valid, pc, job, lost>>
  BY DEF Remove, Absent, IInv, TypeOK
<1>3. \A p \in Proc : pc[p] # "idle" => job[p].seen # 0 /\ (pc[p] = "answered" => job[p].answer # 0)
  BY <1>1 DEF IInv, Ordered, Numbers
<1>4. Timely'
  BY <1>2 DEF IInv, Timely
<1>5. Ordered'
  BY <1>1, <1>2 DEF IInv, Ordered, Numbers
<1>6. OneRefreshPerToken'
  BY <1>2 DEF IInv, OneRefreshPerToken, Holding
<1>7. Owned'
  BY <1>1, <1>2, <1>3 DEF IInv, Owned, Numbers, Refreshing
<1>8. Succession'
  BY <1>1, <1>2, <1>3 DEF IInv, Succession, Numbers, Refreshing
<1>9. Answers'
  BY <1>1, <1>2, <1>3 DEF IInv, Answers, Numbers
<1>10. NoTokenLost'
  BY <1>2 DEF IInv, NoTokenLost, Holding
<1> QED
  BY <1>4, <1>5, <1>6, <1>7, <1>8, <1>9, <1>10 DEF IInv

-----------------------------------------------------------------------------
(* The invariant                                                           *)

LEMMA InitIInv == Init => IInv
<1> SUFFICES ASSUME Init PROVE IInv
  OBVIOUS
<1>1. TypeOK
  BY InitTypeOK
<1>2. \A a \in Accounts : /\ store[a].present /\ store[a].token \in {0, 1}
                          /\ issued[a] = 1 /\ valid[a] = {1}
  BY DEF Init, Imported
<1>3. \A p \in Proc : pc[p] = "idle"
  BY DEF Init
<1> QED
  BY <1>1, <1>2, <1>3
     DEF IInv, Timely, Ordered, OneRefreshPerToken, Owned, Succession, Answers, NoTokenLost,
         Holding, Refreshing

\* The steps of one process.
LEMMA ProcessIInv ==
    ASSUME LeasesOutliveRefreshes, IInv, TypeOK', NEW p \in Proc, ProcessStep(p)
    PROVE  IInv'
<1> DEFINE a == job[p].acct
<1>0. Numbers /\ TypeOK
  BY AllNumbers DEF IInv
<1>1. ASSUME NEW b \in Accounts, AcquireSelects(p, b)
      PROVE  IInv'
  BY <1>1, SelectStep
<1>2. ASSUME NEW b \in Accounts, ProactiveClaims(p, b) \/ OtherClaims(p, b)
      PROVE  IInv'
  BY <1>0, <1>2, ClaimStep
     DEF ProactiveClaims, OtherClaims, ProactiveMayClaim, MayClaim, Numbers
<1>3. CASE AcquireClaims(p)
  <2>1. a \in Accounts /\ job[p].stamp \in Nat /\ pc[p] = "selected"
    BY <1>0, <1>3 DEF AcquireClaims, Numbers
  <2>2. CASE AcquireMayClaim(store[a], job[p].seen, job[p].stamp) /\ TakeLease(p, a, job[p].stamp)
    BY <1>3, <2>1, <2>2, ClaimStep DEF AcquireClaims, AcquireMayClaim
  <2>3. CASE Finish(p) /\ UNCHANGED store
    <3>1. store' = [store EXCEPT ![a] = store[a]]
      BY <1>0, <2>1, <2>3 DEF TypeOK
    <3>2. Kept(p, store[a], store[a])
      BY <2>1 DEF Kept
    <3> QED
      BY <1>3, <2>1, <2>3, <3>1, <3>2, FinishStep DEF AcquireClaims
  <2> QED
    BY <1>3, <2>2, <2>3 DEF AcquireClaims, Finish
<1>4. CASE ProactiveTickEnds(p)
  BY <1>4, QuietStep DEF ProactiveTickEnds
<1>5. CASE ServerRotates(p)
  <2>1. issued[a] + 1 \in Nat
    BY <1>0, <1>5 DEF ServerRotates, Answered, Numbers
  <2> QED
    BY <1>5, <2>1, AnswerStep DEF ServerRotates
<1>6. CASE ServerRejects(p) \/ RequestFails(p) \/ ResponseLost(p)
  <2>1. a \in lost' \/ lost' = lost
    BY <1>6 DEF ServerRejects, RequestFails, ResponseLost
  <2>2. lost \subseteq lost'
    BY <1>6 DEF ServerRejects, RequestFails, ResponseLost
  <2>3. CASE ServerRejects(p)
    BY <2>2, <2>3, AnswerStep DEF ServerRejects
  <2>4. CASE RequestFails(p)
    BY <2>2, <2>4, AnswerStep DEF RequestFails
  <2>5. CASE ResponseLost(p)
    BY <2>2, <2>5, AnswerStep DEF ResponseLost
  <2> QED
    BY <1>6, <2>3, <2>4, <2>5
<1>7. CASE Succeed(p)
  <2> DEFINE r == store[a]
             s == Persisted(p, r)
  <2>1. pc[p] = "answered" /\ a \in Accounts /\ r \in Record
    BY <1>0, <1>7 DEF Succeed, Numbers, TypeOK
  <2>2. PersistOk(r, s, ClaimOf(p), job[p].answer, clock)
    BY <1>0, <2>1, PersistedEffect
  <2>3. job[p].lease > clock
    BY <2>1, LiveLease DEF Refreshing
  <2>4. r.present /\ r.token = job[p].seen => r.lease = job[p].lease
    BY <2>1 DEF IInv, Owned, Refreshing
  <2>5. store' = [store EXCEPT ![a] = s] /\ lost \subseteq lost'
        /\ (r.present /\ ~r.enabled /\ r.token = job[p].seen => a \in lost')
    BY <1>7 DEF Succeed
  <2>6. CASE r.present /\ r.enabled /\ Mine(r, ClaimOf(p))
    <3>1. Leased(r, clock)
      BY <2>3, <2>6 DEF Mine, ClaimOf, Leased
    <3> QED
      BY <2>1, <2>2, <2>5, <2>6, <3>1, <1>7, FinishStep
         DEF PersistOk, Mine, ClaimOf, Renewed, Succeed
  <2>7. CASE ~(r.present /\ r.enabled /\ Mine(r, ClaimOf(p)))
    <3>1. Kept(p, r, s)
      BY <2>1, <2>2, <2>4, <2>5, <2>7 DEF PersistOk, Mine, ClaimOf, Kept, Refreshing
    <3> QED
      BY <2>1, <2>2, <2>5, <3>1, <1>7, FinishStep DEF PersistOk, Succeed
  <2> QED
    BY <2>6, <2>7
<1>8. CASE Fail(p)
  <2> DEFINE r == store[a]
             s == Released(p, r)
  <2>1. pc[p] \in {"rejected", "failed"} /\ a \in Accounts /\ r \in Record
    BY <1>0, <1>8 DEF Fail, Numbers, TypeOK
  <2>2. ReleaseOk(r, s, ClaimOf(p), pc[p] = "rejected")
    BY <1>0, <2>1, ReleasedEffect
  <2>3. Kept(p, r, s)
    BY <2>1, <2>2 DEF ReleaseOk, ClaimOf, Kept, Refreshing
  <2> QED
    BY <1>8, <2>1, <2>2, <2>3, FinishStep DEF Fail, ReleaseOk
<1>9. CASE Crash(p)
  <2>1. store' = [store EXCEPT ![a] = store[a]]
    BY <1>0, <1>9 DEF Crash, TypeOK
  <2>2. Kept(p, store[a], store[a]) /\ lost \subseteq lost'
    BY <1>9 DEF Crash, Kept
  <2> QED
    BY <1>9, <2>1, <2>2, FinishStep DEF Crash
<1>10. CASE SaveThrows(p)
  BY <1>10, ThrowStep
<1> QED
  BY <1>1, <1>2, <1>3, <1>4, <1>5, <1>6, <1>7, <1>8, <1>9, <1>10 DEF ProcessStep

\* The invariant is inductive.
LEMMA NextIInv ==
    ASSUME LeasesOutliveRefreshes, IInv, [Next]_vars
    PROVE  IInv'
<1>0. TypeOK /\ TypeOK'
  BY NextTypeOK DEF IInv
<1>1. CASE Tick
  BY <1>0, <1>1, QuietStep DEF Tick
<1>2. ASSUME NEW p \in Proc, ProcessStep(p)
      PROVE  IInv'
  BY <1>0, <1>2, ProcessIInv
<1>3. ASSUME NEW a \in Accounts, UserStep(a)
      PROVE  IInv'
  <2>1. CASE Login(a)
    BY <1>0, <2>1, LoginStep
  <2>2. CASE Remove(a)
    BY <1>0, <2>2, RemoveStep
  <2>3. CASE AcquireFindsNoRefresh(a) \/ Toggle(a) \/ RateLimited(a)
    <3>1. \A b \in Accounts : /\ store'[b].token = store[b].token
                              /\ store'[b].lease = store[b].lease
                              /\ store'[b].present = store[b].present
      BY <1>0, <2>3 DEF AcquireFindsNoRefresh, Toggle, RateLimited, TypeOK, Record
    <3> QED
      BY <1>0, <2>3, <3>1, QuietStep DEF AcquireFindsNoRefresh, Toggle, RateLimited
  <2> QED
    BY <1>3, <2>1, <2>2, <2>3 DEF UserStep
<1>4. CASE UNCHANGED vars
  BY <1>0, <1>4, QuietStep DEF vars
<1> QED
  BY <1>1, <1>2, <1>3, <1>4 DEF Next

-----------------------------------------------------------------------------
(* The promises                                                            *)

\* Whatever the accounts, processes and timeouts: as long as a lease outlives the
\* refresh it covers, no refresh token is ever sent to the server by two flows at once.
THEOREM SingleRefresh == LeasesOutliveRefreshes => (Spec => []OneRefreshPerToken)
<1> SUFFICES ASSUME LeasesOutliveRefreshes
             PROVE  Spec => []OneRefreshPerToken
  OBVIOUS
<1>1. IInv /\ [Next]_vars => IInv'
  BY NextIInv
<1>2. IInv => OneRefreshPerToken
  BY DEF IInv
<1> QED
  BY <1>1, <1>2, InitIInv, PTL DEF Spec

\* Under the same assumption, a refresh token the server has rotated away is about to
\* be replaced in the store by the only process that holds the new pair, unless
\* that pair was lost: with its answer, its reader, the save of it, or by a disable.
THEOREM TokensAreKept == LeasesOutliveRefreshes => (Spec => []NoTokenLost)
<1> SUFFICES ASSUME LeasesOutliveRefreshes
             PROVE  Spec => []NoTokenLost
  OBVIOUS
<1>1. IInv /\ [Next]_vars => IInv'
  BY NextIInv
<1>2. IInv => NoTokenLost
  BY DEF IInv
<1> QED
  BY <1>1, <1>2, InitIInv, PTL DEF Spec

\* What one step does to the pair of account a: nothing, a newer pair, or a removal.
LEMMA TokenStep ==
    ASSUME IInv, [Next]_vars, NEW a \in Accounts
    PROVE  \/ store'[a].token = store[a].token
           \/ ~store'[a].present
           \/ store[a].token < store'[a].token /\ (store[a].enabled \/ store'[a].enabled)
<1>0. TypeOK /\ Numbers
  BY AllNumbers DEF IInv
<1>1. ASSUME NEW p \in Proc, NEW b \in Accounts, NEW e, store' = [store EXCEPT ![b] = WithLease(@, e)]
      PROVE  store'[a].token = store[a].token
  BY <1>0, <1>1 DEF WithLease, TypeOK, Record
<1>2. ASSUME NEW p \in Proc, Succeed(p)
      PROVE  \/ store'[a].token = store[a].token
             \/ store[a].token < store'[a].token /\ store[a].enabled
  <2> DEFINE s == Persisted(p, store[a])
  <2>1. CASE job[p].acct = a
    <3>1. PersistOk(store[a], s, ClaimOf(p), job[p].answer, clock) /\ store'[a] = s
      BY <1>0, <1>2, <2>1, PersistedEffect DEF Succeed, TypeOK
    <3>2. job[p].seen < job[p].answer
      BY <1>2 DEF Succeed, IInv, Ordered
    <3> QED
      BY <3>1, <3>2 DEF PersistOk, Mine, ClaimOf
  <2>2. CASE job[p].acct # a
    BY <1>0, <1>2, <2>2 DEF Succeed, TypeOK
  <2> QED
    BY <2>1, <2>2
<1>3. ASSUME NEW p \in Proc, Fail(p)
      PROVE  store'[a].token = store[a].token
  <2>1. ReleaseOk(store[a], Released(p, store[a]), ClaimOf(p), pc[p] = "rejected")
    BY <1>0, ReleasedEffect DEF TypeOK
  <2> QED
    BY <1>0, <1>3, <2>1 DEF Fail, TypeOK, ReleaseOk
<1>4. ASSUME NEW p \in Proc, ProcessStep(p)
      PROVE  \/ store'[a].token = store[a].token
             \/ store[a].token < store'[a].token /\ store[a].enabled
  <2>1. CASE Succeed(p)
    BY <1>2, <2>1
  <2>2. CASE Fail(p)
    BY <1>3, <2>2
  <2>3. CASE AcquireClaims(p)
    <3>1. job[p].acct \in Accounts
      BY <1>0, <2>3 DEF AcquireClaims, Numbers
    <3> QED
      BY <1>1, <2>3, <3>1 DEF AcquireClaims, TakeLease
  <2>4. ASSUME NEW b \in Accounts, ProactiveClaims(p, b) \/ OtherClaims(p, b)
        PROVE  store'[a].token = store[a].token
    BY <1>1, <2>4 DEF ProactiveClaims, OtherClaims, TakeLease
  <2>5. CASE \/ ProactiveTickEnds(p) \/ SaveThrows(p) \/ Crash(p) \/ \E b \in Accounts : AcquireSelects(p, b)
             \/ ServerRotates(p) \/ ServerRejects(p) \/ RequestFails(p) \/ ResponseLost(p)
    BY <2>5 DEF ProactiveTickEnds, SaveThrows, Crash, AcquireSelects,
                ServerRotates, ServerRejects, RequestFails, ResponseLost
  <2> QED
    BY <1>4, <2>1, <2>2, <2>3, <2>4, <2>5 DEF ProcessStep
<1>5. ASSUME NEW b \in Accounts, Login(b)
      PROVE  \/ store'[a].token = store[a].token
             \/ store[a].token < store'[a].token /\ store'[a].enabled
  <2>1. CASE a = b
    BY <1>0, <1>5, <2>1 DEF Login, TypeOK, IInv, Ordered, Numbers
  <2>2. CASE a # b
    BY <1>0, <1>5, <2>2 DEF Login, TypeOK
  <2> QED
    BY <2>1, <2>2
<1>6. ASSUME NEW b \in Accounts, UserStep(b), ~Login(b)
      PROVE  store'[a].token = store[a].token \/ ~store'[a].present
  BY <1>0, <1>6
     DEF UserStep, AcquireFindsNoRefresh, Toggle, Remove, RateLimited, Absent, TypeOK, Record
<1>7. CASE Tick \/ UNCHANGED vars
  BY <1>7 DEF Tick, vars
<1> QED
  BY <1>4, <1>5, <1>6, <1>7 DEF Next

\* No save of any flow ever puts an older pair over a newer one.
THEOREM NoRollback == LeasesOutliveRefreshes => (Spec => NeverRollsBack)
<1> SUFFICES ASSUME LeasesOutliveRefreshes
             PROVE  Spec => NeverRollsBack
  OBVIOUS
<1>1. IInv /\ [Next]_vars => IInv'
  BY NextIInv
<1>2. IInv /\ [Next]_vars =>
        [\A a \in Accounts : store'[a].present => store'[a].token >= store[a].token]_vars
  <2> SUFFICES ASSUME IInv, [Next]_vars, NEW a \in Accounts, store'[a].present
               PROVE  store'[a].token >= store[a].token
    OBVIOUS
  <2>1. store[a].token \in Nat /\ store'[a].token \in Nat
    BY NextTypeOK DEF IInv, TypeOK, Record
  <2> QED
    BY <2>1, TokenStep
<1> QED
  BY <1>1, <1>2, InitIInv, PTL DEF Spec, NeverRollsBack

\* No save of any flow gives new tokens to an account that is and stays disabled.
THEOREM DisabledUntouched == LeasesOutliveRefreshes => (Spec => DisabledKeepsTokens)
<1> SUFFICES ASSUME LeasesOutliveRefreshes
             PROVE  Spec => DisabledKeepsTokens
  OBVIOUS
<1>1. IInv /\ [Next]_vars => IInv'
  BY NextIInv
<1>2. IInv /\ [Next]_vars =>
        [\A a \in Accounts :
            store[a].present /\ ~store[a].enabled /\ store'[a].present /\ ~store'[a].enabled
              => store'[a].token = store[a].token]_vars
  BY TokenStep
<1> QED
  BY <1>1, <1>2, InitIInv, PTL DEF Spec, DisabledKeepsTokens

\* Only the last step of a refresh ends it.
LEMMA EndOfRefresh ==
    ASSUME IInv, [Next]_vars, NEW p \in Proc, pc[p] \in Refreshing, pc'[p] = "idle"
    PROVE  Succeed(p) \/ Fail(p) \/ Crash(p)
<1>0. pc \in [Proc -> PCs] /\ pc[p] # "idle" /\ pc[p] # "selected"
  BY DEF IInv, TypeOK, Refreshing
<1>1. ASSUME NEW q \in Proc, ProcessStep(q)
      PROVE  Succeed(p) \/ Fail(p) \/ Crash(p)
  <2>1. q = p \/ pc'[p] = pc[p]
    BY <1>0, <1>1
       DEF ProcessStep, AcquireSelects, ProactiveClaims, OtherClaims, AcquireClaims, TakeLease,
           ProactiveTickEnds, ServerRotates, ServerRejects, RequestFails, ResponseLost, Answered,
           Succeed, SaveThrows, Fail, Crash, Finish
  <2>2. CASE Succeed(q) \/ Fail(q) \/ Crash(q)
    BY <1>0, <2>1, <2>2
  <2>3. CASE \/ \E a \in Accounts : AcquireSelects(q, a) \/ ProactiveClaims(q, a) \/ OtherClaims(q, a)
             \/ AcquireClaims(q) \/ ProactiveTickEnds(q)
    BY <1>0, <2>1, <2>3
       DEF AcquireSelects, ProactiveClaims, OtherClaims, AcquireClaims, TakeLease, ProactiveTickEnds
  <2>4. CASE ServerRotates(q) \/ ServerRejects(q) \/ RequestFails(q) \/ ResponseLost(q) \/ SaveThrows(q)
    BY <1>0, <2>1, <2>4
       DEF ServerRotates, ServerRejects, RequestFails, ResponseLost, SaveThrows, Answered
  <2> QED
    BY <1>1, <2>2, <2>3, <2>4 DEF ProcessStep
<1>2. ASSUME NEW a \in Accounts, UserStep(a)
      PROVE  pc' = pc
  BY <1>2 DEF UserStep, AcquireFindsNoRefresh, Login, Toggle, Remove, RateLimited
<1>3. CASE Tick \/ UNCHANGED vars
  BY <1>0, <1>3 DEF Tick, vars
<1> QED
  BY <1>0, <1>1, <1>2, <1>3 DEF Next

\* However flows race, refreshing disables an account only if its refresh token is
\* useless, because the answer that rotated it got lost.
THEOREM NoSpuriousDisabling == LeasesOutliveRefreshes => (Spec => NoSpuriousDisable)
<1> SUFFICES ASSUME LeasesOutliveRefreshes
             PROVE  Spec => NoSpuriousDisable
  OBVIOUS
<1>1. IInv /\ [Next]_vars => IInv'
  BY NextIInv
<1>2. IInv /\ [Next]_vars =>
        [\A a \in Accounts : AutoDisables(a) => a \in lost /\ store[a].token \notin valid[a]]_vars
  <2> SUFFICES ASSUME IInv, [Next]_vars, NEW a \in Accounts, AutoDisables(a)
               PROVE  a \in lost /\ store[a].token \notin valid[a]
    OBVIOUS
  <2>0. TypeOK
    BY DEF IInv
  <2>1. PICK p \in Proc : Holding(p, a) /\ pc'[p] = "idle"
    BY DEF AutoDisables
  <2>2. Fail(p)
    <3>1. ~Crash(p)
      BY DEF AutoDisables, Crash
    <3>2. ~Succeed(p)
      <4>1. PersistOk(store[a], Persisted(p, store[a]), ClaimOf(p), job[p].answer, clock)
        BY <2>0, PersistedEffect DEF TypeOK
      <4> QED
        BY <2>0, <2>1, <4>1 DEF AutoDisables, Succeed, Holding, PersistOk, TypeOK
    <3> QED
      BY <2>1, <3>1, <3>2, EndOfRefresh DEF Holding
  <2>3. ReleaseOk(store[a], store'[a], ClaimOf(p), pc[p] = "rejected")
    BY <2>0, <2>1, <2>2, ReleasedEffect DEF Fail, Holding, TypeOK
  <2>4. pc[p] = "rejected" /\ store[a].present /\ store[a].token = job[p].seen
    BY <2>3 DEF ReleaseOk, AutoDisables, Mine, ClaimOf
  <2>5. store[a].token \notin valid[a] /\ store[a].token # 0
    BY <2>1, <2>4 DEF IInv, Answers, Ordered, Holding
  <2>6. ASSUME a \notin lost
        PROVE  FALSE
    <3>1. PICK q \in Proc : Holding(q, a) /\ pc[q] = "answered" /\ job[q].seen = store[a].token
      BY <2>4, <2>5, <2>6 DEF IInv, NoTokenLost
    <3> QED
      BY <2>1, <2>4, <3>1 DEF IInv, OneRefreshPerToken
  <2> QED
    BY <2>5, <2>6
<1> QED
  BY <1>1, <1>2, InitIInv, PTL DEF Spec, NoSpuriousDisable
=============================================================================
