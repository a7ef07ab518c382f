------------------------------ MODULE QuotaWatch ------------------------------
(***************************************************************************)
(* The quota of one account: what the server counts, what the process that *)
(* uses the account learns of it and does about it (warnings, cooldown),   *)
(* and the status command that samples it and lifts an obsolete cooldown.  *)
(*                                                                         *)
(* Times are distances from now: Tick brings them nearer.  Quota is left   *)
(* in steps of the warning thresholds; a reading tells, of each window it  *)
(* shows, how much was left and perhaps when it resets.  It may leave a    *)
(* window out.                                                             *)
(***************************************************************************)
EXTENDS Integers, Sequences, FiniteSets, FiniteSetsExt, SequencesExt

CONSTANTS FiveHour, Weekly,  \* the windows
          Period,       \* of each window, how often it resets
          Steps,        \* quota of a full window; 0 is exhausted
          Thresholds,   \* what is left when a warning is due, highest first
          Ttl, Retry,   \* time to the next refresh, after success and failure
          FetchLimit,   \* assumed bound on a refresh (only its headers are timed)
          FallbackCool, \* cooldown when no reset is known
          MaxUsers,     \* bound: requests at a time
          NoReading

Windows == {FiveHour, Weekly}

ASSUME QuotaConstants ==
  /\ FiveHour # Weekly
  /\ Steps \in Nat \ {0} /\ Period \in [Windows -> Nat \ {0}]
  /\ Thresholds \in Seq(Nat)
  /\ {Ttl, Retry, FetchLimit, FallbackCool, MaxUsers} \subseteq Nat
  /\ NoReading \notin [left : [Windows -> 0..Steps], shown : SUBSET Windows, told : SUBSET Windows,
                      old : SUBSET Windows]
ASSUME TimingAssumption == FetchLimit < Retry /\ Retry =< Ttl

VARIABLES left, resetIn,  \* the server's windows
          stored,         \* windows the snapshot file has exhausted, their reset to come
          cooling,        \* the account's cooldown in the auth store
          users,          \* requests under way with the account
          refreshIn,      \* quotaRefreshAtByIdentity
          tracker,        \* quotaTrackerByIdentity
          jobs,           \* refreshes under way
          probe,          \* the status command
          warned,         \* thresholds warned of since each window's reset
          mixed           \* windows another one was taken for since their reset
quotaVars == <<left, resetIn, stored, cooling, users, refreshIn, tracker, jobs, probe, warned, mixed>>

Maximum(S) == IF S = {} THEN 0 ELSE Max(S)
Lower(n, m) == IF n < m THEN 0 ELSE n - m

\* What the server answers, of the windows it shows; the resets it tells that
\* matter, those of exhausted windows, are `told'.  An answer that shows no
\* window is no reading.
Shows == SUBSET Windows \ {{}}
Reading(shown, told) == [left |-> [w \in Windows |-> IF w \in shown THEN left[w] ELSE Steps],
                         shown |-> shown, told |-> told, old |-> {}]
Readings == UNION {{Reading(shown, told) : told \in {{}, {w \in shown : left[w] = 0}}} : shown \in Shows}
\* The windows reset since: what was told of them is past.
Aged(r, ws) == IF r = NoReading THEN r ELSE [r EXCEPT !.old = @ \cup (ws \cap r.shown)]
Current(r, ws) == (ws \cap r.told) \ r.old
Ahead(r, ws) == {resetIn[w] : w \in Current(r, ws)}
\* What selection will make of a reading once it is stored.
Benching(r) == Current(r, {w \in r.shown : r.left[w] = 0})

-----------------------------------------------------------------------------
(* Evaluating a reading against what was known before.                     *)

\* The first window shown stands in for the five-hour one; without the weekly
\* one, what is known of it stays.
Source(r, w) == IF w \in r.shown THEN w ELSE Weekly
Evaluated(r) == r.shown \cup {FiveHour}
Amount(r, w) == r.left[Source(r, w)]

Index(n) == Cardinality({i \in DOMAIN Thresholds : n =< Thresholds[i]})
Warnings(r) == {w \in Evaluated(r) : Index(Amount(r, w)) > tracker.index[w]}
Crossings(r) == {w \in Evaluated(r) : Amount(r, w) = 0 /\ ~tracker.exhausted[w]}
Tracked(r) ==
  [index |-> [w \in Windows |-> IF w \in Evaluated(r) THEN Index(Amount(r, w)) ELSE tracker.index[w]],
   exhausted |-> [w \in Windows |-> IF w \in Evaluated(r) THEN Amount(r, w) = 0
                                                         ELSE tracker.exhausted[w]]]
Untracked == [index |-> [w \in Windows |-> 0], exhausted |-> [w \in Windows |-> FALSE]]

\* Until the last reset of the windows just exhausted.
Cooldown(r, ws) == IF Ahead(r, ws) = {} THEN FallbackCool ELSE Maximum(Ahead(r, ws))

-----------------------------------------------------------------------------
(* Requests.                                                               *)

\* Selection first benches the account for what the snapshot file says.
Benched == Maximum({cooling} \cup {resetIn[w] : w \in stored})
Pick == /\ users < MaxUsers
        /\ cooling' = Benched
        /\ users' = IF cooling' = 0 THEN users + 1 ELSE users
        /\ cooling' # cooling \/ users' # users
        /\ UNCHANGED <<left, resetIn, stored, refreshIn, tracker, jobs, probe, warned, mixed>>

\* scheduleQuotaRefresh, after every response but a 401.
Schedule ==
  IF refreshIn = 0
  THEN /\ refreshIn' = Ttl
       /\ jobs' = Append(jobs, [phase |-> "fetch", age |-> 0, reading |-> NoReading])
  ELSE UNCHANGED <<refreshIn, jobs>>

\* A request is answered; the headers may carry a reading, which is stored.
Answer(authorised) ==
  /\ users > 0
  /\ Len(jobs) < 2
  /\ users' = users - 1
  /\ stored' \in {stored} \cup {Benching(r) : r \in Readings}
  /\ IF authorised THEN Schedule ELSE UNCHANGED <<refreshIn, jobs>>
  /\ UNCHANGED <<left, resetIn, cooling, tracker, probe, warned, mixed>>

-----------------------------------------------------------------------------
(* A refresh: fetch, store, evaluate, cool.                                *)

At(j, phase) == j \in DOMAIN jobs /\ jobs[j].phase = phase
Ended(j) == jobs' = RemoveAt(jobs, j)
\* Every failure ends the refresh and brings the next one nearer.
Fails(j) ==
  /\ j \in DOMAIN jobs
  /\ Ended(j)
  /\ refreshIn' = Lower(Retry, jobs[j].age)
  /\ UNCHANGED <<left, resetIn, stored, cooling, users, tracker, probe, warned, mixed>>

Fetched(j, r) ==
  /\ At(j, "fetch")
  /\ jobs' = [jobs EXCEPT ![j].phase = "store", ![j].reading = r]
  /\ UNCHANGED <<left, resetIn, stored, cooling, users, refreshIn, tracker, probe, warned, mixed>>

\* The reading is stored and evaluated; a window newly exhausted still has to
\* bench the account.
Evaluate(j) ==
  LET r == jobs[j].reading
      crossed == Crossings(r)
  IN /\ At(j, "store")
     /\ stored' = Benching(r)
     /\ tracker' = Tracked(r)
     /\ warned' = [w \in Windows |-> IF w \in Warnings(r) \ r.old
                                     THEN warned[w] \cup {Index(Amount(r, w))} ELSE warned[w]]
     /\ mixed' = mixed \cup (Evaluated(r) \ r.shown)
     /\ IF crossed = {} THEN Ended(j)
        ELSE jobs' = [jobs EXCEPT
               ![j].phase = "cool",
               ![j].reading.left = [w \in Windows |-> IF \E v \in crossed : w = Source(r, v)
                                                     THEN 0 ELSE 1]]
     /\ UNCHANGED <<left, resetIn, cooling, users, refreshIn, probe>>

\* The windows that crossed, in a job that has to bench the account.
Crossed(j) == {w \in Windows : jobs[j].reading.left[w] = 0}
Cool(j) ==
  /\ At(j, "cool")
  /\ cooling' = Cooldown(jobs[j].reading, Crossed(j))
  /\ Ended(j)
  /\ UNCHANGED <<left, resetIn, stored, users, refreshIn, tracker, probe, warned, mixed>>

-----------------------------------------------------------------------------
(* The status command: it sees a cooldown, samples the quota, stores what  *)
(* it got and lifts the cooldown when every window it was shown has        *)
(* capacity.                                                               *)

\* Faulty: some window has capacity.
AvailableSome(r) == \E w \in r.shown : r.left[w] > 0
Available(r) == \A w \in r.shown : r.left[w] > 0
\* `since': while it may lift a cooldown, the windows exhausted since before it
\* asked; then those of them it is shown.
NoProbe == [phase |-> "idle", lifts |-> FALSE, benching |-> {}, since |-> {}]
ProbeStarts ==
  /\ probe.phase = "idle"
  /\ probe' = [phase |-> "ask", lifts |-> cooling > 0, benching |-> {},
               since |-> IF cooling > 0 THEN {w \in Windows : left[w] = 0} ELSE {}]
  /\ UNCHANGED <<left, resetIn, stored, cooling, users, refreshIn, tracker, jobs, warned, mixed>>
ProbeAnswered(r) ==
  /\ probe.phase = "ask"
  /\ probe' = [probe EXCEPT !.phase = "store", !.benching = Benching(r),
                            !.lifts = @ /\ Available(r),
                            !.since = IF Available(r) THEN @ \cap r.shown ELSE {}]
  /\ UNCHANGED <<left, resetIn, stored, cooling, users, refreshIn, tracker, jobs, warned, mixed>>
ProbeStores ==
  /\ probe.phase = "store"
  /\ stored' = probe.benching
  /\ probe' = IF probe.lifts THEN [probe EXCEPT !.phase = "lift"] ELSE NoProbe
  /\ UNCHANGED <<left, resetIn, cooling, users, refreshIn, tracker, jobs, warned, mixed>>
ProbeLifts ==
  /\ probe.phase = "lift"
  /\ cooling' = 0
  /\ probe' = NoProbe
  /\ UNCHANGED <<left, resetIn, stored, users, refreshIn, tracker, jobs, warned, mixed>>
ProbeFails ==
  /\ probe.phase # "idle"
  /\ probe' = NoProbe
  /\ UNCHANGED <<left, resetIn, stored, cooling, users, refreshIn, tracker, jobs, warned, mixed>>

-----------------------------------------------------------------------------
\* Whoever uses the account consumes quota; time resets the windows.
Consume(w) == /\ left[w] > 0
              /\ left' = [left EXCEPT ![w] = @ - 1]
              /\ UNCHANGED <<resetIn, stored, cooling, users, refreshIn, tracker, jobs, probe, warned, mixed>>
Tick ==
  LET reset == {w \in Windows : resetIn[w] = 1}
  IN /\ \A j \in DOMAIN jobs : jobs[j].age < FetchLimit
     /\ left' = [w \in Windows |-> IF w \in reset THEN Steps ELSE left[w]]
     /\ resetIn' = [w \in Windows |-> IF w \in reset THEN Period[w] ELSE resetIn[w] - 1]
     /\ stored' = stored \ reset
     /\ cooling' = Lower(cooling, 1)
     /\ refreshIn' = Lower(refreshIn, 1)
     /\ jobs' = [j \in DOMAIN jobs |-> [jobs[j] EXCEPT !.age = @ + 1, !.reading = Aged(@, reset)]]
     /\ probe' = [probe EXCEPT !.benching = @ \ reset, !.since = @ \ reset]
     /\ warned' = [w \in Windows |-> IF w \in reset THEN {} ELSE warned[w]]
     /\ mixed' = mixed \ reset
     /\ UNCHANGED <<users, tracker>>

QuotaInit ==
  /\ left = [w \in Windows |-> Steps]
  /\ resetIn = Period
  /\ stored = {}
  /\ cooling = 0
  /\ users = 0
  /\ refreshIn = 0
  /\ tracker = Untracked
  /\ jobs = <<>>
  /\ probe = NoProbe
  /\ warned = [w \in Windows |-> {}] /\ mixed = {}

JobStep == \E j \in 1..2 : \/ \E r \in Readings : Fetched(j, r)
                           \/ Evaluate(j) \/ Cool(j) \/ Fails(j)
ProbeStep == \/ ProbeStarts \/ ProbeStores \/ ProbeLifts \/ ProbeFails
             \/ \E r \in Readings : ProbeAnswered(r)
QuotaNext == \/ Pick
             \/ \E ok \in BOOLEAN : Answer(ok)
             \/ JobStep \/ ProbeStep
             \/ \E w \in Windows : Consume(w)
             \/ Tick
QuotaSpec == QuotaInit /\ [][QuotaNext]_quotaVars

-----------------------------------------------------------------------------
\* Every part of the state has its type; tracker and reading agree on the windows.
QuotaTypeOK ==
  /\ left \in [Windows -> 0..Steps]
  /\ \A w \in Windows : resetIn[w] \in 1..Period[w]
  /\ stored \subseteq Windows
  /\ cooling \in 0..Maximum({FallbackCool} \cup Range(Period))
  /\ users \in 0..MaxUsers
  /\ refreshIn \in 0..Ttl
  /\ tracker \in [index : [Windows -> 0..Len(Thresholds)], exhausted : [Windows -> BOOLEAN]]
  /\ \A j \in DOMAIN jobs : jobs[j].phase \in {"fetch", "store", "cool"} /\ jobs[j].age \in 0..FetchLimit
  /\ probe.phase \in {"idle", "ask", "store", "lift"}
  /\ mixed \subseteq Windows

\* An account's quota is refreshed once at a time: when the next refresh comes
\* due, after a success or a failure, the one before is over
\* (scheduleQuotaRefresh).
OneRefresh == Len(jobs) =< 1

\* Each threshold of a window is warned of once until the window resets,
\* whatever refreshes failed or left the window out in between, unless another
\* window was taken for it since its reset (evaluateQuotaThresholds).
WarnedOnce ==
  [][\A j \in DOMAIN jobs : Evaluate(j) =>
       LET r == jobs[j].reading
       IN \A w \in Warnings(r) \ (r.old \cup mixed) : Index(Amount(r, w)) \notin warned[w]]_quotaVars

\* The status command does not lift the cooldown of an account of which it is
\* shown a window that has been exhausted since before it asked
\* (limitsIndicateAvailability).
LiftSparesExhausted == [][ProbeLifts => probe.since = {}]_quotaVars
=============================================================================
