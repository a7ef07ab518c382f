----------------------------- MODULE AcquireAuth -----------------------------
(***************************************************************************)
(* acquireOpenAIAuth: how the concurrent requests of one OpenCode process  *)
(* come by an access token.  Each request loops: an unlocked snapshot of   *)
(* the store, a selected account, then either its fresh token or a refresh *)
(* under a lease.  Every phase below ends at an await, so other requests,  *)
(* other processes and users act in between.                               *)
(*                                                                         *)
(* The OAuth server and the flows of other processes are in AuthRefresh;   *)
(* here they appear by what they do to a record.                           *)
(***************************************************************************)
EXTENDS AccountLease, Rotation

CONSTANTS
    Requests,
    SessionOf,    \* [Requests -> sessions and NoSession]
    QuotaReset,   \* [Keys -> Nat]: when the exhausted quota of the snapshots resets, 0: not exhausted
    Stored0,      \* the records a store may start with
    Meddling,     \* what others may do to the store
    NoSnap,
    MaxTime,      \* bound on the clock
    MaxChanges    \* bound on what others do

VARIABLES
    clock,
    store,     \* the accounts of the auth mode
    active,    \* activeIdentityKey
    used,      \* [Keys -> Nat]: lastUsed as a rank, 0 for never, the highest for the latest
    peers,     \* accounts whose lease another process took, or an earlier run
    sessions,  \* the session map of the strategy
    phase,     \* where each request is
    snap,      \* its unlocked snapshot, until it has selected
    req,       \* its other locals
    usable,    \* history: accounts that were usable since the request began
    homed,     \* history: the account its session had when the request began, if it is alone
    changes    \* number of changes made by others

vars == <<clock, store, active, used, peers, sessions, phase, snap, req, usable, homed, changes>>
env == <<clock, peers, changes>>

Phases == {"idle", "load", "bench", "select", "touch", "park", "claim", "refresh",
           "final", "done", "failed"}
Ended == {"done", "failed"}
Verdicts == {"none", "no_accounts_configured", "no_enabled_accounts", "refresh_invalid_grant",
             "all_accounts_cooling_down", "missing_refresh_token", "refresh_failed"}

NoReq == [tried |-> {}, total |-> 0, key |-> NoKey, seen |-> 0, stamp |-> 0, lease |-> 0,
          saw |-> {}, verdict |-> "none"]
Req == [tried : SUBSET Keys, total : Nat, key : Keys \union {NoKey}, seen : Nat, stamp : Nat,
        lease : Nat, saw : SUBSET {"invalid_grant", "failure", "missing"}, verdict : Verdicts]

\* An unlocked snapshot, with the quota cooldowns it showed to be due.
Snapshot == [accts : [Keys -> Record], spent : SUBSET Keys, active : Keys \union {NoKey},
             used : [Keys -> 0..Cardinality(Keys)]]

ASSUME AcquireConstants ==
    /\ DOMAIN SessionOf = Requests
    /\ QuotaReset \in [Keys -> Nat]
    /\ Stored0 \subseteq Record /\ \A rec \in Stored0 : rec.present \/ rec = Absent
    /\ Meddling \subseteq {"refresh", "lease", "limit", "toggle", "remove", "login"}
    /\ NoSnap \notin Snapshot
    /\ MaxTime \in Nat /\ MaxChanges \in Nat

-----------------------------------------------------------------------------
Present(accts) == {k \in Keys : accts[k].present}
Enabled(accts) == {k \in Present(accts) : accts[k].enabled}
First(S) == CHOOSE k \in S : \A j \in S : k <= j

(***************************************************************************)
(* ensureDomainAccountHealth: the active account is an enabled one.  Every *)
(* read and every save normalises first, so it may as well be done as soon *)
(* as the records change.                                                  *)
(***************************************************************************)
Healthy(accts, act) ==
    IF act \in Enabled(accts) THEN act
    ELSE IF Enabled(accts) = {} THEN NoKey
    ELSE First(Enabled(accts))

\* lastUsed of k becomes the latest; the others keep their order.
Touched(u, k) ==
    [j \in Keys |-> IF j = k THEN Cardinality(Keys) ELSE IF u[j] > u[k] THEN u[j] - 1 ELSE u[j]]

\* lastUsed is written at most once in LAST_USED_WRITE_INTERVAL_MS.
TouchedOrNot(u, k) == {Touched(u, k)} \union IF u[k] = 0 THEN {} ELSE {u}

Goto(r, ph) == phase' = [phase EXCEPT ![r] = ph]

Save(k, rec) ==
    /\ store' = [store EXCEPT ![k] = rec]
    /\ active' = Healthy(store', active)

\* What is left of a request that got the token of account k, or none.
End(r, ph, k, verdict) ==
    /\ Goto(r, ph)
    /\ req' = [req EXCEPT ![r] = [NoReq EXCEPT !.tried = req[r].tried \union ({k} \ {NoKey}),
                                              !.key = k, !.verdict = verdict]]
FailWith(r, verdict) == End(r, "failed", NoKey, verdict)

\* Faulty: gives up with one account left to try.
ProceedTooSoon(r, saw) ==
    /\ Goto(r, IF Cardinality(req[r].tried) + 1 >= req[r].total THEN "final" ELSE "load")
    /\ req' = [req EXCEPT ![r] = [NoReq EXCEPT !.tried = req[r].tried, !.saw = req[r].saw \union saw]]

\* No token in this iteration: the next one, or the verdict.
Proceed(r, saw) ==
    /\ Goto(r, IF Cardinality(req[r].tried) >= req[r].total THEN "final" ELSE "load")
    /\ req' = [req EXCEPT ![r] = [NoReq EXCEPT !.tried = req[r].tried, !.saw = req[r].saw \union saw]]

-----------------------------------------------------------------------------
\* The session map is restored from disk, its cursor is not.
Restored ==
    {NoSessions} \union
    {Assign(NoSessions, s, k) : s \in {SessionOf[r] : r \in Requests} \ {NoSession}, k \in Keys}

Init ==
    /\ clock = 1
    /\ store \in [Keys -> Stored0]
    /\ active = Healthy(store, NoKey)
    /\ used = [k \in Keys |-> 0]
    /\ peers = {k \in Keys : Leased(store[k], clock)}
    /\ sessions \in Restored
    /\ phase = [r \in Requests |-> "idle"]
    /\ snap = [r \in Requests |-> NoSnap]
    /\ req = [r \in Requests |-> NoReq]
    /\ usable = [r \in Requests |-> {}]
    /\ homed = [r \in Requests |-> NoKey]
    /\ changes = 0

\* The orchestrator has given up at most one account, whose token expired.
Begin(r) ==
    /\ phase[r] = "idle"
    /\ \E avoid \in {{}} \union {{k} : k \in Present(store)} :
          req' = [req EXCEPT ![r].tried = avoid]
    /\ Goto(r, "load")
    /\ UNCHANGED <<env, store, active, used, sessions, snap>>

\* Accounts whose exhausted quota outlasts their cooldown.
Exhausted(accts, now) ==
    {k \in Present(accts) : QuotaReset[k] > now /\ QuotaReset[k] > accts[k].cooldown}
Benched(accts, K) ==
    [k \in Keys |-> IF k \in K THEN [accts[k] EXCEPT !.cooldown = QuotaReset[k]] ELSE accts[k]]

Load(r) ==
    /\ phase[r] = "load"
    /\ LET spent == Exhausted(store, clock)
       IN  IF Present(store) = {}
           THEN FailWith(r, "no_accounts_configured") /\ UNCHANGED snap
           ELSE /\ snap' = [snap EXCEPT ![r] = [accts |-> Benched(store, spent), spent |-> spent,
                                                active |-> active, used |-> used]]
                /\ req' = [req EXCEPT ![r].total = Cardinality(Present(store)), ![r].stamp = clock]
                /\ Goto(r, IF spent = {} THEN "select" ELSE "bench")
    /\ UNCHANGED <<env, store, active, used, sessions>>

\* The cooldowns of exhausted quotas are saved, never shortening one.
Bench(r) ==
    /\ phase[r] = "bench"
    /\ store' = Benched(store, {k \in snap[r].spent \intersect Enabled(store) :
                                   store[k].cooldown < QuotaReset[k]})
    /\ Goto(r, "select")
    /\ UNCHANGED <<env, active, used, sessions, snap, req>>

\* An account is selected and tried: its fresh token is used, or it is refreshed.
Try(r, k, rec) ==
    LET fresh == rec.token # 0 /\ rec.expires > req[r].stamp
    IN  \/ /\ fresh /\ Strategy = "sticky"
           /\ End(r, "done", k, "none")
        \/ /\ fresh /\ Strategy # "sticky"
           /\ req' = [req EXCEPT ![r].tried = @ \union {k}, ![r].key = k]
           /\ Goto(r, "touch")
        \/ /\ ~fresh
           /\ req' = [req EXCEPT ![r].tried = @ \union {k}, ![r].key = k, ![r].seen = rec.token]
           /\ Goto(r, IF rec.token = 0 THEN "park" ELSE "claim")

Select(r) ==
    /\ phase[r] = "select"
    /\ LET now == req[r].stamp
           accts == Present(snap[r].accts) \ req[r].tried
           ok == {k \in accts : Eligible(snap[r].accts[k], now)}
           pick == SelectAccount(accts, ok, snap[r].active, snap[r].used, SessionOf[r], sessions)
       IN  \/ /\ Enabled(snap[r].accts) = {}
              /\ FailWith(r, "no_enabled_accounts")
              /\ UNCHANGED sessions
           \/ /\ Enabled(snap[r].accts) # {}
              /\ sessions' = pick.sessions
              /\ \/ /\ pick.key = NoKey
                    /\ Goto(r, "final")
                    /\ req' = [req EXCEPT ![r].total = 0, ![r].stamp = 0]
                 \/ pick.key # NoKey /\ Try(r, pick.key, snap[r].accts[pick.key])
    /\ snap' = [snap EXCEPT ![r] = NoSnap]
    /\ UNCHANGED <<env, store, active, used>>

\* The save behind a fresh token.  The token is used whatever the save finds.
Touch(r) ==
    /\ phase[r] = "touch"
    /\ LET k == req[r].key
       IN  \/ /\ k \in Enabled(store) /\ Strategy = "round_robin"
              /\ active' = k
              /\ UNCHANGED used
           \/ /\ k \in Enabled(store) /\ Strategy = "hybrid"
              /\ used' \in TouchedOrNot(used, k)
              /\ UNCHANGED active
           \/ k \notin Enabled(store) /\ UNCHANGED <<active, used>>
    /\ End(r, "done", req[r].key, "none")
    /\ UNCHANGED <<env, store, sessions, snap>>

\* An account without tokens cools down, from the time of the iteration.
Park(r) ==
    /\ phase[r] = "park"
    /\ LET k == req[r].key
       IN  store' = IF k \in Enabled(store) /\ store[k].token = 0
                    THEN [store EXCEPT ![k].cooldown = req[r].stamp + FailureCooldown]
                    ELSE store
    /\ Proceed(r, {"missing"})
    /\ UNCHANGED <<env, active, used, sessions, snap>>

ClaimTaken(r) ==
    /\ phase[r] = "claim"
    /\ LET k == req[r].key
           until == req[r].stamp + LeaseLength["acquire"]
       IN  /\ AcquireMayClaim(store[k], req[r].seen, req[r].stamp)
           /\ store' = [store EXCEPT ![k] = WithLease(@, until)]
           /\ peers' = peers \ {k}
           /\ req' = [req EXCEPT ![r].lease = until]
    /\ Goto(r, "refresh")
    /\ UNCHANGED <<clock, active, used, sessions, snap, changes>>

\* Somebody else claimed, refreshed or disabled the account since the snapshot.
ClaimLost(r) ==
    /\ phase[r] = "claim"
    /\ ~AcquireMayClaim(store[req[r].key], req[r].seen, req[r].stamp)
    /\ Proceed(r, {})
    /\ UNCHANGED <<env, store, active, used, sessions, snap>>

\* Faulty: a request waits for the lease instead of moving on.
ClaimOrWait(r) == ClaimTaken(r)

ClaimLease(r) == ClaimTaken(r) \/ ClaimLost(r)

\* The refresh succeeded.  A claim that lost its record has no token to show for it.
RefreshSucceeds(r) ==
    /\ phase[r] = "refresh"
    /\ LET k == req[r].key
           claim == [seen |-> req[r].seen, lease |-> req[r].lease]
           rec == PersistUnderLease(store[k], claim, req[r].seen + 1, clock)
       IN  \/ /\ rec.token # store[k].token
              /\ store' = [store EXCEPT ![k] = rec]
              /\ active' = k
              /\ used' \in TouchedOrNot(used, k)
              /\ End(r, "done", k, "none")
           \/ /\ rec.token = store[k].token
              /\ Save(k, rec)
              /\ UNCHANGED used
              /\ Proceed(r, {})
    /\ UNCHANGED <<env, sessions, snap>>

RefreshFails(r) ==
    /\ phase[r] = "refresh"
    /\ \E terminal \in BOOLEAN :
          LET k == req[r].key
              claim == [seen |-> req[r].seen, lease |-> req[r].lease]
          IN  /\ Save(k, ReleaseAcquire(store[k], claim, terminal, clock))
              /\ Proceed(r, {IF terminal THEN "invalid_grant" ELSE "failure"})
    /\ UNCHANGED <<env, used, sessions, snap>>

\* An enabled account is waited for until its lease, or else its cooldown, is over.
Waiting(rec, now) == Leased(rec, now) \/ rec.cooldown > now

\* Another unlocked read decides how the failure is reported.
Conclude(r) ==
    /\ phase[r] = "final"
    /\ LET on == Enabled(store)
           saw == req[r].saw
       IN  FailWith(r, CASE on = {} /\ "invalid_grant" \in saw -> "refresh_invalid_grant"
                         [] \E k \in on : Waiting(store[k], clock) -> "all_accounts_cooling_down"
                         [] OTHER ->
                              CASE "invalid_grant" \in saw -> "refresh_invalid_grant"
                                [] saw = {"missing"} \/ saw = {"missing", "failure"} -> "missing_refresh_token"
                                [] saw = {"failure"} -> "refresh_failed"
                                [] saw = {} -> "no_enabled_accounts")
    /\ UNCHANGED <<env, store, active, used, sessions, snap>>

-----------------------------------------------------------------------------
(* Others                                                                  *)

Tick ==
    /\ clock < MaxTime
    /\ clock' = clock + 1
    /\ UNCHANGED <<store, active, used, peers, sessions, phase, snap, req, changes>>

Meddle(what) ==
    /\ what \in Meddling
    /\ changes < MaxChanges
    /\ changes' = changes + 1
    /\ UNCHANGED <<clock, sessions, phase, snap, req>>

\* A flow of another process claims an account ...
PeerClaims(k) ==
    /\ Meddle("lease")
    /\ MayClaim(store[k], clock)
    /\ Save(k, WithLease(store[k], clock + LeaseLength["proactive"]))
    /\ peers' = peers \union {k}
    /\ UNCHANGED used

\* ... and stores the new pair.
PeerRefreshes(k) ==
    /\ Meddle("refresh")
    /\ store[k].present /\ store[k].enabled
    /\ k \in peers \/ MayClaim(store[k], clock)
    /\ Save(k, Stored(store[k], store[k].token + 1, clock, 0))
    /\ peers' = peers \ {k}
    /\ UNCHANGED used

RateLimited(k) ==
    /\ Meddle("limit")
    /\ store[k].present /\ store[k].enabled
    /\ Save(k, [store[k] EXCEPT !.cooldown = clock + FailureCooldown])
    /\ UNCHANGED <<used, peers>>

Toggle(k) ==
    /\ Meddle("toggle")
    /\ store[k].present
    /\ Save(k, [store[k] EXCEPT !.enabled = ~@])
    /\ UNCHANGED <<used, peers>>

Remove(k) ==
    /\ Meddle("remove")
    /\ store[k].present
    /\ Save(k, Absent)
    /\ used' = [used EXCEPT ![k] = 0]
    /\ peers' = peers \ {k}

\* persistOAuthTokensForMode: the account becomes the active one.
Login(k) ==
    /\ Meddle("login")
    /\ store[k].present
    /\ store' = [store EXCEPT ![k] = [present |-> TRUE, enabled |-> TRUE, token |-> store[k].token + 1,
                                      expires |-> clock + TokenLife, cooldown |-> 0, lease |-> 0]]
    /\ active' = k
    /\ used' = Touched(used, k)
    /\ peers' = peers \ {k}

-----------------------------------------------------------------------------
RequestStep(r) ==
    \/ Load(r) \/ Bench(r) \/ Select(r) \/ Touch(r) \/ Park(r) \/ ClaimLease(r)
    \/ RefreshSucceeds(r) \/ RefreshFails(r) \/ Conclude(r)

OtherStep(k) ==
    PeerClaims(k) \/ PeerRefreshes(k) \/ RateLimited(k) \/ Toggle(k) \/ Remove(k) \/ Login(k)

\* A token in hand and no obstacle.
Usable ==
    {k \in Present(store) :
        /\ Eligible(store[k], clock) /\ QuotaReset[k] <= clock
        /\ store[k].token # 0 /\ store[k].expires > clock}

\* The only request of its session under way.
Running(r) == phase[r] \notin {"idle"} \union Ended
Alone(r) == Running(r) /\ \A q \in Requests \ {r} : SessionOf[q] = SessionOf[r] => ~Running(q)

\* The history variables of a step.
Watch ==
    /\ usable' = [r \in Requests |->
          CASE ~Running(r)' -> {}
            [] Running(r)' /\ ~Running(r) -> Usable' \ req'[r].tried
            [] Running(r)' /\ Running(r) -> usable[r] \intersect Usable']
    /\ homed' = [r \in Requests |->
          CASE ~Alone(r)' -> NoKey
            [] Alone(r)' /\ phase[r] = "idle" -> Assigned(sessions, SessionOf[r])
            [] Alone(r)' /\ phase[r] # "idle" -> homed[r]]

Next ==
    /\ \/ Tick
       \/ \E r \in Requests : Begin(r) \/ RequestStep(r)
       \/ \E k \in Keys : OtherStep(k)
    /\ Watch

\* Awaits end: files are read and written, and every HTTP request times out.
Fairness == \A r \in Requests : WF_phase(RequestStep(r))

Spec == Init /\ [][Next]_vars /\ Fairness

-----------------------------------------------------------------------------
(* Properties                                                              *)

StoreTypeOK ==
    /\ clock \in Nat
    /\ store \in [Keys -> Record]
    /\ active \in Keys \union {NoKey}
    /\ used \in [Keys -> 0..Cardinality(Keys)]
    /\ peers \subseteq Keys

SessionsTypeOK == IsState(sessions, {SessionOf[r] : r \in Requests} \ {NoSession})

RequestTypeOK ==
    /\ phase \in [Requests -> Phases]
    /\ req \in [Requests -> Req]
    /\ snap \in [Requests -> Snapshot \union {NoSnap}]
    /\ \A r \in Requests :
          /\ phase[r] \in {"bench", "select"} <=> snap[r] # NoSnap
          /\ phase[r] \in {"touch", "park", "claim", "refresh"} => req[r].key \in Keys

HistoryTypeOK ==
    /\ usable \in [Requests -> SUBSET Keys]
    /\ homed \in [Requests -> Keys \union {NoKey}]

TypeOK == StoreTypeOK /\ SessionsTypeOK /\ RequestTypeOK /\ HistoryTypeOK

Ends(r, ph) == phase[r] # ph /\ phase'[r] = ph

\* A request fails only if no account was usable from its start to its end, those
\* that the routing policy drains apart: whatever the order of attempts, lost
\* claims and failed refreshes, it gets to every account that stays healthy.
FailsOnlyWhenExhausted ==
    [][\A r \in Requests : Ends(r, "failed") => usable[r] \subseteq Drained(Present(store))]_vars

\* A lease of this process is held by a request that is refreshing; one that has
\* ended leaves none behind to bench the account.
NoLeakedLease ==
    \A k \in Keys \ peers :
        Leased(store[k], clock) =>
            \E r \in Requests : phase[r] = "refresh" /\ req[r].key = k /\ req[r].lease = store[k].lease

\* A request of a session that has an account gets that account if it stays
\* usable, drained or not and whatever other sessions and processes do.
SessionKeepsAccount ==
    [][\A r \in Requests :
          Ends(r, "done") /\ homed[r] \in usable[r] => req'[r].key = homed[r]]_vars

\* No session is newly assigned to an account that the routing policy drains.
DrainsOnly ==
    [][\A i \in DOMAIN sessions'.map :
          {sessions'.map[i].key} \in Drain =>
              sessions'.map[i].key = Assigned(sessions, sessions'.map[i].session)]_vars

\* Every request ends, with an account or with a verdict.
Terminates == \A r \in Requests : phase[r] = "load" ~> phase[r] \in Ended
=============================================================================
