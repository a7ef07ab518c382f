------------------------- MODULE AcquireAuthProofs -------------------------
(***************************************************************************)
(* The acquisition loop, for any requests, accounts and changes by others: *)
(* types, the session map included; no session is newly assigned to a      *)
(* drained account; leases are given up; usable accounts are tried; and    *)
(* sessions keep their accounts.                                           *)
(***************************************************************************)
EXTENDS AcquireAuth, RotationProofs

Sessions == {SessionOf[r] : r \in Requests} \ {NoSession}

-----------------------------------------------------------------------------
(* Helpers                                                                 *)

\* No account is the key that stands for none.
LEMMA NoKeyIsNone == NoKey \notin Keys
BY RotationConstants

\* The number of the stored accounts is a number.
LEMMA CountType ==
    ASSUME NEW S \in SUBSET Keys
    PROVE  IsFiniteSet(S) /\ Cardinality(S) \in Nat
BY RotationConstants, FS_Subset, FS_CardinalityType

\* The active account after a normalisation is a stored one, or none.
LEMMA HealthyType ==
    ASSUME NEW accts \in [Keys -> Record], NEW act
    PROVE  Healthy(accts, act) \in Keys \union {NoKey}
<1> DEFINE on == Enabled(accts)
<1>1. on \in SUBSET Keys
  BY DEF Enabled, Present
<1>2. CASE on = {} \/ act \in on
  BY <1>1, <1>2 DEF Healthy
<1>3. CASE on # {} /\ act \notin on
  <2>1. on \in SUBSET Nat /\ IsFiniteSet(on)
    BY <1>1, RotationConstants, CountType
  <2>2. \E k \in on : \A j \in on : k <= j
    <3> HIDE DEF on
    <3> QED
      BY <1>3, <2>1, LeastExists
  <2>3. First(on) \in on
    BY <2>2 DEF First
  <2> QED
    BY <1>1, <1>3, <2>3 DEF Healthy
<1> QED
  BY <1>2, <1>3

\* Ranks of use stay ranks.
LEMMA TouchedType ==
    ASSUME NEW u \in [Keys -> 0..Cardinality(Keys)], NEW k \in Keys
    PROVE  /\ Touched(u, k) \in [Keys -> 0..Cardinality(Keys)]
           /\ TouchedOrNot(u, k) \subseteq [Keys -> 0..Cardinality(Keys)]
<1>1. Cardinality(Keys) \in Nat
  BY CountType
<1>2. ASSUME NEW j \in Keys
      PROVE  (IF j = k THEN Cardinality(Keys) ELSE IF u[j] > u[k] THEN u[j] - 1 ELSE u[j])
                \in 0..Cardinality(Keys)
  BY <1>1
<1>3. Touched(u, k) \in [Keys -> 0..Cardinality(Keys)]
  BY <1>2 DEF Touched
<1> QED
  BY <1>3 DEF TouchedOrNot

\* An assignment is to a stored account, or there is none.
LEMMA AssignedType ==
    ASSUME NEW T, NEW st, IsState(st, T), NEW s
    PROVE  Assigned(st, s) \in Keys \union {NoKey}
<1>1. \A i \in DOMAIN st.map : st.map[i].key \in Keys
  <2> DEFINE E == [session : T, key : Keys]
             m == st.map
  <2>1. m \in Seq(E)
    BY DEF IsState, SessionMap
  <2>2. \A e \in E : e.key \in Keys
    OBVIOUS
  <2> HIDE DEF E, m
  <2>3. \A i \in DOMAIN m : m[i] \in E
    BY <2>1
  <2> QED
    BY <2>2, <2>3 DEF m
<1>2. Position(st, s) # 0 => Position(st, s) \in DOMAIN st.map
  BY DEF Position
<1> QED
  BY <1>1, <1>2 DEF Assigned

\* The saves of a refresh write records.
LEMMA PersistType ==
    ASSUME NEW rec \in Record, NEW c, NEW new \in Nat, NEW now \in Nat, NEW terminal \in BOOLEAN
    PROVE  /\ PersistUnderLease(rec, c, new, now) \in Record
           /\ ReleaseAcquire(rec, c, terminal, now) \in Record
           /\ Stored(rec, new, now, 0) \in Record
<1>1. now + TokenLife \in Nat /\ now + FailureCooldown \in Nat
  BY LeaseConstants
<1>2. Stored(rec, new, now, 0) \in Record
  BY <1>1 DEF Stored, Record
<1>3. DropLease(rec, c) \in Record
  BY DEF DropLease, Record
<1>4. Disabled(rec) \in Record
  BY DEF Disabled, Record
<1>5. CooledDown(rec, now) \in Record
  <2>1. (IF rec.enabled THEN now + FailureCooldown ELSE rec.cooldown) \in Nat
    BY <1>1 DEF Record
  <2> QED
    BY <2>1 DEF CooledDown, Record
<1> QED
  BY <1>2, <1>3, <1>4, <1>5 DEF PersistUnderLease, ReleaseAcquire

-----------------------------------------------------------------------------
(* Moves of a request                                                      *)

\* A move out of the snapshot phases, or into none of them, keeps the locals typed.
LEMMA MoveType ==
    ASSUME RequestTypeOK, NEW r \in Requests, NEW ph \in Phases \ {"bench", "select"},
           NEW q \in Req, ph \in {"touch", "park", "claim", "refresh"} => q.key \in Keys,
           phase' = [phase EXCEPT ![r] = ph],
           req' = [req EXCEPT ![r] = q],
           \/ snap' = [snap EXCEPT ![r] = NoSnap]
           \/ snap' = snap /\ phase[r] \notin {"bench", "select"}
    PROVE  RequestTypeOK'
<1>1. snap' = [snap EXCEPT ![r] = NoSnap]
  BY DEF RequestTypeOK
<1>2. /\ phase' \in [Requests -> Phases]
      /\ req' \in [Requests -> Req]
      /\ snap' \in [Requests -> Snapshot \union {NoSnap}]
  BY <1>1 DEF RequestTypeOK
<1>3. ASSUME NEW p \in Requests
      PROVE  /\ phase'[p] \in {"bench", "select"} <=> snap'[p] # NoSnap
             /\ phase'[p] \in {"touch", "park", "claim", "refresh"} => req'[p].key \in Keys
  BY <1>1 DEF RequestTypeOK
<1> QED
  BY <1>2, <1>3 DEF RequestTypeOK

\* The end of a request.
LEMMA EndType ==
    ASSUME RequestTypeOK, NEW r \in Requests, NEW ph \in Ended, NEW k \in Keys \union {NoKey},
           NEW verdict \in Verdicts, End(r, ph, k, verdict),
           \/ snap' = [snap EXCEPT ![r] = NoSnap]
           \/ snap' = snap /\ phase[r] \notin {"bench", "select"}
    PROVE  RequestTypeOK'
<1> DEFINE q == [NoReq EXCEPT !.tried = req[r].tried \union ({k} \ {NoKey}), !.key = k, !.verdict = verdict]
<1>1. req[r].tried \subseteq Keys
  BY DEF RequestTypeOK, Req
<1>2. q \in Req
  BY <1>1, RotationConstants DEF NoReq, Req
<1>3. ph \in Phases \ {"bench", "select"} /\ ph \notin {"touch", "park", "claim", "refresh"}
  BY DEF Ended, Phases
<1>4. phase' = [phase EXCEPT ![r] = ph] /\ req' = [req EXCEPT ![r] = q]
  BY DEF End, Goto
<1> HIDE DEF q
<1> QED
  BY <1>2, <1>3, <1>4, MoveType

\* The end of an iteration.
LEMMA ProceedType ==
    ASSUME RequestTypeOK, NEW r \in Requests, NEW saw \in SUBSET {"invalid_grant", "failure", "missing"},
           Proceed(r, saw), snap' = snap, phase[r] \notin {"bench", "select"}
    PROVE  RequestTypeOK'
<1> DEFINE q == [NoReq EXCEPT !.tried = req[r].tried, !.saw = req[r].saw \union saw]
           ph == IF Cardinality(req[r].tried) >= req[r].total THEN "final" ELSE "load"
<1>1. /\ req[r].tried \subseteq Keys
      /\ req[r].saw \subseteq {"invalid_grant", "failure", "missing"}
  BY DEF RequestTypeOK, Req
<1>2. q \in Req
  BY <1>1 DEF NoReq, Req, Verdicts
<1>3. ph \in Phases \ {"bench", "select"} /\ ph \notin {"touch", "park", "claim", "refresh"}
  BY DEF Phases
<1>4. phase' = [phase EXCEPT ![r] = ph] /\ req' = [req EXCEPT ![r] = q]
  BY DEF Proceed, Goto
<1> HIDE DEF q, ph
<1> QED
  BY <1>2, <1>3, <1>4, MoveType

-----------------------------------------------------------------------------
(* Every action keeps the types                                            *)

Typed == StoreTypeOK /\ SessionsTypeOK /\ RequestTypeOK

\* The start of a request.
LEMMA BeginTyped ==
    ASSUME Typed, NEW r \in Requests, Begin(r)
    PROVE  Typed'
<1>1. PICK avoid \in {{}} \union {{k} : k \in Present(store)} : req' = [req EXCEPT ![r].tried = avoid]
  BY DEF Begin
<1> DEFINE q == [req[r] EXCEPT !.tried = avoid]
<1>2. avoid \subseteq Keys
  BY DEF Present
<1>3. q \in Req
  BY <1>2 DEF Typed, RequestTypeOK, Req
<1>4. /\ phase' = [phase EXCEPT ![r] = "load"] /\ req' = [req EXCEPT ![r] = q]
      /\ snap' = snap /\ phase[r] \notin {"bench", "select"}
  BY <1>1 DEF Begin, Goto
<1>5. "load" \in Phases \ {"bench", "select"}
  BY DEF Phases
<1> HIDE DEF q
<1>6. RequestTypeOK'
  BY <1>3, <1>4, <1>5, MoveType DEF Typed
<1> QED
  BY <1>6 DEF Typed, Begin, env, StoreTypeOK, SessionsTypeOK

\* Cooldowns of exhausted quotas are times.
LEMMA BenchedType ==
    ASSUME NEW accts \in [Keys -> Record], NEW K
    PROVE  Benched(accts, K) \in [Keys -> Record]
<1>1. ASSUME NEW k \in Keys PROVE [accts[k] EXCEPT !.cooldown = QuotaReset[k]] \in Record
  BY AcquireConstants DEF Record
<1> QED
  BY <1>1 DEF Benched

\* The snapshot of an iteration.
LEMMA LoadTyped ==
    ASSUME Typed, NEW r \in Requests, Load(r)
    PROVE  Typed'
<1> DEFINE spent == Exhausted(store, clock)
           new == [accts |-> Benched(store, spent), spent |-> spent, active |-> active, used |-> used]
           ph == IF spent = {} THEN "select" ELSE "bench"
           q == [req[r] EXCEPT !.total = Cardinality(Present(store)), !.stamp = clock]
<1>1. StoreTypeOK' /\ SessionsTypeOK'
  BY DEF Typed, Load, env, StoreTypeOK, SessionsTypeOK
<1>2. CASE Present(store) = {}
  <2>1. End(r, "failed", NoKey, "no_accounts_configured") /\ snap' = snap /\ phase[r] = "load"
    BY <1>2 DEF Load, FailWith
  <2>2. RequestTypeOK'
    BY <2>1, EndType DEF Typed, Ended, Verdicts
  <2> QED
    BY <1>1, <2>2 DEF Typed
<1>3. CASE Present(store) # {}
  <2>1. /\ snap' = [snap EXCEPT ![r] = new]
        /\ req' = [req EXCEPT ![r] = q]
        /\ phase' = [phase EXCEPT ![r] = ph]
    BY <1>3 DEF Load, Goto, Typed, RequestTypeOK
  <2>2. new \in Snapshot
    <3>1. Benched(store, spent) \in [Keys -> Record]
      BY BenchedType DEF Typed, StoreTypeOK
    <3>2. spent \in SUBSET Keys
      BY DEF Exhausted, Present
    <3> HIDE DEF spent
    <3> QED
      BY <3>1, <3>2 DEF Snapshot, Typed, StoreTypeOK
  <2>3. q \in Req
    <3>1. Cardinality(Present(store)) \in Nat
      BY CountType DEF Present
    <3> QED
      BY <3>1 DEF Req, Typed, RequestTypeOK, StoreTypeOK
  <2>4. ph \in {"bench", "select"} /\ ph \in Phases
    BY DEF Phases
  <2> HIDE DEF new, q, ph
  <2>5. /\ phase' \in [Requests -> Phases]
        /\ req' \in [Requests -> Req]
        /\ snap' \in [Requests -> Snapshot \union {NoSnap}]
    BY <2>1, <2>2, <2>3, <2>4 DEF Typed, RequestTypeOK
  <2>6. ASSUME NEW p \in Requests
        PROVE  /\ phase'[p] \in {"bench", "select"} <=> snap'[p] # NoSnap
               /\ phase'[p] \in {"touch", "park", "claim", "refresh"} => req'[p].key \in Keys
    BY <2>1, <2>2, <2>4, AcquireConstants DEF Typed, RequestTypeOK
  <2>7. RequestTypeOK'
    BY <2>5, <2>6 DEF RequestTypeOK
  <2> QED
    BY <1>1, <2>7 DEF Typed
<1> QED
  BY <1>2, <1>3

\* The save of the quota cooldowns.
LEMMA BenchTyped ==
    ASSUME Typed, NEW r \in Requests, Bench(r)
    PROVE  Typed'
<1> DEFINE K == {k \in snap[r].spent \intersect Enabled(store) : store[k].cooldown < QuotaReset[k]}
<1>1. store' = Benched(store, K)
  BY DEF Bench
<1> HIDE DEF K
<1>2. store' \in [Keys -> Record]
  BY <1>1, BenchedType DEF Typed, StoreTypeOK
<1>3. phase' = [phase EXCEPT ![r] = "select"] /\ phase[r] = "bench" /\ req' = req /\ snap' = snap
  BY DEF Bench, Goto
<1>4. ASSUME NEW p \in Requests
      PROVE  /\ phase'[p] \in {"bench", "select"} <=> snap'[p] # NoSnap
             /\ phase'[p] \in {"touch", "park", "claim", "refresh"} => req'[p].key \in Keys
  BY <1>3 DEF Typed, RequestTypeOK
<1>5. RequestTypeOK'
  BY <1>3, <1>4 DEF Typed, RequestTypeOK, Phases
<1>6. StoreTypeOK' /\ SessionsTypeOK'
  BY <1>2 DEF Bench, env, Typed, StoreTypeOK, SessionsTypeOK
<1> QED
  BY <1>5, <1>6 DEF Typed

\* What a request selects from its snapshot.
OfferedTo(r) == Present(snap[r].accts) \ req[r].tried
EligibleTo(r) == {k \in OfferedTo(r) : Eligible(snap[r].accts[k], req[r].stamp)}
PickOf(r) == SelectAccount(OfferedTo(r), EligibleTo(r), snap[r].active, snap[r].used, SessionOf[r], sessions)

\* A selection offers stored accounts, picks one of them or none, and leaves a
\* session map in which only undrained accounts are newly assigned.
LEMMA SelectionType ==
    ASSUME Typed, NEW r \in Requests, phase[r] = "select"
    PROVE  /\ OfferedTo(r) \in SUBSET Keys
           /\ PickOf(r).key \in Keys \union {NoKey}
           /\ IsState(PickOf(r).sessions, Sessions)
           /\ \A i \in DOMAIN PickOf(r).sessions.map :
                 LET e == PickOf(r).sessions.map[i]
                 IN  \/ e.key = Assigned(sessions, e.session)
                     \/ e.key \in OfferedTo(r) \ Drained(OfferedTo(r))
<1> DEFINE accts == OfferedTo(r)
           ok == EligibleTo(r)
           s == SessionOf[r]
           act == snap[r].active
           u == snap[r].used
           pick == PickOf(r)
           key == pick.key
<1>1. snap[r] \in Snapshot
  BY DEF Typed, RequestTypeOK
<1>2. u \in [Keys -> Nat]
  <2>1. Cardinality(Keys) \in Nat
    BY CountType
  <2>2. \A n \in 0..Cardinality(Keys) : n \in Nat
    BY <2>1
  <2> QED
    BY <1>1, <2>2 DEF Snapshot
<1>3. accts \in SUBSET Keys /\ ok \in SUBSET accts
  BY DEF OfferedTo, EligibleTo, Present
<1>4. IsState(sessions, Sessions)
  BY DEF Typed, SessionsTypeOK, Sessions
<1>5. InSession(s) => s \in Sessions
  BY DEF InSession, Sessions
<1>6. pick = SelectAccount(accts, ok, act, u, s, sessions)
  BY DEF PickOf
<1>7. key = SelectAccount(accts, ok, act, u, s, sessions).key
  BY <1>6
<1> HIDE DEF accts, ok, s, act, u, pick, key
<1>8. key # NoKey => key \in ok
  BY <1>2, <1>3, <1>4, <1>7, ServesEligible
<1>9. /\ IsState(pick.sessions, Sessions)
      /\ \A i \in DOMAIN pick.sessions.map :
            LET e == pick.sessions.map[i]
            IN  \/ e.key = Assigned(sessions, e.session)
                \/ e.key = pick.key /\ pick.key \in ok \ Drained(accts)
  BY <1>2, <1>3, <1>4, <1>5, <1>6, AssignsUndrained
<1> QED
  BY <1>3, <1>8, <1>9 DEF accts, pick, key

\* An account is picked unless the drained ones are all that is eligible; a session's
\* own account comes before any other.
LEMMA PickIsDecided ==
    ASSUME Typed, NEW r \in Requests, phase[r] = "select"
    PROVE  /\ PickOf(r).key # NoKey => PickOf(r).key \in EligibleTo(r)
           /\ PickOf(r).key = NoKey => EligibleTo(r) \subseteq Drained(OfferedTo(r))
           /\ Home(sessions, SessionOf[r]) \in EligibleTo(r) =>
                 PickOf(r).key = Home(sessions, SessionOf[r])
<1> DEFINE accts == OfferedTo(r)
           ok == EligibleTo(r)
           s == SessionOf[r]
           act == snap[r].active
           u == snap[r].used
           key == PickOf(r).key
<1>1. u \in [Keys -> Nat]
  <2>1. Cardinality(Keys) \in Nat
    BY CountType
  <2>2. \A n \in 0..Cardinality(Keys) : n \in Nat
    BY <2>1
  <2> QED
    BY <2>2 DEF Typed, RequestTypeOK, Snapshot
<1>2. accts \in SUBSET Keys /\ ok \in SUBSET accts
  BY DEF OfferedTo, EligibleTo, Present
<1>3. IsState(sessions, Sessions)
  BY DEF Typed, SessionsTypeOK, Sessions
<1>4. key = SelectAccount(accts, ok, act, u, s, sessions).key
  BY DEF PickOf
<1> HIDE DEF accts, ok, s, act, u, key
<1>5. /\ key # NoKey <=> Home(sessions, s) \in ok \/ ok \ Drained(accts) # {}
      /\ key # NoKey => key \in ok
      /\ Home(sessions, s) \in ok => key = Home(sessions, s)
  BY <1>1, <1>2, <1>3, <1>4, ServesEligible
<1> QED
  BY <1>5 DEF accts, ok, s, key

\* The account tried next.
LEMMA TryTyped ==
    ASSUME RequestTypeOK, NEW r \in Requests, NEW k \in Keys, NEW rec \in Record, Try(r, k, rec),
           snap' = [snap EXCEPT ![r] = NoSnap]
    PROVE  RequestTypeOK'
<1> DEFINE q1 == [req[r] EXCEPT !.tried = @ \union {k}, !.key = k]
           q2 == [req[r] EXCEPT !.tried = @ \union {k}, !.key = k, !.seen = rec.token]
           ph2 == IF rec.token = 0 THEN "park" ELSE "claim"
<1>1. req[r] \in Req /\ rec.token \in Nat
  BY DEF RequestTypeOK, Record
<1>2. q1 \in Req /\ q1.key = k /\ q2 \in Req /\ q2.key = k
  BY <1>1 DEF Req
<1>3. \/ End(r, "done", k, "none")
      \/ req' = [req EXCEPT ![r] = q1] /\ phase' = [phase EXCEPT ![r] = "touch"]
      \/ req' = [req EXCEPT ![r] = q2] /\ phase' = [phase EXCEPT ![r] = ph2]
  BY DEF Try, Goto, RequestTypeOK
<1>4. "touch" \in Phases \ {"bench", "select"} /\ ph2 \in Phases \ {"bench", "select"}
  BY DEF Phases
<1> HIDE DEF q1, q2, ph2
<1>5. CASE End(r, "done", k, "none")
  <2>1. "done" \in Ended /\ "none" \in Verdicts
    BY DEF Ended, Verdicts
  <2> QED
    BY <1>5, <2>1, EndType
<1>6. CASE req' = [req EXCEPT ![r] = q1] /\ phase' = [phase EXCEPT ![r] = "touch"]
  BY <1>2, <1>4, <1>6, MoveType
<1>7. CASE req' = [req EXCEPT ![r] = q2] /\ phase' = [phase EXCEPT ![r] = ph2]
  BY <1>2, <1>4, <1>7, MoveType
<1> QED
  BY <1>3, <1>5, <1>6, <1>7

\* The selection.
LEMMA SelectTyped ==
    ASSUME Typed, NEW r \in Requests, Select(r)
    PROVE  Typed'
<1>1. /\ phase[r] = "select" /\ snap' = [snap EXCEPT ![r] = NoSnap]
      /\ StoreTypeOK'
  BY DEF Select, env, Typed, StoreTypeOK
<1>2. \/ FailWith(r, "no_enabled_accounts") /\ sessions' = sessions
      \/ /\ sessions' = PickOf(r).sessions
         /\ \/ /\ phase' = [phase EXCEPT ![r] = "final"]
               /\ req' = [req EXCEPT ![r] = [req[r] EXCEPT !.total = 0, !.stamp = 0]]
            \/ PickOf(r).key # NoKey /\ Try(r, PickOf(r).key, snap[r].accts[PickOf(r).key])
  BY DEF Select, PickOf, OfferedTo, EligibleTo, Goto, Typed, RequestTypeOK
<1>3. CASE FailWith(r, "no_enabled_accounts") /\ sessions' = sessions
  <2>1. End(r, "failed", NoKey, "no_enabled_accounts")
    BY <1>3 DEF FailWith
  <2>2. "failed" \in Ended /\ "no_enabled_accounts" \in Verdicts
    BY DEF Ended, Verdicts
  <2>3. RequestTypeOK'
    BY <1>1, <2>1, <2>2, EndType DEF Typed
  <2> QED
    BY <1>1, <1>3, <2>3 DEF Typed, SessionsTypeOK
<1>4. CASE sessions' = PickOf(r).sessions
  <2>1. SessionsTypeOK'
    BY <1>1, <1>4, SelectionType DEF SessionsTypeOK, Sessions
  <2>2. CASE /\ phase' = [phase EXCEPT ![r] = "final"]
             /\ req' = [req EXCEPT ![r] = [req[r] EXCEPT !.total = 0, !.stamp = 0]]
    <3>1. [req[r] EXCEPT !.total = 0, !.stamp = 0] \in Req
      BY DEF Typed, RequestTypeOK, Req
    <3>2. "final" \in Phases \ {"bench", "select"}
      BY DEF Phases
    <3>3. RequestTypeOK'
      BY <1>1, <2>2, <3>1, <3>2, MoveType DEF Typed
    <3> QED
      BY <1>1, <2>1, <3>3 DEF Typed
  <2>3. CASE PickOf(r).key # NoKey /\ Try(r, PickOf(r).key, snap[r].accts[PickOf(r).key])
    <3>1. PickOf(r).key \in Keys
      BY <1>1, <2>3, SelectionType
    <3>2. snap[r].accts[PickOf(r).key] \in Record
      BY <1>1, <3>1 DEF Typed, RequestTypeOK, Snapshot
    <3>3. RequestTypeOK'
      BY <1>1, <2>3, <3>1, <3>2, TryTyped DEF Typed
    <3> QED
      BY <1>1, <2>1, <3>3 DEF Typed
  <2>4. CASE FailWith(r, "no_enabled_accounts") /\ sessions' = sessions
    BY <1>3, <2>4
  <2> QED
    BY <1>2, <2>2, <2>3, <2>4
<1> QED
  BY <1>2, <1>3, <1>4

\* The save behind a fresh token.
LEMMA TouchTyped ==
    ASSUME Typed, NEW r \in Requests, Touch(r)
    PROVE  Typed'
<1> DEFINE k == req[r].key
<1>1. /\ phase[r] = "touch" /\ snap' = snap /\ k \in Keys /\ End(r, "done", k, "none")
      /\ SessionsTypeOK'
  BY DEF Touch, Typed, RequestTypeOK, SessionsTypeOK
<1>2. "done" \in Ended /\ "none" \in Verdicts
  BY DEF Ended, Verdicts
<1>3. RequestTypeOK'
  <2> HIDE DEF k
  <2> QED
    BY <1>1, <1>2, EndType DEF Typed
<1>4. /\ used' = used \/ used' \in TouchedOrNot(used, k)
      /\ active' = active \/ active' = k
      /\ clock' = clock /\ store' = store /\ peers' = peers
  BY DEF Touch, env
<1>5. StoreTypeOK'
  <2> HIDE DEF k
  <2>1. TouchedOrNot(used, k) \subseteq [Keys -> 0..Cardinality(Keys)]
    BY <1>1, TouchedType DEF Typed, StoreTypeOK
  <2> QED
    BY <1>1, <1>4, <2>1 DEF Typed, StoreTypeOK
<1> QED
  BY <1>1, <1>3, <1>5 DEF Typed

\* The cooldown of an account without tokens.
LEMMA ParkTyped ==
    ASSUME Typed, NEW r \in Requests, Park(r)
    PROVE  Typed'
<1> DEFINE k == req[r].key
           until == req[r].stamp + FailureCooldown
<1>1. /\ phase[r] = "park" /\ snap' = snap /\ k \in Keys /\ until \in Nat
      /\ Proceed(r, {"missing"})
  BY LeaseConstants DEF Park, Typed, RequestTypeOK, Req
<1>2. RequestTypeOK'
  BY <1>1, ProceedType DEF Typed
<1>3. \/ store' = store
      \/ store' = [store EXCEPT ![k] = [store[k] EXCEPT !.cooldown = until]]
  BY DEF Park
<1> HIDE DEF until, k
<1>4. store' \in [Keys -> Record]
  <2>1. [store[k] EXCEPT !.cooldown = until] \in Record
    BY <1>1 DEF Typed, StoreTypeOK, Record
  <2> QED
    BY <1>1, <1>3, <2>1 DEF Typed, StoreTypeOK
<1>5. StoreTypeOK' /\ SessionsTypeOK'
  BY <1>4 DEF Park, env, Typed, StoreTypeOK, SessionsTypeOK
<1> QED
  BY <1>2, <1>5 DEF Typed

\* The claim.
LEMMA ClaimTyped ==
    ASSUME Typed, NEW r \in Requests, ClaimLease(r)
    PROVE  Typed'
<1>1. CASE ClaimTaken(r)
  <2> DEFINE k == req[r].key
             until == req[r].stamp + LeaseLength["acquire"]
             q == [req[r] EXCEPT !.lease = until]
  <2>1. k \in Keys /\ until \in Nat
    BY <1>1, LeaseConstants DEF ClaimTaken, Typed, RequestTypeOK, Req, Kinds
  <2>2. q \in Req /\ q.key = k
    BY <2>1 DEF Typed, RequestTypeOK, Req
  <2>3. WithLease(store[k], until) \in Record
    BY <2>1 DEF WithLease, Record, Typed, StoreTypeOK
  <2>4. /\ store' = [store EXCEPT ![k] = WithLease(@, until)]
        /\ req' = [req EXCEPT ![r] = q]
        /\ phase' = [phase EXCEPT ![r] = "refresh"]
        /\ phase[r] = "claim" /\ snap' = snap
        /\ peers' = peers \ {k}
    BY <1>1 DEF ClaimTaken, Goto, Typed, RequestTypeOK
  <2>5. "refresh" \in Phases \ {"bench", "select"}
    BY DEF Phases
  <2> HIDE DEF k, until, q
  <2>6. RequestTypeOK'
    BY <2>1, <2>2, <2>4, <2>5, MoveType DEF Typed
  <2>7. StoreTypeOK' /\ SessionsTypeOK'
    <3>1. store' \in [Keys -> Record]
      BY <2>1, <2>3, <2>4 DEF Typed, StoreTypeOK
    <3>2. peers' \subseteq Keys
      BY <2>4 DEF Typed, StoreTypeOK
    <3> QED
      BY <1>1, <3>1, <3>2 DEF ClaimTaken, Typed, StoreTypeOK, SessionsTypeOK
  <2> QED
    BY <2>6, <2>7 DEF Typed
<1>2. CASE ClaimLost(r)
  <2>1. RequestTypeOK'
    BY <1>2, ProceedType DEF ClaimLost, Typed
  <2> QED
    BY <1>2, <2>1 DEF ClaimLost, env, Typed, StoreTypeOK, SessionsTypeOK
<1> QED
  BY <1>1, <1>2 DEF ClaimLease

\* The answer of the OAuth server.
LEMMA SucceedTyped ==
    ASSUME Typed, NEW r \in Requests, RefreshSucceeds(r)
    PROVE  Typed'
<1> DEFINE k == req[r].key
           claim == [seen |-> req[r].seen, lease |-> req[r].lease]
           rec == PersistUnderLease(store[k], claim, req[r].seen + 1, clock)
<1>1. /\ phase[r] = "refresh" /\ snap' = snap /\ k \in Keys /\ req[r].seen + 1 \in Nat
      /\ SessionsTypeOK'
  BY DEF RefreshSucceeds, Typed, RequestTypeOK, Req, SessionsTypeOK
<1>2. rec \in Record
  BY <1>1, PersistType DEF Typed, StoreTypeOK
<1>3. /\ clock' = clock /\ peers' = peers
      /\ \/ /\ store' = [store EXCEPT ![k] = rec] /\ active' = k
            /\ used' \in TouchedOrNot(used, k) /\ End(r, "done", k, "none")
         \/ /\ Save(k, rec) /\ used' = used /\ Proceed(r, {})
  BY DEF RefreshSucceeds, env
<1> HIDE DEF rec, claim, k
<1>4. [store EXCEPT ![k] = rec] \in [Keys -> Record]
  BY <1>1, <1>2 DEF Typed, StoreTypeOK
<1>5. CASE /\ store' = [store EXCEPT ![k] = rec] /\ active' = k
           /\ used' \in TouchedOrNot(used, k) /\ End(r, "done", k, "none")
  <2>1. "done" \in Ended /\ "none" \in Verdicts
    BY DEF Ended, Verdicts
  <2>2. RequestTypeOK'
    BY <1>1, <1>5, <2>1, EndType DEF Typed
  <2>3. TouchedOrNot(used, k) \subseteq [Keys -> 0..Cardinality(Keys)]
    BY <1>1, TouchedType DEF Typed, StoreTypeOK
  <2>4. StoreTypeOK'
    BY <1>1, <1>3, <1>4, <1>5, <2>3 DEF Typed, StoreTypeOK
  <2> QED
    BY <1>1, <2>2, <2>4 DEF Typed
<1>6. CASE Save(k, rec) /\ used' = used /\ Proceed(r, {})
  <2>1. RequestTypeOK'
    BY <1>1, <1>6, ProceedType DEF Typed
  <2>2. store' \in [Keys -> Record] /\ active' \in Keys \union {NoKey}
    BY <1>4, <1>6, HealthyType DEF Save
  <2>3. StoreTypeOK'
    BY <1>3, <1>6, <2>2 DEF Typed, StoreTypeOK
  <2> QED
    BY <1>1, <2>1, <2>3 DEF Typed
<1> QED
  BY <1>3, <1>5, <1>6

\* A refresh that failed.
LEMMA FailTyped ==
    ASSUME Typed, NEW r \in Requests, RefreshFails(r)
    PROVE  Typed'
<1> DEFINE k == req[r].key
           claim == [seen |-> req[r].seen, lease |-> req[r].lease]
<1>1. PICK terminal \in BOOLEAN :
         /\ Save(k, ReleaseAcquire(store[k], claim, terminal, clock))
         /\ Proceed(r, {IF terminal THEN "invalid_grant" ELSE "failure"})
  BY DEF RefreshFails
<1> DEFINE rec == ReleaseAcquire(store[k], claim, terminal, clock)
<1>2. phase[r] = "refresh" /\ snap' = snap /\ k \in Keys
  BY DEF RefreshFails, Typed, RequestTypeOK
<1>3. rec \in Record
  BY <1>2, PersistType DEF Typed, StoreTypeOK
<1>4. Save(k, rec)
  BY <1>1
<1> HIDE DEF rec, claim, k
<1>5. store' \in [Keys -> Record] /\ active' \in Keys \union {NoKey}
  <2>1. store' \in [Keys -> Record]
    BY <1>2, <1>3, <1>4 DEF Save, Typed, StoreTypeOK
  <2> QED
    BY <1>4, <2>1, HealthyType DEF Save
<1>6. RequestTypeOK'
  BY <1>1, <1>2, ProceedType DEF Typed
<1>7. StoreTypeOK' /\ SessionsTypeOK'
  BY <1>5 DEF RefreshFails, env, Typed, StoreTypeOK, SessionsTypeOK
<1> QED
  BY <1>6, <1>7 DEF Typed

\* The verdict.
LEMMA ConcludeTyped ==
    ASSUME Typed, NEW r \in Requests, Conclude(r)
    PROVE  Typed'
<1>1. req[r].saw \in SUBSET {"invalid_grant", "failure", "missing"}
  BY DEF Typed, RequestTypeOK, Req
<1>2. \E verdict \in Verdicts : End(r, "failed", NoKey, verdict)
  BY <1>1 DEF Conclude, FailWith, Verdicts
<1>3. phase[r] = "final" /\ snap' = snap /\ "failed" \in Ended
  BY DEF Conclude, Ended
<1>4. RequestTypeOK'
  BY <1>2, <1>3, EndType DEF Typed
<1> QED
  BY <1>4 DEF Conclude, env, Typed, StoreTypeOK, SessionsTypeOK

\* What others do to a record.
LEMMA OtherTyped ==
    ASSUME Typed, NEW k \in Keys, OtherStep(k)
    PROVE  Typed'
<1>1. /\ clock \in Nat /\ store \in [Keys -> Record] /\ store[k] \in Record
      /\ used \in [Keys -> 0..Cardinality(Keys)] /\ peers \subseteq Keys
  BY DEF Typed, StoreTypeOK
<1>2. RequestTypeOK' /\ SessionsTypeOK' /\ clock' = clock
  BY DEF OtherStep, PeerClaims, PeerRefreshes, RateLimited, Toggle, Remove, Login, Meddle,
         Typed, RequestTypeOK, SessionsTypeOK
<1>3. ASSUME NEW rec \in Record, Save(k, rec), used' = used, peers' \subseteq Keys
      PROVE  StoreTypeOK'
  <2>1. store' \in [Keys -> Record]
    BY <1>1, <1>3 DEF Save
  <2>2. active' \in Keys \union {NoKey}
    BY <1>3, <2>1, HealthyType DEF Save
  <2> QED
    BY <1>1, <1>2, <1>3, <2>1, <2>2 DEF StoreTypeOK
<1>4. CASE PeerClaims(k)
  <2>1. WithLease(store[k], clock + LeaseLength["proactive"]) \in Record
    BY <1>1, LeaseConstants DEF WithLease, Record, Kinds
  <2>2. StoreTypeOK'
    BY <1>1, <1>3, <1>4, <2>1 DEF PeerClaims
  <2> QED
    BY <1>2, <2>2 DEF Typed
<1>5. CASE PeerRefreshes(k)
  <2>1. store[k].token + 1 \in Nat
    BY <1>1 DEF Record
  <2>2. Stored(store[k], store[k].token + 1, clock, 0) \in Record
    BY <1>1, <2>1, PersistType
  <2>3. StoreTypeOK'
    BY <1>1, <1>3, <1>5, <2>2 DEF PeerRefreshes
  <2> QED
    BY <1>2, <2>3 DEF Typed
<1>6. CASE RateLimited(k)
  <2>1. [store[k] EXCEPT !.cooldown = clock + FailureCooldown] \in Record
    BY <1>1, LeaseConstants DEF Record
  <2>2. StoreTypeOK'
    BY <1>1, <1>3, <1>6, <2>1 DEF RateLimited
  <2> QED
    BY <1>2, <2>2 DEF Typed
<1>7. CASE Toggle(k)
  <2>1. [store[k] EXCEPT !.enabled = ~@] \in Record
    <3>1. (~store[k].enabled) \in BOOLEAN
      OBVIOUS
    <3> QED
      BY <1>1, <3>1 DEF Record
  <2>2. StoreTypeOK'
    BY <1>1, <1>3, <1>7, <2>1 DEF Toggle
  <2> QED
    BY <1>2, <2>2 DEF Typed
<1>8. CASE Remove(k)
  <2>1. Absent \in Record
    BY DEF Absent, Record
  <2>2. /\ store' \in [Keys -> Record] /\ active' \in Keys \union {NoKey}
        /\ used' \in [Keys -> 0..Cardinality(Keys)] /\ peers' \subseteq Keys
    <3>1. store' \in [Keys -> Record] /\ peers' \subseteq Keys
      BY <1>1, <1>8, <2>1 DEF Remove, Save
    <3>2. active' \in Keys \union {NoKey}
      BY <1>8, <3>1, HealthyType DEF Remove, Save
    <3>3. 0 \in 0..Cardinality(Keys)
      BY CountType
    <3>4. used' = [used EXCEPT ![k] = 0]
      BY <1>8 DEF Remove
    <3>5. used' \in [Keys -> 0..Cardinality(Keys)]
      BY <1>1, <3>3, <3>4
    <3> QED
      BY <3>1, <3>2, <3>5
  <2> QED
    BY <1>1, <1>2, <2>2 DEF Typed, StoreTypeOK
<1>9. CASE Login(k)
  <2> DEFINE rec == [present |-> TRUE, enabled |-> TRUE, token |-> store[k].token + 1,
                     expires |-> clock + TokenLife, cooldown |-> 0, lease |-> 0]
  <2>1. rec \in Record
    BY <1>1, LeaseConstants DEF Record
  <2>2. /\ store' = [store EXCEPT ![k] = rec] /\ active' = k
        /\ used' = Touched(used, k) /\ peers' = peers \ {k}
    BY <1>9 DEF Login
  <2> HIDE DEF rec
  <2>3. store' \in [Keys -> Record]
    BY <1>1, <2>1, <2>2
  <2>4. used' \in [Keys -> 0..Cardinality(Keys)]
    BY <1>1, <2>2, TouchedType
  <2> QED
    BY <1>1, <1>2, <2>2, <2>3, <2>4 DEF Typed, StoreTypeOK
<1> QED
  BY <1>4, <1>5, <1>6, <1>7, <1>8, <1>9 DEF OtherStep

\* The history variables.
LEMMA WatchTyped ==
    ASSUME SessionsTypeOK, SessionsTypeOK', HistoryTypeOK, Watch
    PROVE  HistoryTypeOK'
<1>1. Usable' \subseteq Keys
  BY DEF Usable, Present
<1>2. usable' \in [Requests -> SUBSET Keys]
  <2>1. \A r \in Requests : usable'[r] \in SUBSET Keys
    BY <1>1 DEF Watch, HistoryTypeOK
  <2> QED
    BY <2>1 DEF Watch
<1>3. homed' \in [Requests -> Keys \union {NoKey}]
  <2>1. \A r \in Requests : Assigned(sessions, SessionOf[r]) \in Keys \union {NoKey}
    BY AssignedType DEF SessionsTypeOK
  <2>2. \A r \in Requests : homed'[r] \in Keys \union {NoKey}
    BY <2>1 DEF Watch, HistoryTypeOK
  <2> QED
    BY <2>2 DEF Watch
<1> QED
  BY <1>2, <1>3 DEF HistoryTypeOK

\* A step keeps the types.
LEMMA StepTyped ==
    ASSUME TypeOK, Next
    PROVE  TypeOK'
<1>1. Typed
  BY DEF TypeOK, Typed
<1>2. ASSUME NEW r \in Requests, Begin(r) \/ RequestStep(r)
      PROVE  Typed'
  BY <1>1, <1>2, BeginTyped, LoadTyped, BenchTyped, SelectTyped, TouchTyped, ParkTyped, ClaimTyped,
     SucceedTyped, FailTyped, ConcludeTyped DEF RequestStep
<1>3. ASSUME NEW k \in Keys, OtherStep(k)
      PROVE  Typed'
  BY <1>1, <1>3, OtherTyped
<1>4. Typed'
  <2>1. CASE Tick
    <3>1. StoreTypeOK'
      BY <1>1, <2>1 DEF Tick, Typed, StoreTypeOK
    <3> QED
      BY <1>1, <2>1, <3>1 DEF Tick, Typed, SessionsTypeOK, RequestTypeOK
  <2> QED
    BY <1>2, <1>3, <2>1 DEF Next
<1>5. HistoryTypeOK'
  BY <1>4, WatchTyped DEF TypeOK, Typed, Next
<1> QED
  BY <1>4, <1>5 DEF TypeOK, Typed

\* The initial states, with any restored session map, are well typed.
LEMMA InitTyped ==
    ASSUME Init
    PROVE  TypeOK
<1>1. IsState(NoSessions, Sessions)
  BY RotationConstants DEF NoSessions, IsState, SessionMap
<1>2. ASSUME NEW s \in Sessions, NEW k \in Keys
      PROVE  IsState(Assign(NoSessions, s, k), Sessions)
  <2>1. \A i \in DOMAIN NoSessions.map : NoSessions.map[i].session # s
    BY DEF NoSessions
  <2> QED
    BY <1>1, <2>1, AssignEffect
<1>3. SessionsTypeOK
  BY <1>1, <1>2 DEF Init, Restored, SessionsTypeOK, Sessions
<1>4. StoreTypeOK
  <2>1. store \in [Keys -> Record]
    BY AcquireConstants DEF Init
  <2>2. active \in Keys \union {NoKey}
    BY <2>1, HealthyType DEF Init
  <2>3. 0 \in 0..Cardinality(Keys)
    BY CountType
  <2> QED
    BY <2>1, <2>2, <2>3 DEF Init, StoreTypeOK
<1>5. RequestTypeOK
  <2>1. NoReq \in Req
    BY DEF NoReq, Req, Verdicts
  <2> QED
    BY <2>1 DEF Init, RequestTypeOK, Phases
<1>6. HistoryTypeOK
  BY DEF Init, HistoryTypeOK
<1> QED
  BY <1>3, <1>4, <1>5, <1>6 DEF TypeOK

-----------------------------------------------------------------------------
(* Results                                                                 *)

\* Every state of the acquisition loop is well typed: the session map stays a map
\* within its limit, a request in flight has a stored account, and the snapshot
\* lives exactly as long as the selection needs it.
THEOREM TypeCorrect == Spec => []TypeOK
<1>1. Init => TypeOK
  BY InitTyped
<1>2. TypeOK /\ [Next]_vars => TypeOK'
  <2> SUFFICES ASSUME TypeOK, [Next]_vars PROVE TypeOK'
    OBVIOUS
  <2>1. CASE Next
    BY <2>1, StepTyped
  <2>2. CASE UNCHANGED vars
    BY <2>2 DEF vars, TypeOK, StoreTypeOK, SessionsTypeOK, RequestTypeOK, HistoryTypeOK
  <2> QED
    BY <2>1, <2>2
<1> QED
  BY <1>1, <1>2, PTL DEF Spec

\* Only a selection changes the session map.
LEMMA OnlySelectAssigns ==
    ASSUME Next, \A r \in Requests : ~Select(r)
    PROVE  sessions' = sessions
BY DEF Next, RequestStep, OtherStep, Tick, Begin, Load, Bench, Touch, Park, ClaimLease, ClaimTaken,
       ClaimLost, RefreshSucceeds, RefreshFails, Conclude, PeerClaims, PeerRefreshes, RateLimited,
       Toggle, Remove, Login, Meddle

\* An account matched alone by a drain selector is drained wherever it is offered.
LEMMA DrainSelectorCounts ==
    ASSUME NEW accts, NEW k \in accts, {k} \in Drain
    PROVE  k \in Drained(accts)
BY DEF Drained

\* No session is ever newly assigned to an account that the routing policy names
\* in drainAccounts, whatever the strategy, the session map restored from disk,
\* and whatever other requests, processes and users do.
THEOREM NeverAssignsDrained == Spec => DrainsOnly
<1> DEFINE Entry(i) == {sessions'.map[i].key} \in Drain =>
                          sessions'.map[i].key = Assigned(sessions, sessions'.map[i].session)
           Kept == \A i \in DOMAIN sessions'.map : Entry(i)
<1>1. ASSUME TypeOK, sessions' = sessions
      PROVE  Kept
  <2>1. IsState(sessions, Sessions)
    BY <1>1 DEF TypeOK, SessionsTypeOK, Sessions
  <2> QED
    BY <1>1, <2>1, EntryIsAssigned
<1>2. ASSUME TypeOK, NEW r \in Requests, Select(r)
      PROVE  Kept
  <2>1. Typed /\ phase[r] = "select"
    BY <1>2 DEF TypeOK, Typed, Select
  <2>2. sessions' = sessions \/ sessions' = PickOf(r).sessions
    BY <1>2 DEF Select, PickOf, OfferedTo, EligibleTo
  <2>3. CASE sessions' = PickOf(r).sessions
    <3> SUFFICES ASSUME NEW i \in DOMAIN sessions'.map, {sessions'.map[i].key} \in Drain
                 PROVE  sessions'.map[i].key = Assigned(sessions, sessions'.map[i].session)
      OBVIOUS
    <3>1. \/ sessions'.map[i].key = Assigned(sessions, sessions'.map[i].session)
          \/ sessions'.map[i].key \in OfferedTo(r) \ Drained(OfferedTo(r))
      BY <2>1, <2>3, SelectionType
    <3> QED
      BY <3>1, DrainSelectorCounts
  <2> QED
    BY <1>1, <1>2, <2>2, <2>3
<1>3. TypeOK /\ [Next]_vars => [Kept]_vars
  <2> SUFFICES ASSUME TypeOK, Next PROVE Kept
    OBVIOUS
  <2>1. CASE \E r \in Requests : Select(r)
    BY <1>2, <2>1
  <2>2. CASE \A r \in Requests : ~Select(r)
    BY <1>1, <2>2, OnlySelectAssigns
  <2> QED
    BY <2>1, <2>2
<1>4. Spec => []TypeOK
  BY TypeCorrect
<1> QED
  BY <1>3, <1>4, PTL DEF Spec, DrainsOnly
-----------------------------------------------------------------------------
(* Leases                                                                  *)

\* The request that refreshes account k under the lease and token on record.
Holds(r, k) ==
    /\ phase[r] = "refresh"
    /\ req[r].key = k
    /\ req[r].lease = store[k].lease
    /\ req[r].seen = store[k].token

\* The inductive invariant behind NoLeakedLease: that the owner of a lease also
\* remembers the token on record is what lets it give the lease up.
LeaseOwned ==
    \A k \in Keys :
        /\ ~store[k].present => store[k].lease = 0
        /\ k \notin peers /\ Leased(store[k], clock) => \E r \in Requests : Holds(r, k)

\* What may become of the lease of an account in a step.
Dropped(k) == store'[k].lease = 0
TakenByPeer(k) == k \in peers' /\ store'[k].present
TakenBy(r, k) == store'[k].present /\ Holds(r, k)'
LeftAlone(k) ==
    /\ store'[k].lease = store[k].lease
    /\ store'[k].token = store[k].token
    /\ store'[k].present = store[k].present
    /\ k \in peers => k \in peers'
    /\ \A r \in Requests : Holds(r, k) => phase'[r] = phase[r] /\ req'[r] = req[r]

\* No other fate of a lease than these four is needed.
LEMMA LeaseFates ==
    ASSUME Typed, LeaseOwned, clock' \in Nat, clock <= clock', store' \in [Keys -> Record],
           \A k \in Keys : \/ Dropped(k) \/ TakenByPeer(k) \/ LeftAlone(k)
                           \/ \E r \in Requests : TakenBy(r, k)
    PROVE  LeaseOwned'
<1> SUFFICES ASSUME NEW k \in Keys
             PROVE  /\ ~store'[k].present => store'[k].lease = 0
                    /\ k \notin peers' /\ Leased(store'[k], clock') => \E r \in Requests : Holds(r, k)'
  BY DEF LeaseOwned
<1>1. clock \in Nat /\ store'[k].lease \in Nat
  BY DEF Typed, StoreTypeOK, Record
<1>2. CASE Dropped(k)
  BY <1>1, <1>2 DEF Dropped, Leased
<1>3. CASE TakenByPeer(k)
  BY <1>3 DEF TakenByPeer
<1>4. CASE \E r \in Requests : TakenBy(r, k)
  BY <1>4 DEF TakenBy
<1>5. CASE LeftAlone(k)
  <2>1. Leased(store'[k], clock') => Leased(store[k], clock)
    BY <1>1, <1>5 DEF LeftAlone, Leased
  <2>2. \A r \in Requests : Holds(r, k) => Holds(r, k)'
    BY <1>5 DEF LeftAlone, Holds
  <2> QED
    BY <1>5, <2>1, <2>2 DEF LeftAlone, LeaseOwned
<1> QED
  BY <1>2, <1>3, <1>4, <1>5

\* A step of a request that does not refresh, and changes cooldowns at most.
LEMMA LeasesUntouched ==
    ASSUME Typed, Typed', LeaseOwned, NEW r \in Requests, phase[r] # "refresh",
           \A q \in Requests \ {r} : phase'[q] = phase[q] /\ req'[q] = req[q],
           \A k \in Keys : /\ store'[k].lease = store[k].lease
                           /\ store'[k].token = store[k].token
                           /\ store'[k].present = store[k].present,
           peers' = peers, clock' = clock
    PROVE  LeaseOwned'
<1>1. \A k \in Keys : LeftAlone(k)
  BY DEF LeftAlone, Holds
<1> QED
  BY <1>1, LeaseFates DEF Typed, StoreTypeOK

\* The steps of a request outside its claim and its refresh.
LEMMA BystandingKeepsLeases ==
    ASSUME Typed, Typed', LeaseOwned, NEW r \in Requests,
           \/ Begin(r) \/ Load(r) \/ Bench(r) \/ Select(r) \/ Touch(r) \/ Park(r) \/ ClaimLost(r)
           \/ Conclude(r)
    PROVE  LeaseOwned'
<1>1. phase[r] # "refresh" /\ peers' = peers /\ clock' = clock
  BY DEF Begin, Load, Bench, Select, Touch, Park, ClaimLost, Conclude, env
<1>2. \A q \in Requests \ {r} : phase'[q] = phase[q] /\ req'[q] = req[q]
  <2>1. phase \in [Requests -> Phases] /\ req \in [Requests -> Req]
    BY DEF Typed, RequestTypeOK
  <2>2. \E ph : phase' = [phase EXCEPT ![r] = ph]
    BY DEF Begin, Load, Bench, Select, Touch, Park, ClaimLost, Conclude, Goto, End, FailWith, Proceed, Try
  <2>3. req' = req \/ \E x : req' = [req EXCEPT ![r] = x]
    <3>1. CASE Begin(r)
      BY <3>1, Zenon DEF Begin
    <3>2. CASE Load(r)
      BY <2>1, <3>2 DEF Load, FailWith, End
    <3>3. CASE Select(r)
      BY <2>1, <3>3 DEF Select, Try, FailWith, End
    <3>4. CASE Bench(r) \/ Touch(r) \/ Park(r) \/ ClaimLost(r) \/ Conclude(r)
      BY <3>4 DEF Bench, Touch, Park, ClaimLost, Conclude, FailWith, End, Proceed
    <3> QED
      BY <3>1, <3>2, <3>3, <3>4
  <2> QED
    BY <2>1, <2>2, <2>3
<1>3. \A k \in Keys : /\ store'[k].lease = store[k].lease
                      /\ store'[k].token = store[k].token
                      /\ store'[k].present = store[k].present
  <2>0. store \in [Keys -> Record]
    BY DEF Typed, StoreTypeOK
  <2>1. CASE Bench(r)
    <3> DEFINE K == {k \in snap[r].spent \intersect Enabled(store) : store[k].cooldown < QuotaReset[k]}
    <3>1. store' = Benched(store, K)
      BY <2>1 DEF Bench
    <3> HIDE DEF K
    <3> QED
      BY <2>0, <3>1 DEF Benched, Record
  <2>2. CASE Park(r)
    BY <2>0, <2>2 DEF Park, Record
  <2>3. CASE store' = store
    BY <2>3
  <2> QED
    BY <2>1, <2>2, <2>3 DEF Begin, Load, Select, Touch, ClaimLost, Conclude
<1> QED
  BY <1>1, <1>2, <1>3, LeasesUntouched

\* The claim makes the request the owner.
LEMMA ClaimKeepsLeases ==
    ASSUME Typed, Typed', LeaseOwned, NEW r \in Requests, ClaimTaken(r)
    PROVE  LeaseOwned'
<1>0. PICK k \in Keys : k = req[r].key
  BY DEF ClaimTaken, Typed, RequestTypeOK
<1> DEFINE until == req[r].stamp + LeaseLength["acquire"]
<1>1. /\ store \in [Keys -> Record] /\ req \in [Requests -> Req]
      /\ phase \in [Requests -> Phases]
  BY DEF Typed, RequestTypeOK, StoreTypeOK
<1>2. /\ phase[r] = "claim" /\ phase' = [phase EXCEPT ![r] = "refresh"]
      /\ store[k].present /\ store[k].token = req[r].seen
      /\ store' = [store EXCEPT ![k] = [store[k] EXCEPT !.lease = until]]
      /\ peers' = peers \ {k}
      /\ req' = [req EXCEPT ![r] = [req[r] EXCEPT !.lease = until]]
      /\ clock' = clock
  BY <1>0 DEF ClaimTaken, AcquireMayClaim, WithLease, Goto
<1> HIDE DEF until
<1>3. TakenBy(r, k)
  <2>1. /\ store'[k].present /\ store'[k].lease = until /\ store'[k].token = store[k].token
        /\ phase'[r] = "refresh" /\ req'[r].lease = until /\ req'[r].key = k /\ req'[r].seen = req[r].seen
    BY <1>0, <1>1, <1>2 DEF Record, Req
  <2> QED
    BY <1>2, <2>1 DEF TakenBy, Holds
<1>4. \A l \in Keys \ {k} : LeftAlone(l)
  BY <1>1, <1>2 DEF LeftAlone, Holds
<1> QED
  BY <1>2, <1>3, <1>4, LeaseFates DEF Typed, StoreTypeOK

\* The save of a new pair: the lease is gone, or it was not the request's own.
LEMMA PersistLetsGo ==
    ASSUME NEW rec \in Record, NEW claim, NEW new, NEW now
    PROVE  LET saved == PersistUnderLease(rec, claim, new, now)
           IN  saved.lease = 0 \/ (saved = rec /\ rec.lease # claim.lease)
BY DEF PersistUnderLease, Stored, DropLease, Record

\* The save of a failure: the same, or the record is gone.
LEMMA ReleaseLetsGo ==
    ASSUME NEW rec \in Record, NEW claim, NEW terminal, NEW now
    PROVE  LET saved == ReleaseAcquire(rec, claim, terminal, now)
           IN  saved.lease = 0 \/ (saved = rec /\ (~rec.present \/ ~Mine(rec, claim)))
BY DEF ReleaseAcquire, Disabled, CooledDown, Record

\* The end of a refresh leaves no lease of its own behind.
LEMMA RefreshKeepsLeases ==
    ASSUME Typed, Typed', LeaseOwned, NEW r \in Requests, RefreshSucceeds(r) \/ RefreshFails(r)
    PROVE  LeaseOwned'
<1> DEFINE k == req[r].key
           claim == [seen |-> req[r].seen, lease |-> req[r].lease]
<1>1. /\ k \in Keys /\ store \in [Keys -> Record] /\ req \in [Requests -> Req] /\ clock \in Nat
      /\ phase \in [Requests -> Phases]
  BY DEF RefreshSucceeds, RefreshFails, Typed, RequestTypeOK, StoreTypeOK
<1>3. phase[r] = "refresh" /\ peers' = peers /\ clock' = clock
  BY DEF RefreshSucceeds, RefreshFails, env
<1>4. \E rec : /\ store' = [store EXCEPT ![k] = rec]
               /\ rec.lease = 0 \/ (rec = store[k] /\ (~store[k].present \/ ~Mine(store[k], claim)))
  <2>1. CASE RefreshSucceeds(r)
    <3> DEFINE rec == PersistUnderLease(store[k], claim, req[r].seen + 1, clock)
    <3>1. store' = [store EXCEPT ![k] = rec]
      BY <2>1 DEF RefreshSucceeds, Save
    <3>2. rec.lease = 0 \/ (rec = store[k] /\ store[k].lease # claim.lease)
      BY <1>1, PersistLetsGo
    <3> HIDE DEF rec, claim
    <3>3. rec.lease = 0 \/ (rec = store[k] /\ ~Mine(store[k], claim))
      BY <3>2 DEF Mine
    <3> QED
      BY <3>1, <3>3
  <2>2. CASE RefreshFails(r)
    <3>1. PICK terminal \in BOOLEAN : Save(k, ReleaseAcquire(store[k], claim, terminal, clock))
      BY <2>2 DEF RefreshFails
    <3> DEFINE rec == ReleaseAcquire(store[k], claim, terminal, clock)
    <3>2. rec.lease = 0 \/ (rec = store[k] /\ (~store[k].present \/ ~Mine(store[k], claim)))
      BY <1>1, ReleaseLetsGo
    <3> QED
      BY <3>1, <3>2 DEF Save
  <2> QED
    BY <2>1, <2>2
<1>5. \A q \in Requests \ {r} : phase'[q] = phase[q] /\ req'[q] = req[q]
  BY <1>1 DEF RefreshSucceeds, RefreshFails, Goto, End, Proceed
<1>6. \A l \in Keys \ {k} : LeftAlone(l)
  BY <1>1, <1>3, <1>4, <1>5 DEF LeftAlone, Holds
<1>7. Dropped(k) \/ LeftAlone(k)
  <2>1. PICK rec : /\ store' = [store EXCEPT ![k] = rec]
                   /\ rec.lease = 0 \/ (rec = store[k] /\ (~store[k].present \/ ~Mine(store[k], claim)))
    BY <1>4
  <2>2. store'[k] = rec
    BY <1>1, <2>1
  <2>3. CASE rec.lease = 0
    BY <2>2, <2>3 DEF Dropped
  <2>4. CASE rec = store[k] /\ ~store[k].present
    BY <1>1, <2>2, <2>4 DEF Dropped, LeaseOwned
  <2>5. CASE rec = store[k] /\ ~Mine(store[k], claim)
    <3>1. ~Holds(r, k)
      BY <2>5 DEF Holds, Mine
    <3> QED
      BY <1>3, <1>5, <2>2, <2>5, <3>1 DEF LeftAlone
  <2> QED
    BY <2>1, <2>3, <2>4, <2>5
<1> QED
  BY <1>3, <1>6, <1>7, LeaseFates DEF Typed, StoreTypeOK

\* Others drop a lease, take it, or leave it alone.
LEMMA OthersKeepLeases ==
    ASSUME Typed, Typed', LeaseOwned, NEW k \in Keys, OtherStep(k)
    PROVE  LeaseOwned'
<1>1. store \in [Keys -> Record] /\ phase' = phase /\ req' = req /\ clock' = clock
  BY DEF Typed, StoreTypeOK, OtherStep, PeerClaims, PeerRefreshes, RateLimited, Toggle, Remove, Login, Meddle
<1>2. \A l \in Keys \ {k} : LeftAlone(l)
  BY <1>1 DEF LeftAlone, OtherStep, PeerClaims, PeerRefreshes, RateLimited, Toggle, Remove, Login, Save
<1>3. Dropped(k) \/ TakenByPeer(k) \/ LeftAlone(k)
  <2>1. CASE PeerClaims(k)
    BY <1>1, <2>1 DEF PeerClaims, Save, WithLease, MayClaim, TakenByPeer, Record
  <2>2. CASE PeerRefreshes(k)
    BY <1>1, <2>2 DEF PeerRefreshes, Save, Stored, Dropped, Record
  <2>3. CASE RateLimited(k)
    BY <1>1, <2>3 DEF RateLimited, Save, LeftAlone, Record
  <2>4. CASE Toggle(k)
    BY <1>1, <2>4 DEF Toggle, Save, LeftAlone, Record
  <2>5. CASE Remove(k)
    BY <1>1, <2>5 DEF Remove, Save, Absent, Dropped
  <2>6. CASE Login(k)
    BY <1>1, <2>6 DEF Login, Dropped
  <2> QED
    BY <2>1, <2>2, <2>3, <2>4, <2>5, <2>6 DEF OtherStep
<1> QED
  BY <1>1, <1>2, <1>3, LeaseFates DEF Typed, StoreTypeOK

\* No request that has ended, with an account or with a verdict, leaves a lease of
\* this process on an account, whatever logins, removals and other processes do to
\* the record meanwhile: a live lease is one that a refresh under way will give up,
\* or another process's.
THEOREM LeasesAreGivenUp == Spec => []NoLeakedLease
<1>1. Init => LeaseOwned
  <2> SUFFICES ASSUME Init, NEW k \in Keys
               PROVE  /\ ~store[k].present => store[k].lease = 0
                      /\ Leased(store[k], clock) => k \in peers
    BY DEF LeaseOwned
  <2>1. store[k] \in Stored0
    BY DEF Init
  <2> QED
    BY <2>1, AcquireConstants DEF Init, Absent
<1>2. TypeOK /\ TypeOK' /\ LeaseOwned /\ [Next]_vars => LeaseOwned'
  <2> SUFFICES ASSUME TypeOK, TypeOK', LeaseOwned, [Next]_vars PROVE LeaseOwned'
    OBVIOUS
  <2>1. Typed /\ Typed'
    BY DEF TypeOK, Typed
  <2>2. CASE Tick
    <3>1. clock \in Nat /\ clock' = clock + 1
      BY <2>2 DEF Tick, TypeOK, StoreTypeOK
    <3>2. \A k \in Keys : LeftAlone(k)
      BY <2>2 DEF Tick, LeftAlone
    <3> QED
      BY <2>1, <3>1, <3>2, LeaseFates DEF Typed, StoreTypeOK
  <2>3. ASSUME NEW r \in Requests, Begin(r) \/ RequestStep(r)
        PROVE  LeaseOwned'
    BY <2>1, <2>3, BystandingKeepsLeases, ClaimKeepsLeases, RefreshKeepsLeases DEF RequestStep, ClaimLease
  <2>4. ASSUME NEW k \in Keys, OtherStep(k)
        PROVE  LeaseOwned'
    BY <2>1, <2>4, OthersKeepLeases
  <2>5. CASE UNCHANGED vars
    BY <2>5 DEF vars, LeaseOwned, Holds
  <2> QED
    BY <2>2, <2>3, <2>4, <2>5 DEF Next
<1>3. LeaseOwned => NoLeakedLease
  BY DEF LeaseOwned, NoLeakedLease, Holds
<1> QED
  BY <1>1, <1>2, <1>3, TypeCorrect, PTL DEF Spec
-----------------------------------------------------------------------------
(* Every usable account is tried                                           *)

\* Every drain selector matches one account at most.  With others, a selector that
\* matches two stored accounts drains the second once the first was tried.
Unambiguous == \A sel \in Drain : \A j, k \in sel : j = k

\* What a snapshot shows of an account whose token will be used if it is selected.
Promising(rec, now) == Eligible(rec, now) /\ rec.token # 0 /\ rec.expires > now

NoRemoval == "remove" \notin Meddling

\* The invariant behind FailsOnlyWhenExhausted: accounts usable so far are still
\* usable and untried, and the loop does not end before all stored ones were tried,
\* if none is removed.
Reachable(r) ==
    Running(r) =>
        /\ usable[r] \subseteq Usable
        /\ phase[r] # "touch" => usable[r] \intersect req[r].tried = {}
        /\ phase[r] \in {"bench", "select"} =>
              \A k \in usable[r] : Promising(snap[r].accts[k], req[r].stamp)
        /\ NoRemoval =>
              /\ req[r].tried \subseteq Present(store)
              /\ phase[r] \in {"bench", "select", "touch", "park", "claim", "refresh"} =>
                    req[r].total = Cardinality(Present(store))
              /\ phase[r] \in {"bench", "select"} => Present(snap[r].accts) = Present(store)
              /\ Unambiguous /\ phase[r] = "final" => usable[r] \subseteq Drained(Present(store))

\* Without removals, the stored accounts are always the same.
LEMMA StoredStay ==
    ASSUME Typed, NoRemoval,
           \/ Tick
           \/ \E r \in Requests : Begin(r) \/ RequestStep(r)
           \/ \E k \in Keys : OtherStep(k)
    PROVE  Present(store') = Present(store)
<1>1. store \in [Keys -> Record]
  BY DEF Typed, StoreTypeOK
<1> SUFFICES \A k \in Keys : store'[k].present = store[k].present
  BY DEF Present
<1>2. CASE store' = store
  BY <1>2
<1>3. ASSUME NEW r \in Requests, Bench(r)
      PROVE  \A k \in Keys : store'[k].present = store[k].present
  <2> DEFINE K == {k \in snap[r].spent \intersect Enabled(store) : store[k].cooldown < QuotaReset[k]}
  <2>1. store' = Benched(store, K)
    BY <1>3 DEF Bench
  <2> HIDE DEF K
  <2> QED
    BY <1>1, <2>1 DEF Benched, Record
<1>4. ASSUME NEW k \in Keys, NEW rec, store' = [store EXCEPT ![k] = rec], rec.present = store[k].present
      PROVE  \A l \in Keys : store'[l].present = store[l].present
  BY <1>1, <1>4
<1>5. ASSUME NEW r \in Requests, Park(r) \/ ClaimTaken(r) \/ RefreshSucceeds(r) \/ RefreshFails(r)
      PROVE  \A k \in Keys : store'[k].present = store[k].present
  <2>1. PICK k \in Keys : k = req[r].key
    BY <1>5 DEF Park, ClaimTaken, RefreshSucceeds, RefreshFails, Typed, RequestTypeOK
  <2>2. store[k] \in Record
    BY <1>1
  <2>3. CASE RefreshSucceeds(r) \/ RefreshFails(r)
    <3>1. \A now, c, new, terminal :
             /\ PersistUnderLease(store[k], c, new, now).present = store[k].present
             /\ ReleaseAcquire(store[k], c, terminal, now).present = store[k].present
      BY <2>2 DEF PersistUnderLease, Stored, DropLease, ReleaseAcquire, Disabled, CooledDown, Record
    <3>2. \/ \E now, c, new : store' = [store EXCEPT ![k] = PersistUnderLease(store[k], c, new, now)]
          \/ \E now, c, terminal : store' = [store EXCEPT ![k] = ReleaseAcquire(store[k], c, terminal, now)]
      BY <2>1, <2>3, Zenon DEF RefreshSucceeds, RefreshFails, Save
    <3> QED
      BY <1>4, <3>1, <3>2
  <2>4. CASE ClaimTaken(r)
    BY <1>1, <1>4, <2>1, <2>4 DEF ClaimTaken, WithLease, Record
  <2>5. CASE Park(r)
    BY <1>1, <2>1, <2>5 DEF Park, Record
  <2> QED
    BY <1>5, <2>3, <2>4, <2>5
<1>6. ASSUME NEW k \in Keys, OtherStep(k)
      PROVE  \A l \in Keys : store'[l].present = store[l].present
  <2>1. ~Remove(k)
    BY DEF Remove, Meddle, NoRemoval
  <2>2. CASE Login(k)
    BY <1>4, <2>2 DEF Login
  <2>3. CASE PeerClaims(k)
    BY <1>1, <1>4, <2>3 DEF PeerClaims, Save, WithLease, Record
  <2>4. CASE PeerRefreshes(k)
    BY <1>1, <1>4, <2>4 DEF PeerRefreshes, Save, Stored, Record
  <2>5. CASE RateLimited(k)
    BY <1>1, <1>4, <2>5 DEF RateLimited, Save, Record
  <2>6. CASE Toggle(k)
    BY <1>1, <1>4, <2>6 DEF Toggle, Save, Record
  <2> QED
    BY <1>6, <2>1, <2>2, <2>3, <2>4, <2>5, <2>6 DEF OtherStep
<1> QED
  BY <1>2, <1>3, <1>5, <1>6 DEF Tick, Begin, RequestStep, Load, Select, Touch, ClaimLease, ClaimLost, Conclude

\* The history of a request that is under way.
LEMMA UsableShrinks ==
    ASSUME Watch, NEW r \in Requests, Running(r)'
    PROVE  /\ usable'[r] \subseteq Usable'
           /\ Running(r) => usable'[r] \subseteq usable[r]
           /\ ~Running(r) => usable'[r] \intersect req'[r].tried = {}
BY DEF Watch

\* A step that is not the request's own.
LEMMA OthersKeepReach ==
    ASSUME Watch, NoRemoval => Present(store') = Present(store), NEW r \in Requests, Reachable(r),
           phase'[r] = phase[r], req'[r] = req[r], snap'[r] = snap[r]
    PROVE  Reachable(r)'
<1> SUFFICES ASSUME Running(r)' PROVE Reachable(r)'
  BY DEF Reachable
<1>1. Running(r)
  BY DEF Running
<1> QED
  BY <1>1, UsableShrinks DEF Reachable

\* The drain selectors drain no account of a part that they do not drain of the whole.
LEMMA DrainedOfPart ==
    ASSUME Unambiguous, NEW whole, NEW part \in SUBSET whole
    PROVE  Drained(part) \subseteq Drained(whole)
<1> SUFFICES ASSUME NEW k \in part, NEW sel \in Drain, sel \intersect part = {k}
             PROVE  sel \intersect whole = {k}
  BY DEF Drained
<1> QED
  BY DEF Unambiguous

\* An iteration that ends without a token, all of whose accounts were not usable.
LEMMA ProceedKeepsReach ==
    ASSUME Typed, Watch, NoRemoval => Present(store') = Present(store), NEW r \in Requests, Reachable(r), NEW saw,
           phase[r] \in {"park", "claim", "refresh"}, Proceed(r, saw)
    PROVE  Reachable(r)'
<1>1. /\ phase \in [Requests -> Phases] /\ req \in [Requests -> Req] /\ req[r] \in Req
  BY DEF Typed, RequestTypeOK
<1>2. /\ Running(r) /\ usable[r] \subseteq Usable /\ usable[r] \intersect req[r].tried = {}
      /\ NoRemoval => req[r].tried \subseteq Present(store) /\ req[r].total = Cardinality(Present(store))
  BY DEF Running, Ended, Reachable
<1>3. req'[r].tried = req[r].tried
      /\ phase'[r] = IF Cardinality(req[r].tried) >= req[r].total THEN "final" ELSE "load"
  BY <1>1 DEF Proceed, Goto
<1>4. Running(r)'
  BY <1>3 DEF Running, Ended
<1>5. /\ usable'[r] \subseteq Usable' /\ usable'[r] \subseteq usable[r]
  BY <1>2, <1>4, UsableShrinks
<1>6. NoRemoval /\ phase'[r] = "final" => usable[r] = {}
  <2> SUFFICES ASSUME NoRemoval, Cardinality(req[r].tried) >= Cardinality(Present(store))
               PROVE  usable[r] = {}
    BY <1>2, <1>3
  <2>1. IsFiniteSet(Present(store)) /\ Cardinality(Present(store)) \in Nat
    BY CountType DEF Present
  <2>2. Cardinality(req[r].tried) <= Cardinality(Present(store)) /\ Cardinality(req[r].tried) \in Nat
    BY <1>2, <2>1, FS_Subset, FS_CardinalityType
  <2>3. req[r].tried = Present(store)
    BY <1>2, <2>1, <2>2, FS_Subset
  <2> QED
    BY <1>2, <2>3 DEF Usable
<1> QED
  BY <1>2, <1>3, <1>4, <1>5, <1>6 DEF Reachable

\* The start of a request.
LEMMA BeginReaches ==
    ASSUME Typed, Watch, NoRemoval => Present(store') = Present(store), NEW r \in Requests, Begin(r)
    PROVE  Reachable(r)'
<1>1. phase'[r] = "load" /\ ~Running(r) /\ req'[r].tried \subseteq Present(store)
  <2>1. phase \in [Requests -> Phases] /\ req \in [Requests -> Req]
    BY DEF Typed, RequestTypeOK
  <2>2. phase[r] = "idle" /\ phase' = [phase EXCEPT ![r] = "load"]
    BY DEF Begin, Goto
  <2>3. PICK avoid \in {{}} \union {{k} : k \in Present(store)} : req' = [req EXCEPT ![r].tried = avoid]
    BY DEF Begin
  <2>4. req'[r].tried = avoid
    BY <2>1, <2>3 DEF Req
  <2> QED
    BY <2>1, <2>2, <2>3, <2>4 DEF Running
<1>2. Running(r)'
  BY <1>1 DEF Running, Ended
<1> QED
  BY <1>1, <1>2, UsableShrinks DEF Reachable

\* The snapshot shows the usable accounts as they are.
LEMMA LoadReaches ==
    ASSUME Typed, Watch, NoRemoval => Present(store') = Present(store), NEW r \in Requests, Reachable(r), Load(r)
    PROVE  Reachable(r)'
<1> DEFINE spent == Exhausted(store, clock)
<1>1. /\ phase \in [Requests -> Phases] /\ req \in [Requests -> Req] /\ req[r] \in Req
      /\ snap \in [Requests -> Snapshot \union {NoSnap}] /\ store \in [Keys -> Record]
  BY DEF Typed, RequestTypeOK, StoreTypeOK
<1>2. phase[r] = "load" /\ Running(r)
  BY DEF Load, Running, Ended
<1>3. CASE Present(store) = {}
  <2>1. phase'[r] = "failed"
    BY <1>1, <1>3 DEF Load, FailWith, End, Goto
  <2> QED
    BY <2>1 DEF Reachable, Running, Ended
<1>4. CASE Present(store) # {}
  <2>1. /\ snap'[r].accts = Benched(store, spent)
        /\ req'[r].total = Cardinality(Present(store)) /\ req'[r].stamp = clock
        /\ req'[r].tried = req[r].tried
        /\ phase'[r] \in {"select", "bench"}
    <3>1. /\ snap' = [snap EXCEPT ![r] = [accts |-> Benched(store, spent), spent |-> spent,
                                          active |-> active, used |-> used]]
          /\ req' = [req EXCEPT ![r].total = Cardinality(Present(store)), ![r].stamp = clock]
          /\ phase' = [phase EXCEPT ![r] = IF spent = {} THEN "select" ELSE "bench"]
      BY <1>4 DEF Load, Goto
    <3> HIDE DEF spent
    <3> QED
      BY <1>1, <3>1 DEF Req
  <2>2. Running(r)'
    BY <2>1 DEF Running, Ended
  <2>3. usable'[r] \subseteq Usable' /\ usable'[r] \subseteq usable[r]
    BY <1>2, <2>2, UsableShrinks
  <2>4. Present(Benched(store, spent)) = Present(store)
    <3> HIDE DEF spent
    <3> QED
      BY <1>1 DEF Present, Benched, Record
  <2>5. \A k \in usable[r] : Promising(Benched(store, spent)[k], clock)
    <3> SUFFICES ASSUME NEW k \in usable[r] PROVE Promising(Benched(store, spent)[k], clock)
      OBVIOUS
    <3>1. k \in Usable /\ k \in Keys
      BY <1>2 DEF Reachable, Usable, Present
    <3>2. QuotaReset[k] \in Nat /\ clock \in Nat /\ QuotaReset[k] <= clock
      BY <3>1, AcquireConstants DEF Usable, Typed, StoreTypeOK
    <3>3. k \notin spent
      BY <3>2 DEF Exhausted
    <3>4. Benched(store, spent)[k] = store[k]
      BY <3>1, <3>3 DEF Benched
    <3> QED
      BY <3>1, <3>4 DEF Promising, Usable
  <2> HIDE DEF spent
  <2>6. \A k \in usable'[r] : Promising(snap'[r].accts[k], req'[r].stamp)
    BY <2>1, <2>3, <2>5
  <2> QED
    BY <1>2, <2>1, <2>2, <2>3, <2>4, <2>6 DEF Reachable
<1> QED
  BY <1>3, <1>4

\* The save of the quota cooldowns.
LEMMA BenchReaches ==
    ASSUME Typed, Watch, NoRemoval => Present(store') = Present(store), NEW r \in Requests, Reachable(r), Bench(r)
    PROVE  Reachable(r)'
<1>1. /\ phase[r] = "bench" /\ phase'[r] = "select" /\ req' = req /\ snap' = snap
  BY DEF Bench, Goto, Typed, RequestTypeOK
<1>2. Running(r) /\ Running(r)'
  BY <1>1 DEF Running, Ended
<1>3. usable'[r] \subseteq Usable' /\ usable'[r] \subseteq usable[r]
  BY <1>2, UsableShrinks
<1> QED
  BY <1>1, <1>2, <1>3 DEF Reachable

\* A selection tries no usable account in vain, and gives up none that is not drained.
LEMMA SelectReaches ==
    ASSUME Typed, Watch, NoRemoval => Present(store') = Present(store),
           NEW r \in Requests, Reachable(r), Select(r)
    PROVE  Reachable(r)'
<1>1. /\ phase \in [Requests -> Phases] /\ req \in [Requests -> Req] /\ req[r] \in Req
      /\ phase[r] = "select" /\ Running(r)
  BY DEF Typed, RequestTypeOK, Select, Running, Ended
<1>2. /\ \A k \in usable[r] : k \in Keys /\ Promising(snap[r].accts[k], req[r].stamp)
      /\ usable[r] \intersect req[r].tried = {}
      /\ NoRemoval => /\ req[r].tried \subseteq Present(store)
                      /\ Present(snap[r].accts) = Present(store)
                      /\ req[r].total = Cardinality(Present(store))
  BY <1>1 DEF Reachable, Usable, Present
<1>3. usable[r] \subseteq EligibleTo(r)
  BY <1>2 DEF EligibleTo, OfferedTo, Promising, Eligible, Present
<1>4. \/ FailWith(r, "no_enabled_accounts")
      \/ /\ PickOf(r).key = NoKey
         /\ phase' = [phase EXCEPT ![r] = "final"]
         /\ req' = [req EXCEPT ![r].total = 0, ![r].stamp = 0]
      \/ PickOf(r).key # NoKey /\ Try(r, PickOf(r).key, snap[r].accts[PickOf(r).key])
  BY DEF Select, PickOf, OfferedTo, EligibleTo, Goto
<1>5. Running(r)' => usable'[r] \subseteq Usable' /\ usable'[r] \subseteq usable[r]
  BY <1>1, UsableShrinks
<1>6. CASE FailWith(r, "no_enabled_accounts")
  <2>1. phase'[r] = "failed"
    BY <1>1, <1>6 DEF FailWith, End, Goto
  <2> QED
    BY <2>1 DEF Reachable, Running, Ended
<1>7. CASE /\ PickOf(r).key = NoKey
           /\ phase' = [phase EXCEPT ![r] = "final"]
           /\ req' = [req EXCEPT ![r].total = 0, ![r].stamp = 0]
  <2>1. phase'[r] = "final" /\ req'[r].tried = req[r].tried
    BY <1>1, <1>7 DEF Req
  <2>2. EligibleTo(r) \subseteq Drained(OfferedTo(r))
    BY <1>1, <1>7, PickIsDecided DEF Typed
  <2>3. NoRemoval => OfferedTo(r) \subseteq Present(store)
    BY <1>2 DEF OfferedTo
  <2>4. NoRemoval /\ Unambiguous => usable[r] \subseteq Drained(Present(store))
    BY <1>3, <2>2, <2>3, DrainedOfPart
  <2>5. Running(r)'
    BY <2>1 DEF Running, Ended
  <2> QED
    BY <1>2, <1>5, <2>1, <2>4, <2>5 DEF Reachable
<1>8. CASE PickOf(r).key # NoKey /\ Try(r, PickOf(r).key, snap[r].accts[PickOf(r).key])
  <2>1. PICK k \in Keys : k = PickOf(r).key
    BY <1>1, <1>8, SelectionType
  <2>2. k \in OfferedTo(r)
    BY <1>1, <1>8, <2>1, PickIsDecided DEF EligibleTo
  <2>3. CASE phase'[r] = "done"
    BY <2>3 DEF Reachable, Running, Ended
  <2>4. CASE phase'[r] # "done"
    <3>1. /\ req'[r].tried = req[r].tried \union {k}
          /\ req'[r].total = req[r].total
          /\ phase'[r] \in {"touch", "park", "claim"}
          /\ phase'[r] # "touch" => k \notin usable[r]
      <4> DEFINE rec == snap[r].accts[k]
      <4>1. Try(r, k, rec)
        BY <1>8, <2>1
      <4>2. k \in usable[r] => rec.token # 0 /\ rec.expires > req[r].stamp
        BY <1>2 DEF Promising
      <4> HIDE DEF rec
      <4>3. CASE End(r, "done", k, "none")
        BY <1>1, <2>4, <4>3 DEF End, Goto
      <4>4. CASE /\ req' = [req EXCEPT ![r].tried = @ \union {k}, ![r].key = k]
                 /\ phase' = [phase EXCEPT ![r] = "touch"]
        BY <1>1, <4>4 DEF Req
      <4>5. CASE /\ ~(rec.token # 0 /\ rec.expires > req[r].stamp)
                 /\ req' = [req EXCEPT ![r].tried = @ \union {k}, ![r].key = k, ![r].seen = rec.token]
                 /\ phase' = [phase EXCEPT ![r] = IF rec.token = 0 THEN "park" ELSE "claim"]
        BY <1>1, <4>2, <4>5 DEF Req
      <4> QED
        BY <4>1, <4>3, <4>4, <4>5 DEF Try, Goto
    <3>2. Running(r)'
      BY <3>1 DEF Running, Ended
    <3>3. NoRemoval => k \in Present(store)
      BY <1>2, <2>2 DEF OfferedTo
    <3>4. NoRemoval => req'[r].tried \subseteq Present(store')
      BY <1>2, <3>1, <3>3
    <3>5. phase'[r] # "touch" => usable'[r] \intersect req'[r].tried = {}
      BY <1>2, <1>5, <3>1, <3>2
    <3> QED
      BY <1>2, <1>5, <3>1, <3>2, <3>4, <3>5 DEF Reachable
  <2> QED
    BY <2>3, <2>4
<1> QED
  BY <1>4, <1>6, <1>7, <1>8

\* The claim of a lease goes on with the same account.
LEMMA ClaimReaches ==
    ASSUME Typed, Watch, NoRemoval => Present(store') = Present(store), NEW r \in Requests, Reachable(r), ClaimTaken(r)
    PROVE  Reachable(r)'
<1>1. phase[r] = "claim" /\ phase'[r] = "refresh"
      /\ req'[r].tried = req[r].tried /\ req'[r].total = req[r].total
  BY DEF ClaimTaken, Goto, Typed, RequestTypeOK, Req
<1>2. Running(r) /\ Running(r)'
  BY <1>1 DEF Running, Ended
<1>3. usable'[r] \subseteq Usable' /\ usable'[r] \subseteq usable[r]
  BY <1>2, UsableShrinks
<1> QED
  BY <1>1, <1>2, <1>3 DEF Reachable

\* The end of a request.
LEMMA EndReaches ==
    ASSUME Typed, NEW r \in Requests, NEW ph \in Ended, NEW k, NEW verdict, End(r, ph, k, verdict)
    PROVE  Reachable(r)' /\ phase'[r] = ph
<1>1. phase'[r] = ph
  BY DEF End, Goto, Typed, RequestTypeOK
<1> QED
  BY <1>1 DEF Reachable, Running

\* A step of one request is none of another.
LEMMA OneRequestMoves ==
    ASSUME Typed, NEW q \in Requests, Begin(q) \/ RequestStep(q), NEW r \in Requests \ {q}
    PROVE  phase'[r] = phase[r] /\ req'[r] = req[r] /\ snap'[r] = snap[r]
<1>1. /\ phase \in [Requests -> Phases] /\ req \in [Requests -> Req]
      /\ snap \in [Requests -> Snapshot \union {NoSnap}]
  BY DEF Typed, RequestTypeOK
<1>2. ASSUME NEW f, NEW x, NEW y \in Requests \ {q}
      PROVE  [f EXCEPT ![q] = x][y] = f[y]
  OBVIOUS
<1>3. CASE Load(q)
  BY <1>1, <1>3 DEF Load, FailWith, End, Goto
<1>4. CASE Select(q)
  BY <1>1, <1>4 DEF Select, Try, FailWith, End, Goto
<1>5. CASE Begin(q)
  <2>1. \E x : req' = [req EXCEPT ![q] = x]
    BY <1>5, Zenon DEF Begin
  <2> QED
    BY <1>1, <1>5, <2>1 DEF Begin, Goto
<1>6. CASE Bench(q) \/ Touch(q) \/ Park(q) \/ Conclude(q)
  BY <1>1, <1>6 DEF Bench, Touch, Park, Conclude, FailWith, End, Proceed, Goto
<1>7. CASE ClaimLease(q) \/ RefreshSucceeds(q) \/ RefreshFails(q)
  BY <1>1, <1>7 DEF ClaimLease, ClaimTaken, ClaimLost, RefreshSucceeds, RefreshFails, End, Proceed, Goto
<1> QED
  BY <1>3, <1>4, <1>5, <1>6, <1>7 DEF RequestStep

\* Every step keeps every request on its way to the usable accounts.
LEMMA StepKeepsReach ==
    ASSUME TypeOK, TypeOK', Next, \A r \in Requests : Reachable(r)
    PROVE  \A r \in Requests : Reachable(r)'
<1> SUFFICES ASSUME NEW r \in Requests PROVE Reachable(r)'
  OBVIOUS
<1>1. Typed /\ Watch /\ Reachable(r) /\ (NoRemoval => Present(store') = Present(store))
  BY StoredStay DEF TypeOK, Typed, Next
<1>2. CASE Begin(r) \/ RequestStep(r)
  <2>1. CASE Touch(r) \/ Conclude(r) \/ (RefreshSucceeds(r) /\ ~Proceed(r, {}))
    <3>1. (\E k, verdict : End(r, "done", k, verdict)) \/ (\E verdict : FailWith(r, verdict))
      BY <2>1, Zenon DEF Touch, Conclude, RefreshSucceeds
    <3> QED
      BY <1>1, <3>1, EndReaches DEF FailWith, Ended
  <2>2. CASE Park(r) \/ ClaimLost(r) \/ RefreshFails(r) \/ (RefreshSucceeds(r) /\ Proceed(r, {}))
    <3>1. phase[r] \in {"park", "claim", "refresh"} /\ \E saw : Proceed(r, saw)
      BY <2>2, Zenon DEF Park, ClaimLost, RefreshFails, RefreshSucceeds
    <3> QED
      BY <1>1, <3>1, ProceedKeepsReach
  <2> QED
    BY <1>1, <1>2, <2>1, <2>2, BeginReaches, LoadReaches, BenchReaches, SelectReaches, ClaimReaches
       DEF RequestStep, ClaimLease
<1>3. CASE \E q \in Requests \ {r} : Begin(q) \/ RequestStep(q)
  BY <1>1, <1>3, OneRequestMoves, OthersKeepReach
<1>4. CASE Tick \/ \E k \in Keys : OtherStep(k)
  <2>1. phase' = phase /\ req' = req /\ snap' = snap
    BY <1>4 DEF Tick, OtherStep, PeerClaims, PeerRefreshes, RateLimited, Toggle, Remove, Login, Meddle
  <2> QED
    BY <1>1, <2>1, OthersKeepReach
<1> QED
  BY <1>2, <1>3, <1>4 DEF Next

\* Where a request fails: without accounts, without enabled ones, or after its loop.
LEMMA WhereItFails ==
    ASSUME Typed, Next, NEW r \in Requests, Ends(r, "failed")
    PROVE  \/ phase[r] = "load" /\ Present(store) = {}
           \/ phase[r] = "select" /\ Enabled(snap[r].accts) = {}
           \/ phase[r] = "final"
<1>1. phase \in [Requests -> Phases]
  BY DEF Typed, RequestTypeOK
<1>2. Begin(r) \/ RequestStep(r)
  <2>1. CASE \E q \in Requests \ {r} : Begin(q) \/ RequestStep(q)
    BY <2>1, OneRequestMoves DEF Ends
  <2>2. ~(Tick \/ \E k \in Keys : OtherStep(k))
    BY DEF Ends, Tick, OtherStep, PeerClaims, PeerRefreshes, RateLimited, Toggle, Remove, Login, Meddle
  <2> QED
    BY <2>1, <2>2 DEF Next
<1>3. CASE Load(r)
  BY <1>1, <1>3 DEF Load, Goto, Ends
<1>4. CASE Select(r)
  BY <1>1, <1>4 DEF Select, Try, End, Goto, Ends
<1>5. CASE Conclude(r)
  BY <1>5 DEF Conclude
<1>6. ~(Begin(r) \/ Bench(r) \/ Touch(r) \/ Park(r) \/ ClaimLease(r) \/ RefreshSucceeds(r) \/ RefreshFails(r))
  BY <1>1 DEF Ends, Begin, Bench, Touch, Park, ClaimLease, ClaimTaken, ClaimLost, RefreshSucceeds,
              RefreshFails, End, Proceed, Goto
<1> QED
  BY <1>2, <1>3, <1>4, <1>5, <1>6 DEF RequestStep

\* The invariant holds throughout.
LEMMA AlwaysReachable == Spec => [](\A r \in Requests : Reachable(r))
<1> DEFINE Reach == \A r \in Requests : Reachable(r)
<1>1. Init => Reach
  BY DEF Init, Reachable, Running
<1>2. TypeOK /\ TypeOK' /\ Reach /\ [Next]_vars => Reach'
  <2>1. TypeOK /\ TypeOK' /\ Reach /\ Next => Reach'
    BY StepKeepsReach
  <2>2. Reach /\ UNCHANGED vars => Reach'
    BY DEF vars, Reachable, Running, Usable
  <2> QED
    BY <2>1, <2>2
<1> HIDE DEF Reach
<1>3. Spec => []Reach
  BY <1>1, <1>2, TypeCorrect, PTL DEF Spec
<1> QED
  BY <1>3 DEF Reach

\* Unless accounts are removed under it or a drain selector matches several, a request
\* fails only if no account that the routing policy may assign was usable from its
\* start to its end, however it was interleaved with other requests and processes.
THEOREM UsableIsTried ==
    ASSUME NoRemoval, Unambiguous
    PROVE  Spec => FailsOnlyWhenExhausted
<1> DEFINE Reach == \A r \in Requests : Reachable(r)
           Tried == \A r \in Requests : Ends(r, "failed") => usable[r] \subseteq Drained(Present(store))
<1>1. TypeOK /\ Reach /\ [Next]_vars => [Tried]_vars
  <2> SUFFICES ASSUME TypeOK, Reach, Next, NEW r \in Requests, Ends(r, "failed")
               PROVE  usable[r] \subseteq Drained(Present(store))
    OBVIOUS
  <2>1. \/ phase[r] = "load" /\ Present(store) = {}
        \/ phase[r] = "select" /\ Enabled(snap[r].accts) = {}
        \/ phase[r] = "final"
    BY WhereItFails DEF TypeOK, Typed
  <2>2. CASE phase[r] = "load" /\ Present(store) = {}
    BY <2>2 DEF Reachable, Running, Ended, Usable
  <2>3. CASE phase[r] = "select" /\ Enabled(snap[r].accts) = {}
    <3>1. \A k \in usable[r] : k \in Keys /\ Promising(snap[r].accts[k], req[r].stamp)
      BY <2>3 DEF Reachable, Running, Ended, Usable, Present
    <3>2. usable[r] \subseteq Enabled(snap[r].accts)
      BY <3>1 DEF Enabled, Present, Promising, Eligible
    <3> QED
      BY <2>3, <3>2
  <2>4. CASE phase[r] = "final"
    BY <2>4 DEF Reachable, Running, Ended
  <2> QED
    BY <2>1, <2>2, <2>3, <2>4
<1>2. Spec => []Reach
  BY AlwaysReachable
<1> HIDE DEF Reach
<1> QED
  BY <1>1, <1>2, TypeCorrect, PTL DEF Spec, FailsOnlyWhenExhausted

-----------------------------------------------------------------------------
(* A session keeps its account                                             *)

\* No session is evicted from the map, and sessions are gone by.
Roomy ==
    /\ Strategy # "round_robin"
    /\ Fits(Sessions)

\* The invariant behind SessionKeepsAccount.
HomeKept(r) ==
    /\ homed[r] # NoKey => Alone(r)
    /\ homed[r] \in usable[r] =>
          /\ Assigned(sessions, SessionOf[r]) = homed[r]
          /\ phase[r] \in {"load", "bench", "select", "touch"}
          /\ phase[r] = "touch" => req[r].key = homed[r]

\* A session with an account is one of the sessions of the map.
LEMMA HomeIsKnown ==
    ASSUME SessionsTypeOK, Roomy, NEW r \in Requests, Assigned(sessions, SessionOf[r]) # NoKey
    PROVE  InSession(SessionOf[r]) /\ Home(sessions, SessionOf[r]) = Assigned(sessions, SessionOf[r])
<1> DEFINE T == Sessions
           E == [session : T, key : Keys]
           m == sessions.map
           s == SessionOf[r]
<1>1. m \in Seq(E)
  BY DEF SessionsTypeOK, IsState, SessionMap, Sessions
<1>2. \A e \in E : e.session # NoSession
  BY DEF Sessions
<1> HIDE DEF E, m
<1>3. \A i \in DOMAIN m : m[i].session # NoSession
  BY <1>1, <1>2
<1>4. s # NoSession
  BY <1>3 DEF m, Assigned, Position
<1> QED
  BY <1>4 DEF InSession, Home, Roomy

\* A request whose session has a usable account selects that account and uses its token.
LEMMA HomeIsSelected ==
    ASSUME Typed, NEW r \in Requests, Reachable(r), HomeKept(r), Roomy, Select(r),
           homed[r] \in usable[r]
    PROVE  /\ sessions' = sessions
           /\ phase'[r] \in {"done", "touch"}
           /\ req'[r].key = homed[r]
<1> DEFINE k == homed[r]
<1>1. /\ phase \in [Requests -> Phases] /\ req \in [Requests -> Req] /\ req[r] \in Req
      /\ phase[r] = "select" /\ Running(r)
  BY DEF Typed, RequestTypeOK, Select, Running, Ended
<1>2. k \in Keys /\ k # NoKey /\ Promising(snap[r].accts[k], req[r].stamp) /\ k \notin req[r].tried
  BY <1>1, RotationConstants DEF Reachable, Usable, Present
<1>3. k \in EligibleTo(r)
  BY <1>2 DEF EligibleTo, OfferedTo, Promising, Eligible, Present
<1>4. Home(sessions, SessionOf[r]) = k /\ InSession(SessionOf[r])
  BY <1>2, HomeIsKnown DEF HomeKept, Typed
<1>5. PickOf(r).key = k
  BY <1>1, <1>3, <1>4, PickIsDecided
<1>6. PickOf(r).sessions = sessions
  BY <1>3, <1>4 DEF PickOf, SelectAccount, Home
<1>7. k \in Enabled(snap[r].accts)
  BY <1>2 DEF Enabled, Present, Promising, Eligible
<1>8. Try(r, k, snap[r].accts[k]) /\ sessions' = PickOf(r).sessions
  BY <1>2, <1>5, <1>7 DEF Select, PickOf, OfferedTo, EligibleTo
<1>9. \/ End(r, "done", k, "none")
      \/ /\ req' = [req EXCEPT ![r].tried = @ \union {k}, ![r].key = k]
         /\ phase' = [phase EXCEPT ![r] = "touch"]
  BY <1>2, <1>8 DEF Try, Promising, Goto
<1> HIDE DEF k
<1>10. phase'[r] \in {"done", "touch"} /\ req'[r].key = k
  <2>1. CASE End(r, "done", k, "none")
    BY <1>1, <2>1 DEF End, Goto, NoReq
  <2>2. CASE /\ req' = [req EXCEPT ![r].tried = @ \union {k}, ![r].key = k]
             /\ phase' = [phase EXCEPT ![r] = "touch"]
    BY <1>1, <2>2 DEF Req
  <2> QED
    BY <1>9, <2>1, <2>2
<1> QED
  BY <1>6, <1>8, <1>10 DEF k

\* What another request selects leaves the account of this one's session alone.
LEMMA OthersSpareHome ==
    ASSUME Typed, Roomy, NEW q \in Requests, Select(q), NEW s, s # SessionOf[q]
    PROVE  Assigned(sessions', s) = Assigned(sessions, s)
<1> DEFINE accts == OfferedTo(q)
           ok == EligibleTo(q)
           act == snap[q].active
           u == snap[q].used
           t == SessionOf[q]
           pick == PickOf(q)
<1>1. sessions' = sessions \/ sessions' = pick.sessions
  BY DEF Select, PickOf, OfferedTo, EligibleTo
<1>2. u \in [Keys -> Nat]
  <2>1. Cardinality(Keys) \in Nat
    BY CountType
  <2>2. \A n \in 0..Cardinality(Keys) : n \in Nat
    BY <2>1
  <2> QED
    BY <2>2 DEF Typed, RequestTypeOK, Snapshot, Select
<1>3. accts \in SUBSET Keys /\ ok \in SUBSET accts
  BY DEF OfferedTo, EligibleTo, Present
<1>4. IsState(sessions, Sessions)
  BY DEF Typed, SessionsTypeOK, Sessions
<1>5. GoesBy(t, Sessions)
  BY DEF GoesBy, InSession, Sessions
<1>6. pick.sessions = SelectAccount(accts, ok, act, u, t, sessions).sessions
  BY DEF PickOf
<1>9. s # t
  OBVIOUS
<1> HIDE DEF accts, ok, act, u, t, pick
<1>7. Fits(Sessions)
  BY DEF Roomy
<1>8. \A x : x # t => Assigned(pick.sessions, x) = Assigned(sessions, x)
  BY <1>2, <1>3, <1>4, <1>5, <1>6, <1>7, SparesOthers
<1> QED
  BY <1>1, <1>8, <1>9

\* Every step keeps a request with its session's account.
LEMMA StepKeepsHome ==
    ASSUME TypeOK, TypeOK', Roomy, Next, NEW r \in Requests, Reachable(r), HomeKept(r)
    PROVE  HomeKept(r)'
<1>1. homed'[r] # NoKey => Alone(r)'
  BY DEF Next, Watch
<1> SUFFICES ASSUME homed'[r] \in usable'[r]
             PROVE  /\ Assigned(sessions', SessionOf[r]) = homed'[r]
                    /\ phase'[r] \in {"load", "bench", "select", "touch"}
                    /\ phase'[r] = "touch" => req'[r].key = homed'[r]
  BY <1>1 DEF HomeKept
<1>2. Alone(r)' /\ Running(r)' /\ Typed
  <2>1. homed'[r] # NoKey
    BY NoKeyIsNone DEF TypeOK, HistoryTypeOK
  <2> QED
    BY <1>1, <2>1 DEF Alone, TypeOK, Typed
<1>3. CASE phase[r] = "idle"
  <2>1. homed'[r] = Assigned(sessions, SessionOf[r])
    BY <1>2, <1>3 DEF Next, Watch
  <2>2. Begin(r)
    <3>1. CASE \E q \in Requests \ {r} : Begin(q) \/ RequestStep(q)
      BY <1>2, <1>3, <3>1, OneRequestMoves DEF Running
    <3>2. CASE Tick \/ \E k \in Keys : OtherStep(k)
      BY <1>2, <1>3, <3>2 DEF Running, Tick, OtherStep, PeerClaims, PeerRefreshes, RateLimited, Toggle,
                              Remove, Login, Meddle
    <3>3. ~RequestStep(r)
      BY <1>3 DEF RequestStep, Load, Bench, Select, Touch, Park, ClaimLease, ClaimTaken, ClaimLost,
                  RefreshSucceeds, RefreshFails, Conclude
    <3> QED
      BY <3>1, <3>2, <3>3 DEF Next
  <2>3. sessions' = sessions /\ phase'[r] = "load"
    BY <1>2, <2>2 DEF Begin, Goto, Typed, RequestTypeOK
  <2> QED
    BY <2>1, <2>3
<1>4. CASE phase[r] # "idle"
  <2>1. homed'[r] = homed[r] /\ (Running(r) => homed[r] \in usable[r])
    BY <1>2, <1>4 DEF Next, Watch
  <2>2. homed[r] # NoKey /\ Alone(r) /\ Running(r)
    <3>1. homed[r] # NoKey
      BY <2>1, NoKeyIsNone DEF TypeOK, HistoryTypeOK
    <3> QED
      BY <3>1 DEF HomeKept, Alone
  <2>3. /\ Assigned(sessions, SessionOf[r]) = homed[r]
        /\ phase[r] \in {"load", "bench", "select", "touch"}
        /\ phase[r] = "touch" => req[r].key = homed[r]
    BY <2>1, <2>2 DEF HomeKept
  <2>4. ASSUME NEW q \in Requests \ {r}, Begin(q) \/ RequestStep(q)
        PROVE  Assigned(sessions', SessionOf[r]) = Assigned(sessions, SessionOf[r])
    <3>1. CASE Select(q)
      <4>1. Running(q)
        BY <3>1 DEF Select, Running, Ended
      <4>2. SessionOf[r] # SessionOf[q]
        BY <2>2, <4>1 DEF Alone
      <4> QED
        BY <1>2, <3>1, <4>2, OthersSpareHome
    <3>2. CASE ~Select(q)
      <4>1. sessions' = sessions
        BY <2>4, <3>2 DEF RequestStep, Begin, Load, Bench, Touch, Park, ClaimLease, ClaimTaken,
                          ClaimLost, RefreshSucceeds, RefreshFails, Conclude
      <4> QED
        BY <4>1
    <3> QED
      BY <3>1, <3>2
  <2>5. CASE \E q \in Requests \ {r} : Begin(q) \/ RequestStep(q)
    BY <1>2, <2>1, <2>3, <2>4, <2>5, OneRequestMoves
  <2>6. CASE Tick \/ \E k \in Keys : OtherStep(k)
    <3>1. phase' = phase /\ req' = req /\ sessions' = sessions
      BY <2>6 DEF Tick, OtherStep, PeerClaims, PeerRefreshes, RateLimited, Toggle, Remove, Login, Meddle
    <3> QED
      BY <2>1, <2>3, <3>1
  <2>7. CASE Begin(r) \/ RequestStep(r)
    <3>0. phase \in [Requests -> Phases]
      BY <1>2 DEF Typed, RequestTypeOK
    <3>1. CASE Load(r)
      <4>1. sessions' = sessions /\ phase'[r] \in {"failed", "select", "bench"}
        BY <3>0, <3>1 DEF Load, FailWith, End, Goto
      <4> QED
        BY <1>2, <2>1, <2>3, <4>1 DEF Running, Ended
    <3>2. CASE Bench(r)
      BY <2>1, <2>3, <3>0, <3>2 DEF Bench, Goto
    <3>3. CASE Select(r)
      BY <1>2, <2>1, <2>2, <2>3, <3>3, HomeIsSelected DEF Running, Ended
    <3>4. CASE Touch(r)
      <4>1. phase'[r] = "done"
        BY <3>0, <3>4 DEF Touch, End, Goto
      <4> QED
        BY <1>2, <4>1 DEF Running, Ended
    <3> QED
      BY <2>3, <2>7, <3>1, <3>2, <3>3, <3>4
         DEF RequestStep, Begin, Park, ClaimLease, ClaimTaken, ClaimLost, RefreshSucceeds, RefreshFails, Conclude
  <2> QED
    BY <2>5, <2>6, <2>7 DEF Next
<1> QED
  BY <1>3, <1>4

\* While the session map has room for every session and the strategy goes by
\* sessions, a request of a session that has an account, alone in its session, gets
\* that account if it stays usable, whatever every other request, process and user
\* does to the records and to the session map.
THEOREM SessionsKeepTheirAccount ==
    ASSUME Roomy
    PROVE  Spec => SessionKeepsAccount
<1> DEFINE Reach == \A r \in Requests : Reachable(r)
           Homes == \A r \in Requests : HomeKept(r)
           Got == \A r \in Requests : Ends(r, "done") /\ homed[r] \in usable[r] => req'[r].key = homed[r]
<1>1. Init => Homes
  BY DEF Init, HomeKept
<1>2. TypeOK /\ TypeOK' /\ Reach /\ Homes /\ [Next]_vars => Homes'
  <2>1. TypeOK /\ TypeOK' /\ Reach /\ Homes /\ Next => Homes'
    BY StepKeepsHome
  <2>2. Homes /\ UNCHANGED vars => Homes'
    BY DEF vars, HomeKept, Alone, Running
  <2> QED
    BY <2>1, <2>2
<1>3. TypeOK /\ Reach /\ Homes /\ [Next]_vars => [Got]_vars
  <2> SUFFICES ASSUME TypeOK, Reach, Homes, Next, NEW r \in Requests, Ends(r, "done"), homed[r] \in usable[r]
               PROVE  req'[r].key = homed[r]
    OBVIOUS
  <2>1. phase[r] \in {"load", "bench", "select", "touch"} /\ (phase[r] = "touch" => req[r].key = homed[r])
    BY DEF HomeKept
  <2>2. /\ Typed /\ phase \in [Requests -> Phases] /\ req \in [Requests -> Req]
    BY DEF TypeOK, Typed, RequestTypeOK
  <2>3. Begin(r) \/ RequestStep(r)
    <3>1. ~\E q \in Requests \ {r} : Begin(q) \/ RequestStep(q)
      BY <2>2, OneRequestMoves DEF Ends
    <3>2. ~(Tick \/ \E k \in Keys : OtherStep(k))
      BY DEF Ends, Tick, OtherStep, PeerClaims, PeerRefreshes, RateLimited, Toggle, Remove, Login, Meddle
    <3> QED
      BY <3>1, <3>2 DEF Next
  <2>4. CASE Select(r)
    BY <2>2, <2>4, HomeIsSelected
  <2>5. CASE Touch(r)
    <3>1. req'[r].key = req[r].key
      BY <2>2, <2>5 DEF Touch, End, NoReq
    <3> QED
      BY <2>1, <2>5, <3>1 DEF Touch
  <2>6. ~Load(r) /\ ~Bench(r)
    BY <2>2 DEF Load, Bench, FailWith, End, Goto, Ends
  <2> QED
    BY <2>1, <2>3, <2>4, <2>5, <2>6
       DEF RequestStep, Begin, Park, ClaimLease, ClaimTaken, ClaimLost, RefreshSucceeds, RefreshFails, Conclude
<1>4. Spec => []Reach
  BY AlwaysReachable
<1> HIDE DEF Reach, Homes
<1> QED
  BY <1>1, <1>2, <1>3, <1>4, TypeCorrect, PTL DEF Spec, SessionKeepsAccount
=============================================================================
