---------------------------- MODULE ProcessProofs ----------------------------
(***************************************************************************)
(* The parts that keep their state in the memory of one process, for any   *)
(* sessions, logins, invocations and configuration files.  For each part   *)
(* in turn: its inductive invariant, one lemma per action, its theorems;   *)
(* at the end the invariant of the process as a whole.                     *)
(***************************************************************************)
EXTENDS MCProcess, TLAPS

(***************************************************************************)
(* Agents: no turn is told a role that its session no longer has, and what *)
(* is cached is owed to a lookup that still counts.                        *)
(***************************************************************************)

\* A lookup in use began in a generation its session has had, and its answer is
\* the session's lineage as long as that generation lasts.
LookupSound(l) ==
  lookup[l].state # "unused" =>
    /\ lookup[l].generation <= generations[lookup[l].session]
    /\ lookup[l].state # "open" /\ lookup[l].role # None
         /\ generations[lookup[l].session] = lookup[l].generation
       => lookup[l].role = lineage[lookup[l].session]

\* What is pending for a session, or awaited by a turn, is a lookup of that
\* session; the pending one began in its present generation.
PendingSound(s) ==
  pending[s] # None =>
    /\ lookup[pending[s]].state # "unused" /\ lookup[pending[s]].session = s
    /\ lookup[pending[s]].generation = generations[s]

TurnSound(t) ==
  turn[t].state = "waiting" =>
    /\ turn[t].lookup # None
    /\ lookup[turn[t].lookup].state # "unused"
    /\ lookup[turn[t].lookup].session = turn[t].session
    /\ lookup[turn[t].lookup].generation = turn[t].generation

\* A cached role is the session's lineage.
RoleSound(s) == roles[s] # None => roles[s] = lineage[s]

AgentInv ==
  /\ AgentTypeOK
  /\ \A l \in Lookups : LookupSound(l)
  /\ \A s \in Sessions : PendingSound(s) /\ RoleSound(s)
  /\ \A t \in Turns : TurnSound(t)

-----------------------------------------------------------------------------
(* What a step does to the records.                                        *)

\* An answer changes one turn, which waits no longer.
LEMMA AnswerIs ==
  ASSUME AgentTypeOK, NEW t \in Turns, NEW agent \in Agents, NEW s \in Sessions,
         NEW role \in Lineage \union {"auxiliary", None}, NEW known \in BOOLEAN,
         Answer(t, agent, s, role, known)
  PROVE  /\ turn' \in [Turns -> TurnState]
         /\ \A u \in Turns \ {t} : turn'[u] = turn[u]
         /\ turn'[t].state = "done" /\ turn'[t].role = role /\ turn'[t].known = known
         /\ turn'[t].session = s
<1> DEFINE new == TurnOf("done", agent, s, 0, None, role, known)
<1>1. new \in TurnState
  BY AgentConstants DEF TurnState, TurnOf
<1>2. new.state = "done" /\ new.role = role /\ new.known = known /\ new.session = s
  BY DEF TurnOf
<1>3. turn' = [turn EXCEPT ![t] = new] /\ turn \in [Turns -> TurnState]
  BY DEF Answer, AgentTypeOK
<1> HIDE DEF new
<1> QED BY <1>1, <1>2, <1>3

\* A turn that starts to wait remembers its lookup and the generation.
LEMMA WaitIs ==
  ASSUME AgentTypeOK, NEW t \in Turns, NEW agent \in Agents, NEW s \in Sessions,
         NEW l \in Lookups,
         Await(t, agent, s, l)
  PROVE  /\ turn' \in [Turns -> TurnState]
         /\ \A u \in Turns \ {t} : turn'[u] = turn[u]
         /\ turn'[t].state = "waiting" /\ turn'[t].lookup = l /\ turn'[t].session = s
         /\ turn'[t].generation = generations[s]
<1> DEFINE new == TurnOf("waiting", agent, s, generations[s], l, None, FALSE)
<1>1. new \in TurnState
  BY DEF TurnState, TurnOf, AgentTypeOK
<1>2. /\ new.state = "waiting" /\ new.lookup = l /\ new.session = s
      /\ new.generation = generations[s]
  BY DEF TurnOf
<1>3. turn' = [turn EXCEPT ![t] = new] /\ turn \in [Turns -> TurnState]
  BY DEF Await, AgentTypeOK
<1> HIDE DEF new
<1> QED BY <1>1, <1>2, <1>3

\* A step on a lookup changes that one.
LEMMA LookupIs ==
  ASSUME AgentTypeOK, NEW l \in Lookups, NEW s \in Sessions, NEW g \in 0 .. MaxDeleted,
         NEW state \in {"open", "answered"}, NEW role \in Lineage \union {None},
         lookup' = [lookup EXCEPT ![l] = LookupOf(s, g, state, role)]
  PROVE  /\ lookup' \in [Lookups -> LookupState]
         /\ \A k \in Lookups \ {l} : lookup'[k] = lookup[k]
         /\ lookup'[l].state = state /\ lookup'[l].role = role
         /\ lookup'[l].session = s /\ lookup'[l].generation = g
<1> DEFINE new == LookupOf(s, g, state, role)
<1>1. new \in LookupState
  BY DEF LookupState, LookupOf
<1>2. new.state = state /\ new.role = role /\ new.session = s /\ new.generation = g
  BY DEF LookupOf
<1>3. lookup' = [lookup EXCEPT ![l] = new] /\ lookup \in [Lookups -> LookupState]
  BY DEF AgentTypeOK
<1> HIDE DEF new
<1> QED BY <1>1, <1>2, <1>3

-----------------------------------------------------------------------------
(* What is sound stays so when what it speaks of does not change.          *)

LEMMA LookupKeeps ==
  ASSUME NEW l \in Lookups, LookupSound(l), lookup'[l] = lookup[l],
         UNCHANGED <<generations, lineage>>
  PROVE  LookupSound(l)'
BY DEF LookupSound

LEMMA PendingKeeps ==
  ASSUME NEW s \in Sessions, PendingSound(s), pending'[s] = pending[s],
         generations'[s] = generations[s],
         pending[s] # None =>
           /\ lookup[pending[s]].state # "unused" => lookup'[pending[s]].state # "unused"
           /\ lookup'[pending[s]].session = lookup[pending[s]].session
           /\ lookup'[pending[s]].generation = lookup[pending[s]].generation
  PROVE  PendingSound(s)'
BY DEF PendingSound

LEMMA TurnKeeps ==
  ASSUME NEW t \in Turns, TurnSound(t), turn'[t] = turn[t],
         turn[t].state = "waiting" =>
           /\ lookup[turn[t].lookup].state # "unused" => lookup'[turn[t].lookup].state # "unused"
           /\ lookup'[turn[t].lookup].session = lookup[turn[t].lookup].session
           /\ lookup'[turn[t].lookup].generation = lookup[turn[t].lookup].generation
  PROVE  TurnSound(t)'
BY DEF TurnSound

-----------------------------------------------------------------------------
(* One lemma per action.                                                   *)

LEMMA AgentStarts == AgentInit => AgentInv
<1> SUFFICES ASSUME AgentInit PROVE AgentInv
  OBVIOUS
<1>1. AnySession \in Sessions /\ 0 \in 0 .. MaxDeleted
  BY AgentConstants DEF AnySession
<1>2. LookupOf(AnySession, 0, "unused", None) \in LookupState
  BY <1>1 DEF LookupOf, LookupState
<1>3. TurnOf("idle", "other", AnySession, 0, None, None, FALSE) \in TurnState
  BY <1>1 DEF TurnOf, TurnState, Agents
<1>4. AgentTypeOK
  BY <1>1, <1>2, <1>3 DEF AgentInit, AgentTypeOK
<1>5. \A l \in Lookups : LookupSound(l)
  BY DEF AgentInit, LookupOf, LookupSound
<1>6. \A t \in Turns : TurnSound(t)
  BY DEF AgentInit, TurnOf, TurnSound
<1>7. \A s \in Sessions : PendingSound(s) /\ RoleSound(s)
  BY DEF AgentInit, PendingSound, RoleSound
<1> QED BY <1>4, <1>5, <1>6, <1>7 DEF AgentInv

\* An answer leaves everything but the turn alone.
LEMMA AnswerKeeps ==
  ASSUME AgentInv, NEW t \in Turns, NEW agent \in Agents, NEW s \in Sessions,
         NEW role \in Lineage \union {"auxiliary", None}, NEW known \in BOOLEAN,
         Answer(t, agent, s, role, known),
         UNCHANGED <<lineage, roles, generations, pending, lookup, learnt>>
  PROVE  AgentInv'
<1>1. /\ turn' \in [Turns -> TurnState]
      /\ \A u \in Turns \ {t} : turn'[u] = turn[u]
      /\ turn'[t].state = "done"
  BY AnswerIs DEF AgentInv
<1>2. AgentTypeOK'
  BY <1>1 DEF AgentInv, AgentTypeOK
<1>3. \A l \in Lookups : LookupSound(l)'
  BY LookupKeeps DEF AgentInv
<1>4. \A x \in Sessions : PendingSound(x)' /\ RoleSound(x)'
  BY PendingKeeps DEF AgentInv, RoleSound
<1>5. ASSUME NEW u \in Turns PROVE TurnSound(u)'
  <2>1. CASE u = t
    BY <1>1, <2>1 DEF TurnSound
  <2>2. CASE u # t
    BY <1>1, <2>2, TurnKeeps DEF AgentInv
  <2> QED BY <2>1, <2>2
<1> QED BY <1>2, <1>3, <1>4, <1>5 DEF AgentInv

LEMMA ResolveAtOnceKeeps ==
  ASSUME AgentInv, NEW t \in Turns, NEW agent \in Agents, NEW s \in Sessions,
         ResolveAtOnce(t, agent, s)
  PROVE  AgentInv'
<1>1. roles[s] \in Lineage \union {"auxiliary", None}
  BY DEF AgentInv, AgentTypeOK
<1> QED BY <1>1, AnswerKeeps DEF ResolveAtOnce

LEMMA ResolveByLookupKeeps ==
  ASSUME AgentInv, NEW t \in Turns, NEW agent \in Agents, NEW s \in Sessions,
         ResolveByLookup(t, agent, s)
  PROVE  AgentInv'
<1>1. PICK l \in Lookups :
        /\ IF pending[s] # None
           THEN l = pending[s] /\ UNCHANGED lookup
           ELSE /\ lookup[l].state = "unused"
                /\ lookup' = [lookup EXCEPT ![l] = LookupOf(s, generations[s], "open", None)]
        /\ pending' = [pending EXCEPT ![s] = l]
        /\ Await(t, agent, s, l)
  BY Zenon DEF ResolveByLookup
<1>2. /\ turn' \in [Turns -> TurnState]
      /\ \A u \in Turns \ {t} : turn'[u] = turn[u]
      /\ turn'[t].state = "waiting" /\ turn'[t].lookup = l /\ turn'[t].session = s
      /\ turn'[t].generation = generations[s]
  <2>1. AgentTypeOK
    BY DEF AgentInv
  <2>2. Await(t, agent, s, l)
    BY <1>1
  <2>3. l \in Lookups
    BY <1>1
  <2> QED BY <2>1, <2>2, <2>3, WaitIs
<1>3. UNCHANGED <<lineage, roles, generations, learnt>>
  BY DEF ResolveByLookup
<1>4. generations[s] \in 0 .. MaxDeleted /\ lookup \in [Lookups -> LookupState]
  BY DEF AgentInv, AgentTypeOK
<1>5. /\ lookup' \in [Lookups -> LookupState]
      /\ \A k \in Lookups : lookup'[k] = lookup[k] \/ (k = l /\ lookup[l].state = "unused")
      /\ lookup'[l].state # "unused" /\ lookup'[l].session = s
      /\ lookup'[l].generation = generations[s]
      /\ LookupSound(l)'
  <2>1. CASE pending[s] # None
    <3>1. lookup' = lookup /\ l = pending[s]
      BY <1>1, <2>1
    <3>2. LookupSound(l)'
      BY <1>3, <3>1, LookupKeeps DEF AgentInv
    <3>3. PendingSound(s)
      BY DEF AgentInv
    <3> QED BY <1>4, <2>1, <3>1, <3>2, <3>3 DEF PendingSound
  <2>2. CASE pending[s] = None
    <3>1. /\ lookup[l].state = "unused"
          /\ lookup' = [lookup EXCEPT ![l] = LookupOf(s, generations[s], "open", None)]
      BY <1>1, <2>2
    <3>2. /\ lookup' \in [Lookups -> LookupState]
          /\ \A k \in Lookups \ {l} : lookup'[k] = lookup[k]
          /\ lookup'[l].state = "open"
          /\ lookup'[l].session = s /\ lookup'[l].generation = generations[s]
      BY <1>4, <3>1, LookupIs DEF AgentInv
    <3>3. LookupSound(l)'
      BY <1>3, <1>4, <3>2 DEF LookupSound
    <3> QED BY <3>1, <3>2, <3>3
  <2> QED BY <2>1, <2>2
<1>6. AgentTypeOK'
  BY <1>1, <1>2, <1>3, <1>5 DEF AgentInv, AgentTypeOK
<1>7. ASSUME NEW k \in Lookups PROVE LookupSound(k)'
  <2>1. CASE k = l
    BY <1>5, <2>1
  <2>2. CASE k # l
    BY <1>3, <1>5, <2>2, LookupKeeps DEF AgentInv
  <2> QED BY <2>1, <2>2
<1>8. ASSUME NEW x \in Sessions PROVE PendingSound(x)'
  <2>1. pending \in [Sessions -> Lookups \union {None}]
    BY DEF AgentInv, AgentTypeOK
  <2>2. CASE x = s
    <3>1. pending'[x] = l
      BY <1>1, <2>1, <2>2
    <3> QED BY <1>3, <1>5, <2>2, <3>1 DEF PendingSound
  <2>3. CASE x # s
    <3>1. pending'[x] = pending[x] /\ PendingSound(x) /\ generations'[x] = generations[x]
      BY <1>1, <1>3, <2>1, <2>3 DEF AgentInv
    <3>2. pending[x] # None => lookup'[pending[x]] = lookup[pending[x]]
      BY <1>5, <2>1, <3>1 DEF PendingSound
    <3> QED BY <3>1, <3>2, PendingKeeps
  <2> QED BY <2>2, <2>3
<1>9. \A x \in Sessions : RoleSound(x)'
  BY <1>3 DEF AgentInv, RoleSound
<1>10. ASSUME NEW u \in Turns PROVE TurnSound(u)'
  <2>1. CASE u = t
    BY <1>2, <1>5, <2>1, AgentConstants DEF TurnSound
  <2>2. CASE u # t
    <3>1. turn'[u] = turn[u] /\ TurnSound(u) /\ turn[u] \in TurnState
      BY <1>2, <2>2 DEF AgentInv, AgentTypeOK
    <3>2. turn[u].state = "waiting" => lookup'[turn[u].lookup] = lookup[turn[u].lookup]
      BY <1>5, <3>1 DEF TurnSound, TurnState
    <3> QED BY <3>1, <3>2, TurnKeeps
  <2> QED BY <2>1, <2>2
<1> QED BY <1>6, <1>7, <1>8, <1>9, <1>10 DEF AgentInv

LEMMA LearnKeeps ==
  ASSUME AgentInv, NEW l \in Lookups, Learn(l)
  PROVE  AgentInv'
<1> DEFINE s == lookup[l].session
           g == lookup[l].generation
<1>1. PICK role \in {lineage[s], None} :
        /\ lookup' = [lookup EXCEPT ![l] = LookupOf(s, g, "answered", role)]
        /\ IF role # None /\ generations[s] = g
           THEN /\ roles' = [roles EXCEPT ![s] = role]
                /\ learnt' = [learnt EXCEPT ![s] = g]
           ELSE UNCHANGED <<roles, learnt>>
  BY DEF Learn, AgentInv, AgentTypeOK
<1>2. lookup[l].state = "open" /\ UNCHANGED <<lineage, generations, pending, turn>>
  BY DEF Learn
<1>3. /\ s \in Sessions /\ g \in 0 .. MaxDeleted /\ role \in Lineage \union {None}
      /\ lookup \in [Lookups -> LookupState]
  BY <1>1 DEF AgentInv, AgentTypeOK, LookupState
<1>4. LookupSound(l) /\ g <= generations[s]
  BY <1>2 DEF AgentInv, LookupSound
<1> HIDE DEF s, g
<1>5. /\ lookup' \in [Lookups -> LookupState]
      /\ \A k \in Lookups \ {l} : lookup'[k] = lookup[k]
      /\ lookup'[l].state = "answered" /\ lookup'[l].role = role
      /\ lookup'[l].session = s /\ lookup'[l].generation = g
  <2>1. AgentTypeOK
    BY DEF AgentInv
  <2>2. lookup' = [lookup EXCEPT ![l] = LookupOf(s, g, "answered", role)]
    BY <1>1
  <2> QED BY <1>3, <2>1, <2>2, LookupIs
<1>6. \A k \in Lookups : /\ lookup[k].state # "unused" => lookup'[k].state # "unused"
                         /\ lookup'[k].session = lookup[k].session
                         /\ lookup'[k].generation = lookup[k].generation
  BY <1>5 DEF s, g
<1>7. roles' = roles \/ (role # None /\ roles' = [roles EXCEPT ![s] = role])
  BY <1>1
<1>8. learnt' = learnt \/ learnt' = [learnt EXCEPT ![s] = g]
  BY <1>1
<1>9. AgentTypeOK'
  <2>1. roles' \in [Sessions -> Lineage \union {None}]
    BY <1>3, <1>7 DEF AgentInv, AgentTypeOK
  <2>2. learnt' \in [Sessions -> 0 .. MaxDeleted]
    BY <1>3, <1>8 DEF AgentInv, AgentTypeOK
  <2> QED BY <1>2, <1>5, <2>1, <2>2 DEF AgentInv, AgentTypeOK
<1>10. ASSUME NEW k \in Lookups PROVE LookupSound(k)'
  <2>1. CASE k = l
    BY <1>1, <1>2, <1>4, <1>5, <2>1 DEF LookupSound
  <2>2. CASE k # l
    BY <1>2, <1>5, <2>2, LookupKeeps DEF AgentInv
  <2> QED BY <2>1, <2>2
<1>11. ASSUME NEW x \in Sessions PROVE PendingSound(x)'
  <2>1. PendingSound(x) /\ (pending[x] # None => pending[x] \in Lookups)
    BY DEF AgentInv, AgentTypeOK
  <2> QED BY <1>2, <1>6, <2>1, PendingKeeps
<1>12. ASSUME NEW x \in Sessions PROVE RoleSound(x)'
  <2>1. roles'[x] = roles[x] \/ (x = s /\ roles'[x] = role /\ role # None)
    BY <1>3, <1>7 DEF AgentInv, AgentTypeOK
  <2> QED BY <1>1, <1>2, <2>1 DEF AgentInv, RoleSound
<1>13. ASSUME NEW u \in Turns PROVE TurnSound(u)'
  <2>1. TurnSound(u) /\ turn[u] \in TurnState
    BY DEF AgentInv, AgentTypeOK
  <2>2. turn[u].state = "waiting" => turn[u].lookup \in Lookups
    BY <2>1 DEF TurnSound, TurnState
  <2> QED BY <1>2, <1>6, <2>1, <2>2, TurnKeeps
<1> QED BY <1>9, <1>10, <1>11, <1>12, <1>13 DEF AgentInv

LEMMA CloseLookupKeeps ==
  ASSUME AgentInv, NEW l \in Lookups, CloseLookup(l)
  PROVE  AgentInv'
<1>1. /\ lookup[l].state = "answered" /\ lookup' = [lookup EXCEPT ![l].state = "closed"]
      /\ UNCHANGED <<lineage, roles, generations, turn, learnt>>
  BY DEF CloseLookup
<1>2. lookup \in [Lookups -> LookupState]
  BY DEF AgentInv, AgentTypeOK
<1>3. /\ lookup' \in [Lookups -> LookupState]
      /\ \A k \in Lookups : /\ lookup'[k].session = lookup[k].session
                            /\ lookup'[k].generation = lookup[k].generation
                            /\ lookup'[k].role = lookup[k].role
      /\ \A k \in Lookups \ {l} : lookup'[k] = lookup[k]
      /\ lookup'[l].state = "closed"
  BY <1>1, <1>2 DEF LookupState
<1>4. \A k \in Lookups : lookup[k].state # "unused" => lookup'[k].state # "unused"
  BY <1>3
<1>5. /\ pending' \in [Sessions -> Lookups \union {None}]
      /\ \A x \in Sessions : pending'[x] = pending[x] \/ pending'[x] = None
  BY DEF CloseLookup, AgentInv, AgentTypeOK
<1>6. AgentTypeOK'
  BY <1>1, <1>3, <1>5 DEF AgentInv, AgentTypeOK
<1>7. ASSUME NEW k \in Lookups PROVE LookupSound(k)'
  <2>1. LookupSound(k)
    BY DEF AgentInv
  <2> QED BY <1>1, <1>3, <2>1 DEF LookupSound
<1>8. ASSUME NEW x \in Sessions PROVE PendingSound(x)'
  <2>1. CASE pending'[x] = None
    BY <2>1 DEF PendingSound
  <2>2. CASE pending'[x] = pending[x]
    <3>1. PendingSound(x) /\ (pending[x] # None => pending[x] \in Lookups)
      BY DEF AgentInv, AgentTypeOK
    <3> QED BY <1>1, <1>3, <1>4, <2>2, <3>1, PendingKeeps
  <2> QED BY <1>5, <2>1, <2>2
<1>9. \A x \in Sessions : RoleSound(x)'
  BY <1>1 DEF AgentInv, RoleSound
<1>10. ASSUME NEW u \in Turns PROVE TurnSound(u)'
  <2>1. TurnSound(u) /\ turn[u] \in TurnState
    BY DEF AgentInv, AgentTypeOK
  <2>2. turn[u].state = "waiting" => turn[u].lookup \in Lookups
    BY <2>1 DEF TurnSound, TurnState
  <2> QED BY <1>1, <1>3, <1>4, <2>1, <2>2, TurnKeeps
<1> QED BY <1>6, <1>7, <1>8, <1>9, <1>10 DEF AgentInv

LEMMA DeleteSessionKeeps ==
  ASSUME AgentInv, NEW s \in Sessions, DeleteSession(s)
  PROVE  AgentInv'
<1>1. /\ generations \in [Sessions -> 0 .. MaxDeleted] /\ generations[s] < MaxDeleted
      /\ generations' = [generations EXCEPT ![s] = @ + 1]
      /\ roles' = [roles EXCEPT ![s] = None] /\ pending' = [pending EXCEPT ![s] = None]
      /\ \E role \in Lineage : lineage' = [lineage EXCEPT ![s] = role]
      /\ UNCHANGED <<lookup, turn, learnt>>
  BY DEF DeleteSession, AgentInv, AgentTypeOK
<1>2. /\ generations' \in [Sessions -> 0 .. MaxDeleted] /\ generations'[s] = generations[s] + 1
      /\ \A x \in Sessions \ {s} : generations'[x] = generations[x]
  BY <1>1, AgentConstants
<1>3. /\ roles' \in [Sessions -> Lineage \union {None}] /\ roles'[s] = None
      /\ \A x \in Sessions \ {s} : roles'[x] = roles[x]
  BY <1>1 DEF AgentInv, AgentTypeOK
<1>4. /\ pending' \in [Sessions -> Lookups \union {None}] /\ pending'[s] = None
      /\ \A x \in Sessions \ {s} : pending'[x] = pending[x]
  BY <1>1 DEF AgentInv, AgentTypeOK
<1>5. /\ lineage' \in [Sessions -> Lineage]
      /\ \A x \in Sessions \ {s} : lineage'[x] = lineage[x]
  BY <1>1 DEF AgentInv, AgentTypeOK
<1>6. AgentTypeOK'
  BY <1>1, <1>2, <1>3, <1>4, <1>5 DEF AgentInv, AgentTypeOK
<1>7. ASSUME NEW k \in Lookups PROVE LookupSound(k)'
  <2>1. /\ lookup[k].session \in Sessions /\ lookup[k].generation \in 0 .. MaxDeleted
        /\ LookupSound(k) /\ lookup' = lookup
    BY <1>1 DEF AgentInv, AgentTypeOK, LookupState
  <2>2. CASE lookup[k].session = s
    BY <1>1, <1>2, <2>1, <2>2, AgentConstants DEF LookupSound
  <2>3. CASE lookup[k].session # s
    BY <1>2, <1>5, <2>1, <2>3 DEF LookupSound
  <2> QED BY <2>2, <2>3
<1>8. ASSUME NEW x \in Sessions PROVE PendingSound(x)' /\ RoleSound(x)'
  <2>1. CASE x = s
    BY <1>3, <1>4, <2>1 DEF PendingSound, RoleSound
  <2>2. CASE x # s
    BY <1>1, <1>2, <1>3, <1>4, <1>5, <2>2 DEF AgentInv, PendingSound, RoleSound
  <2> QED BY <2>1, <2>2
<1>9. \A u \in Turns : TurnSound(u)'
  BY <1>1, TurnKeeps DEF AgentInv
<1> QED BY <1>6, <1>7, <1>8, <1>9 DEF AgentInv

\* A waiting turn goes on with an answer of one of three kinds; a role counts as
\* known only when it is the session's lineage.
LEMMA ResolveAnswers ==
  ASSUME AgentInv, NEW t \in Turns, Resolve(t)
  PROVE  \E role \in Lineage \union {"auxiliary", None}, known \in BOOLEAN :
           /\ Answer(t, turn[t].agent, turn[t].session, role, known)
           /\ known => role = lineage[turn[t].session]
<1> DEFINE now == turn[t]
           role == lookup[now.lookup].role
<1>1. now.state = "waiting" /\ lookup[now.lookup].state \in {"answered", "closed"}
  BY DEF Resolve
<1>2. turn[t] \in TurnState /\ TurnSound(t)
  BY DEF AgentInv, AgentTypeOK
<1>3. now.lookup \in Lookups
  BY <1>1, <1>2 DEF TurnSound, TurnState
<1>4. LookupSound(now.lookup) /\ lookup[now.lookup] \in LookupState
  BY <1>3 DEF AgentInv, AgentTypeOK
<1>5. role \in Lineage \union {None}
  BY <1>4 DEF LookupState
<1>6. CASE generations[now.session] # now.generation
  <2>1. Answer(t, turn[t].agent, turn[t].session, "child", FALSE)
    BY <1>6 DEF Resolve
  <2> QED BY <2>1 DEF Lineage
<1>7. CASE generations[now.session] = now.generation /\ role # None
  <2>1. Answer(t, turn[t].agent, turn[t].session, role, TRUE)
    BY <1>7 DEF Resolve
  <2>2. role = lineage[now.session]
    BY <1>1, <1>2, <1>4, <1>7 DEF TurnSound, LookupSound
  <2> QED BY <1>5, <2>1, <2>2
<1>8. CASE generations[now.session] = now.generation /\ role = None
  <2>1. Answer(t, turn[t].agent, turn[t].session, Fallback(now.agent), FALSE)
    BY <1>8 DEF Resolve
  <2>2. Fallback(now.agent) \in Lineage \union {"auxiliary", None}
    BY <1>2 DEF Fallback, Lineage, TurnState, Agents
  <2> QED BY <2>1, <2>2
<1> QED BY <1>6, <1>7, <1>8

LEMMA ResolveKeeps ==
  ASSUME AgentInv, NEW t \in Turns, Resolve(t)
  PROVE  AgentInv'
<1>1. turn[t].agent \in Agents /\ turn[t].session \in Sessions
  BY DEF AgentInv, AgentTypeOK, TurnState
<1>2. UNCHANGED <<lineage, roles, generations, pending, lookup, learnt>>
  BY DEF Resolve
<1> QED BY <1>1, <1>2, ResolveAnswers, AnswerKeeps

-----------------------------------------------------------------------------
(* The specification.                                                      *)

LEMMA AgentKeeps == AgentInv /\ [AgentNext]_agentVars => AgentInv'
<1> SUFFICES ASSUME AgentInv, [AgentNext]_agentVars PROVE AgentInv'
  OBVIOUS
<1>1. ASSUME NEW t \in Turns, NEW agent \in Agents, NEW s \in Sessions,
             ResolveAtOnce(t, agent, s) \/ ResolveByLookup(t, agent, s)
      PROVE  AgentInv'
  BY <1>1, ResolveAtOnceKeeps, ResolveByLookupKeeps
<1>2. ASSUME NEW t \in Turns, Resolve(t) PROVE AgentInv'
  BY <1>2, ResolveKeeps
<1>3. ASSUME NEW l \in Lookups, Learn(l) \/ CloseLookup(l) PROVE AgentInv'
  BY <1>3, LearnKeeps, CloseLookupKeeps
<1>4. ASSUME NEW s \in Sessions, DeleteSession(s) PROVE AgentInv'
  BY <1>4, DeleteSessionKeeps
<1>5. CASE UNCHANGED agentVars
  BY <1>5 DEF agentVars, AgentInv, AgentTypeOK, LookupSound, PendingSound, RoleSound, TurnSound
<1> QED BY <1>1, <1>2, <1>3, <1>4, <1>5 DEF AgentNext

LEMMA AgentAlways == AgentSpec => []AgentInv
BY AgentStarts, AgentKeeps, PTL DEF AgentSpec

\* What NoStaleRole asks of a step.
ToldIsTrue ==
  \A t \in Turns :
    turn[t].state # "done" /\ turn'[t].state = "done" /\ turn'[t].known =>
      turn'[t].role = lineage[turn'[t].session]

\* Whatever a step answers, a role that counts as known is the session's.
LEMMA AnswerIsTrue ==
  ASSUME AgentInv, NEW t \in Turns, NEW agent \in Agents, NEW s \in Sessions,
         NEW role \in Lineage \union {"auxiliary", None}, NEW known \in BOOLEAN,
         Answer(t, agent, s, role, known), known => role = lineage[s]
  PROVE  ToldIsTrue
<1>1. /\ \A u \in Turns \ {t} : turn'[u] = turn[u]
      /\ turn'[t].role = role /\ turn'[t].known = known /\ turn'[t].session = s
  BY AnswerIs DEF AgentInv
<1> QED BY <1>1 DEF ToldIsTrue

LEMMA StepTellsTheTruth == AgentInv /\ [AgentNext]_agentVars => ToldIsTrue
<1> SUFFICES ASSUME AgentInv, [AgentNext]_agentVars PROVE ToldIsTrue
  OBVIOUS
<1>1. ASSUME NEW t \in Turns, NEW agent \in Agents, NEW s \in Sessions,
             ResolveAtOnce(t, agent, s)
      PROVE  ToldIsTrue
  <2>1. roles[s] \in Lineage \union {"auxiliary", None} /\ RoleSound(s)
    BY DEF AgentInv, AgentTypeOK
  <2>2. CASE Answer(t, agent, s, "auxiliary", FALSE)
    BY <2>2, AnswerIsTrue
  <2>3. CASE roles[s] # None /\ Answer(t, agent, s, roles[s], TRUE)
    BY <2>1, <2>3, AnswerIsTrue DEF RoleSound
  <2> QED BY <1>1, <2>2, <2>3 DEF ResolveAtOnce
<1>2. ASSUME NEW t \in Turns, NEW agent \in Agents, NEW s \in Sessions,
             ResolveByLookup(t, agent, s)
      PROVE  ToldIsTrue
  <2>1. PICK l \in Lookups : Await(t, agent, s, l)
    BY <1>2 DEF ResolveByLookup
  <2>2. AgentTypeOK
    BY DEF AgentInv
  <2>3. turn'[t].state = "waiting" /\ \A u \in Turns \ {t} : turn'[u] = turn[u]
    BY <2>1, <2>2, WaitIs
  <2> QED BY <2>3 DEF ToldIsTrue
<1>3. ASSUME NEW t \in Turns, Resolve(t) PROVE ToldIsTrue
  <2>1. turn[t].agent \in Agents /\ turn[t].session \in Sessions
    BY DEF AgentInv, AgentTypeOK, TurnState
  <2> QED BY <1>3, <2>1, ResolveAnswers, AnswerIsTrue
<1>4. ASSUME UNCHANGED turn PROVE ToldIsTrue
  BY <1>4 DEF ToldIsTrue
<1> QED BY <1>1, <1>2, <1>3, <1>4 DEF AgentNext, Learn, CloseLookup, DeleteSession, agentVars

\* A turn is told a session's role only if that is the session's role at that
\* moment, however deletions, lookups and turns interleave (agent-execution.ts).
THEOREM NoRoleIsStale == AgentSpec => NoStaleRole
<1>1. AgentInv /\ [AgentNext]_agentVars => [ToldIsTrue]_agentVars
  BY StepTellsTheTruth
<1>2. AgentSpec => [][ToldIsTrue]_agentVars
  BY <1>1, AgentAlways, PTL DEF AgentSpec
<1> QED BY <1>2 DEF NoStaleRole, ToldIsTrue

\* A lookup that is open in its session's present generation is the pending one.
OpenIsPending(l) ==
  lookup[l].state = "open" /\ lookup[l].generation = generations[lookup[l].session] =>
    pending[lookup[l].session] = l

RolesInv == AgentInv /\ RolesAreProven /\ \A l \in Lookups : OpenIsPending(l)

LEMMA RolesStart == AgentInit => RolesInv
<1> SUFFICES ASSUME AgentInit PROVE RolesInv
  OBVIOUS
<1>1. \A l \in Lookups : lookup[l].state = "unused"
  BY DEF AgentInit, LookupOf
<1>2. \A t \in Turns : turn[t].role = None
  BY DEF AgentInit, TurnOf
<1>3. CacheIsCurrent /\ RootIsProven
  BY <1>2, AgentConstants DEF AgentInit, CacheIsCurrent, RootIsProven
<1>4. LookupIsShared /\ \A l \in Lookups : OpenIsPending(l)
  BY <1>1 DEF LookupIsShared, OpenIsPending
<1> QED BY <1>3, <1>4, AgentStarts DEF RolesInv, RolesAreProven

\* Once a role is given, it is given: an answer proves it or the agent is primary.
LEMMA AnswerIsProven ==
  ASSUME RolesInv, NEW t \in Turns, NEW agent \in Agents, NEW s \in Sessions,
         NEW role \in Lineage \union {"auxiliary", None}, NEW known \in BOOLEAN,
         Answer(t, agent, s, role, known), role = "root" => known \/ agent = "primary"
  PROVE  RootIsProven'
<1> DEFINE new == TurnOf("done", agent, s, 0, None, role, known)
<1>1. new.role = role /\ new.known = known /\ new.agent = agent
  BY DEF TurnOf
<1>2. turn' = [turn EXCEPT ![t] = new] /\ DOMAIN turn = Turns
  BY DEF Answer, RolesInv, AgentInv, AgentTypeOK
<1> HIDE DEF new
<1> QED BY <1>1, <1>2 DEF RolesInv, RolesAreProven, RootIsProven

\* What the roles and lookups say stays so when a step changes only turns.
LEMMA TurnsApart ==
  ASSUME RolesInv, UNCHANGED <<roles, generations, pending, lookup, learnt>>, RootIsProven'
  PROVE  RolesAreProven' /\ \A l \in Lookups : OpenIsPending(l)'
BY DEF RolesInv, RolesAreProven, CacheIsCurrent, LookupIsShared, OpenIsPending

LEMMA ResolveAtOnceProves ==
  ASSUME RolesInv, NEW t \in Turns, NEW agent \in Agents, NEW s \in Sessions,
         ResolveAtOnce(t, agent, s)
  PROVE  RootIsProven'
<1>1. roles[s] \in Lineage \union {None}
  BY DEF RolesInv, AgentInv, AgentTypeOK
<1>2. CASE Answer(t, agent, s, "auxiliary", FALSE)
  BY <1>2, AnswerIsProven
<1>3. CASE roles[s] # None /\ Answer(t, agent, s, roles[s], TRUE)
  BY <1>1, <1>3, AnswerIsProven
<1> QED BY <1>2, <1>3 DEF ResolveAtOnce

LEMMA ResolveProves ==
  ASSUME RolesInv, NEW t \in Turns, Resolve(t)
  PROVE  RootIsProven'
<1> DEFINE now == turn[t]
           role == lookup[now.lookup].role
<1>1. now.state = "waiting" /\ now \in TurnState /\ now.lookup \in Lookups
  BY DEF Resolve, RolesInv, AgentInv, AgentTypeOK, TurnSound, TurnState
<1>2. role \in Lineage \union {None} /\ now.agent \in Agents /\ now.session \in Sessions
  <2>1. now.agent \in Agents /\ now.session \in Sessions
    BY <1>1 DEF TurnState
  <2>2. lookup[now.lookup] \in LookupState
    BY <1>1 DEF RolesInv, AgentInv, AgentTypeOK
  <2>3. role \in Lineage \union {None}
    BY <2>2 DEF LookupState
  <2> QED BY <2>1, <2>3
<1>3. CASE Answer(t, now.agent, now.session, "child", FALSE)
  <2>1. "child" \in Lineage \union {"auxiliary", None} /\ FALSE \in BOOLEAN
    BY DEF Lineage
  <2> HIDE DEF now
  <2> QED BY <1>2, <1>3, <2>1, AnswerIsProven
<1>4. CASE Answer(t, now.agent, now.session, role, TRUE)
  BY <1>2, <1>4, AnswerIsProven
<1>5. CASE Answer(t, now.agent, now.session, Fallback(now.agent), FALSE)
  <2>1. /\ Fallback(now.agent) \in Lineage \union {"auxiliary", None}
        /\ Fallback(now.agent) = "root" => now.agent = "primary"
    BY <1>2 DEF Fallback, Lineage, Agents
  <2> HIDE DEF now
  <2> QED BY <1>2, <1>5, <2>1, AnswerIsProven
<1> QED BY <1>3, <1>4, <1>5 DEF Resolve

LEMMA ResolveByLookupProves ==
  ASSUME RolesInv, NEW t \in Turns, NEW agent \in Agents, NEW s \in Sessions,
         ResolveByLookup(t, agent, s)
  PROVE  RolesAreProven' /\ \A l \in Lookups : OpenIsPending(l)'
<1>1. PICK l \in Lookups :
        /\ IF pending[s] # None
           THEN l = pending[s] /\ UNCHANGED lookup
           ELSE /\ lookup[l].state = "unused"
                /\ lookup' = [lookup EXCEPT ![l] = LookupOf(s, generations[s], "open", None)]
        /\ pending' = [pending EXCEPT ![s] = l]
        /\ Await(t, agent, s, l)
  BY DEF ResolveByLookup
<1>2. UNCHANGED <<lineage, roles, generations, learnt>>
  BY DEF ResolveByLookup
<1>3. CacheIsCurrent'
  BY <1>2 DEF RolesInv, RolesAreProven, CacheIsCurrent
<1>4. RootIsProven'
  <2> DEFINE new == TurnOf("waiting", agent, s, generations[s], l, None, FALSE)
  <2>1. new.role = None
    BY DEF TurnOf
  <2>2. turn' = [turn EXCEPT ![t] = new] /\ DOMAIN turn = Turns
    BY <1>1 DEF Await, RolesInv, AgentInv, AgentTypeOK
  <2> HIDE DEF new
  <2> QED BY <2>1, <2>2, AgentConstants DEF RolesInv, RolesAreProven, RootIsProven
<1>5. CASE pending[s] # None
  <2>1. lookup' = lookup /\ pending' = pending
    BY <1>1, <1>5 DEF RolesInv, AgentInv, AgentTypeOK
  <2> QED
    BY <1>2, <1>3, <1>4, <2>1 DEF RolesInv, RolesAreProven, LookupIsShared, OpenIsPending
<1>6. CASE pending[s] = None
  <2>1. /\ \A k \in Lookups \ {l} : lookup'[k] = lookup[k]
        /\ lookup'[l].state = "open" /\ lookup'[l].session = s
        /\ lookup'[l].generation = generations[s]
    <3> DEFINE g == generations[s]
    <3>1. g \in 0 .. MaxDeleted
      BY DEF RolesInv, AgentInv, AgentTypeOK
    <3>2. AgentTypeOK /\ lookup' = [lookup EXCEPT ![l] = LookupOf(s, g, "open", None)]
      BY <1>1, <1>6 DEF RolesInv, AgentInv
    <3> HIDE DEF g
    <3>3. /\ lookup' \in [Lookups -> LookupState]
          /\ \A k \in Lookups \ {l} : lookup'[k] = lookup[k]
          /\ lookup'[l].state = "open" /\ lookup'[l].role = None
          /\ lookup'[l].session = s /\ lookup'[l].generation = g
      BY <3>1, <3>2, LookupIs
    <3> QED BY <3>3 DEF g
  <2>2. \A x \in Sessions : pending'[x] = IF x = s THEN l ELSE pending[x]
    BY <1>1 DEF RolesInv, AgentInv, AgentTypeOK
  <2>3. \A k \in Lookups : /\ OpenIsPending(k) /\ lookup[k].session \in Sessions
                           /\ ~(lookup[k].state = "open" /\ lookup[k].session = s
                                /\ lookup[k].generation = generations[s])
    BY <1>6, AgentConstants DEF RolesInv, AgentInv, AgentTypeOK, LookupState, OpenIsPending
  <2>4. LookupIsShared'
    BY <2>1, <2>3 DEF RolesInv, RolesAreProven, LookupIsShared
  <2>5. ASSUME NEW k \in Lookups PROVE OpenIsPending(k)'
    BY <1>2, <2>1, <2>2, <2>3 DEF OpenIsPending
  <2> QED BY <1>3, <1>4, <2>4, <2>5 DEF RolesAreProven
<1> QED BY <1>5, <1>6

LEMMA LearnProves ==
  ASSUME RolesInv, NEW l \in Lookups, Learn(l)
  PROVE  RolesAreProven' /\ \A k \in Lookups : OpenIsPending(k)'
<1> DEFINE s == lookup[l].session
           g == lookup[l].generation
<1>1. PICK role \in {lineage[s], None} :
        /\ lookup' = [lookup EXCEPT ![l] = LookupOf(s, g, "answered", role)]
        /\ IF role # None /\ generations[s] = g
           THEN /\ roles' = [roles EXCEPT ![s] = role]
                /\ learnt' = [learnt EXCEPT ![s] = g]
           ELSE UNCHANGED <<roles, learnt>>
  BY DEF Learn, RolesInv, AgentInv, AgentTypeOK
<1>2. UNCHANGED <<lineage, generations, pending, turn>>
  BY DEF Learn
<1>3. /\ s \in Sessions /\ g \in 0 .. MaxDeleted /\ role \in Lineage \union {None}
      /\ DOMAIN roles = Sessions /\ DOMAIN learnt = Sessions
  BY <1>1 DEF RolesInv, AgentInv, AgentTypeOK, LookupState
<1> HIDE DEF s, g
<1>4. /\ \A k \in Lookups \ {l} : lookup'[k] = lookup[k]
      /\ lookup'[l].state = "answered"
  <2>1. AgentTypeOK /\ lookup' = [lookup EXCEPT ![l] = LookupOf(s, g, "answered", role)]
    BY <1>1 DEF RolesInv, AgentInv
  <2> QED BY <1>3, <2>1, LookupIs
<1>5. CacheIsCurrent'
  BY <1>1, <1>2, <1>3 DEF RolesInv, RolesAreProven, CacheIsCurrent
<1>6. RootIsProven'
  BY <1>2 DEF RolesInv, RolesAreProven, RootIsProven
<1>7. LookupIsShared'
  BY <1>4 DEF RolesInv, RolesAreProven, LookupIsShared
<1>8. \A k \in Lookups : OpenIsPending(k)'
  BY <1>2, <1>4 DEF RolesInv, OpenIsPending
<1> QED BY <1>5, <1>6, <1>7, <1>8 DEF RolesAreProven

LEMMA CloseLookupProves ==
  ASSUME RolesInv, NEW l \in Lookups, CloseLookup(l)
  PROVE  RolesAreProven' /\ \A k \in Lookups : OpenIsPending(k)'
<1>1. /\ \A k \in Lookups \ {l} : lookup'[k] = lookup[k]
      /\ lookup'[l].state = "closed"
      /\ UNCHANGED <<roles, generations, turn, learnt>>
  BY DEF CloseLookup, RolesInv, AgentInv, AgentTypeOK, LookupState
<1>2. \A x \in Sessions : pending'[x] = pending[x] \/ pending[x] = l
  BY DEF CloseLookup, RolesInv, AgentInv, AgentTypeOK
<1>3. CacheIsCurrent' /\ RootIsProven'
  BY <1>1 DEF RolesInv, RolesAreProven, CacheIsCurrent, RootIsProven
<1>4. LookupIsShared'
  BY <1>1 DEF RolesInv, RolesAreProven, LookupIsShared
<1>5. ASSUME NEW k \in Lookups PROVE OpenIsPending(k)'
  <2>1. OpenIsPending(k) /\ lookup[k].session \in Sessions
    BY DEF RolesInv, AgentInv, AgentTypeOK, LookupState
  <2> QED BY <1>1, <1>2, <2>1 DEF OpenIsPending
<1> QED BY <1>3, <1>4, <1>5 DEF RolesAreProven

LEMMA DeleteSessionProves ==
  ASSUME RolesInv, NEW s \in Sessions, DeleteSession(s)
  PROVE  RolesAreProven' /\ \A k \in Lookups : OpenIsPending(k)'
<1>1. /\ generations \in [Sessions -> 0 .. MaxDeleted]
      /\ \A x \in Sessions : generations'[x] = IF x = s THEN generations[x] + 1 ELSE generations[x]
      /\ UNCHANGED <<lookup, turn, learnt>>
  BY DEF DeleteSession, RolesInv, AgentInv, AgentTypeOK
<1>2. \A x \in Sessions : /\ roles'[x] = IF x = s THEN None ELSE roles[x]
                          /\ pending'[x] = IF x = s THEN None ELSE pending[x]
  BY DEF DeleteSession, RolesInv, AgentInv, AgentTypeOK
<1>3. CacheIsCurrent'
  BY <1>1, <1>2 DEF RolesInv, RolesAreProven, CacheIsCurrent
<1>4. RootIsProven' /\ LookupIsShared'
  BY <1>1 DEF RolesInv, RolesAreProven, RootIsProven, LookupIsShared
<1>5. ASSUME NEW k \in Lookups PROVE OpenIsPending(k)'
  <2>1. /\ lookup[k] \in LookupState /\ LookupSound(k) /\ OpenIsPending(k)
    BY DEF RolesInv, AgentInv, AgentTypeOK
  <2>2. lookup[k].session \in Sessions /\ lookup[k].generation \in 0 .. MaxDeleted
    BY <2>1 DEF LookupState
  <2>3. lookup[k].session = s /\ lookup[k].state = "open" =>
          lookup[k].generation # generations'[s]
    BY <1>1, <2>1, <2>2, AgentConstants DEF LookupSound
  <2> QED BY <1>1, <1>2, <2>1, <2>2, <2>3 DEF OpenIsPending
<1> QED BY <1>3, <1>4, <1>5 DEF RolesAreProven

LEMMA RolesKeep == RolesInv /\ [AgentNext]_agentVars => RolesInv'
<1> SUFFICES ASSUME RolesInv, [AgentNext]_agentVars
             PROVE  RolesAreProven' /\ \A l \in Lookups : OpenIsPending(l)'
  BY AgentKeeps DEF RolesInv
<1>1. ASSUME NEW t \in Turns, NEW agent \in Agents, NEW s \in Sessions,
             ResolveAtOnce(t, agent, s) \/ ResolveByLookup(t, agent, s)
      PROVE  RolesAreProven' /\ \A l \in Lookups : OpenIsPending(l)'
  BY <1>1, ResolveAtOnceProves, ResolveByLookupProves, TurnsApart DEF ResolveAtOnce
<1>2. ASSUME NEW t \in Turns, Resolve(t)
      PROVE  RolesAreProven' /\ \A l \in Lookups : OpenIsPending(l)'
  BY <1>2, ResolveProves, TurnsApart DEF Resolve
<1>3. ASSUME NEW l \in Lookups, Learn(l) \/ CloseLookup(l)
      PROVE  RolesAreProven' /\ \A k \in Lookups : OpenIsPending(k)'
  BY <1>3, LearnProves, CloseLookupProves
<1>4. ASSUME NEW s \in Sessions, DeleteSession(s)
      PROVE  RolesAreProven' /\ \A l \in Lookups : OpenIsPending(l)'
  BY <1>4, DeleteSessionProves
<1>5. CASE UNCHANGED agentVars
  BY <1>5
  DEF agentVars, RolesInv, RolesAreProven, CacheIsCurrent, RootIsProven, LookupIsShared, OpenIsPending
<1> QED BY <1>1, <1>2, <1>3, <1>4, <1>5 DEF AgentNext

\* What the cache and the turns hold is owed to a lookup that still counts, or to
\* an agent known to be primary, and turns share a session's lookup.
THEOREM RolesStayProven == AgentSpec => []RolesAreProven
<1>1. RolesInv => RolesAreProven
  BY DEF RolesInv
<1> QED BY <1>1, RolesStart, RolesKeep, PTL DEF AgentSpec

-----------------------------------------------------------------------------
(***************************************************************************)
(* Browser logins, without the three adverse schedules: what a login that  *)
(* waits for its browser needs stays there until it is answered.           *)
(***************************************************************************)

\* Only a waiting login is the pending authorization.
PendingWaits == \A l \in Logins : authorizing = l => In(l, "waiting")

\* One login at a time binds the server.
OneBinds == \A k, l \in Logins : In(k, "binding") /\ In(l, "binding") => k = l
BindingIsShown == \A l \in Logins : In(l, "binding") => server = "binding"

\* From the moment it has its redirect URI a login finds the server at it.
ServerStays ==
  \A l \in Logins : login[l].phase \in {"preparing", "waiting"} =>
    server = "listening" /\ login[l].redirect = active

LoginInv == /\ LoginTypeOK /\ PendingWaits /\ OneBinds /\ BindingIsShown /\ ServerStays
            /\ WaitingIsPending /\ RedirectMatches

-----------------------------------------------------------------------------
\* A step that moves one login to a phase.
LEMMA ToIs ==
  ASSUME LoginTypeOK, NEW l \in Logins, NEW phase \in Phases, To(l, phase)
  PROVE  /\ login' \in [Logins -> [phase : Phases, redirect : Hosts, exchanged : Hosts]]
         /\ \A k \in Logins \ {l} : login'[k] = login[k]
         /\ login'[l].phase = phase /\ login'[l].redirect = login[l].redirect
         /\ login'[l].exchanged = login[l].exchanged
BY DEF LoginTypeOK, To

LEMMA PreparingIs ==
  ASSUME LoginTypeOK, NEW l \in Logins, NEW host \in Hosts, Preparing(l, host)
  PROVE  /\ login' \in [Logins -> [phase : Phases, redirect : Hosts, exchanged : Hosts]]
         /\ \A k \in Logins \ {l} : login'[k] = login[k]
         /\ login'[l].phase = "preparing" /\ login'[l].redirect = host
<1> DEFINE one == [login EXCEPT ![l].phase = "preparing"]
<1>1. one \in [Logins -> [phase : Phases, redirect : Hosts, exchanged : Hosts]]
  BY DEF LoginTypeOK, Phases
<1>2. /\ \A k \in Logins \ {l} : one[k] = login[k]
      /\ one[l].phase = "preparing"
  BY DEF LoginTypeOK
<1>3. login' = [one EXCEPT ![l].redirect = host]
  BY DEF Preparing
<1> HIDE DEF one
<1> QED BY <1>1, <1>2, <1>3

LEMMA LoginStarts == LoginInit => LoginInv
<1> SUFFICES ASSUME LoginInit PROVE LoginInv
  OBVIOUS
<1>1. Default \in Hosts
  BY LoginConstants DEF Default
<1>2. LoginTypeOK
  BY <1>1 DEF LoginInit, LoginTypeOK, Phases
<1>3. \A l \in Logins : login[l].phase = "idle"
  BY DEF LoginInit
<1>4. \A l \in Logins : authorizing # l
  BY LoginConstants DEF LoginInit
<1> QED BY <1>2, <1>3, <1>4 DEF LoginInv, PendingWaits, OneBinds, BindingIsShown,
                                ServerStays, WaitingIsPending, RedirectMatches, In

LEMMA ExchangingIs ==
  ASSUME LoginTypeOK, NEW l \in Logins,
         login' = [login EXCEPT ![l].phase = "exchanging", ![l].exchanged = active]
  PROVE  /\ login' \in [Logins -> [phase : Phases, redirect : Hosts, exchanged : Hosts]]
         /\ \A k \in Logins \ {l} : login'[k] = login[k]
         /\ login'[l].phase = "exchanging" /\ login'[l].redirect = login[l].redirect
         /\ login'[l].exchanged = active
<1> DEFINE one == [login EXCEPT ![l].phase = "exchanging"]
<1>1. one \in [Logins -> [phase : Phases, redirect : Hosts, exchanged : Hosts]]
  BY DEF LoginTypeOK, Phases
<1>2. /\ \A k \in Logins \ {l} : one[k] = login[k]
      /\ one[l].phase = "exchanging" /\ one[l].redirect = login[l].redirect
  BY DEF LoginTypeOK
<1>3. login' = [one EXCEPT ![l].exchanged = active]
  OBVIOUS
<1>4. active \in Hosts
  BY DEF LoginTypeOK
<1> HIDE DEF one
<1>5. login' \in [Logins -> [phase : Phases, redirect : Hosts, exchanged : Hosts]]
  BY <1>1, <1>3, <1>4
<1>6. \A k \in Logins \ {l} : login'[k] = login[k]
  BY <1>1, <1>2, <1>3
<1>7. login'[l] = [one[l] EXCEPT !.exchanged = active] /\ one[l] \in [phase : Phases, redirect : Hosts, exchanged : Hosts]
  BY <1>1, <1>3
<1>8. /\ login'[l].phase = "exchanging" /\ login'[l].redirect = login[l].redirect
      /\ login'[l].exchanged = active
  BY <1>2, <1>7
<1> QED BY <1>5, <1>6, <1>8

-----------------------------------------------------------------------------
(* One lemma per action; the adverse schedules are left out.               *)

LEMMA StartKeeps ==
  ASSUME LoginInv, Adverse = {}, NEW l \in Logins, Start(l)
  PROVE  LoginInv'
<1>1. In(l, "idle") /\ server # "binding" /\ UNCHANGED <<active, authorizing>> /\ closing' = FALSE
  BY DEF Start
<1>2. CASE server # "none" /\ Preparing(l, active) /\ server' = server
  <2>1. /\ login' \in [Logins -> [phase : Phases, redirect : Hosts, exchanged : Hosts]]
        /\ \A k \in Logins \ {l} : login'[k] = login[k]
        /\ login'[l].phase = "preparing" /\ login'[l].redirect = active
    BY <1>2, PreparingIs DEF LoginInv, LoginTypeOK
  <2>2. server = "listening"
    BY <1>1, <1>2 DEF LoginInv, LoginTypeOK
  <2> QED
    BY <1>1, <1>2, <2>1, <2>2
    DEF LoginInv, LoginTypeOK, PendingWaits, OneBinds, BindingIsShown, ServerStays,
        WaitingIsPending, RedirectMatches, In
<1>3. CASE server = "none" /\ To(l, "binding") /\ server' = "binding"
  <2>1. /\ login' \in [Logins -> [phase : Phases, redirect : Hosts, exchanged : Hosts]]
        /\ \A k \in Logins \ {l} : login'[k] = login[k]
        /\ login'[l].phase = "binding"
    BY <1>3, ToIs DEF LoginInv, Phases
  <2>2. \A k \in Logins : ~In(k, "binding") /\ ~In(k, "preparing") /\ ~In(k, "waiting")
    BY <1>3 DEF LoginInv, BindingIsShown, ServerStays, In
  <2> QED
    BY <1>1, <1>3, <2>1, <2>2
    DEF LoginInv, LoginTypeOK, PendingWaits, OneBinds, BindingIsShown, ServerStays,
        WaitingIsPending, RedirectMatches, In
<1> QED BY <1>2, <1>3 DEF Start

LEMMA BoundKeeps ==
  ASSUME LoginInv, NEW l \in Logins, Bound(l)
  PROVE  LoginInv'
<1>1. /\ In(l, "binding") /\ server = "binding" /\ server' = "listening"
      /\ UNCHANGED <<authorizing, closing>>
  BY DEF Bound
<1>2. PICK host \in Hosts : active' = host /\ Preparing(l, host)
  BY DEF Bound
<1>3. /\ login' \in [Logins -> [phase : Phases, redirect : Hosts, exchanged : Hosts]]
      /\ \A k \in Logins \ {l} : login'[k] = login[k]
      /\ login'[l].phase = "preparing" /\ login'[l].redirect = host
  BY <1>2, PreparingIs DEF LoginInv
<1>4. \A k \in Logins : ~In(k, "preparing") /\ ~In(k, "waiting") /\ (k # l => ~In(k, "binding"))
  BY <1>1 DEF LoginInv, OneBinds, ServerStays, In
<1> QED
  BY <1>1, <1>2, <1>3, <1>4
  DEF LoginInv, LoginTypeOK, PendingWaits, OneBinds, BindingIsShown, ServerStays,
      WaitingIsPending, RedirectMatches, In

LEMMA BindFailsKeeps ==
  ASSUME LoginInv, NEW l \in Logins, BindFails(l)
  PROVE  LoginInv'
<1>1. /\ In(l, "binding") /\ server' = "none" /\ To(l, "ended")
      /\ UNCHANGED <<active, authorizing, closing>>
  BY DEF BindFails
<1>2. /\ login' \in [Logins -> [phase : Phases, redirect : Hosts, exchanged : Hosts]]
      /\ \A k \in Logins \ {l} : login'[k] = login[k]
      /\ login'[l].phase = "ended"
  BY <1>1, ToIs DEF LoginInv, Phases
<1>3. \A k \in Logins : ~In(k, "preparing") /\ ~In(k, "waiting") /\ (k # l => ~In(k, "binding"))
  BY <1>1 DEF LoginInv, OneBinds, BindingIsShown, ServerStays, In
<1> QED
  BY <1>1, <1>2, <1>3
  DEF LoginInv, LoginTypeOK, PendingWaits, OneBinds, BindingIsShown, ServerStays,
      WaitingIsPending, RedirectMatches, In

LEMMA WaitKeeps ==
  ASSUME LoginInv, NEW l \in Logins, Wait(l)
  PROVE  LoginInv'
<1>1. In(l, "preparing") /\ UNCHANGED <<server, active, closing>>
  BY DEF Wait
<1>2. CASE authorizing # NoLogin /\ To(l, "rejected") /\ authorizing' = authorizing
  <2>1. /\ login' \in [Logins -> [phase : Phases, redirect : Hosts, exchanged : Hosts]]
        /\ \A k \in Logins \ {l} : login'[k] = login[k]
        /\ login'[l].phase = "rejected"
    BY <1>2, ToIs DEF LoginInv, Phases
  <2> QED
    BY <1>1, <1>2, <2>1
    DEF LoginInv, LoginTypeOK, PendingWaits, OneBinds, BindingIsShown, ServerStays,
        WaitingIsPending, RedirectMatches, In
<1>3. CASE authorizing = NoLogin /\ To(l, "waiting") /\ authorizing' = l
  <2>1. /\ login' \in [Logins -> [phase : Phases, redirect : Hosts, exchanged : Hosts]]
        /\ \A k \in Logins \ {l} : login'[k] = login[k]
        /\ login'[l].phase = "waiting" /\ login'[l].redirect = login[l].redirect
    BY <1>3, ToIs DEF LoginInv, Phases
  <2>2. \A k \in Logins : ~In(k, "waiting")
    BY <1>3, LoginConstants DEF LoginInv, WaitingIsPending
  <2> QED
    BY <1>1, <1>3, <2>1, <2>2
    DEF LoginInv, LoginTypeOK, PendingWaits, OneBinds, BindingIsShown, ServerStays,
        WaitingIsPending, RedirectMatches, In
<1> QED BY <1>2, <1>3 DEF Wait

LEMMA CallbackKeeps ==
  ASSUME LoginInv, NEW l \in Logins, Callback(l)
  PROVE  LoginInv'
<1>1. /\ In(l, "waiting") /\ authorizing = l /\ authorizing' = NoLogin
      /\ login' = [login EXCEPT ![l].phase = "exchanging", ![l].exchanged = active]
      /\ UNCHANGED <<server, active, closing>>
  BY DEF Callback
<1>2. /\ login' \in [Logins -> [phase : Phases, redirect : Hosts, exchanged : Hosts]]
      /\ \A k \in Logins \ {l} : login'[k] = login[k]
      /\ login'[l].phase = "exchanging" /\ login'[l].redirect = login[l].redirect
      /\ login'[l].exchanged = active
  BY <1>1, ExchangingIs DEF LoginInv
<1>3. login[l].redirect = active /\ \A k \in Logins : In(k, "waiting") => k = l
  BY <1>1 DEF LoginInv, ServerStays, WaitingIsPending, In
<1> QED
  BY <1>1, <1>2, <1>3, LoginConstants
  DEF LoginInv, LoginTypeOK, PendingWaits, OneBinds, BindingIsShown, ServerStays,
      WaitingIsPending, RedirectMatches, In

\* The pending authorization is given up: the error, the cancellation, the timer.
LEMMA RejectKeeps ==
  ASSUME LoginInv, NEW l \in Logins, In(l, "waiting"), authorizing' = NoLogin, To(l, "rejected"),
         UNCHANGED <<server, active, closing>>
  PROVE  LoginInv'
<1>1. /\ login' \in [Logins -> [phase : Phases, redirect : Hosts, exchanged : Hosts]]
      /\ \A k \in Logins \ {l} : login'[k] = login[k]
      /\ login'[l].phase = "rejected"
  BY ToIs DEF LoginInv, Phases
<1>2. \A k \in Logins : In(k, "waiting") => k = l
  BY DEF LoginInv, WaitingIsPending
<1> QED
  BY <1>1, <1>2, LoginConstants
  DEF LoginInv, LoginTypeOK, PendingWaits, OneBinds, BindingIsShown, ServerStays,
      WaitingIsPending, RedirectMatches, In

\* A login past its callback moves on: nobody else notices.
LEMMA PastKeeps ==
  ASSUME LoginInv, NEW l \in Logins, login[l].phase \in {"exchanging", "resolved", "rejected"},
         NEW phase \in {"resolved", "rejected", "ended"}, To(l, phase),
         UNCHANGED <<server, active, authorizing>>, closing' \in BOOLEAN
  PROVE  LoginInv'
<1>1. /\ login' \in [Logins -> [phase : Phases, redirect : Hosts, exchanged : Hosts]]
      /\ \A k \in Logins \ {l} : login'[k] = login[k]
      /\ login'[l].phase = phase
  BY ToIs DEF LoginInv, Phases
<1> QED
  BY <1>1
  DEF LoginInv, LoginTypeOK, PendingWaits, OneBinds, BindingIsShown, ServerStays,
      WaitingIsPending, RedirectMatches, In

LEMMA CloseKeeps ==
  ASSUME LoginInv, Adverse = {}, Close
  PROVE  LoginInv'
<1>1. /\ \A l \in Logins : ~In(l, "preparing") /\ ~In(l, "binding")
      /\ closing' = FALSE /\ UNCHANGED <<authorizing, login>>
  BY DEF Close
<1>2. CASE authorizing # NoLogin /\ UNCHANGED <<server, active>>
  BY <1>1, <1>2
  DEF LoginInv, LoginTypeOK, PendingWaits, OneBinds, BindingIsShown, ServerStays,
      WaitingIsPending, RedirectMatches, In
<1>3. CASE authorizing = NoLogin /\ server' = "none" /\ active' = Default
  <2>1. Default \in Hosts
    BY LoginConstants DEF Default
  <2>2. \A l \in Logins : ~In(l, "waiting")
    BY <1>3, LoginConstants DEF LoginInv, WaitingIsPending
  <2> QED
    BY <1>1, <1>3, <2>1, <2>2
    DEF LoginInv, LoginTypeOK, PendingWaits, OneBinds, BindingIsShown, ServerStays,
        WaitingIsPending, RedirectMatches, In
<1> QED BY <1>2, <1>3 DEF Close

-----------------------------------------------------------------------------
(* The specification.                                                      *)

LEMMA LoginKeeps == Adverse = {} /\ LoginInv /\ [LoginNext]_loginVars => LoginInv'
<1> SUFFICES ASSUME Adverse = {}, LoginInv, [LoginNext]_loginVars PROVE LoginInv'
  OBVIOUS
<1>1. ASSUME NEW l \in Logins, Start(l) \/ Callback(l) \/ Bound(l) \/ BindFails(l) \/ Wait(l)
      PROVE  LoginInv'
  BY <1>1, StartKeeps, CallbackKeeps, BoundKeeps, BindFailsKeeps, WaitKeeps
<1>2. ASSUME NEW l \in Logins, CallbackFails(l) \/ Timeout(l)
      PROVE  LoginInv'
  BY <1>2, RejectKeeps DEF CallbackFails, Timeout
<1>3. ASSUME NEW l \in Logins, Exchanged(l)
      PROVE  LoginInv'
  <2>1. closing \in BOOLEAN
    BY DEF LoginInv, LoginTypeOK
  <2> QED BY <1>3, <2>1, PastKeeps DEF Exchanged, In
<1>4. ASSUME NEW l \in Logins, Finish(l)
      PROVE  LoginInv'
  BY <1>4, PastKeeps DEF Finish
<1>5. CASE Close
  BY <1>5, CloseKeeps
<1>6. CASE UNCHANGED loginVars
  BY <1>6
  DEF loginVars, LoginInv, LoginTypeOK, PendingWaits, OneBinds, BindingIsShown, ServerStays,
      WaitingIsPending, RedirectMatches, In
<1> QED BY <1>1, <1>2, <1>3, <1>4, <1>5, <1>6 DEF LoginNext, LoginStep

\* Without the adverse schedules, nothing that other logins start, end or
\* schedule takes from a login what its answer needs (oauth-server.ts).
THEOREM LoginsAreServed == Adverse = {} => (LoginSpec => []LoginIsServed)
<1>1. LoginInv => LoginIsServed
  BY DEF LoginInv, LoginIsServed, ServerStays, ServerWhileWaiting, In
<1>2. CASE Adverse = {}
  <2>1. LoginInv /\ [LoginNext]_loginVars => LoginInv'
    BY <1>2, LoginKeeps
  <2> QED BY <1>1, <2>1, LoginStarts, PTL DEF LoginSpec
<1> QED BY <1>2

\* The types hold in the adverse schedules too.
LEMMA LoginTypesKeep == LoginTypeOK /\ [LoginNext]_loginVars => LoginTypeOK'
<1> SUFFICES ASSUME LoginTypeOK, [LoginNext]_loginVars PROVE LoginTypeOK'
  OBVIOUS
<1> DEFINE Login == [phase : Phases, redirect : Hosts, exchanged : Hosts]
<1>1. ASSUME NEW l \in Logins, NEW phase \in Phases, To(l, phase)
      PROVE  login' \in [Logins -> Login]
  BY <1>1 DEF To, LoginTypeOK
<1>2. ASSUME NEW l \in Logins, NEW host \in Hosts, Preparing(l, host)
      PROVE  login' \in [Logins -> Login]
  BY <1>2 DEF Preparing, LoginTypeOK, Phases
<1>3. ASSUME NEW l \in Logins, Start(l) PROVE LoginTypeOK'
  BY <1>1, <1>2, <1>3 DEF Start, LoginTypeOK, Phases
<1>4. ASSUME NEW l \in Logins, Bound(l) \/ BindFails(l) PROVE LoginTypeOK'
  BY <1>1, <1>2, <1>4 DEF Bound, BindFails, LoginTypeOK, Phases
<1>5. ASSUME NEW l \in Logins, Wait(l) PROVE LoginTypeOK'
  BY <1>1, <1>5 DEF Wait, LoginTypeOK, Phases
<1>6. ASSUME NEW l \in Logins, Callback(l) PROVE LoginTypeOK'
  <2>1. login' \in [Logins -> Login]
    BY <1>6 DEF Callback, LoginTypeOK, Phases
  <2> QED BY <1>6, <2>1 DEF Callback, LoginTypeOK
<1>7. ASSUME NEW l \in Logins, CallbackFails(l) \/ Timeout(l) \/ Exchanged(l) PROVE LoginTypeOK'
  BY <1>1, <1>7 DEF CallbackFails, Timeout, Exchanged, LoginTypeOK, Phases
<1>8. ASSUME NEW l \in Logins, Finish(l) PROVE LoginTypeOK'
  BY <1>1, <1>8 DEF Finish, LoginTypeOK, Phases
<1>9. CASE Close
  <2>1. Default \in Hosts
    BY LoginConstants DEF Default
  <2> QED BY <1>9, <2>1 DEF Close, LoginTypeOK
<1>10. CASE UNCHANGED loginVars
  BY <1>10 DEF loginVars, LoginTypeOK
<1> QED
  BY <1>3, <1>4, <1>5, <1>6, <1>7, <1>8, <1>9, <1>10 DEF LoginNext, LoginStep

-----------------------------------------------------------------------------
(***************************************************************************)
(* Invocations of the plugin: what each has started serves until the       *)
(* invocation ends.                                                        *)
(***************************************************************************)

\* An invocation captures its own scheduler if it starts one; nobody else's
\* timer is set.
CapturesItsOwn(i) ==
  /\ timer[i] > 0 => life[i] \in {"initialising", "ready"} /\ i \in Enabled
  /\ i \in Enabled /\ life[i] \notin {"new", "booting"} => held[i] = i

\* A timer that is set fires within a period and, while no refresh is under
\* way, no later than two periods after the last one: the task is in the queue.
FiresInTime(i) ==
  timer[i] > 0 =>
    /\ time <= timer[i] /\ timer[i] <= time + Interval
    /\ running[i] = 0 => queued[i] = rested[i] + Interval /\ timer[i] <= rested[i] + 2 * Interval

LifeInv == LifeTypeOK /\ \A i \in Invocations : CapturesItsOwn(i) /\ FiresInTime(i)

LEMMA LifeStarts == LifeInit => LifeInv
BY LifecycleConstants DEF LifeInit, LifeInv, LifeTypeOK, CapturesItsOwn, FiresInTime

\* What stopping a scheduler leaves of the timers.
LEMMA StoppedIs ==
  ASSUME LifeTypeOK, NEW i \in Invocations \union {NoOne}
  PROVE  /\ Stopped(i) \in [Invocations -> 0 .. Horizon + Interval]
         /\ \A j \in Invocations : Stopped(i)[j] = IF j = i THEN 0 ELSE timer[j]
BY LifecycleConstants DEF LifeTypeOK, Stopped

LEMMA BootKeeps ==
  ASSUME LifeInv, NEW i \in Invocations, Boot(i)
  PROVE  LifeInv'
<1>1. /\ timer' \in [Invocations -> 0 .. Horizon + Interval]
      /\ \A j \in Invocations : timer'[j] = 0 \/ timer'[j] = timer[j]
  BY StoppedIs DEF Boot, LifeInv, LifeTypeOK
<1>2. LifeTypeOK'
  BY <1>1 DEF Boot, LifeInv, LifeTypeOK
<1>3. ASSUME NEW j \in Invocations PROVE CapturesItsOwn(j)' /\ FiresInTime(j)'
  BY <1>1 DEF Boot, LifeInv, LifeTypeOK, CapturesItsOwn, FiresInTime
<1> QED BY <1>2, <1>3 DEF LifeInv

LEMMA StartSchedulerKeeps ==
  ASSUME LifeInv, NEW i \in Invocations, StartScheduler(i)
  PROVE  LifeInv'
<1>1. time \in 1 .. Horizon /\ Interval \in Nat \ {0} /\ Horizon \in Nat \ {0}
  BY LifecycleConstants DEF LifeInv, LifeTypeOK
<1>2. owner' \in Invocations \union {NoOne} /\ (i \in Enabled => owner' = i)
  BY DEF StartScheduler, LifeInv, LifeTypeOK
<1>3. LifeTypeOK'
  BY <1>1, <1>2 DEF StartScheduler, LifeInv, LifeTypeOK
<1>4. ASSUME NEW j \in Invocations PROVE CapturesItsOwn(j)' /\ FiresInTime(j)'
  <2>1. CASE j = i
    BY <1>1, <1>2, <2>1 DEF StartScheduler, LifeInv, LifeTypeOK, CapturesItsOwn, FiresInTime
  <2>2. CASE j # i
    BY <1>1, <2>2 DEF StartScheduler, LifeInv, LifeTypeOK, CapturesItsOwn, FiresInTime
  <2> QED BY <2>1, <2>2
<1> QED BY <1>3, <1>4 DEF LifeInv

\* An invocation that ends stops what it captured.
LEMMA ReleaseKeeps ==
  ASSUME LifeInv, NEW i \in Invocations, Release(i),
         life[i] \in {"initialising", "ready"}, NEW end \in {"failed", "disposed"},
         life' = [life EXCEPT ![i] = end]
  PROVE  LifeInv'
<1>1. /\ timer' \in [Invocations -> 0 .. Horizon + Interval]
      /\ \A j \in Invocations : timer'[j] = IF j = held[i] THEN 0 ELSE timer[j]
  BY StoppedIs DEF Release, LifeInv, LifeTypeOK
<1>2. LifeTypeOK'
  BY <1>1 DEF Release, LifeInv, LifeTypeOK
<1>3. ASSUME NEW j \in Invocations PROVE CapturesItsOwn(j)' /\ FiresInTime(j)'
  <2>1. CASE j = i
    BY <1>1, <2>1 DEF Release, LifeInv, LifeTypeOK, CapturesItsOwn, FiresInTime
  <2>2. CASE j # i
    BY <1>1, <2>2 DEF Release, LifeInv, LifeTypeOK, CapturesItsOwn, FiresInTime
  <2> QED BY <2>1, <2>2
<1> QED BY <1>2, <1>3 DEF LifeInv

LEMMA FireKeeps ==
  ASSUME LifeInv, NEW i \in Invocations, Fire(i)
  PROVE  LifeInv'
<1>1. time \in 1 .. Horizon /\ Interval \in Nat \ {0} /\ Horizon \in Nat \ {0}
  BY LifecycleConstants DEF LifeInv, LifeTypeOK
<1>2. LifeTypeOK'
  BY <1>1 DEF Fire, LifeInv, LifeTypeOK
<1>3. ASSUME NEW j \in Invocations PROVE CapturesItsOwn(j)' /\ FiresInTime(j)'
  <2>1. CASE j = i
    BY <1>1, <2>1 DEF Fire, IsDue, LifeInv, LifeTypeOK, CapturesItsOwn, FiresInTime
  <2>2. CASE j # i
    BY <1>1, <2>2 DEF Fire, LifeInv, LifeTypeOK, CapturesItsOwn, FiresInTime
  <2> QED BY <2>1, <2>2
<1> QED BY <1>2, <1>3 DEF LifeInv

LEMMA EndRefreshKeeps ==
  ASSUME LifeInv, NEW i \in Invocations, EndRefresh(i)
  PROVE  LifeInv'
<1>1. time \in 1 .. Horizon /\ Interval \in Nat \ {0} /\ Horizon \in Nat \ {0}
  BY LifecycleConstants DEF LifeInv, LifeTypeOK
<1>2. LifeTypeOK'
  BY <1>1 DEF EndRefresh, LifeInv, LifeTypeOK
<1>3. ASSUME NEW j \in Invocations PROVE CapturesItsOwn(j)' /\ FiresInTime(j)'
  <2>1. CASE j = i
    BY <1>1, <2>1 DEF EndRefresh, LifeInv, LifeTypeOK, CapturesItsOwn, FiresInTime
  <2>2. CASE j # i
    BY <1>1, <2>2 DEF EndRefresh, LifeInv, LifeTypeOK, CapturesItsOwn, FiresInTime
  <2> QED BY <2>1, <2>2
<1> QED BY <1>2, <1>3 DEF LifeInv

LEMMA AdvanceKeeps ==
  ASSUME LifeInv, Advance
  PROVE  LifeInv'
<1>1. time \in 1 .. Horizon /\ Interval \in Nat \ {0} /\ Horizon \in Nat \ {0}
  BY LifecycleConstants DEF LifeInv, LifeTypeOK
<1>2. LifeTypeOK'
  BY <1>1 DEF Advance, LifeInv, LifeTypeOK
<1>3. ASSUME NEW j \in Invocations PROVE CapturesItsOwn(j)' /\ FiresInTime(j)'
  BY <1>1 DEF Advance, LifeInv, LifeTypeOK, CapturesItsOwn, FiresInTime
<1> QED BY <1>2, <1>3 DEF LifeInv

LEMMA LifeKeeps == LifeInv /\ [LifeNext]_lifeVars => LifeInv'
<1> SUFFICES ASSUME LifeInv, [LifeNext]_lifeVars PROVE LifeInv'
  OBVIOUS
<1>1. CASE Advance
  BY <1>1, AdvanceKeeps
<1>2. ASSUME NEW i \in Invocations,
             Boot(i) \/ StartScheduler(i) \/ Fire(i) \/ EndRefresh(i)
      PROVE  LifeInv'
  BY <1>2, BootKeeps, StartSchedulerKeeps, FireKeeps, EndRefreshKeeps
<1>3. ASSUME NEW i \in Invocations, Initialised(i)
      PROVE  LifeInv'
  BY <1>3 DEF Initialised, LifeInv, LifeTypeOK, CapturesItsOwn, FiresInTime
<1>4. ASSUME NEW i \in Invocations, InitFails(i) \/ Dispose(i)
      PROVE  LifeInv'
  BY <1>4, ReleaseKeeps DEF InitFails, Dispose
<1>5. CASE UNCHANGED lifeVars
  BY <1>5 DEF lifeVars, LifeInv, LifeTypeOK, CapturesItsOwn, FiresInTime
<1> QED BY <1>1, <1>2, <1>3, <1>4, <1>5 DEF LifeNext

\* The invocations of a process read one configuration: all of them start a
\* scheduler or none does.  If only some do, one that starts none captures a
\* scheduler that another one started, and stops it when it ends.
OneConfiguration == Enabled \in {Invocations, {}}

\* What an invocation will stop is its own, and nobody's if none starts one.
HoldsItsOwn ==
  /\ owner # NoOne => owner \in Enabled
  /\ \A i \in Invocations : held[i] \in {i, NoOne}

LEMMA OwnStarts == LifeInit => HoldsItsOwn
BY DEF LifeInit, HoldsItsOwn

LEMMA OwnKeeps == OneConfiguration /\ LifeInv /\ HoldsItsOwn /\ [LifeNext]_lifeVars => HoldsItsOwn'
<1> SUFFICES ASSUME OneConfiguration, LifeInv, HoldsItsOwn, [LifeNext]_lifeVars PROVE HoldsItsOwn'
  OBVIOUS
<1>1. ASSUME NEW i \in Invocations, StartScheduler(i)
      PROVE  HoldsItsOwn'
  BY <1>1 DEF OneConfiguration, StartScheduler, LifeInv, LifeTypeOK, HoldsItsOwn
<1>2. ASSUME owner' \in {owner, NoOne}, UNCHANGED held
      PROVE  HoldsItsOwn'
  BY <1>2 DEF HoldsItsOwn
<1> QED
  BY <1>1, <1>2
  DEF LifeNext, lifeVars, Advance, Boot, Initialised, InitFails, Dispose, Release, Fire, EndRefresh

\* What StoppedByOwnEnd asks of a step.
StopIsOwn ==
  \A i \in Invocations :
    timer[i] > 0 /\ timer'[i] = 0 =>
      \/ life'[i] \in {"failed", "disposed"}
      \/ \E j \in Invocations : life[j] = "new" /\ life'[j] = "booting"

LEMMA OwnEndsStop == LifeInv /\ HoldsItsOwn /\ [LifeNext]_lifeVars => StopIsOwn
<1> SUFFICES ASSUME LifeInv, HoldsItsOwn, [LifeNext]_lifeVars PROVE StopIsOwn
  OBVIOUS
<1>0. /\ timer \in [Invocations -> 0 .. Horizon + Interval] /\ DOMAIN life = Invocations
      /\ time \in 1 .. Horizon /\ Interval \in Nat \ {0} /\ Horizon \in Nat
  BY LifecycleConstants DEF LifeInv, LifeTypeOK
<1>1. ASSUME NEW i \in Invocations, Boot(i)
      PROVE  StopIsOwn
  BY <1>0, <1>1 DEF Boot, StopIsOwn
<1>2. ASSUME NEW i \in Invocations, StartScheduler(i) \/ Fire(i)
      PROVE  StopIsOwn
  BY <1>0, <1>2 DEF StartScheduler, Fire, StopIsOwn
<1>3. ASSUME NEW i \in Invocations, InitFails(i) \/ Dispose(i)
      PROVE  StopIsOwn
  <2>1. \A j \in Invocations : timer'[j] = IF j = held[i] THEN 0 ELSE timer[j]
    BY <1>3, StoppedIs DEF InitFails, Dispose, Release, LifeInv, LifeTypeOK
  <2>2. life'[i] \in {"failed", "disposed"} /\ held[i] \in {i, NoOne}
    BY <1>0, <1>3 DEF InitFails, Dispose, HoldsItsOwn
  <2> QED BY <2>1, <2>2, LifecycleConstants DEF StopIsOwn
<1>4. ASSUME UNCHANGED timer
      PROVE  StopIsOwn
  BY <1>4 DEF StopIsOwn
<1> QED
  BY <1>1, <1>2, <1>3, <1>4 DEF LifeNext, lifeVars, Advance, Initialised, EndRefresh

\* However invocations start, fail and are disposed of, a timer outlives no
\* owner and a scheduler refreshes in time (src/index.ts, refresh-queue.ts).
THEOREM SchedulersKeepTime == LifeSpec => [](EndedIsSilent /\ RefreshedInTime)
<1>1. LifeInv => EndedIsSilent /\ RefreshedInTime
  BY LifecycleConstants
  DEF LifeInv, LifeTypeOK, CapturesItsOwn, FiresInTime, EndedIsSilent, RefreshedInTime
<1> QED BY <1>1, LifeStarts, LifeKeeps, PTL DEF LifeSpec

\* With one configuration for all, no invocation's end stops another's scheduler.
THEOREM SchedulersDoServe == OneConfiguration => (LifeSpec => SchedulersServe)
<1>1. CASE OneConfiguration
  <2>1. LifeInv /\ HoldsItsOwn /\ [LifeNext]_lifeVars => HoldsItsOwn'
    BY <1>1, OwnKeeps
  <2>2. LifeInv /\ HoldsItsOwn /\ [LifeNext]_lifeVars => [StopIsOwn]_lifeVars
    BY OwnEndsStop
  <2>3. LifeSpec => [][StopIsOwn]_lifeVars
    BY <2>1, <2>2, LifeStarts, LifeKeeps, OwnStarts, PTL DEF LifeSpec
  <2> QED BY <2>3, SchedulersKeepTime DEF SchedulersServe, StoppedByOwnEnd, StopIsOwn
<1> QED BY <1>1

-----------------------------------------------------------------------------
(***************************************************************************)
(* The headless login ends in time and keeps the gap it was told to keep.  *)
(***************************************************************************)

\* When the request or the sleep under way will be over, at the latest. A poll
\* begins within the device timeout.
DeviceInTime ==
  LET until == elapsed + device.left IN
  /\ device.phase = "polling" => until <= Patience + HttpTimeout
  /\ device.phase = "granted" => until <= Patience + 2 * HttpTimeout
  /\ device.phase = "sleeping" =>
       until <= Patience + HttpTimeout + Longer(device.interval, LongestGap) + Margin

\* The gap is the server's interval, or one that slow_down answers made of it.
GapFits == device.gap <= Longer(device.interval, LongestGap)

DeviceInv == DeviceTypeOK /\ DeviceInTime /\ GapFits

LEMMA DeviceNumbers ==
  /\ Margin \in Nat /\ Patience \in Nat /\ HttpTimeout \in Nat /\ LongestGap \in Nat \ {0}
  /\ \A n \in Intervals : n \in Nat \ {0} /\ Longer(n, LongestGap) \in Nat
BY DeviceConstants DEF Longer

LEMMA DeviceStarts == DeviceInit => DeviceInv
<1> SUFFICES ASSUME DeviceInit PROVE DeviceInv
  OBVIOUS
<1>1. PICK interval \in Intervals :
        device = [phase |-> "sleeping", interval |-> interval, gap |-> interval, left |-> 0]
  BY DEF DeviceInit
<1>2. elapsed = 0 /\ device.phase = "sleeping" /\ device.left = 0 /\ device.gap = device.interval
      /\ device.interval = interval /\ interval \in Nat \ {0}
  BY <1>1, DeviceNumbers DEF DeviceInit
<1>3. DeviceTypeOK
  BY <1>1, <1>2 DEF DeviceTypeOK
<1>4. GapFits
  BY <1>2, DeviceNumbers DEF GapFits, Longer
<1>5. DeviceInTime
  BY <1>2, DeviceNumbers DEF DeviceInTime
<1> QED BY <1>3, <1>4, <1>5 DEF DeviceInv

\* What a step makes of the record, field by field.
DevicePhases == {"sleeping", "polling", "granted", "done", "failed", "error"}
Gaps == Nat \ {0}

LEMMA DeviceFields ==
  ASSUME DeviceTypeOK
  PROVE  \A phase \in DevicePhases, gap \in Gaps, left \in Nat :
           LET new == [device EXCEPT !.phase = phase, !.gap = gap, !.left = left] IN
           /\ new \in [phase : DevicePhases, interval : Intervals, gap : Gaps, left : Nat]
           /\ new.phase = phase /\ new.gap = gap /\ new.left = left
           /\ new.interval = device.interval
BY DEF DeviceTypeOK, DevicePhases, Gaps

\* The gap to the next poll shrinks only down to the longest one.
GapGrows == device'.gap < device.gap => device.gap > LongestGap /\ device'.gap = LongestGap

LEMMA SleepKeeps ==
  ASSUME DeviceInv, device.phase = "polling", UNCHANGED elapsed,
         NEW gap \in Nat \ {0}, gap <= Longer(device.interval, LongestGap),
         gap < device.gap => device.gap > LongestGap /\ gap = LongestGap, device' = SleepOn(gap)
  PROVE  DeviceInv' /\ GapGrows
<1>1. /\ elapsed' = elapsed /\ elapsed \in Nat /\ device.left \in Nat
      /\ elapsed + device.left <= Patience + HttpTimeout
      /\ device.interval \in Intervals
  BY DEF DeviceInv, DeviceTypeOK, DeviceInTime
<1>2. gap + Margin \in Nat /\ Longer(device.interval, LongestGap) \in Nat
  BY <1>1, DeviceNumbers
<1> DEFINE left == gap + Margin
<1> HIDE DEF left
<1>3. device' = [device EXCEPT !.phase = "sleeping", !.gap = gap, !.left = left]
  BY DEF SleepOn, left
<1>4. /\ device' \in [phase : DevicePhases, interval : Intervals, gap : Gaps, left : Nat]
      /\ device'.phase = "sleeping" /\ device'.gap = gap /\ device'.left = left
      /\ device'.interval = device.interval
  <2>1. left \in Nat /\ gap \in Gaps /\ "sleeping" \in DevicePhases
    BY <1>2 DEF left, Gaps, DevicePhases
  <2>2. device \in [phase : DevicePhases, interval : Intervals, gap : Gaps, left : Nat]
    BY DEF DeviceInv, DeviceTypeOK, DevicePhases, Gaps
  <2> QED BY <1>3, <2>1, <2>2
<1>5. elapsed' + device'.left <= Patience + HttpTimeout + Longer(device.interval, LongestGap) + Margin
  BY <1>1, <1>2, <1>4, DeviceNumbers DEF left
<1>6. DeviceTypeOK'
  BY <1>1, <1>4 DEF DeviceTypeOK, DevicePhases, Gaps
<1>7. DeviceInTime'
  BY <1>4, <1>5 DEF DeviceInTime
<1> QED BY <1>4, <1>6, <1>7 DEF DeviceInv, GapFits, GapGrows

LEMMA MoveKeeps ==
  ASSUME DeviceInv, UNCHANGED elapsed, NEW phase \in DevicePhases \ {"sleeping"}, NEW left \in Nat,
         device' = [device EXCEPT !.phase = phase, !.left = left],
         phase = "polling" => elapsed + left <= Patience + HttpTimeout,
         phase = "granted" => elapsed + left <= Patience + 2 * HttpTimeout
  PROVE  DeviceInv' /\ GapGrows
<1>1. /\ device' \in [phase : DevicePhases, interval : Intervals, gap : Nat \ {0}, left : Nat]
      /\ device'.phase = phase /\ device'.gap = device.gap /\ device'.left = left
      /\ device'.interval = device.interval
  BY DEF DeviceInv, DeviceTypeOK, DevicePhases
<1>2. DeviceTypeOK'
  BY <1>1 DEF DeviceInv, DeviceTypeOK, DevicePhases
<1>3. DeviceInTime'
  BY <1>1 DEF DeviceInTime, DevicePhases
<1>4. GapGrows /\ GapFits'
  BY <1>1, DeviceNumbers DEF DeviceInv, DeviceTypeOK, GapFits, GapGrows
<1> QED BY <1>2, <1>3, <1>4 DEF DeviceInv

LEMMA DeviceKeeps == DeviceInv /\ [DeviceNext]_deviceVars => DeviceInv' /\ (device' = device \/ GapGrows)
<1> SUFFICES ASSUME DeviceInv, [DeviceNext]_deviceVars
             PROVE  DeviceInv' /\ (device' = device \/ GapGrows)
  OBVIOUS
<1>1. /\ elapsed \in Nat /\ device.gap \in Nat \ {0} /\ device.interval \in Nat \ {0}
      /\ device.left \in Nat /\ GapFits /\ Longer(device.interval, LongestGap) \in Nat
  BY DeviceNumbers DEF DeviceInv, DeviceTypeOK
<1>2. CASE DeviceTick
  <2>1. device.left - 1 \in Nat /\ elapsed' = elapsed + 1
    BY <1>1, <1>2 DEF DeviceTick
  <2>2. /\ device' \in [phase : DevicePhases, interval : Intervals, gap : Nat \ {0}, left : Nat]
        /\ device'.phase = device.phase /\ device'.gap = device.gap /\ device'.left = device.left - 1
        /\ device'.interval = device.interval
    BY <1>2, <2>1 DEF DeviceTick, DeviceInv, DeviceTypeOK, DevicePhases
  <2>3. elapsed' + device'.left = elapsed + device.left
    BY <1>1, <2>1, <2>2
  <2>4. DeviceTypeOK'
    BY <1>1, <2>1, <2>2 DEF DeviceTypeOK, DevicePhases
  <2>5. DeviceInTime'
    BY <2>2, <2>3 DEF DeviceInv, DeviceInTime
  <2> QED BY <1>1, <2>2, <2>4, <2>5, DeviceNumbers DEF DeviceInv, GapFits, GapGrows
<1>3. CASE Poll
  <2>1. CASE elapsed > Patience
    <3>1. device' = [device EXCEPT !.phase = "failed", !.left = 0] /\ UNCHANGED elapsed
      BY <1>3, <2>1 DEF Poll, DeviceInv, DeviceTypeOK
    <3> QED BY <3>1, MoveKeeps DEF DevicePhases
  <2>2. CASE ~(elapsed > Patience)
    <3>1. /\ device' = [device EXCEPT !.phase = "polling", !.left = HttpTimeout]
          /\ UNCHANGED elapsed /\ HttpTimeout \in Nat
      BY <1>3, <2>2, DeviceNumbers DEF Poll
    <3>2. elapsed + HttpTimeout <= Patience + HttpTimeout
      BY <1>1, <2>2, DeviceNumbers
    <3> QED BY <3>1, <3>2, MoveKeeps DEF DevicePhases
  <2> QED BY <2>1, <2>2
<1>4. CASE NotYet
  <2>1. device.gap \in Nat \ {0} /\ device.gap <= Longer(device.interval, LongestGap)
        /\ ~(device.gap < device.gap)
    BY <1>1 DEF GapFits
  <2> QED BY <1>4, <2>1, SleepKeeps DEF NotYet
<1>5. CASE SlowDown
  <2> DEFINE gap == Shorter(device.gap + device.interval, LongestGap)
  <2>1. /\ gap \in Nat \ {0} /\ gap <= Longer(device.interval, LongestGap)
        /\ gap < device.gap => device.gap > LongestGap /\ gap = LongestGap
    BY <1>1, DeviceNumbers DEF Shorter, Longer
  <2> HIDE DEF gap
  <2>2. device.phase = "polling" /\ UNCHANGED elapsed /\ device' = SleepOn(gap)
    BY <1>5 DEF SlowDown, gap
  <2>3. gap \in Nat \ {0} /\ UNCHANGED elapsed
    BY <2>1, <2>2
  <2> QED BY <2>1, <2>2, <2>3, SleepKeeps
<1>6. CASE Granted
  <2>1. /\ device' = [device EXCEPT !.phase = "granted", !.left = HttpTimeout]
        /\ UNCHANGED elapsed /\ HttpTimeout \in Nat
    BY <1>6, DeviceNumbers DEF Granted
  <2>2. elapsed + HttpTimeout <= Patience + 2 * HttpTimeout
    BY <1>1, <1>6, DeviceNumbers DEF Granted, DeviceInv, DeviceInTime
  <2> QED BY <2>1, <2>2, MoveKeeps DEF DevicePhases
<1>7. ASSUME NEW phase \in {"done", "failed", "error"}, UNCHANGED elapsed,
             device' = [device EXCEPT !.phase = phase, !.left = 0]
      PROVE  DeviceInv' /\ GapGrows
  BY <1>7, MoveKeeps DEF DevicePhases
<1>8. CASE RequestTimesOut
  <2>1. device' = [device EXCEPT !.phase = "error", !.left = 0] /\ UNCHANGED elapsed
    BY <1>8 DEF RequestTimesOut, DeviceInv, DeviceTypeOK
  <2> QED BY <2>1, <1>7
<1>9. CASE UNCHANGED deviceVars
  BY <1>9 DEF deviceVars, DeviceInv, DeviceTypeOK, DeviceInTime, GapFits
<1> QED BY <1>2, <1>3, <1>4, <1>5, <1>6, <1>7, <1>8, <1>9 DEF DeviceNext, Refused, ExchangeGrant

\* Whatever the server answers and for however long, and whatever interval it
\* asks for, a device login ends in time and keeps a gap once taken, but for one
\* above LongestGap that a slow_down brings down to it
\* (createHeadlessOAuthAuthorize).
THEOREM DevicesKeepTime == DeviceSpec => DeviceKeepsTime
<1>1. DeviceInv => DeviceEndsInTime
  <2> SUFFICES ASSUME DeviceInv PROVE DeviceEndsInTime
    OBVIOUS
  <2>1. elapsed \in Nat /\ device.left \in Nat
    BY DEF DeviceInv, DeviceTypeOK
  <2>2. device.interval \in Intervals /\ Longer(device.interval, LongestGap) \in Nat
    BY DeviceNumbers DEF DeviceInv, DeviceTypeOK
  <2> QED BY <2>1, <2>2, DeviceNumbers DEF DeviceInv, DeviceInTime, DeviceEndsInTime
<1>2. DeviceInv /\ [DeviceNext]_deviceVars => [GapGrows]_deviceVars
  <2> SUFFICES ASSUME DeviceInv, [DeviceNext]_deviceVars, device' = device PROVE GapGrows
    BY DeviceKeeps
  <2>1. device.gap \in Nat
    BY DeviceNumbers DEF DeviceInv, DeviceTypeOK
  <2> QED BY <2>1 DEF GapGrows
<1>3. DeviceInv /\ [DeviceNext]_deviceVars => DeviceInv'
  BY DeviceKeeps
<1>4. DeviceSpec => []DeviceEndsInTime /\ [][GapGrows]_deviceVars
  BY <1>1, <1>2, <1>3, DeviceStarts, PTL DEF DeviceSpec
<1> QED BY <1>4 DEF DeviceKeepsTime, NeverHastier, GapGrows

-----------------------------------------------------------------------------
(***************************************************************************)
(* The configuration: the user's files decide, and the names of a setting  *)
(* agree, whatever files, environments and edits there are.                *)
(***************************************************************************)

\* A section with all its names, deprecated ones included, and its names agreeing.
Names(global) ==
  global = [summary |-> global.summary, summaries |-> global.summaries, text |-> global.text,
            enabled |-> global.enabled, verbosity |-> global.verbosity, tier |-> global.tier]
Agreeing(global) ==
  /\ global.summaries = NotNone(global.summary)
  /\ global.enabled = NotNone(global.text)
  /\ global.verbosity = UnlessNone(global.text)

LEMMA NormalisedAgrees == \A section : Names(Normalised(section)) /\ Agreeing(Normalised(section))
BY DEF Names, Agreeing, Normalised

LEMMA WithTextAgrees ==
  ASSUME NEW global, NEW env, Names(global), Agreeing(global)
  PROVE  Names(WithText(global, env)) /\ Agreeing(WithText(global, env))
<1> DEFINE text == TextOf(env)
           enabled == NotNone(text)
           verbosity == UnlessNone(text)
           new == [global EXCEPT !.text = text, !.enabled = enabled, !.verbosity = verbosity]
<1>1. /\ enabled = NotNone(text) /\ verbosity = UnlessNone(text)
      /\ WithText(global, env) = IF text = Nothing THEN global ELSE new
  BY DEF WithText
<1> HIDE DEF text, enabled, verbosity
<1>2. new = [summary |-> global.summary, summaries |-> global.summaries, text |-> text,
             enabled |-> enabled, verbosity |-> verbosity, tier |-> global.tier]
  <2> DEFINE told == [summary |-> global.summary, summaries |-> global.summaries, text |-> global.text,
                      enabled |-> global.enabled, verbosity |-> global.verbosity, tier |-> global.tier]
             one == [told EXCEPT !.text = text]
             two == [one EXCEPT !.enabled = enabled]
  <2>1. global = told
    BY DEF Names
  <2>2. new = [two EXCEPT !.verbosity = verbosity]
    BY <2>1 DEF new
  <2>3. one = [summary |-> global.summary, summaries |-> global.summaries, text |-> text,
               enabled |-> global.enabled, verbosity |-> global.verbosity, tier |-> global.tier]
    OBVIOUS
  <2> HIDE DEF one, new
  <2>4. two = [summary |-> global.summary, summaries |-> global.summaries, text |-> text,
               enabled |-> enabled, verbosity |-> global.verbosity, tier |-> global.tier]
    BY <2>3
  <2> HIDE DEF two, told
  <2> QED BY <2>2, <2>4
<1> HIDE DEF new
<1>3. Names(new) /\ Agreeing(new)
  BY <1>1, <1>2 DEF Names, Agreeing
<1> QED BY <1>1, <1>3

\* The environment overrides a name together with those that say the same.
LEMMA OverridesAgree ==
  ASSUME NEW global, NEW env \in Environments, Names(global), Agreeing(global)
  PROVE  Agreeing(Overrides(global, env))
<1> DEFINE summaries == OrElse(env.summaries, env.thinking)
           said == WithText(global, env)
           summary == OfFlag(summaries, "auto", "none")
           summed == IF summaries = Nothing THEN said
                     ELSE [said EXCEPT !.summary = summary, !.summaries = summaries]
<1>1. Names(said) /\ Agreeing(said)
  BY WithTextAgrees
<1>2. summaries \in BOOLEAN \cup {Nothing}
  BY EnvironmentsAssumption DEF OrElse
<1>3. summaries # Nothing => summaries = NotNone(summary)
  <2>1. CASE summaries = TRUE
    BY <2>1, SettingsAssumption DEF OfFlag, NotNone
  <2>2. CASE summaries = FALSE
    BY <2>2, SettingsAssumption DEF OfFlag, NotNone
  <2> QED BY <1>2, <2>1, <2>2
<1> HIDE DEF summaries, said, summary
<1>4. Names(summed) /\ Agreeing(summed)
  <2>1. CASE summaries = Nothing
    BY <1>1, <2>1
  <2>2. CASE summaries # Nothing
    <3>1. summed = [summary |-> summary, summaries |-> summaries, text |-> said.text,
                    enabled |-> said.enabled, verbosity |-> said.verbosity, tier |-> said.tier]
      BY <1>1, <2>2 DEF Names
    <3> QED BY <1>1, <1>3, <2>2, <3>1 DEF Names, Agreeing
  <2> QED BY <2>1, <2>2
<1>5. Overrides(global, env) = [summed EXCEPT !.tier = OrElse(env.tier, @)]
  BY DEF Overrides, summaries, said, summary
<1> HIDE DEF summed
<1>6. Overrides(global, env) =
        [summary |-> summed.summary, summaries |-> summed.summaries, text |-> summed.text,
         enabled |-> summed.enabled, verbosity |-> summed.verbosity,
         tier |-> OrElse(env.tier, summed.tier)]
  BY <1>4, <1>5 DEF Names
<1> QED BY <1>4, <1>6 DEF Agreeing

\* What a process may run with.
Loadable == {NoConfig} \cup {Parsed(doc) : doc \in Documents \cup {Template}}
Settings == {Resolved(env, config) : env \in Environments, config \in Loadable}

LEMMA SettingsAgree == \A settings \in Settings : Agreeing(settings.global)
<1> SUFFICES ASSUME NEW env \in Environments, NEW config \in Loadable
             PROVE  Agreeing(Resolved(env, config).global)
  BY DEF Settings
<1>1. Names(config.global) /\ Agreeing(config.global)
  BY NormalisedAgrees DEF Loadable, NoConfig, Parsed, Silent
<1>2. Resolved(env, config).global = Overrides(config.global, env)
  BY DEF Resolved, Loadable, NoConfig, Parsed
<1> QED BY <1>1, <1>2, OverridesAgree

-----------------------------------------------------------------------------
(* The files and the starts.                                               *)

Files == Documents \cup {Nothing, Torn, Template}
Searches == {<<>>, <<"canonical">>, <<"legacy">>, <<"canonical", "legacy">>, <<"explicit">>}
StartState == [pc : {"idle", "mkdir", "write", "load", "read", "ready"},
               env : Environments \cup {Nothing}, left : Searches, both : BOOLEAN,
               settings : Settings \cup {Nothing}, since : 0 .. MaxEdits]

ConfigTypes ==
  /\ disk \in [Paths -> Files] /\ aside \subseteq Documents \cup {Torn, Template}
  /\ edits \in 0 .. MaxEdits /\ calm \subseteq Starts
  /\ starts \in [Starts -> StartState]

\* A file that is not among those still to be read is not right.
Right(path) == DocumentIsValid(disk[path])
SearchGoesOn(p) ==
  LET left == starts[p].left IN
  IF starts[p].env.explicit
  THEN left = <<"explicit">> \/ (left = <<>> /\ ~Right("explicit"))
  ELSE \/ left = <<"canonical", "legacy">>
       \/ left = <<"canonical">> /\ ~Right("legacy")
       \/ left = <<"legacy">> /\ ~Right("canonical")
       \/ left = <<>> /\ ~Right("canonical") /\ ~Right("legacy")

NoneOfTheUsers == disk["canonical"] \notin Documents /\ disk["legacy"] \notin Documents

StartSound(p) ==
  /\ starts[p].pc # "idle" => starts[p].env \in Environments
  /\ starts[p].pc = "ready" => starts[p].settings \in Settings
  /\ starts[p].since <= edits
  /\ starts[p].pc = "mkdir" /\ edits = starts[p].since => NoneOfTheUsers
  /\ starts[p].pc = "read" /\ p \in calm => SearchGoesOn(p)

ConfigInv == ConfigTypes /\ \A p \in Starts : StartSound(p)

LEMMA NothingIsWrong == ~DocumentIsValid(Nothing)
BY DEF DocumentIsValid

LEMMA ConfigStarts == ConfigInit => ConfigInv
<1> SUFFICES ASSUME ConfigInit PROVE ConfigInv
  OBVIOUS
<1>1. Idle \in StartState
  BY SettingsAssumption DEF Idle, StartState, Searches
<1>2. ConfigTypes
  BY <1>1, SettingsAssumption DEF ConfigInit, ConfigTypes, Files
<1>3. ASSUME NEW p \in Starts PROVE StartSound(p)
  BY DEF ConfigInit, Idle, StartSound
<1> QED BY <1>2, <1>3 DEF ConfigInv

\* A step of one process changes its own start.
LEMMA StartStepIs ==
  ASSUME ConfigInv, NEW p \in Starts, NEW from, NEW q \in StartState, Step(p, from, q)
  PROVE  /\ starts[p].pc = from
         /\ starts' \in [Starts -> StartState]
         /\ \A x \in Starts : starts'[x] = IF x = p THEN q ELSE starts[x]
BY DEF ConfigInv, ConfigTypes, Step

\* Others notice at most that files appear which no user wrote, and whoever is to
\* rely on the files must look again.
Unnoticed ==
  \/ UNCHANGED <<disk, edits>>
  \/ /\ calm' = {} /\ edits' = edits
     /\ \A path \in {"canonical", "legacy"} : disk'[path] \in {disk[path], Nothing, Torn, Template}
  \/ calm' = {} /\ edits' > edits

LEMMA OthersKeep ==
  ASSUME ConfigInv, Unnoticed, edits' \in Nat,
         NEW x \in Starts, starts'[x] = starts[x], x \in calm' => x \in calm
  PROVE  StartSound(x)'
<1>1. StartSound(x) /\ edits \in Nat /\ starts[x].since \in Nat
  BY SettingsAssumption DEF ConfigInv, ConfigTypes, StartState
<1>2. CASE UNCHANGED <<disk, edits>>
  BY <1>1, <1>2 DEF StartSound, NoneOfTheUsers, SearchGoesOn, Right
<1>3. CASE /\ calm' = {} /\ edits' = edits
           /\ \A path \in {"canonical", "legacy"} : disk'[path] \in {disk[path], Nothing, Torn, Template}
  BY <1>1, <1>3, DocumentsAssumption DEF StartSound, NoneOfTheUsers
<1>4. CASE calm' = {} /\ edits' > edits
  BY <1>1, <1>4 DEF StartSound
<1> QED BY <1>2, <1>3, <1>4 DEF Unnoticed

\* A step of p keeps the invariant if p's new start is sound.
LEMMA StepKeeps ==
  ASSUME ConfigInv, NEW p \in Starts, NEW from, NEW q \in StartState, Step(p, from, q),
         Unnoticed, UNCHANGED edits, calm' \subseteq calm \cup {p},
         disk' \in [Paths -> Files], aside' \subseteq Documents \cup {Torn, Template},
         StartSound(p)'
  PROVE  ConfigInv'
<1>1. /\ starts' \in [Starts -> StartState]
      /\ \A x \in Starts \ {p} : starts'[x] = starts[x]
  BY StartStepIs
<1>2. ConfigTypes'
  BY <1>1 DEF ConfigInv, ConfigTypes
<1>3. edits' \in Nat
  BY SettingsAssumption DEF ConfigInv, ConfigTypes
<1>4. ASSUME NEW x \in Starts \ {p} PROVE StartSound(x)'
  BY <1>1, <1>3, OthersKeep
<1> QED BY <1>2, <1>4 DEF ConfigInv

LEMMA EnsureKeeps ==
  ASSUME ConfigInv, NEW p \in Starts, NEW env \in Environments, Ensure(p, env)
  PROVE  ConfigInv'
<1> DEFINE pc == IF There("canonical") \/ There("legacy") THEN "load" ELSE "mkdir"
           q == [Idle EXCEPT !.pc = pc, !.env = env, !.since = edits]
<1>0. pc \in {"load", "mkdir"}
  OBVIOUS
<1> HIDE DEF pc
<1>1. edits \in 0 .. MaxEdits /\ edits \in Nat
  BY SettingsAssumption DEF ConfigInv, ConfigTypes
<1>2. Idle \in StartState
  BY SettingsAssumption DEF Idle, StartState, Searches
<1>3. q \in StartState /\ q.pc = pc /\ q.env = env /\ q.since = edits
  BY <1>0, <1>1, <1>2 DEF StartState
<1>4. Step(p, "idle", q) /\ UNCHANGED <<disk, aside, edits, calm>>
  BY DEF Ensure, pc
<1>5. pc = "mkdir" => NoneOfTheUsers
  BY DocumentsAssumption DEF There, NoneOfTheUsers, pc
<1> HIDE DEF q
<1>6. starts'[p] = q
  BY <1>3, <1>4, StartStepIs
<1>7. StartSound(p)'
  BY <1>0, <1>1, <1>3, <1>4, <1>5, <1>6 DEF StartSound, NoneOfTheUsers
<1> QED BY <1>3, <1>4, <1>7, StepKeeps DEF Unnoticed, ConfigInv, ConfigTypes

\* A process that only moves on, from where it has its environment.
LEMMA MovedIs ==
  ASSUME ConfigInv, NEW p \in Starts, starts[p].pc \in {"mkdir", "write", "load"},
         NEW pc \in {"write", "load"}
  PROVE  LET q == [starts[p] EXCEPT !.pc = pc] IN
         /\ q \in StartState /\ q.pc = pc /\ q.env = starts[p].env /\ q.since = starts[p].since
BY DEF ConfigInv, ConfigTypes, StartState

LEMMA MoveOnKeeps ==
  ASSUME ConfigInv, NEW p \in Starts, starts[p].pc \in {"mkdir", "write", "load"},
         NEW pc \in {"write", "load"}, NEW from, Step(p, from, [starts[p] EXCEPT !.pc = pc]),
         Unnoticed, UNCHANGED <<aside, edits>>, calm' \subseteq calm, disk' \in [Paths -> Files]
  PROVE  ConfigInv'
<1> DEFINE q == [starts[p] EXCEPT !.pc = pc]
<1>1. q \in StartState /\ q.pc = pc /\ q.env = starts[p].env /\ q.since = starts[p].since
  BY MovedIs
<1>2. Step(p, from, q)
  OBVIOUS
<1> HIDE DEF q
<1>3. starts'[p] = q
  BY <1>1, <1>2, StartStepIs
<1>4. StartSound(p) /\ aside \subseteq Documents \cup {Torn, Template}
  BY DEF ConfigInv, ConfigTypes
<1>5. StartSound(p)'
  BY <1>1, <1>3, <1>4 DEF StartSound
<1> QED BY <1>1, <1>2, <1>4, <1>5, StepKeeps

LEMMA WritingKeeps ==
  ASSUME ConfigInv, NEW p \in Starts, OpenFile(p) \/ WriteFile(p) \/ EnsureFails(p)
  PROVE  ConfigInv'
<1>1. disk \in [Paths -> Files] /\ "canonical" \in Paths /\ "legacy" \in Paths
  BY DEF ConfigInv, ConfigTypes, Paths
<1>2. CASE OpenFile(p)
  <2>1. Unnoticed /\ disk' \in [Paths -> Files]
    BY <1>1, <1>2 DEF OpenFile, Unnoticed, Files
  <2>2. Step(p, "mkdir", [starts[p] EXCEPT !.pc = "write"]) /\ starts[p].pc = "mkdir"
    BY <1>2 DEF OpenFile, Step
  <2> QED BY <1>2, <2>1, <2>2, MoveOnKeeps DEF OpenFile
<1>3. CASE WriteFile(p)
  <2>1. Unnoticed /\ disk' \in [Paths -> Files]
    BY <1>1, <1>3 DEF WriteFile, Unnoticed, Files
  <2>2. Step(p, "write", [starts[p] EXCEPT !.pc = "load"]) /\ starts[p].pc = "write"
    BY <1>3 DEF WriteFile, Step
  <2> QED BY <1>3, <2>1, <2>2, MoveOnKeeps DEF WriteFile
<1>4. CASE EnsureFails(p)
  <2>1. Unnoticed /\ disk' \in [Paths -> Files] /\ calm' \subseteq calm /\ UNCHANGED <<aside, edits>>
    BY <1>1, <1>4 DEF EnsureFails, Unnoticed
  <2>2. /\ Step(p, starts[p].pc, [starts[p] EXCEPT !.pc = "load"])
        /\ starts[p].pc \in {"mkdir", "write", "load"}
    BY <1>4 DEF EnsureFails
  <2> QED BY <2>1, <2>2, MoveOnKeeps
<1> QED BY <1>2, <1>3, <1>4

\* What the candidates are follows from which files there are.
LEMMA LookKeeps ==
  ASSUME ConfigInv, NEW p \in Starts, Look(p)
  PROVE  ConfigInv'
<1> DEFINE explicit == starts[p].env.explicit
           left == IF explicit THEN <<"explicit">> ELSE Candidates
           both == ~explicit /\ There("canonical") /\ There("legacy")
           q == [starts[p] EXCEPT !.pc = "read", !.left = left, !.both = both]
<1>1. Step(p, "load", q) /\ calm' = calm \cup {p} /\ UNCHANGED <<disk, aside, edits>>
  BY DEF Look
<1>2. starts[p] \in StartState /\ starts[p].pc = "load" /\ StartSound(p)
  BY <1>1 DEF ConfigInv, ConfigTypes, Step
<1>3. left \in Searches /\ both \in BOOLEAN
  BY DEF Candidates, Searches
<1>4. IF explicit THEN left = <<"explicit">>
      ELSE \/ left = <<"canonical", "legacy">>
           \/ left = <<"canonical">> /\ ~Right("legacy")
           \/ left = <<"legacy">> /\ ~Right("canonical")
  BY NothingIsWrong DEF Candidates, There, Right
<1> HIDE DEF left, both, explicit
<1>5. /\ q \in StartState /\ q.pc = "read" /\ q.left = left
      /\ q.env = starts[p].env /\ q.since = starts[p].since
  BY <1>2, <1>3 DEF StartState
<1> HIDE DEF q
<1>6. starts'[p] = q
  BY <1>1, <1>5, StartStepIs
<1>7. StartSound(p)'
  <2>1. SearchGoesOn(p)'
    BY <1>1, <1>4, <1>5, <1>6 DEF SearchGoesOn, Right, explicit
  <2> QED BY <1>1, <1>2, <1>5, <1>6, <2>1 DEF StartSound
<1> QED BY <1>1, <1>5, <1>7, StepKeeps DEF Unnoticed, ConfigInv, ConfigTypes

\* A file that is not right is skipped; the search goes on.
LEMMA SearchIs ==
  /\ Head(<<"explicit">>) = "explicit" /\ Tail(<<"explicit">>) = <<>>
  /\ Head(<<"canonical">>) = "canonical" /\ Tail(<<"canonical">>) = <<>>
  /\ Head(<<"legacy">>) = "legacy" /\ Tail(<<"legacy">>) = <<>>
  /\ Head(<<"canonical", "legacy">>) = "canonical" /\ Tail(<<"canonical", "legacy">>) = <<"legacy">>
<1>1. \A path : Head(<<path>>) = path /\ Tail(<<path>>) = <<>>
  OBVIOUS
<1>2. \A path, other : Head(<<path, other>>) = path /\ Tail(<<path, other>>) = <<other>>
  OBVIOUS
<1> QED BY <1>1, <1>2

LEMMA SearchesShrink ==
  ASSUME NEW left \in Searches, left # <<>>
  PROVE  Tail(left) \in Searches /\ Head(left) \in Paths
<1>1. CASE left = <<"explicit">> \/ left = <<"canonical">> \/ left = <<"legacy">>
  BY <1>1, SearchIs DEF Searches, Paths
<1>2. CASE left = <<"canonical", "legacy">>
  BY <1>2, SearchIs DEF Searches, Paths
<1> QED BY <1>1, <1>2 DEF Searches

LEMMA SkipKeeps ==
  ASSUME ConfigInv, NEW p \in Starts, Skip(p)
  PROVE  ConfigInv'
<1> DEFINE left == starts[p].left
           rest == Tail(left)
           q == [starts[p] EXCEPT !.left = rest]
<1>1. /\ Step(p, "read", q) /\ UNCHANGED <<disk, aside, edits, calm>>
      /\ left # <<>> /\ ~Right(Head(left))
  BY DEF Skip, Right
<1>2. starts[p] \in StartState /\ starts[p].pc = "read" /\ StartSound(p)
  BY <1>1 DEF ConfigInv, ConfigTypes, Step
<1>3. left \in Searches
  BY <1>2 DEF StartState
<1>4. rest \in Searches
  BY <1>1, <1>3, SearchesShrink
<1> HIDE DEF rest
<1>5. /\ q \in StartState /\ q.pc = "read" /\ q.left = rest
      /\ q.env = starts[p].env /\ q.since = starts[p].since
  BY <1>2, <1>4 DEF StartState
<1> HIDE DEF q
<1>6. starts'[p] = q
  BY <1>1, <1>5, StartStepIs
<1>7. ASSUME SearchGoesOn(p) PROVE SearchGoesOn(p)'
  <2>1. IF starts[p].env.explicit
        THEN rest = <<>> /\ ~Right("explicit")
        ELSE \/ rest = <<"legacy">> /\ ~Right("canonical")
             \/ rest = <<>> /\ ~Right("canonical") /\ ~Right("legacy")
    BY <1>1, <1>3, <1>7, SearchIs DEF SearchGoesOn, rest
  <2> QED BY <1>1, <1>5, <1>6, <2>1 DEF SearchGoesOn, Right
<1>8. StartSound(p)'
  BY <1>1, <1>2, <1>5, <1>6, <1>7 DEF StartSound
<1> QED BY <1>1, <1>5, <1>8, StepKeeps DEF Unnoticed, ConfigInv, ConfigTypes

LEMMA ReadyIs ==
  ASSUME ConfigInv, NEW p \in Starts, starts[p].pc = "read", NEW config \in Loadable
  PROVE  LET q == [starts[p] EXCEPT !.pc = "ready", !.left = <<>>, !.both = FALSE, !.since = 0,
                                    !.settings = Resolved(starts[p].env, config)] IN
         /\ q \in StartState /\ q.pc = "ready" /\ q.since = 0 /\ q.env \in Environments
         /\ q.settings = Resolved(starts[p].env, config) /\ q.settings \in Settings
<1> DEFINE settings == Resolved(starts[p].env, config)
           one == [starts[p] EXCEPT !.pc = "ready", !.left = <<>>]
           two == [one EXCEPT !.both = FALSE, !.since = 0]
           q == [two EXCEPT !.settings = settings]
<1>1. starts[p] \in StartState /\ starts[p].env \in Environments /\ 0 \in 0 .. MaxEdits
  BY SettingsAssumption DEF ConfigInv, ConfigTypes, StartSound
<1>2. settings \in Settings
  BY <1>1 DEF Settings
<1> HIDE DEF settings
<1>3. one \in StartState /\ one.pc = "ready" /\ one.env = starts[p].env
  BY <1>1 DEF StartState, Searches
<1> HIDE DEF one
<1>4. two \in StartState /\ two.pc = "ready" /\ two.env = starts[p].env /\ two.since = 0
  BY <1>1, <1>3 DEF StartState
<1> HIDE DEF two
<1>5. q \in StartState /\ q.pc = "ready" /\ q.env = starts[p].env /\ q.since = 0 /\ q.settings = settings
  BY <1>2, <1>4 DEF StartState
<1>6. q = [starts[p] EXCEPT !.pc = "ready", !.left = <<>>, !.both = FALSE, !.since = 0,
                            !.settings = Resolved(starts[p].env, config)]
  BY DEF one, two, settings
<1> HIDE DEF q
<1> QED BY <1>1, <1>2, <1>5, <1>6 DEF settings

\* Whoever has read the last of its files runs with what they say.
LEMMA ReadyKeeps ==
  ASSUME ConfigInv, NEW p \in Starts, NEW config \in Loadable, Ready(p, config),
         Unnoticed, UNCHANGED edits, calm' \subseteq calm,
         disk' \in [Paths -> Files], aside' \subseteq Documents \cup {Torn, Template}
  PROVE  ConfigInv' /\ starts'[p].settings = Resolved(starts[p].env, config)
<1> DEFINE q == [starts[p] EXCEPT !.pc = "ready", !.left = <<>>, !.both = FALSE, !.since = 0,
                                  !.settings = Resolved(starts[p].env, config)]
<1>1. Step(p, "read", q) /\ starts[p].pc = "read"
  BY DEF Ready, Step
<1>2. /\ q \in StartState /\ q.pc = "ready" /\ q.since = 0 /\ q.env \in Environments
      /\ q.settings = Resolved(starts[p].env, config) /\ q.settings \in Settings
  BY <1>1, ReadyIs
<1> HIDE DEF q
<1>3. starts'[p] = q
  BY <1>1, <1>2, StartStepIs
<1>4. edits' \in Nat
  BY SettingsAssumption DEF ConfigInv, ConfigTypes
<1>5. StartSound(p)'
  BY <1>2, <1>3, <1>4 DEF StartSound
<1> QED BY <1>1, <1>2, <1>3, <1>5, StepKeeps

\* What a step that makes p ready owes to the files.
BestIsUsed(p) ==
  p \in calm =>
    starts'[p].settings = Resolved(starts[p].env, Best(disk, starts[p].env.explicit))

LEMMA ReadKeeps ==
  ASSUME ConfigInv, NEW p \in Starts, Read(p)
  PROVE  ConfigInv' /\ BestIsUsed(p)
<1> DEFINE left == starts[p].left
           path == Head(left)
           config == Parsed(disk[path])
<1>1. /\ left # <<>> /\ Right(path) /\ Ready(p, config) /\ UNCHANGED edits
      /\ \/ /\ There("legacy") /\ aside' = aside \cup {disk["legacy"]}
            /\ disk' = [disk EXCEPT !["legacy"] = Nothing] /\ calm' = {}
         \/ UNCHANGED <<disk, aside, calm>>
  BY DEF Read, Right
<1>2. starts[p] \in StartState /\ starts[p].pc = "read" /\ StartSound(p) /\ disk \in [Paths -> Files]
  BY <1>1 DEF ConfigInv, ConfigTypes, Ready, Step
<1>3. left \in Searches
  BY <1>2 DEF StartState
<1>4. path \in Paths
  BY <1>1, <1>3, SearchesShrink
<1>5. config \in Loadable
  <2>1. disk[path] \in Documents \cup {Template}
    BY <1>1, <1>2, <1>4 DEF Files, Right, DocumentIsValid
  <2> QED BY <2>1 DEF Loadable
<1>6. ASSUME SearchGoesOn(p)
      PROVE  config = Best(disk, starts[p].env.explicit)
  <2>1. CASE starts[p].env.explicit
    BY <1>1, <1>6, <2>1, SearchIs DEF SearchGoesOn, Best, Right
  <2>2. CASE ~starts[p].env.explicit /\ left = <<"legacy">>
    BY <1>1, <1>6, <2>2, SearchIs DEF SearchGoesOn, Best, Right
  <2>3. CASE ~starts[p].env.explicit /\ left # <<"legacy">>
    <3>1. path = "canonical"
      BY <1>1, <1>6, <2>3, SearchIs DEF SearchGoesOn
    <3> QED BY <1>1, <2>3, <3>1 DEF Best, Right
  <2> QED BY <2>1, <2>2, <2>3
<1> HIDE DEF config, path
<1>7. /\ Unnoticed /\ calm' \subseteq calm
      /\ disk' \in [Paths -> Files] /\ aside' \subseteq Documents \cup {Torn, Template}
  <2>1. aside \subseteq Documents \cup {Torn, Template} /\ disk["legacy"] \in Files
    BY <1>2 DEF ConfigInv, ConfigTypes, Paths
  <2>2. CASE UNCHANGED <<disk, aside, calm>>
    BY <1>1, <1>2, <2>1, <2>2 DEF Unnoticed
  <2>3. CASE /\ There("legacy") /\ aside' = aside \cup {disk["legacy"]}
             /\ disk' = [disk EXCEPT !["legacy"] = Nothing] /\ calm' = {}
    <3>1. disk["legacy"] \in Documents \cup {Torn, Template}
      BY <2>1, <2>3 DEF There, Files
    <3>2. disk' \in [Paths -> Files]
      BY <1>2, <2>3 DEF Files
    <3>3. \A place \in {"canonical", "legacy"} : disk'[place] \in {disk[place], Nothing, Torn, Template}
      BY <1>2, <2>3 DEF Paths
    <3> QED BY <1>1, <2>1, <2>3, <3>1, <3>2, <3>3 DEF Unnoticed
  <2> QED BY <1>1, <2>2, <2>3
<1>8. ConfigInv' /\ starts'[p].settings = Resolved(starts[p].env, config)
  BY <1>1, <1>5, <1>7, ReadyKeeps
<1>9. BestIsUsed(p)
  BY <1>2, <1>6, <1>8 DEF BestIsUsed, StartSound
<1> QED BY <1>8, <1>9

LEMMA GiveUpKeeps ==
  ASSUME ConfigInv, NEW p \in Starts, GiveUp(p)
  PROVE  ConfigInv' /\ BestIsUsed(p)
<1>1. Ready(p, NoConfig) /\ starts[p].left = <<>> /\ UNCHANGED <<disk, aside, edits, calm>>
  BY DEF GiveUp
<1>2. starts[p].pc = "read" /\ StartSound(p) /\ NoConfig \in Loadable
  BY <1>1 DEF ConfigInv, Ready, Step, Loadable
<1>3. ConfigInv' /\ starts'[p].settings = Resolved(starts[p].env, NoConfig)
  BY <1>1, <1>2, ReadyKeeps DEF Unnoticed, ConfigInv, ConfigTypes
<1>4. SearchGoesOn(p) => NoConfig = Best(disk, starts[p].env.explicit)
  BY <1>1 DEF SearchGoesOn, Best, Right
<1> QED BY <1>2, <1>3, <1>4 DEF BestIsUsed, StartSound

LEMMA ExitKeeps ==
  ASSUME ConfigInv, NEW p \in Starts, Exit(p)
  PROVE  ConfigInv'
<1>1. Idle \in StartState /\ Idle.pc = "idle" /\ Idle.since = 0
  BY SettingsAssumption DEF Idle, StartState, Searches
<1>2. Step(p, starts[p].pc, Idle) /\ UNCHANGED <<disk, aside, edits, calm>>
  BY DEF Exit, Step
<1>3. starts'[p] = Idle /\ edits \in Nat
  BY <1>1, <1>2, StartStepIs, SettingsAssumption DEF ConfigInv, ConfigTypes
<1>4. StartSound(p)'
  BY <1>1, <1>2, <1>3 DEF StartSound
<1> QED BY <1>1, <1>2, <1>4, StepKeeps DEF Unnoticed, ConfigInv, ConfigTypes

LEMMA EditKeeps ==
  ASSUME ConfigInv, NEW path \in Paths, NEW doc \in Documents \cup {Nothing}, Edit(path, doc)
  PROVE  ConfigInv'
<1>1. /\ edits \in 0 .. MaxEdits /\ edits < MaxEdits /\ edits' = edits + 1 /\ MaxEdits \in Nat
      /\ UNCHANGED <<aside, starts>> /\ calm' = {}
  BY SettingsAssumption DEF Edit, ConfigInv, ConfigTypes
<1>2. disk' \in [Paths -> Files]
  BY DEF Edit, ConfigInv, ConfigTypes, Files
<1>3. ConfigTypes'
  BY <1>1, <1>2 DEF ConfigInv, ConfigTypes
<1>4. Unnoticed /\ edits' \in Nat
  BY <1>1 DEF Unnoticed
<1>5. ASSUME NEW x \in Starts PROVE StartSound(x)'
  BY <1>1, <1>4, OthersKeep
<1> QED BY <1>3, <1>5 DEF ConfigInv

\* What ConfigurationIsTheUsers asks of a step.
StartsAreTheUsers ==
  \A p \in Starts :
    /\ starts[p].pc = "read" /\ starts'[p].pc = "ready" => BestIsUsed(p)
    /\ starts[p].pc = "mkdir" /\ starts'[p].pc = "write" /\ edits = starts[p].since => NoneOfTheUsers

LEMMA ConfigKeeps == ConfigInv /\ [ConfigNext]_configVars => ConfigInv' /\ StartsAreTheUsers
<1> SUFFICES ASSUME ConfigInv, [ConfigNext]_configVars PROVE ConfigInv' /\ StartsAreTheUsers
  OBVIOUS
<1>1. \A p \in Starts : starts[p].pc = "mkdir" /\ edits = starts[p].since => NoneOfTheUsers
  BY DEF ConfigInv, StartSound
<1>2. ASSUME NEW p \in Starts, \A x \in Starts \ {p} : starts'[x] = starts[x],
             starts[p].pc = "read" /\ starts'[p].pc = "ready" => BestIsUsed(p)
      PROVE  StartsAreTheUsers
  BY <1>1, <1>2 DEF StartsAreTheUsers
<1>3. ASSUME NEW p \in Starts, \E env \in Environments : Ensure(p, env)
      PROVE  ConfigInv' /\ StartsAreTheUsers
  <2>1. ConfigInv' /\ starts[p].pc # "read" /\ \A x \in Starts \ {p} : starts'[x] = starts[x]
    BY <1>3, EnsureKeeps DEF Ensure, Step, ConfigInv, ConfigTypes
  <2> QED BY <1>2, <2>1
<1>4. ASSUME NEW p \in Starts, OpenFile(p) \/ WriteFile(p) \/ EnsureFails(p) \/ Look(p)
      PROVE  ConfigInv' /\ StartsAreTheUsers
  <2>1. ConfigInv'
    BY <1>4, WritingKeeps, LookKeeps
  <2>2. starts[p].pc # "read" /\ \A x \in Starts \ {p} : starts'[x] = starts[x]
    BY <1>4 DEF OpenFile, WriteFile, EnsureFails, Look, Step, ConfigInv, ConfigTypes
  <2> QED BY <1>2, <2>1, <2>2
<1>5. ASSUME NEW p \in Starts, Skip(p)
      PROVE  ConfigInv' /\ StartsAreTheUsers
  <2>1. starts' = [starts EXCEPT ![p] = [starts[p] EXCEPT !.left = Tail(@)]] /\ starts[p].pc = "read"
    BY <1>5 DEF Skip, Step
  <2>2. starts'[p].pc = "read" /\ \A x \in Starts \ {p} : starts'[x] = starts[x]
    BY <2>1 DEF ConfigInv, ConfigTypes, StartState
  <2> QED BY <1>2, <1>5, <2>2, SkipKeeps
<1>6. ASSUME NEW p \in Starts, Read(p) \/ GiveUp(p)
      PROVE  ConfigInv' /\ StartsAreTheUsers
  <2>1. \A x \in Starts \ {p} : starts'[x] = starts[x]
    BY <1>6 DEF Read, GiveUp, Ready, Step, ConfigInv, ConfigTypes
  <2> QED BY <1>2, <1>6, <2>1, ReadKeeps, GiveUpKeeps
<1>7. ASSUME NEW p \in Starts, Exit(p)
      PROVE  ConfigInv' /\ StartsAreTheUsers
  <2>1. starts'[p].pc = "idle" /\ \A x \in Starts \ {p} : starts'[x] = starts[x]
    BY <1>7 DEF Exit, Idle, ConfigInv, ConfigTypes
  <2> QED BY <1>2, <1>7, <2>1, ExitKeeps
<1>8. ASSUME NEW path \in Paths, NEW doc \in Documents \cup {Nothing}, Edit(path, doc)
      PROVE  ConfigInv' /\ StartsAreTheUsers
  BY <1>8, EditKeeps DEF Edit, StartsAreTheUsers
<1>9. CASE UNCHANGED configVars
  <2>1. ConfigTypes'
    BY <1>9 DEF configVars, ConfigInv, ConfigTypes
  <2>2. \A p \in Starts : StartSound(p)'
    BY <1>9 DEF configVars, ConfigInv, StartSound, NoneOfTheUsers, SearchGoesOn, Right
  <2> QED BY <1>9, <2>1, <2>2 DEF configVars, ConfigInv, StartsAreTheUsers
<1> QED BY <1>3, <1>4, <1>5, <1>6, <1>7, <1>8, <1>9 DEF ConfigNext, StartStep

\* No wrong or torn file hides a right one from a process whose files nobody
\* changes while it loads, and the template takes the place of no file that was
\* there when the process started (loadConfigFile, ensureDefaultConfigFile).
THEOREM ConfigurationsAreTheUsers == ConfigSpec => ConfigurationIsTheUsers
<1>1. ConfigInv /\ [ConfigNext]_configVars => ConfigInv' /\ [StartsAreTheUsers]_configVars
  BY ConfigKeeps
<1>2. ConfigSpec => [][StartsAreTheUsers]_configVars
  BY <1>1, ConfigStarts, PTL DEF ConfigSpec
<1>3. StartsAreTheUsers =>
        \A p \in Starts :
          starts[p].pc = "read" /\ starts'[p].pc = "ready" /\ p \in calm =>
            starts'[p].settings = Resolved(starts[p].env, Best(disk, starts[p].env.explicit))
  BY DEF StartsAreTheUsers, BestIsUsed
<1>4. StartsAreTheUsers =>
        \A p \in Starts :
          starts[p].pc = "mkdir" /\ starts'[p].pc = "write" /\ edits = starts[p].since =>
            {disk["canonical"], disk["legacy"]} \cap Documents = {}
  BY DEF StartsAreTheUsers, NoneOfTheUsers
<1> QED BY <1>2, <1>3, <1>4, PTL DEF ConfigurationIsTheUsers, UsesWhatIsThere, TemplateOnlyWhereNone

LEMMA ConfigIsSound == ConfigInv => ConfigTypeOK /\ AliasesAgree
<1> SUFFICES ASSUME ConfigInv PROVE ConfigTypeOK /\ AliasesAgree
  OBVIOUS
<1>1. ConfigTypeOK
  BY DEF ConfigInv, ConfigTypes, StartState, Files, ConfigTypeOK
<1>2. ASSUME NEW p \in Starts, starts[p].pc = "ready"
      PROVE  Agreeing(starts[p].settings.global)
  BY <1>2, SettingsAgree DEF ConfigInv, StartSound
<1> QED BY <1>1, <1>2 DEF AliasesAgree, Agreeing

\* The deprecated names of every setting say what the new ones say, whatever the
\* files and the environment said by which name (normalizeModelBehavior, resolveConfig).
THEOREM NamesAgree == ConfigSpec => []AliasesAgree
BY ConfigStarts, ConfigKeeps, ConfigIsSound, PTL DEF ConfigSpec

-----------------------------------------------------------------------------
(***************************************************************************)
(* The process: a step of one part leaves the others alone.                *)
(***************************************************************************)

ProcessInv == LifeInv /\ RolesInv /\ LoginTypeOK /\ DeviceInv /\ ConfigInv

LEMMA ProcessStarts == Init => ProcessInv
<1>1. Init => LoginTypeOK
  BY LoginStarts DEF Init, LoginInv
<1> QED
  BY <1>1, LifeStarts, RolesStart, DeviceStarts, ConfigStarts DEF Init, ProcessInv

LEMMA ProcessKeeps == ProcessInv /\ [Next]_vars => ProcessInv'
<1> SUFFICES ASSUME ProcessInv, [Next]_vars PROVE ProcessInv'
  OBVIOUS
<1>1. [LifeNext]_lifeVars /\ [AgentNext]_agentVars /\ [LoginNext]_loginVars
  BY DEF Next, vars, OnlyLogin
<1>2. [DeviceNext]_deviceVars /\ [ConfigNext]_configVars
  BY DEF Next, vars, OnlyLogin
<1> QED
  BY <1>1, <1>2, LifeKeeps, RolesKeep, LoginTypesKeep, DeviceKeeps, ConfigKeeps DEF ProcessInv

\* The variables of all parts have their types, a cached role is owed to a lookup
\* that still counts, and the names of every setting agree, in whatever schedule.
THEOREM ProcessIsSound == Spec => []ProcessSound
<1>1. ProcessInv => ProcessSound
  BY ConfigIsSound
  DEF ProcessInv, ProcessSound, LifeInv, RolesInv, AgentInv, DeviceInv
<1> QED BY <1>1, ProcessStarts, ProcessKeeps, PTL DEF Spec
=============================================================================
