--------------------------- MODULE AgentExecution ---------------------------
(***************************************************************************)
(* createAgentExecutionResolver (lib/codex-native/agent-execution.ts): the *)
(* role of a chat turn, from the lineage of its session. Roles are cached, *)
(* concurrent lookups of a session are shared, and a generation per        *)
(* session makes what was learnt before a deletion unusable after it.      *)
(***************************************************************************)
EXTENDS Integers, FiniteSets

CONSTANTS Sessions,   \* session ids
          Turns,      \* calls of resolve()
          Lookups,    \* lookups sent to OpenCode, a bound: one is used at most once
          MaxDeleted, \* bound: deletions of a session
          None        \* `undefined`

ASSUME AgentConstants ==
  /\ MaxDeleted \in Nat /\ Sessions # {}
  /\ None \notin Lookups \union {"root", "child", "auxiliary"}

Lineage == {"root", "child"}
Agents == {"primary", "auxiliary", "other"}   \* subagents, mode:all and unknown names are "other"

VARIABLES lineage,     \* what OpenCode would answer about a session
          roles,       \* sessionRoles
          generations, \* sessionGenerations
          pending,     \* pendingSessionRoles
          lookup,      \* the lookups: session, generation, state
          turn,        \* the turns: agent, session, generation, lookup, state and answer
          learnt       \* history: the generation in which the lookup behind a cached role began

agentVars == <<lineage, roles, generations, pending, lookup, turn, learnt>>

LookupState == [session : Sessions, generation : 0 .. MaxDeleted,
                state : {"unused", "open", "answered", "closed"}, role : Lineage \union {None}]

TurnState == [state : {"idle", "waiting", "done"}, agent : Agents, session : Sessions,
              generation : 0 .. MaxDeleted, lookup : Lookups \union {None},
              role : Lineage \union {"auxiliary", None}, known : BOOLEAN]

AgentTypeOK ==
  /\ lineage \in [Sessions -> Lineage]
  /\ roles \in [Sessions -> Lineage \union {None}]
  /\ generations \in [Sessions -> 0 .. MaxDeleted]
  /\ pending \in [Sessions -> Lookups \union {None}]
  /\ lookup \in [Lookups -> LookupState]
  /\ turn \in [Turns -> TurnState]
  /\ learnt \in [Sessions -> 0 .. MaxDeleted]

AnySession == CHOOSE s \in Sessions : TRUE   \* of what is not in use yet

LookupOf(s, generation, state, role) ==
  [session |-> s, generation |-> generation, state |-> state, role |-> role]

TurnOf(state, agent, s, generation, l, role, known) ==
  [state |-> state, agent |-> agent, session |-> s, generation |-> generation,
   lookup |-> l, role |-> role, known |-> known]

AgentInit ==
  /\ lineage \in [Sessions -> Lineage]
  /\ roles = [s \in Sessions |-> None]
  /\ generations = [s \in Sessions |-> 0]
  /\ pending = [s \in Sessions |-> None]
  /\ lookup = [l \in Lookups |-> LookupOf(AnySession, 0, "unused", None)]
  /\ turn = [t \in Turns |-> TurnOf("idle", "other", AnySession, 0, None, None, FALSE)]
  /\ learnt = [s \in Sessions |-> 0]

(* classifyAgentExecutionFallback: what the agent's name and its configured
   mode say without the session. Unknown agents are children. *)
Fallback(agent) ==
  CASE agent = "auxiliary" -> "auxiliary"
    [] agent = "primary" -> "root"
    [] OTHER -> "child"

Answer(t, agent, s, role, known) ==
  turn' = [turn EXCEPT ![t] = TurnOf("done", agent, s, 0, None, role, known)]

Await(t, agent, s, l) ==
  turn' = [turn EXCEPT ![t] = TurnOf("waiting", agent, s, generations[s], l, None, FALSE)]

(* resolve(): auxiliary agents need no session; a cached role answers at once. *)
ResolveAtOnce(t, agent, s) ==
  /\ turn[t].state = "idle"
  /\ \/ agent = "auxiliary" /\ Answer(t, agent, s, "auxiliary", FALSE)
     \/ agent # "auxiliary" /\ roles[s] # None /\ Answer(t, agent, s, roles[s], TRUE)
  /\ UNCHANGED <<lineage, roles, generations, pending, lookup, learnt>>

(* Otherwise the turn notes the generation and awaits the session's pending
   lookup, or one that it sends itself. *)
ResolveByLookup(t, agent, s) ==
  /\ turn[t].state = "idle"
  /\ agent # "auxiliary"
  /\ roles[s] = None
  /\ \E l \in Lookups :
       /\ IF pending[s] # None
          THEN l = pending[s] /\ UNCHANGED lookup
          ELSE /\ lookup[l].state = "unused"
               /\ lookup' = [lookup EXCEPT ![l] = LookupOf(s, generations[s], "open", None)]
       /\ pending' = [pending EXCEPT ![s] = l]
       /\ Await(t, agent, s, l)
  /\ UNCHANGED <<lineage, roles, generations, learnt>>

\* Faulty: caches without comparing generations.
LearnAlways(l) ==
  LET s == lookup[l].session IN
  /\ lookup[l].state = "open"
  /\ \E role \in {lineage[s], None} :
       /\ lookup' = [lookup EXCEPT ![l] = LookupOf(s, @.generation, "answered", role)]
       /\ IF role # None
          THEN /\ roles' = [roles EXCEPT ![s] = role]
               /\ learnt' = [learnt EXCEPT ![s] = lookup[l].generation]
          ELSE UNCHANGED <<roles, learnt>>
  /\ UNCHANGED <<lineage, generations, pending, turn>>

(* fetchSessionRole gets its answer: the lineage, or none (an error, another
   session's data, a malformed parent). It is cached only in its generation. *)
Learn(l) ==
  LET s == lookup[l].session IN
  /\ lookup[l].state = "open"
  /\ \E role \in {lineage[s], None} :
       /\ lookup' = [lookup EXCEPT ![l] = LookupOf(s, @.generation, "answered", role)]
       /\ IF role # None /\ generations[s] = lookup[l].generation
          THEN /\ roles' = [roles EXCEPT ![s] = role]
               /\ learnt' = [learnt EXCEPT ![s] = lookup[l].generation]
          ELSE UNCHANGED <<roles, learnt>>
  /\ UNCHANGED <<lineage, generations, pending, turn>>

(* The `finally` of a lookup: it is pending no longer, unless another one is. *)
CloseLookup(l) ==
  LET s == lookup[l].session IN
  /\ lookup[l].state = "answered"
  /\ lookup' = [lookup EXCEPT ![l].state = "closed"]
  /\ pending' = IF pending[s] = l THEN [pending EXCEPT ![s] = None] ELSE pending
  /\ UNCHANGED <<lineage, roles, generations, turn, learnt>>

\* Faulty: forgets to look at the generation after the await.
ResolveOld(t) ==
  LET now == turn[t]
      role == lookup[now.lookup].role IN
  /\ now.state = "waiting"
  /\ lookup[now.lookup].state \in {"answered", "closed"}
  /\ IF role # None THEN Answer(t, now.agent, now.session, role, TRUE)
                    ELSE Answer(t, now.agent, now.session, Fallback(now.agent), FALSE)
  /\ UNCHANGED <<lineage, roles, generations, pending, lookup, learnt>>

(* A turn goes on with the answer of its lookup. *)
Resolve(t) ==
  LET now == turn[t]
      role == lookup[now.lookup].role IN
  /\ now.state = "waiting"
  /\ lookup[now.lookup].state \in {"answered", "closed"}
  /\ IF generations[now.session] # now.generation
     THEN Answer(t, now.agent, now.session, "child", FALSE)
     ELSE IF role # None
     THEN Answer(t, now.agent, now.session, role, TRUE)
     ELSE Answer(t, now.agent, now.session, Fallback(now.agent), FALSE)
  /\ UNCHANGED <<lineage, roles, generations, pending, lookup, learnt>>

(* deleteSession, on the event session.deleted. What OpenCode says of this id
   from then on need not be what it said before. *)
DeleteSession(s) ==
  /\ generations[s] < MaxDeleted
  /\ roles' = [roles EXCEPT ![s] = None]
  /\ generations' = [generations EXCEPT ![s] = @ + 1]
  /\ pending' = [pending EXCEPT ![s] = None]
  /\ lineage' \in {[lineage EXCEPT ![s] = role] : role \in Lineage}
  /\ UNCHANGED <<lookup, turn, learnt>>

AgentNext ==
  \/ \E t \in Turns, agent \in Agents, s \in Sessions :
       ResolveAtOnce(t, agent, s) \/ ResolveByLookup(t, agent, s)
  \/ \E t \in Turns : Resolve(t)
  \/ \E l \in Lookups : Learn(l) \/ CloseLookup(l)
  \/ \E s \in Sessions : DeleteSession(s)

AgentSpec == AgentInit /\ [][AgentNext]_agentVars

-----------------------------------------------------------------------------
(* A cached role was looked up after the last deletion of its session. *)
CacheIsCurrent == \A s \in Sessions : roles[s] # None => learnt[s] = generations[s]

(* A turn is told a session's role only if that is the session's role at that
   moment: a deletion while it waited makes it a child, whatever the lookup
   said. *)
NoStaleRole ==
  [][\A t \in Turns :
       turn[t].state # "done" /\ turn'[t].state = "done" /\ turn'[t].known =>
         turn'[t].role = lineage[turn'[t].session]]_agentVars

(* A turn of an agent that is not known to be primary is root only with the
   lineage as proof. *)
RootIsProven ==
  \A t \in Turns : turn[t].role = "root" => turn[t].known \/ turn[t].agent = "primary"

(* Of the open lookups of a session only one can still be cached: concurrent
   turns share it. *)
LookupIsShared ==
  \A k, l \in Lookups :
    /\ lookup[k].state = "open" /\ lookup[l].state = "open"
    /\ lookup[k].session = lookup[l].session
    /\ lookup[k].generation = lookup[l].generation
    => k = l

(* What the cache and the turns hold is owed to a lookup that still counts, or
   to an agent known to be primary (createAgentExecutionResolver). *)
RolesAreProven == CacheIsCurrent /\ RootIsProven /\ LookupIsShared
=============================================================================
