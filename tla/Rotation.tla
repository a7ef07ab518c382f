------------------------------ MODULE Rotation ------------------------------
(***************************************************************************)
(* rotation.ts and account-routing.ts: which account the next request of a *)
(* session uses.  The operators are pure; the session maps they return are *)
(* kept by whoever calls them.                                             *)
(*                                                                         *)
(* Accounts are the numbers of Keys, in the order in which they are stored.*)
(* A session map lists its entries in insertion order, as a JavaScript Map *)
(* does.                                                                   *)
(***************************************************************************)
EXTENDS Naturals, Sequences, FiniteSets

CONSTANTS
    Keys,         \* identity keys, numbered from 1 in stored order
    KeyRank,      \* [Keys -> Nat]: their order under localeCompare
    CodeRank,     \* [Keys -> Nat]: their order under <, of code units
    NoSession,    \* a request without a session, a subagent's for instance
    Strategy,     \* "sticky", "hybrid" or "round_robin"
    PidOffset,    \* whether pid/session offsets are enabled
    Pid,
    Order,        \* accountOrder: for each selector, the accounts it matches
    Drain,        \* drainAccounts: the same, without an order
    MaxSessions   \* DEFAULT_SESSION_ASSIGNMENT_MAX

NoKey == 0

ASSUME RotationConstants ==
    /\ Keys \subseteq Nat \ {NoKey} /\ IsFiniteSet(Keys)
    /\ {KeyRank, CodeRank} \subseteq [Keys -> Nat]
    /\ \A rank \in {KeyRank, CodeRank} : \A k, l \in Keys : rank[k] = rank[l] => k = l
    /\ Strategy \in {"sticky", "hybrid", "round_robin"}
    /\ PidOffset \in BOOLEAN
    /\ Pid \in Nat
    /\ Order \in Seq(SUBSET Keys)
    /\ Drain \subseteq SUBSET Keys
    /\ MaxSessions \in Nat \ {0}

-----------------------------------------------------------------------------
(* StickySessionState                                                      *)

\* A map from sessions of T to accounts, with an order of insertion.
SessionMap(T) ==
    {m \in Seq([session : T, key : Keys]) :
        /\ \A i, j \in DOMAIN m : m[i].session = m[j].session => i = j
        /\ Len(m) <= MaxSessions}

IsState(st, T) == st \in [map : SessionMap(T), cursor : Nat]

NoSessions == [map |-> <<>>, cursor |-> 0]

\* A session has at most one entry.  0: none.
Position(st, s) ==
    IF \E i \in DOMAIN st.map : st.map[i].session = s
    THEN CHOOSE i \in DOMAIN st.map : st.map[i].session = s
    ELSE 0

Assigned(st, s) == IF Position(st, s) = 0 THEN NoKey ELSE st.map[Position(st, s)].key

\* bySessionKey.delete
Forget(st, s) ==
    LET i == Position(st, s)
    IN  IF i = 0 THEN st
        ELSE [st EXCEPT !.map = SubSeq(@, 1, i - 1) \o SubSeq(@, i + 1, Len(@))]

\* Faulty: one entry too many is evicted.
AssignEvictingOneMore(st, s, k) ==
    LET map == Append(st.map, [session |-> s, key |-> k])
        extra == IF Len(map) >= MaxSessions THEN Len(map) - MaxSessions + 1 ELSE 0
    IN  [st EXCEPT !.map = SubSeq(map, extra + 1, Len(map))]

\* bySessionKey.set of a session that has no entry; beyond the limit the oldest
\* entries go.
Assign(st, s, k) ==
    LET map == Append(st.map, [session |-> s, key |-> k])
        extra == IF Len(map) > MaxSessions THEN Len(map) - MaxSessions ELSE 0
    IN  [st EXCEPT !.map = SubSeq(map, extra + 1, Len(map))]

-----------------------------------------------------------------------------
(* Routing policy                                                          *)

\* Faulty: the last account left is offered whatever the policy says.
DrainedUnlessLast(accts) ==
    {k \in accts : accts # {k} /\ \E sel \in Drain : sel \intersect accts = {k}}

\* A selector counts only if it matches exactly one of the accounts offered.
Drained(accts) == {k \in accts : \E sel \in Drain : sel \intersect accts = {k}}

\* The account of the first selector, in order, that is open for assignment.
Preferred(accts, open) ==
    LET hits == {i \in DOMAIN Order : \E k \in open : Order[i] \intersect accts = {k}}
    IN  IF hits = {} THEN NoKey
        ELSE LET first == CHOOSE i \in hits : \A j \in hits : i <= j
             IN  CHOOSE k \in open : Order[first] \intersect accts = {k}

-----------------------------------------------------------------------------
(* selectAccount                                                           *)

\* The account with exactly i others of S before it.
Nth(S, i) == CHOOSE k \in S : Cardinality({j \in S : j < k}) = i

\* Least recently used first; used[k] = 0 is an account never used.  Ties go by
\* an order of the keys.
LessUsed(used, rank, j, k) ==
    \/ used[j] < used[k]
    \/ used[j] = used[k] /\ rank[j] < rank[k]
NthUsed(S, used, rank, i) ==
    CHOOSE k \in S : Cardinality({j \in S : LessUsed(used, rank, j, k)}) = i

Follows(S, k) == Cardinality({j \in S : j <= k}) % Cardinality(S)

OffsetIndex(n) == IF PidOffset THEN Pid % n ELSE 0

\* Without a session to go by.
Default(open, active, used) ==
    CASE active \in open /\ Strategy # "round_robin" -> active
      [] active \in open /\ Strategy = "round_robin" -> Nth(open, Follows(open, active))
      [] active \notin open /\ Strategy = "hybrid" -> NthUsed(open, used, CodeRank, 0)
      [] active \notin open /\ Strategy # "hybrid" -> Nth(open, OffsetIndex(Cardinality(open)))

\* Faulty: the cursor of a longer list runs past the end of this one.
AtCursorUnwrapped(open, used, cursor) ==
    IF cursor >= Cardinality(open) THEN NoKey
    ELSE IF Strategy = "hybrid" THEN NthUsed(open, used, KeyRank, cursor) ELSE Nth(open, cursor)

\* The next account of the cursor, over the stored order or the LRU order.
AtCursor(open, used, cursor) ==
    LET i == cursor % Cardinality(open)
    IN  IF Strategy = "hybrid" THEN NthUsed(open, used, KeyRank, i) ELSE Nth(open, i)

(***************************************************************************)
(* accts: the accounts offered; ok: those of them that are eligible; st:   *)
(* the session state.  The answer is a key, or NoKey, and the new state.   *)
(***************************************************************************)
InSession(session) == session # NoSession /\ Strategy # "round_robin"

\* Drained accounts get no new assignment; then the routing order, the session
\* cursor and the strategy's default decide, in this order.
NewAssignment(accts, ok, active, used, session, st) ==
    LET open == ok \ Drained(accts)
        first == Preferred(accts, open)
        turned == [st EXCEPT !.cursor = (@ + 1) % Cardinality(open)]
        Choose(k, from) ==
            [key |-> k, sessions |-> IF InSession(session) THEN Assign(from, session, k) ELSE from]
    IN  CASE open = {} -> [key |-> NoKey, sessions |-> st]
          [] open # {} /\ first # NoKey -> Choose(first, st)
          [] open # {} /\ first = NoKey ->
               IF InSession(session) /\ PidOffset
               THEN Choose(AtCursor(open, used, st.cursor), turned)
               ELSE Choose(Default(open, active, used), st)

\* Faulty: the session's account is not looked up first.
SelectAfresh(accts, ok, active, used, session, st) ==
    NewAssignment(accts, ok, active, used, session, Forget(st, session))

\* A session keeps its account; an assignment to one that is not offered as
\* eligible is dropped.
SelectAccount(accts, ok, active, used, session, st) ==
    LET old == IF InSession(session) THEN Assigned(st, session) ELSE NoKey
        freed == IF InSession(session) THEN Forget(st, session) ELSE st
    IN  CASE ok = {} -> [key |-> NoKey, sessions |-> st]
          [] old \in ok -> [key |-> old, sessions |-> st]
          [] ok # {} /\ old \notin ok -> NewAssignment(accts, ok, active, used, session, freed)
=============================================================================
