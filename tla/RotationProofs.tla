--------------------------- MODULE RotationProofs ---------------------------
(***************************************************************************)
(* What selectAccount promises, for any accounts, policy and strategy: it  *)
(* serves whenever an undrained account is eligible, it serves only        *)
(* eligible accounts, a session keeps its account, and the session map     *)
(* stays a map of at most MaxSessions entries.                             *)
(***************************************************************************)
EXTENDS Rotation, FiniteSetTheorems, SequenceTheorems, TLAPS

-----------------------------------------------------------------------------
(* Positions in an order                                                   *)

\* In a finite total order there is an element for every position.
LEMMA Ranked ==
    ASSUME NEW S, IsFiniteSet(S), NEW below \in [S -> SUBSET S],
           \A k \in S : k \notin below[k],
           \A j, k \in S : j # k => j \in below[k] \/ k \in below[j],
           \A j, k \in S : j \in below[k] => below[j] \subseteq below[k],
           NEW i \in 0 .. (Cardinality(S) - 1)
    PROVE  \E k \in S : Cardinality(below[k]) = i
<1> DEFINE n == Cardinality(S)
           T == 0 .. (n - 1)
           f == [k \in S |-> Cardinality(below[k])]
<1>1. n \in Nat
  BY FS_CardinalityType
<1>2. \A k \in S : IsFiniteSet(below[k]) /\ Cardinality(below[k]) \in Nat
  BY FS_Subset, FS_CardinalityType
<1>3. f \in [S -> T]
  <2> SUFFICES ASSUME NEW k \in S PROVE Cardinality(below[k]) \in T
    OBVIOUS
  <2>1. /\ IsFiniteSet(S \ {k})
        /\ Cardinality(S \ {k}) = n - 1
    BY FS_RemoveElement
  <2>2. Cardinality(below[k]) <= n - 1
    <3>1. below[k] \in SUBSET (S \ {k})
      OBVIOUS
    <3> QED
      BY <2>1, <3>1, FS_Subset
  <2> QED
    BY <1>1, <1>2, <2>2
<1>4. ASSUME NEW j \in S, NEW k \in S, j \in below[k] PROVE f[j] # f[k]
  <2>1. below[j] \in SUBSET below[k] /\ below[j] # below[k]
    BY <1>4
  <2> QED
    BY <1>2, <2>1, FS_Subset
<1>5. f \in Injection(S, T)
  <2>1. \A j, k \in S : f[j] = f[k] => j = k
    BY <1>4
  <2> QED
    BY <1>3, <2>1 DEF Injection, IsInjective
<1>6. IsFiniteSet(T) /\ Cardinality(T) = n
  BY <1>1, FS_Interval
<1>7. f \in Surjection(S, T)
  BY <1>5, <1>6, FS_Injection
<1> QED
  BY <1>7 DEF Surjection

\* Every position of a finite set of numbers is taken by one of its elements.
LEMMA NthExists ==
    ASSUME NEW S, \A k \in S : k \in Nat, IsFiniteSet(S), NEW i \in 0 .. (Cardinality(S) - 1)
    PROVE  Nth(S, i) \in S /\ Cardinality({j \in S : j < Nth(S, i)}) = i
<1> DEFINE below == [k \in S |-> {j \in S : j < k}]
<1>1. below \in [S -> SUBSET S]
  OBVIOUS
<1>2. \A k \in S : k \notin below[k]
  OBVIOUS
<1>3. \A j, k \in S : j # k => j \in below[k] \/ k \in below[j]
  OBVIOUS
<1>4. \A j, k \in S : j \in below[k] => below[j] \subseteq below[k]
  <2> SUFFICES ASSUME NEW j \in S, NEW k \in S, j < k, NEW l \in S, l < j
               PROVE  l < k
    OBVIOUS
  <2> QED
    BY j \in Nat, k \in Nat, l \in Nat
<1>5. \E k \in S : Cardinality(below[k]) = i
  <2> HIDE DEF below
  <2> QED
    BY <1>1, <1>2, <1>3, <1>4, Ranked
<1> QED
  BY <1>5 DEF Nth

\* The same for the order by last use.
LEMMA NthUsedExists ==
    ASSUME NEW S \in SUBSET Keys, NEW used \in [Keys -> Nat], NEW rank \in {KeyRank, CodeRank},
           NEW i \in 0 .. (Cardinality(S) - 1)
    PROVE  NthUsed(S, used, rank, i) \in S
<1> DEFINE below == [k \in S |-> {j \in S : LessUsed(used, rank, j, k)}]
<1>1. IsFiniteSet(S)
  BY RotationConstants, FS_Subset
<1>2. below \in [S -> SUBSET S]
  OBVIOUS
<1>3. /\ \A k \in S : used[k] \in Nat /\ rank[k] \in Nat
      /\ \A j, k \in S : rank[j] = rank[k] => j = k
  BY RotationConstants
<1>4. \A k \in S : k \notin below[k]
  BY <1>3 DEF LessUsed
<1>5. \A j, k \in S : j # k => j \in below[k] \/ k \in below[j]
  BY <1>3 DEF LessUsed
<1>6. \A j, k \in S : j \in below[k] => below[j] \subseteq below[k]
  BY <1>3 DEF LessUsed
<1>7. \E k \in S : Cardinality(below[k]) = i
  <2> HIDE DEF below
  <2> QED
    BY <1>1, <1>2, <1>4, <1>5, <1>6, Ranked
<1> QED
  BY <1>7 DEF NthUsed

\* A nonempty finite set of numbers has a least element.
LEMMA LeastExists ==
    ASSUME NEW S \in SUBSET Nat, IsFiniteSet(S), S # {}
    PROVE  \E k \in S : \A j \in S : k <= j
<1>1. Cardinality(S) \in Nat /\ Cardinality(S) # 0
  BY FS_CardinalityType, FS_EmptySet
<1>2. 0 \in 0 .. (Cardinality(S) - 1)
  BY <1>1
<1>3. Nth(S, 0) \in S /\ Cardinality({j \in S : j < Nth(S, 0)}) = 0
  BY <1>2, NthExists
<1>4. {j \in S : j < Nth(S, 0)} = {}
  <2>1. IsFiniteSet({j \in S : j < Nth(S, 0)})
    BY FS_Subset
  <2> QED
    BY <1>3, <2>1, FS_EmptySet
<1>5. ASSUME NEW j \in S PROVE Nth(S, 0) <= j
  <2>1. ~(j < Nth(S, 0))
    BY <1>4
  <2> QED
    BY <1>3, <2>1, j \in Nat, Nth(S, 0) \in Nat
<1> QED
  BY <1>3, <1>5

-----------------------------------------------------------------------------
(* The choices of a new assignment are among the open accounts             *)

\* The size of a nonempty set of open accounts, and the positions taken modulo it.
LEMMA OpenSize ==
    ASSUME NEW open \in SUBSET Keys, open # {}
    PROVE  /\ IsFiniteSet(open)
           /\ open \subseteq Nat
           /\ Cardinality(open) \in Nat \ {0}
           /\ \A n \in Nat : n % Cardinality(open) \in 0 .. (Cardinality(open) - 1)
<1>1. IsFiniteSet(open) /\ open \subseteq Nat
  BY RotationConstants, FS_Subset
<1>2. Cardinality(open) \in Nat \ {0}
  BY <1>1, FS_CardinalityType, FS_EmptySet
<1> QED
  BY <1>1, <1>2

\* The strategy's default is an open account.
LEMMA DefaultIsOpen ==
    ASSUME NEW open \in SUBSET Keys, open # {}, NEW active, NEW used \in [Keys -> Nat]
    PROVE  Default(open, active, used) \in open
<1> DEFINE n == Cardinality(open)
<1>1. /\ IsFiniteSet(open) /\ open \in SUBSET Nat /\ n \in Nat \ {0}
      /\ \A m \in Nat : m % n \in 0 .. (n - 1)
  BY OpenSize
<1>2. 0 \in 0 .. (n - 1)
  BY <1>1
<1>3. OffsetIndex(n) \in 0 .. (n - 1)
  BY <1>1, <1>2, RotationConstants DEF OffsetIndex
<1>4. Follows(open, active) \in 0 .. (n - 1)
  <2>1. Cardinality({j \in open : j <= active}) \in Nat
    BY <1>1, FS_Subset, FS_CardinalityType
  <2> QED
    BY <1>1, <2>1 DEF Follows
<1> HIDE DEF n
<1>5. \A i \in 0 .. (n - 1) : Nth(open, i) \in open /\ NthUsed(open, used, CodeRank, i) \in open
  BY <1>1, NthExists, NthUsedExists DEF n
<1>6. CASE active \in open
  BY <1>4, <1>5, <1>6, RotationConstants DEF Default
<1>7. CASE active \notin open
  BY <1>2, <1>3, <1>5, <1>7 DEF Default, n
<1> QED
  BY <1>6, <1>7

\* The account under the cursor is an open one, however far the cursor had come
\* on a longer list.
LEMMA AtCursorIsOpen ==
    ASSUME NEW open \in SUBSET Keys, open # {}, NEW used \in [Keys -> Nat], NEW cursor \in Nat
    PROVE  AtCursor(open, used, cursor) \in open
<1> DEFINE i == cursor % Cardinality(open)
<1>1. /\ IsFiniteSet(open) /\ open \in SUBSET Nat
      /\ i \in 0 .. (Cardinality(open) - 1)
  BY OpenSize
<1>2. Nth(open, i) \in open /\ NthUsed(open, used, KeyRank, i) \in open
  BY <1>1, NthExists, NthUsedExists
<1> QED
  BY <1>2 DEF AtCursor

\* The routing order names an open account or none.
LEMMA PreferredIsOpen ==
    ASSUME NEW accts, NEW open \in SUBSET Keys
    PROVE  Preferred(accts, open) \in open \union {NoKey}
<1> DEFINE hits == {i \in DOMAIN Order : \E k \in open : Order[i] \intersect accts = {k}}
           first == CHOOSE i \in hits : \A j \in hits : i <= j
<1>1. CASE hits = {}
  BY <1>1 DEF Preferred
<1>2. CASE hits # {}
  <2>1. Len(Order) \in Nat /\ DOMAIN Order = 1 .. Len(Order)
    BY RotationConstants
  <2>2. IsFiniteSet(DOMAIN Order) /\ DOMAIN Order \subseteq Nat
    BY <2>1, FS_Interval
  <2>3. hits \in SUBSET Nat /\ IsFiniteSet(hits)
    BY <2>2, FS_Subset
  <2>4. \E i \in hits : \A j \in hits : i <= j
    <3> HIDE DEF hits
    <3> QED
      BY <1>2, <2>3, LeastExists
  <2>5. first \in hits
    BY <2>4
  <2>6. \E k \in open : Order[first] \intersect accts = {k}
    BY <2>5
  <2> QED
    BY <1>2, <2>6 DEF Preferred
<1> QED
  BY <1>1, <1>2

-----------------------------------------------------------------------------
(* The session map                                                         *)

\* An entry is the assignment of its session.
LEMMA EntryIsAssigned ==
    ASSUME NEW T, NEW st, IsState(st, T), NEW i \in DOMAIN st.map
    PROVE  Assigned(st, st.map[i].session) = st.map[i].key
<1> DEFINE s == st.map[i].session
<1>1. /\ DOMAIN st.map = 1 .. Len(st.map) /\ Len(st.map) \in Nat
      /\ \A j \in DOMAIN st.map : st.map[j].session = s => j = i
  BY DEF IsState, SessionMap
<1>2. Position(st, s) = i
  BY <1>1 DEF Position
<1> QED
  BY <1>1, <1>2 DEF Assigned

\* A sequence without its element p.
LEMMA RemoveOne ==
    ASSUME NEW E, NEW m \in Seq(E), NEW p \in 1 .. Len(m),
           NEW w, w = SubSeq(m, 1, p - 1) \o SubSeq(m, p + 1, Len(m))
    PROVE  /\ w \in Seq(E)
           /\ Len(w) = Len(m) - 1
           /\ \A i \in 1 .. Len(m) - 1 : w[i] = m[IF i < p THEN i ELSE i + 1]
<1> DEFINE n == Len(m)
           a == SubSeq(m, 1, p - 1)
           b == SubSeq(m, p + 1, n)
<1>1. n \in Nat /\ p \in Nat /\ 1 <= p /\ p <= n
  OBVIOUS
<1>0. \A i \in 1 .. n : m[i] \in E
  OBVIOUS
<1>2. /\ a \in Seq(E) /\ Len(a) = p - 1
      /\ \A i \in 1 .. p - 1 : a[i] = m[i]
  <2> HIDE DEF n
  <2>1. \A i \in 1 .. p - 1 : m[i] \in E
    BY <1>0, <1>1
  <2>2. /\ a \in Seq(E)
        /\ Len(a) = IF 1 <= p - 1 THEN (p - 1) - 1 + 1 ELSE 0
        /\ \A i \in 1 .. (p - 1) - 1 + 1 : a[i] = m[1 + i - 1]
    BY <1>1, <2>1, SubSeqProperties
  <2> HIDE DEF a
  <2> QED
    BY <1>1, <2>2
<1>3. /\ b \in Seq(E) /\ Len(b) = n - p
      /\ \A i \in 1 .. n - p : b[i] = m[i + p]
  <2> HIDE DEF n
  <2>1. \A i \in (p + 1) .. n : m[i] \in E
    BY <1>0, <1>1
  <2>2. /\ b \in Seq(E)
        /\ Len(b) = IF p + 1 <= n THEN n - (p + 1) + 1 ELSE 0
        /\ \A i \in 1 .. n - (p + 1) + 1 : b[i] = m[(p + 1) + i - 1]
    BY <1>1, <2>1, SubSeqProperties
  <2> HIDE DEF b
  <2> QED
    BY <1>1, <2>2
<1>4. w = a \o b
  OBVIOUS
<1> HIDE DEF a, b, n
<1>5. /\ w \in Seq(E)
      /\ Len(w) = Len(a) + Len(b)
      /\ \A i \in 1 .. Len(a) + Len(b) : w[i] = IF i <= Len(a) THEN a[i] ELSE b[i - Len(a)]
  <2>1. a \in Seq(E) /\ b \in Seq(E)
    BY <1>2, <1>3
  <2>2. /\ a \o b \in Seq(E)
        /\ Len(a \o b) = Len(a) + Len(b)
        /\ \A i \in 1 .. Len(a) + Len(b) :
              (a \o b)[i] = IF i <= Len(a) THEN a[i] ELSE b[i - Len(a)]
    BY <2>1, ConcatProperties
  <2> QED
    BY <1>4, <2>2
<1>6. Len(w) = n - 1
  <2>1. Len(w) = (p - 1) + (n - p)
    BY <1>2, <1>3, <1>5
  <2>2. (p - 1) + (n - p) = n - 1
    BY <1>1
  <2> QED
    BY <2>1, <2>2, Zenon
<1>7. ASSUME NEW i \in 1 .. n - 1 PROVE w[i] = m[IF i < p THEN i ELSE i + 1]
  <2>0. i \in 1 .. Len(a) + Len(b)
    BY <1>1, <1>2, <1>3
  <2>1. CASE i < p
    <3>1. i \in 1 .. p - 1 /\ i <= p - 1
      BY <1>1, <2>1
    <3>2. w[i] = IF i <= p - 1 THEN a[i] ELSE b[i - (p - 1)]
      BY <1>2, <1>5, <2>0
    <3> QED
      BY <1>2, <2>1, <3>1, <3>2
  <2>2. CASE ~(i < p)
    <3>0. i \in Nat /\ 1 <= i /\ i <= n - 1
      BY <1>1
    <3>1. w[i] = b[i - (p - 1)] /\ i - (p - 1) \in 1 .. n - p
      <4>1. i - (p - 1) \in 1 .. n - p /\ ~(i <= p - 1)
        BY <1>1, <2>2, <3>0
      <4>2. w[i] = IF i <= p - 1 THEN a[i] ELSE b[i - (p - 1)]
        BY <1>2, <1>5, <2>0
      <4> QED
        BY <4>1, <4>2, Zenon
    <3>2. (i - (p - 1)) + p = i + 1
      BY <1>1, <1>6
    <3>3. b[i - (p - 1)] = m[i + 1]
      BY <1>3, <3>1, <3>2
    <3> QED
      BY <2>2, <3>1, <3>3
  <2> QED
    BY <2>1, <2>2
<1> QED
  BY <1>5, <1>6, <1>7 DEF n

\* Forgetting a session leaves a map without it, and all the others.
LEMMA ForgetEffect ==
    ASSUME NEW T, NEW st, IsState(st, T), NEW s
    PROVE  /\ IsState(Forget(st, s), T)
           /\ \A i \in DOMAIN Forget(st, s).map :
                 /\ Forget(st, s).map[i].session # s
                 /\ \E j \in DOMAIN st.map : Forget(st, s).map[i] = st.map[j]
           /\ \A j \in DOMAIN st.map : st.map[j].session # s =>
                 \E i \in DOMAIN Forget(st, s).map : Forget(st, s).map[i] = st.map[j]
<1> DEFINE m == st.map
           E == [session : T, key : Keys]
           p == Position(st, s)
           w == SubSeq(m, 1, p - 1) \o SubSeq(m, p + 1, Len(m))
           old(i) == IF i < p THEN i ELSE i + 1
<1>1. /\ m \in Seq(E) /\ Len(m) \in Nat /\ DOMAIN m = 1 .. Len(m)
      /\ \A i, j \in DOMAIN m : m[i].session = m[j].session => i = j
      /\ Len(m) <= MaxSessions
      /\ st.cursor \in Nat
  BY DEF IsState, SessionMap
<1>2. CASE ~\E i \in DOMAIN m : m[i].session = s
  <2>1. Position(st, s) = 0
    BY <1>2 DEF Position
  <2>2. Forget(st, s) = st
    BY <2>1 DEF Forget
  <2> QED
    BY <1>2, <2>2
<1>3. CASE \E i \in DOMAIN m : m[i].session = s
  <2>1. p \in DOMAIN m /\ m[p].session = s
    BY <1>3 DEF Position
  <2>2. Forget(st, s) = [st EXCEPT !.map = w]
    <3>1. p # 0
      BY <1>1, <2>1
    <3> QED
      BY <3>1 DEF Forget
  <2> HIDE DEF m, p, E
  <2>3. /\ w \in Seq(E)
        /\ Len(w) = Len(m) - 1
        /\ \A i \in 1 .. Len(m) - 1 : w[i] = m[old(i)]
    <3>1. p \in 1 .. Len(m) /\ m \in Seq(E)
      BY <1>1, <2>1
    <3>2. w = SubSeq(m, 1, p - 1) \o SubSeq(m, p + 1, Len(m))
      OBVIOUS
    <3> HIDE DEF w, old
    <3>3. /\ w \in Seq(E)
          /\ Len(w) = Len(m) - 1
          /\ \A i \in 1 .. Len(m) - 1 : w[i] = m[IF i < p THEN i ELSE i + 1]
      BY <3>1, <3>2, RemoveOne, Zenon
    <3> QED
      BY <3>3 DEF old
  <2> HIDE DEF w
  <2>4. DOMAIN w = 1 .. Len(w)
    BY <2>3
  <2>5. /\ \A i \in DOMAIN w : old(i) \in DOMAIN m /\ old(i) # p /\ w[i] = m[old(i)]
        /\ \A i, j \in DOMAIN w : old(i) = old(j) => i = j
    BY <1>1, <2>1, <2>3, <2>4
  <2> HIDE DEF old
  <2>6. \A i \in DOMAIN w : w[i].session # s
    BY <1>1, <2>1, <2>5
  <2>7. \A i, j \in DOMAIN w : w[i].session = w[j].session => i = j
    BY <1>1, <2>5
  <2>8. Len(w) <= MaxSessions
    BY <1>1, <2>3, RotationConstants
  <2>9. w \in SessionMap(T)
    BY <2>3, <2>7, <2>8 DEF SessionMap, E
  <2>10. /\ Forget(st, s).map = w
         /\ IsState(Forget(st, s), T)
    BY <2>2, <2>9 DEF IsState
  <2>11. \A j \in DOMAIN m : m[j].session # s => \E i \in DOMAIN w : w[i] = m[j]
    <3> SUFFICES ASSUME NEW j \in DOMAIN m, m[j].session # s
                 PROVE  \E i \in DOMAIN w : w[i] = m[j]
      OBVIOUS
    <3> DEFINE i == IF j < p THEN j ELSE j - 1
    <3>1. p \in Nat /\ j \in Nat /\ j # p /\ 1 <= j /\ j <= Len(m) /\ 1 <= p /\ p <= Len(m)
      BY <1>1, <2>1
    <3>2. i \in 1 .. Len(m) - 1 /\ old(i) = j
      BY <1>1, <3>1 DEF old
    <3> HIDE DEF i
    <3> QED
      BY <2>3, <2>4, <3>2
  <2> QED
    BY <2>5, <2>6, <2>10, <2>11 DEF m
<1> QED
  BY <1>2, <1>3

\* A new assignment adds one entry and keeps the map within its limit; every
\* other entry was there before, and stays if there is room.
LEMMA AssignEffect ==
    ASSUME NEW T, NEW st, IsState(st, T), NEW s \in T, NEW k \in Keys,
           \A i \in DOMAIN st.map : st.map[i].session # s
    PROVE  /\ IsState(Assign(st, s, k), T)
           /\ \A i \in DOMAIN Assign(st, s, k).map :
                 \/ Assign(st, s, k).map[i] = [session |-> s, key |-> k]
                 \/ \E j \in DOMAIN st.map : Assign(st, s, k).map[i] = st.map[j]
           /\ Len(st.map) < MaxSessions =>
                 \A j \in DOMAIN st.map :
                    \E i \in DOMAIN Assign(st, s, k).map : Assign(st, s, k).map[i] = st.map[j]
<1> DEFINE m == st.map
           E == [session : T, key : Keys]
           e == [session |-> s, key |-> k]
           n == Append(m, e)
           x == IF Len(n) > MaxSessions THEN Len(n) - MaxSessions ELSE 0
           q == SubSeq(n, x + 1, Len(n))
<1>1. /\ m \in Seq(E) /\ Len(m) \in Nat /\ DOMAIN m = 1 .. Len(m)
      /\ \A i, j \in DOMAIN m : m[i].session = m[j].session => i = j
      /\ Len(m) <= MaxSessions /\ MaxSessions \in Nat \ {0}
      /\ st.cursor \in Nat
  BY RotationConstants DEF IsState, SessionMap
<1>2. Assign(st, s, k) = [st EXCEPT !.map = q]
  BY DEF Assign
<1>3. e \in E /\ e.session = s /\ \A i \in DOMAIN m : m[i].session # s
  OBVIOUS
<1> HIDE DEF m, E, e
<1>4. /\ n \in Seq(E) /\ Len(n) = Len(m) + 1
      /\ n[Len(m) + 1] = e
      /\ \A i \in DOMAIN m : n[i] = m[i]
  BY <1>1, <1>3
<1> HIDE DEF n
<1>5. \A i, j \in 1 .. Len(n) : n[i].session = n[j].session => i = j
  <2> SUFFICES ASSUME NEW i \in 1 .. Len(n), NEW j \in 1 .. Len(n), n[i].session = n[j].session
               PROVE  i = j
    OBVIOUS
  <2>1. CASE i \in DOMAIN m /\ j \in DOMAIN m
    BY <1>1, <1>4, <2>1
  <2>2. CASE i = Len(m) + 1 \/ j = Len(m) + 1
    BY <1>1, <1>3, <1>4, <2>2
  <2> QED
    BY <1>1, <1>4, <2>1, <2>2
<1>6. x \in 0 .. Len(n) - 1
  BY <1>1, <1>4
<1>7. /\ q \in Seq(E) /\ Len(q) = Len(n) - x /\ DOMAIN q = 1 .. Len(n) - x
      /\ \A i \in 1 .. Len(n) - x : q[i] = n[i + x]
  <2> HIDE DEF x
  <2> QED
    BY <1>1, <1>4, <1>6
<1>8. Len(q) <= MaxSessions
  BY <1>1, <1>4, <1>7
<1>14. Len(m) < MaxSessions => x = 0
  BY <1>1, <1>4
<1> HIDE DEF q, x
<1>9. \A i \in DOMAIN q : i + x \in 1 .. Len(n)
  BY <1>1, <1>4, <1>6, <1>7
<1>10. \A i, j \in DOMAIN q : q[i].session = q[j].session => i = j
  BY <1>5, <1>6, <1>7, <1>9
<1>11. q \in SessionMap(T)
  BY <1>7, <1>8, <1>10 DEF SessionMap, E
<1>12. /\ Assign(st, s, k).map = q
       /\ IsState(Assign(st, s, k), T)
  BY <1>2, <1>11 DEF IsState
<1>13. \A i \in DOMAIN q : q[i] = e \/ \E j \in DOMAIN m : q[i] = m[j]
  BY <1>1, <1>4, <1>7, <1>9
<1>15. Len(m) < MaxSessions => \A j \in DOMAIN m : \E i \in DOMAIN q : q[i] = m[j]
  <2> SUFFICES ASSUME Len(m) < MaxSessions, NEW j \in DOMAIN m PROVE j \in DOMAIN q /\ q[j] = m[j]
    OBVIOUS
  <2>1. x = 0 /\ j \in 1 .. Len(n) /\ j \in Nat
    BY <1>1, <1>4, <1>14
  <2> QED
    BY <1>1, <1>4, <1>7, <2>1
<1> QED
  BY <1>12, <1>13, <1>15 DEF m, e

\* No session of T is ever evicted.
Fits(T) == IsFiniteSet(T) /\ Cardinality(T) <= MaxSessions

\* A request goes by a session of T, if by any.
GoesBy(session, T) == InSession(session) => session \in T

\* A map of which a session of T is missing has room for it, if T has.
LEMMA RoomForOneMore ==
    ASSUME NEW T, Fits(T), NEW st, IsState(st, T), NEW s \in T,
           \A i \in DOMAIN st.map : st.map[i].session # s
    PROVE  Len(st.map) < MaxSessions
<1> DEFINE m == st.map
           E == [session : T, key : Keys]
           n == Len(m)
           f == [i \in 1..n |-> m[i].session]
<1>1. m \in Seq(E) /\ \A i, j \in DOMAIN m : m[i].session = m[j].session => i = j
  BY DEF IsState, SessionMap
<1>2. n \in Nat /\ DOMAIN m = 1..n /\ \A i \in 1..n : m[i] \in E
  <2> HIDE DEF E, m
  <2> QED
    BY <1>1
<1>3. f \in [1..n -> T \ {s}]
  BY <1>2
<1>4. IsFiniteSet(T \ {s}) /\ Cardinality(T \ {s}) = Cardinality(T) - 1 /\ Cardinality(T) \in Nat
  BY FS_RemoveElement, FS_CardinalityType DEF Fits
<1>5. IsFiniteSet(1..n) /\ Cardinality(1..n) = n
  BY <1>2, FS_Interval
<1>6. ~\E i, j \in 1..n : i # j /\ f[i] = f[j]
  BY <1>1, <1>2
<1> HIDE DEF f
<1>7. ~(Cardinality(T \ {s}) < Cardinality(1..n))
  BY <1>3, <1>4, <1>5, <1>6, FS_PigeonHole
<1> QED
  BY <1>2, <1>4, <1>5, <1>7, RotationConstants DEF Fits

\* Maps with the same entry of a session, or both without one, agree on its account.
LEMMA SameEntry ==
    ASSUME NEW T, NEW a, NEW b, IsState(a, T), IsState(b, T), NEW t,
           \A i \in DOMAIN a.map : a.map[i].session = t => \E j \in DOMAIN b.map : b.map[j] = a.map[i],
           \A j \in DOMAIN b.map : b.map[j].session = t => \E i \in DOMAIN a.map : a.map[i] = b.map[j]
    PROVE  Assigned(a, t) = Assigned(b, t)
<1>1. CASE \E i \in DOMAIN a.map : a.map[i].session = t
  <2>1. PICK i \in DOMAIN a.map : a.map[i].session = t
    BY <1>1
  <2>2. PICK j \in DOMAIN b.map : b.map[j] = a.map[i]
    BY <2>1
  <2> QED
    BY <2>1, <2>2, EntryIsAssigned
<1>2. CASE ~\E i \in DOMAIN a.map : a.map[i].session = t
  <2>1. ~\E j \in DOMAIN b.map : b.map[j].session = t
    BY <1>2
  <2> QED
    BY <1>2, <2>1 DEF Assigned, Position
<1> QED
  BY <1>1, <1>2

-----------------------------------------------------------------------------
(* selectAccount                                                           *)

\* What a new assignment among the open accounts looks like.
Chosen(new, open, session, st) ==
    /\ open = {} => new = [key |-> NoKey, sessions |-> st]
    /\ open # {} =>
         \E k \in open : \E from :
            /\ from = st \/ \E c \in Nat : from = [st EXCEPT !.cursor = c]
            /\ new = [key |-> k,
                      sessions |-> IF InSession(session) THEN Assign(from, session, k) ELSE from]

\* NewAssignment chooses an open account if there is one.
LEMMA NewAssignmentChooses ==
    ASSUME NEW accts \in SUBSET Keys, NEW ok \in SUBSET accts, NEW active,
           NEW used \in [Keys -> Nat], NEW session, NEW st, st.cursor \in Nat
    PROVE  Chosen(NewAssignment(accts, ok, active, used, session, st), ok \ Drained(accts), session, st)
<1> DEFINE open == ok \ Drained(accts)
           first == Preferred(accts, open)
           c == (st.cursor + 1) % Cardinality(open)
           turned == [st EXCEPT !.cursor = c]
<1>1. CASE open = {}
  BY <1>1 DEF NewAssignment, Chosen
<1>2. CASE open # {} /\ first # NoKey
  <2>1. first \in open
    BY <1>2, PreferredIsOpen
  <2> QED
    BY <1>2, <2>1 DEF NewAssignment, Chosen
<1>3. CASE open # {} /\ first = NoKey
  <2>1. st.cursor \in Nat /\ st.cursor + 1 \in Nat
    OBVIOUS
  <2>2. c \in Nat
    <3>1. /\ Cardinality(open) \in Nat
          /\ \A n \in Nat : n % Cardinality(open) \in 0 .. (Cardinality(open) - 1)
      BY <1>3, OpenSize
    <3> HIDE DEF open
    <3> QED
      BY <2>1, <3>1
  <2>3. CASE InSession(session) /\ PidOffset
    <3>1. AtCursor(open, used, st.cursor) \in open
      BY <1>3, <2>1, AtCursorIsOpen
    <3>2. NewAssignment(accts, ok, active, used, session, st)
            = [key |-> AtCursor(open, used, st.cursor),
               sessions |-> Assign(turned, session, AtCursor(open, used, st.cursor))]
      BY <1>3, <2>3 DEF NewAssignment
    <3> QED
      BY <1>3, <2>2, <2>3, <3>1, <3>2 DEF Chosen
  <2>4. CASE ~(InSession(session) /\ PidOffset)
    <3>1. Default(open, active, used) \in open
      BY <1>3, DefaultIsOpen
    <3>2. NewAssignment(accts, ok, active, used, session, st)
            = [key |-> Default(open, active, used),
               sessions |-> IF InSession(session) THEN Assign(st, session, Default(open, active, used)) ELSE st]
      BY <1>3, <2>4 DEF NewAssignment
    <3> QED
      BY <1>3, <2>4, <3>1, <3>2 DEF Chosen
  <2> QED
    BY <2>3, <2>4
<1> QED
  BY <1>1, <1>2, <1>3

\* The account a request of this session has before the selection.
Home(st, session) == IF InSession(session) THEN Assigned(st, session) ELSE NoKey

\* rotation.ts selectAccount serves exactly if the session's account is eligible
\* or some undrained account is; what it serves is eligible, and a drained
\* account only if the session already had it.
THEOREM ServesEligible ==
    ASSUME NEW accts \in SUBSET Keys, NEW ok \in SUBSET accts, NEW active,
           NEW used \in [Keys -> Nat], NEW session, NEW T, NEW st, IsState(st, T),
           NEW key, key = SelectAccount(accts, ok, active, used, session, st).key
    PROVE  /\ key # NoKey <=> Home(st, session) \in ok \/ ok \ Drained(accts) # {}
           /\ key # NoKey => key \in ok
           /\ key \in Drained(accts) => key = Home(st, session)
           /\ Home(st, session) \in ok => key = Home(st, session)
<1> DEFINE freed == IF InSession(session) THEN Forget(st, session) ELSE st
<1>1. NoKey \notin accts /\ NoKey \notin Drained(accts)
  BY RotationConstants DEF Drained
<1>2. CASE ok = {}
  BY <1>1, <1>2 DEF SelectAccount
<1>3. CASE Home(st, session) \in ok
  BY <1>1, <1>3 DEF SelectAccount, Home
<1>4. CASE ok # {} /\ Home(st, session) \notin ok
  <2> DEFINE new == NewAssignment(accts, ok, active, used, session, freed)
  <2>1. key = new.key
    BY <1>4 DEF SelectAccount, Home
  <2>2. freed.cursor \in Nat
    BY ForgetEffect DEF IsState
  <2> HIDE DEF freed
  <2>3. Chosen(new, ok \ Drained(accts), session, freed)
    BY <2>2, NewAssignmentChooses
  <2> HIDE DEF new
  <2>4. CASE ok \ Drained(accts) = {}
    BY <1>1, <1>4, <2>1, <2>4, <2>3 DEF Chosen
  <2>5. CASE ok \ Drained(accts) # {}
    <3>1. key \in ok \ Drained(accts)
      BY <2>1, <2>5, <2>3 DEF Chosen
    <3> QED
      BY <1>1, <1>4, <2>5, <3>1
  <2> QED
    BY <2>4, <2>5
<1> QED
  BY <1>2, <1>3, <1>4

\* After selectAccount the sessions still form a map within its limit, and an
\* entry that is new assigns the request's session to the account served, which
\* the policy does not drain.
THEOREM AssignsUndrained ==
    ASSUME NEW accts \in SUBSET Keys, NEW ok \in SUBSET accts, NEW active,
           NEW used \in [Keys -> Nat], NEW T, NEW session, InSession(session) => session \in T,
           NEW st, IsState(st, T),
           NEW pick, pick = SelectAccount(accts, ok, active, used, session, st)
    PROVE  /\ IsState(pick.sessions, T)
           /\ \A i \in DOMAIN pick.sessions.map :
                 LET e == pick.sessions.map[i]
                 IN  \/ e.key = Assigned(st, e.session)
                     \/ e.key = pick.key /\ pick.key \in ok \ Drained(accts)
<1> DEFINE freed == IF InSession(session) THEN Forget(st, session) ELSE st
           Kept(m) == \A i \in DOMAIN m : \E j \in DOMAIN st.map : m[i] = st.map[j]
<1>1. \A i \in DOMAIN st.map : st.map[i].key = Assigned(st, st.map[i].session)
  BY EntryIsAssigned
<1>2. CASE pick.sessions = st
  BY <1>1, <1>2
<1>3. CASE pick.sessions # st
  <2>1. pick = NewAssignment(accts, ok, active, used, session, freed)
    BY <1>3 DEF SelectAccount
  <2>2. /\ IsState(freed, T)
        /\ Kept(freed.map)
        /\ InSession(session) => \A i \in DOMAIN freed.map : freed.map[i].session # session
    BY ForgetEffect
  <2> HIDE DEF freed
  <2>3. Chosen(pick, ok \ Drained(accts), session, freed)
    <3>1. freed.cursor \in Nat
      BY <2>2 DEF IsState
    <3> QED
      BY <2>1, <3>1, NewAssignmentChooses
  <2>4. CASE ok \ Drained(accts) = {}
    <3>1. pick.sessions = freed
      BY <2>4, <2>3 DEF Chosen
    <3> QED
      BY <1>1, <2>2, <3>1
  <2>5. CASE ok \ Drained(accts) # {}
    <3>0. PICK k \in ok \ Drained(accts) : \E f :
             /\ f = freed \/ \E c \in Nat : f = [freed EXCEPT !.cursor = c]
             /\ pick = [key |-> k, sessions |-> IF InSession(session) THEN Assign(f, session, k) ELSE f]
      BY <2>5, <2>3 DEF Chosen
    <3>1. PICK from :
             /\ from = freed \/ \E c \in Nat : from = [freed EXCEPT !.cursor = c]
             /\ pick = [key |-> k, sessions |-> IF InSession(session) THEN Assign(from, session, k) ELSE from]
      BY <3>0
    <3>2. IsState(from, T) /\ from.map = freed.map
      BY <2>2, <3>1 DEF IsState
    <3>3. CASE ~InSession(session)
      BY <1>1, <2>2, <3>1, <3>2, <3>3
    <3>4. CASE InSession(session)
      <4>1. k \in Keys /\ session \in T
        BY <3>4
      <4>2. /\ IsState(pick.sessions, T)
            /\ \A i \in DOMAIN pick.sessions.map :
                  \/ pick.sessions.map[i] = [session |-> session, key |-> k]
                  \/ \E j \in DOMAIN from.map : pick.sessions.map[i] = from.map[j]
        BY <2>2, <3>1, <3>2, <3>4, <4>1, AssignEffect
      <4>3. pick.key = k
        BY <3>1
      <4> QED
        BY <1>1, <2>2, <3>2, <4>2, <4>3
    <3> QED
      BY <3>3, <3>4
  <2> QED
    BY <2>4, <2>5
<1> QED
  BY <1>2, <1>3

\* While the sessions fit into the map, a selection for one of them leaves the
\* account of every other one as it is, and its own if that account is eligible.
THEOREM SparesOthers ==
    ASSUME NEW accts \in SUBSET Keys, NEW ok \in SUBSET accts, NEW active,
           NEW used \in [Keys -> Nat], NEW T, Fits(T), NEW session,
           GoesBy(session, T), NEW st, IsState(st, T),
           NEW left, left = SelectAccount(accts, ok, active, used, session, st).sessions
    PROVE  /\ \A t : t # session => Assigned(left, t) = Assigned(st, t)
           /\ Home(st, session) \in ok => left = st
<1> DEFINE freed == IF InSession(session) THEN Forget(st, session) ELSE st
           pick == SelectAccount(accts, ok, active, used, session, st)
<1>1. Home(st, session) \in ok => pick.sessions = st
  BY DEF SelectAccount, Home
<1>2. ASSUME pick.sessions # st, NEW t, t # session
      PROVE  Assigned(pick.sessions, t) = Assigned(st, t)
  <2>1. pick = NewAssignment(accts, ok, active, used, session, freed)
    BY <1>2 DEF SelectAccount
  <2>2. /\ IsState(freed, T)
        /\ \A i \in DOMAIN freed.map : \E j \in DOMAIN st.map : freed.map[i] = st.map[j]
        /\ InSession(session) => \A i \in DOMAIN freed.map : freed.map[i].session # session
        /\ \A j \in DOMAIN st.map : st.map[j].session = t => \E i \in DOMAIN freed.map : freed.map[i] = st.map[j]
    BY <1>2, ForgetEffect
  <2> HIDE DEF freed, pick
  <2>3. Assigned(freed, t) = Assigned(st, t)
    BY <2>2, SameEntry
  <2>4. Chosen(pick, ok \ Drained(accts), session, freed)
    <3>1. freed.cursor \in Nat
      BY <2>2 DEF IsState
    <3> QED
      BY <2>1, <3>1, NewAssignmentChooses
  <2>5. CASE ok \ Drained(accts) = {}
    BY <2>3, <2>4, <2>5 DEF Chosen
  <2>6. CASE ok \ Drained(accts) # {}
    <3>0. PICK k \in ok \ Drained(accts) : \E f :
             /\ f = freed \/ \E c \in Nat : f = [freed EXCEPT !.cursor = c]
             /\ pick = [key |-> k, sessions |-> IF InSession(session) THEN Assign(f, session, k) ELSE f]
      BY <2>4, <2>6 DEF Chosen
    <3>1. PICK from :
             /\ from = freed \/ \E c \in Nat : from = [freed EXCEPT !.cursor = c]
             /\ pick = [key |-> k, sessions |-> IF InSession(session) THEN Assign(from, session, k) ELSE from]
      BY <3>0
    <3>2. IsState(from, T) /\ from.map = freed.map
      BY <2>2, <3>1 DEF IsState
    <3>3. Assigned(from, t) = Assigned(freed, t)
      BY <3>2 DEF Assigned, Position
    <3>4. CASE ~InSession(session)
      BY <2>3, <3>1, <3>3, <3>4
    <3>5. CASE InSession(session)
      <4>1. k \in Keys /\ session \in T
        BY <3>5 DEF GoesBy
      <4>2. \A i \in DOMAIN from.map : from.map[i].session # session
        BY <2>2, <3>2, <3>5
      <4>3. Len(from.map) < MaxSessions
        BY <3>2, <4>1, <4>2, RoomForOneMore
      <4> DEFINE b == Assign(from, session, k)
      <4>4. /\ IsState(b, T)
            /\ \A i \in DOMAIN b.map : \/ b.map[i] = [session |-> session, key |-> k]
                                       \/ \E j \in DOMAIN from.map : b.map[i] = from.map[j]
            /\ \A j \in DOMAIN from.map : \E i \in DOMAIN b.map : b.map[i] = from.map[j]
        BY <3>2, <4>1, <4>2, <4>3, AssignEffect
      <4>5. pick.sessions = b
        BY <3>1, <3>5
      <4> HIDE DEF b
      <4>6. \A i \in DOMAIN b.map : b.map[i].session = t => \E j \in DOMAIN from.map : from.map[j] = b.map[i]
        BY <1>2, <4>4
      <4>7. Assigned(b, t) = Assigned(from, t)
        BY <3>2, <4>4, <4>6, SameEntry
      <4> QED
        BY <2>3, <3>3, <4>5, <4>7
    <3> QED
      BY <3>4, <3>5
  <2> QED
    BY <2>5, <2>6
<1>3. left = pick.sessions
  OBVIOUS
<1> HIDE DEF pick
<1> QED
  BY <1>1, <1>2, <1>3
=============================================================================
