--------------------------- MODULE MCAcquireAuth ---------------------------
EXTENDS AcquireAuth, TLC

CONSTANTS r1, r2, s1, s2

MCLeaseLength == [k \in Kinds |-> IF k = "proactive" THEN 2 ELSE 1]

\* The order of the names is not the stored order, nor that of their code units.
MCKeyRank == [k \in Keys |-> Cardinality(Keys) - k]
MCCodeRank == [k \in Keys |-> (Cardinality(Keys) - k + 1) % Cardinality(Keys)]

Imported(t, e) == [present |-> TRUE, enabled |-> TRUE, token |-> t,
                   expires |-> e, cooldown |-> 0, lease |-> 0]

Fresh == Imported(1, 99)
Expired == Imported(1, 0)
Empty == Imported(0, 0)

NoQuota == [k \in Keys |-> 0]
LastExhausted == [k \in Keys |-> IF k = Cardinality(Keys) THEN 2 ELSE 0]

Single == r1 :> s1
OneSession == r1 :> s1 @@ r2 :> s1
TwoSessions == r1 :> s1 @@ r2 :> s2

Alike == Permutations({r1, r2})

NoOrder == <<>>
FirstDrained == {{1}}
LastPreferred == <<{Cardinality(Keys)}>>

FreshOrExpired == {Fresh, Expired}
Orphaned == [Fresh EXCEPT !.lease = 2]
Found == {Fresh, Expired, Empty, Orphaned}
Peers == {"refresh", "lease", "limit"}
Everyone == {"refresh", "lease", "limit", "toggle", "login"}
Anything == Everyone \union {"remove"}
=============================================================================
