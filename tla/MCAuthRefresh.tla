---------------------------- MODULE MCAuthRefresh ----------------------------
EXTENDS AuthRefresh, TLC

CONSTANTS a1, p1, p2, p3, p4, p5

\* Leases of 30 s and 120 s as 4 and 8 ticks: a refresh lasts at most 3.
MCLeaseLength == [k \in Kinds |-> IF k = "proactive" THEN 8 ELSE 4]

\* The background flows and the auth menu's, each in a process of its own.
EveryFlow == p1 :> "acquire" @@ p2 :> "proactive" @@ p3 :> "reactive" @@ p4 :> "menu" @@ p5 :> "quota"

=============================================================================
