----------------------- MODULE FetchOrchestratorProofs -----------------------
(***************************************************************************)
(* For any number of calls and accounts, any bounds and any meddling:      *)
(* types, no token is sent again after its rejection, the answer is        *)
(* charged to the token that got it, and a 401 is passed on only with      *)
(* nothing left to try.  If nobody else refreshes, cooldowns are sat out.  *)
(***************************************************************************)
EXTENDS FetchOrchestrator, FiniteSetTheorems, TLAPS

\* What the locals of a call in this phase look like.
Fits(ph, q) ==
    /\ ph \in Phases
    /\ q \in Call
    /\ ph \notin {"idle"} \union Ended => q.attempt < MaxAttempts
    /\ ph = "recover" => q.attempt + 1 < MaxAttempts
    /\ ph \in {"send", "recover", "cool"} => q.auth \in Auth

EnvOK ==
    /\ clock \in Nat /\ changes \in Nat
    /\ dead \in [Accounts -> Nat]
    /\ told \in [Accounts -> Nat]

StoreOK == store \in [Accounts -> Record]

CallsOK ==
    /\ phase \in [Calls -> Phases]
    /\ call \in [Calls -> Call]
    /\ \A c \in Calls : Fits(phase[c], call[c])

HistoryOK ==
    /\ rejected \in [Calls -> SUBSET Auth]
    /\ tried \in [Calls -> SUBSET Accounts]
    /\ usable \in [Calls -> SUBSET Accounts]

Typed == EnvOK /\ StoreOK /\ CallsOK /\ HistoryOK

\* A step of one call leaves the others alone ...
Alone(c) == \A d \in Calls \ {c} : phase'[d] = phase[d] /\ call'[d] = call[d]

\* ... and no step takes a newer token back.
Grows == \A a \in Accounts : store'[a].token >= store[a].token

-----------------------------------------------------------------------------
(* Types                                                                   *)

\* The phases and locals after a step of one call.
LEMMA MoveFits ==
    ASSUME CallsOK, NEW c \in Calls, NEW ph, NEW q, Fits(ph, q), Goto(c, ph), Becomes(c, q)
    PROVE  CallsOK' /\ Alone(c) /\ phase'[c] = ph /\ call'[c] = q
<1>1. ph \in Phases /\ q \in Call
  BY DEF Fits
<1>2. /\ phase' = [phase EXCEPT ![c] = ph]
      /\ call' = [call EXCEPT ![c] = q]
  BY DEF Goto, Becomes
<1>3. /\ phase' \in [Calls -> Phases] /\ call' \in [Calls -> Call]
      /\ phase'[c] = ph /\ call'[c] = q
      /\ \A d \in Calls \ {c} : phase'[d] = phase[d] /\ call'[d] = call[d]
  BY <1>1, <1>2 DEF CallsOK
<1>4. \A d \in Calls : Fits(phase'[d], call'[d])
  BY <1>3 DEF CallsOK
<1> QED
  BY <1>3, <1>4 DEF CallsOK, Alone

\* The locals a call starts with.
LEMMA NewCallFits == NewCall \in Call /\ \A ph \in {"idle"} \union Ended : Fits(ph, NewCall)
<1>1. NewCall \in Call
  BY DEF NewCall, Call
<1> QED
  BY <1>1 DEF Fits, Phases, Ended

\* The end of a call.
LEMMA EndFits ==
    ASSUME CallsOK, NEW c \in Calls, NEW ph \in Ended, End(c, ph)
    PROVE  CallsOK' /\ Alone(c) /\ phase'[c] = ph /\ call'[c] = NewCall
BY NewCallFits, MoveFits DEF End

\* What a new round of the loop starts with.
NextRound(q) == [q EXCEPT !.attempt = @ + 1, !.stamp = clock, !.lost = {}, !.saw = {}]

\* The next round, or the end of the loop.
LEMMA RetryFits ==
    ASSUME EnvOK, CallsOK, NEW c \in Calls, NEW q \in Call, Retry(c, q)
    PROVE  /\ CallsOK' /\ Alone(c)
           /\ \/ phase'[c] = "acquire" /\ call'[c] = NextRound(q)
              \/ phase'[c] = "limited" /\ call'[c] = NewCall
<1>1. CASE q.attempt + 1 < MaxAttempts
  <2> DEFINE next == q.attempt + 1
  <2>0. next \in Nat /\ clock \in Nat /\ NextRound(q) = [q EXCEPT !.attempt = next, !.stamp = clock, !.lost = {}, !.saw = {}]
    BY DEF NextRound, Call, EnvOK
  <2> HIDE DEF next
  <2>1a. NextRound(q) \in Call /\ NextRound(q).attempt = next
    BY <2>0 DEF Call
  <2>1. NextRound(q) \in Call /\ NextRound(q).attempt = q.attempt + 1
    BY <2>1a DEF next
  <2>2. Fits("acquire", NextRound(q))
    BY <1>1, <2>1 DEF Fits, Phases
  <2>3. Goto(c, "acquire") /\ Becomes(c, NextRound(q))
    BY <1>1 DEF Retry, NextRound
  <2> QED
    BY <2>2, <2>3, MoveFits
<1>2. CASE ~(q.attempt + 1 < MaxAttempts)
  BY <1>2, EndFits DEF Retry, Ended
<1> QED
  BY <1>1, <1>2

\* The locals of a call that sends its request.
Sending(q, auth) == [q EXCEPT !.auth = auth, !.picked = auth, !.awaitingFailover = FALSE]

LEMMA UseFits ==
    ASSUME CallsOK, NEW c \in Calls, NEW q \in Call, NEW auth \in Auth, q.attempt < MaxAttempts,
           Use(c, q, auth)
    PROVE  CallsOK' /\ Alone(c) /\ phase'[c] = "send" /\ call'[c] = Sending(q, auth)
<1>1. Sending(q, auth) \in Call /\ Sending(q, auth).attempt = q.attempt /\ Sending(q, auth).auth = auth
  BY DEF Sending, Call
<1>2. Fits("send", Sending(q, auth))
  BY <1>1 DEF Fits, Phases
<1>3. Goto(c, "send") /\ Becomes(c, Sending(q, auth))
  BY DEF Use, Sending
<1> QED
  BY <1>2, <1>3, MoveFits

\* The locals of a call that gives up its account.
Left(q) == [q EXCEPT !.failoverScheduled = TRUE, !.awaitingFailover = TRUE,
                     !.avoid = @ \union {q.auth.key}]

LEMMA FailoverFits ==
    ASSUME EnvOK, CallsOK, NEW c \in Calls, NEW q \in Call, q.auth \in Auth, Failover(c, q)
    PROVE  /\ CallsOK' /\ Alone(c)
           /\ \/ phase'[c] = "acquire" /\ call'[c] = NextRound(Left(q))
              \/ phase'[c] = "limited" /\ call'[c] = NewCall
<1>1. Left(q) \in Call
  BY DEF Left, Call, Auth
<1>2. Retry(c, Left(q))
  BY DEF Failover, Left
<1> QED
  BY <1>1, <1>2, RetryFits
-----------------------------------------------------------------------------
(* The steps of a call                                                     *)

\* What every step of a call guarantees.
Proper(c) == EnvOK' /\ StoreOK' /\ CallsOK' /\ Alone(c) /\ Grows

\* A step that leaves the store alone.
LEMMA StoreAlone ==
    ASSUME Typed, UNCHANGED store
    PROVE  StoreOK' /\ Grows
BY DEF Typed, StoreOK, Grows, Record

\* A refresh issues the next token.
LEMMA Refreshed ==
    ASSUME Typed, NEW a \in Accounts, SaveTokens(a)
    PROVE  StoreOK' /\ Grows /\ store'[a].token = store[a].token + 1
<1> DEFINE next == store[a].token + 1
<1>1. store \in [Accounts -> Record] /\ next \in Nat /\ next >= store[a].token
  BY DEF Typed, StoreOK, Record
<1>2. store' = [store EXCEPT ![a] = [store[a] EXCEPT !.token = next, !.leased = FALSE, !.cooldown = 0]]
  BY <1>1 DEF SaveTokens
<1> HIDE DEF next
<1>3. [store[a] EXCEPT !.token = next, !.leased = FALSE, !.cooldown = 0] \in Record
  BY <1>1 DEF Record
<1>4. StoreOK' /\ store'[a].token = next
  BY <1>1, <1>2, <1>3 DEF StoreOK, Record
<1>5. Grows
  BY <1>1, <1>2, <1>4 DEF Grows, Record
<1> QED
  BY <1>4, <1>5 DEF next

\* A step that writes another record with the same token.
LEMMA Rewritten ==
    ASSUME Typed, NEW a \in Accounts, NEW rec \in Record, rec.token = store[a].token,
           store' = [store EXCEPT ![a] = rec]
    PROVE  StoreOK' /\ Grows
BY DEF Typed, StoreOK, Grows, Record

\* A failed refresh issues none.
LEMMA FailureSaved ==
    ASSUME Typed, NEW a \in Accounts, NEW why \in {"grant", "failure"}, SaveFailure(a, why)
    PROVE  StoreOK' /\ Grows
<1> DEFINE until == IF store[a].enabled THEN clock + FailureCooldown ELSE store[a].cooldown
           rec == IF why = "grant" THEN [store[a] EXCEPT !.enabled = FALSE, !.leased = FALSE, !.cooldown = 0]
                  ELSE [store[a] EXCEPT !.leased = FALSE, !.cooldown = until]
<1>1. store \in [Accounts -> Record] /\ until \in Nat
  BY OrchestratorConstants DEF Typed, StoreOK, EnvOK, Record
<1>2. store' = [store EXCEPT ![a] = rec]
  BY <1>1 DEF SaveFailure
<1> HIDE DEF until
<1>3. rec \in Record /\ rec.token = store[a].token
  BY <1>1 DEF Record
<1> HIDE DEF rec
<1> QED
  BY <1>2, <1>3, Rewritten

LEMMA BeginMoves ==
    ASSUME Typed, NEW c \in Calls, Begin(c)
    PROVE  /\ Proper(c) /\ UNCHANGED store /\ ~Running(c) /\ phase'[c] = "acquire"
           /\ call'[c] = [NewCall EXCEPT !.stamp = clock]
<1> DEFINE q == [NewCall EXCEPT !.stamp = clock]
<1>1. q \in Call /\ q.attempt = 0
  BY NewCallFits DEF Typed, EnvOK, NewCall, Call
<1>2. 0 < MaxAttempts
  BY OrchestratorConstants
<1>3. Fits("acquire", q)
  BY <1>1, <1>2 DEF Fits, Phases
<1>4. Goto(c, "acquire") /\ Becomes(c, q)
  BY DEF Begin
<1>5. CallsOK' /\ Alone(c) /\ phase'[c] = "acquire" /\ call'[c] = q
  <2> HIDE DEF q
  <2> QED
    BY <1>3, <1>4, MoveFits DEF Typed
<1>6. EnvOK' /\ UNCHANGED store /\ ~Running(c)
  BY DEF Begin, Typed, EnvOK, env, Running
<1> QED
  BY <1>5, <1>6, StoreAlone DEF Proper

LEMMA AcquireMoves ==
    ASSUME Typed, NEW c \in Calls, Acquire(c)
    PROVE  /\ Proper(c) /\ phase[c] = "acquire" /\ phase'[c] = "send"
           /\ \E auth \in Auth :
                 /\ auth.key \in Candidates(c) /\ auth.key \notin call[c].avoid
                 /\ auth.token = store'[auth.key].token
                 /\ call'[c] = Sending(call[c], auth)
<1>1. /\ EnvOK' /\ phase[c] = "acquire" /\ call[c] \in Call /\ call[c].attempt < MaxAttempts
  BY DEF Acquire, Typed, EnvOK, env, CallsOK, Fits, Ended
<1>2. PICK a \in Candidates(c) :
          \/ /\ Use(c, call[c], [key |-> a, token |-> store[a].token])
             /\ UNCHANGED store
          \/ /\ SaveTokens(a)
             /\ Use(c, call[c], [key |-> a, token |-> store[a].token + 1])
  BY DEF Acquire
<1>3. a \in Accounts /\ a \notin call[c].avoid /\ store[a].token \in Nat
  BY DEF Candidates, Typed, StoreOK, Record
<1>4. CASE Use(c, call[c], [key |-> a, token |-> store[a].token]) /\ UNCHANGED store
  <2> DEFINE auth == [key |-> a, token |-> store[a].token]
  <2>1. auth \in Auth /\ auth.key = a /\ auth.token = store'[a].token
    BY <1>3, <1>4 DEF Auth
  <2>2. CallsOK' /\ Alone(c) /\ phase'[c] = "send" /\ call'[c] = Sending(call[c], auth)
    <3>1. Use(c, call[c], auth)
      BY <1>4
    <3> HIDE DEF auth
    <3> QED
      BY <1>1, <2>1, <3>1, UseFits DEF Typed
  <2> HIDE DEF auth
  <2> QED
    BY <1>1, <1>3, <1>4, <2>1, <2>2, StoreAlone DEF Proper
<1>5. CASE /\ SaveTokens(a)
           /\ Use(c, call[c], [key |-> a, token |-> store[a].token + 1])
  <2> DEFINE auth == [key |-> a, token |-> store[a].token + 1]
  <2>0. StoreOK' /\ Grows /\ store'[a].token = store[a].token + 1
    BY <1>3, <1>5, Refreshed
  <2>1. auth \in Auth /\ auth.key = a /\ auth.token = store'[a].token
    BY <1>3, <2>0 DEF Auth
  <2>2. CallsOK' /\ Alone(c) /\ phase'[c] = "send" /\ call'[c] = Sending(call[c], auth)
    <3>1. Use(c, call[c], auth)
      BY <1>5
    <3> HIDE DEF auth
    <3> QED
      BY <1>1, <2>1, <3>1, UseFits DEF Typed
  <2> HIDE DEF auth
  <2> QED
    BY <1>1, <1>3, <2>0, <2>1, <2>2 DEF Proper
<1> QED
  BY <1>2, <1>4, <1>5

LEMMA LoseCandidateMoves ==
    ASSUME Typed, NEW c \in Calls, LoseCandidate(c)
    PROVE  /\ Proper(c) /\ phase[c] = "acquire" /\ phase'[c] = "acquire"
           /\ \E a \in Candidates(c), why \in {"grant", "failure"} :
                 /\ SaveFailure(a, why)
                 /\ call'[c] = [call[c] EXCEPT !.lost = @ \union {a}, !.saw = @ \union {why}]
<1>1. PICK a \in Candidates(c), why \in {"grant", "failure"} :
          /\ SaveFailure(a, why)
          /\ Becomes(c, [call[c] EXCEPT !.lost = @ \union {a}, !.saw = @ \union {why}])
  BY DEF LoseCandidate
<1>2. a \in Accounts
  BY DEF Candidates
<1>3. EnvOK' /\ phase[c] = "acquire" /\ phase' = phase
  BY DEF LoseCandidate, Typed, EnvOK, env
<1> DEFINE lost == call[c].lost \union {a}
           saw == call[c].saw \union {why}
           q == [call[c] EXCEPT !.lost = lost, !.saw = saw]
<1>6. StoreOK' /\ Grows
  BY <1>1, <1>2, FailureSaved
<1>7. call[c] \in Call /\ Fits("acquire", call[c])
  BY <1>3 DEF Typed, CallsOK
<1>8. lost \in SUBSET Accounts /\ saw \in SUBSET {"grant", "failure"}
  BY <1>2, <1>7 DEF Call
<1>9. Becomes(c, q)
  BY <1>1
<1>10. q \in Call /\ q.attempt = call[c].attempt /\ q.auth = call[c].auth
  <2> HIDE DEF lost, saw
  <2> QED
    BY <1>7, <1>8 DEF Call
<1>11. Fits("acquire", q) /\ Goto(c, "acquire")
  <2> HIDE DEF q
  <2>1. Fits("acquire", q)
    BY <1>7, <1>10 DEF Fits
  <2>2. phase' = [phase EXCEPT ![c] = "acquire"]
    BY <1>3 DEF Typed, CallsOK
  <2> QED
    BY <2>1, <2>2 DEF Goto
<1>12. CallsOK' /\ Alone(c) /\ phase'[c] = "acquire" /\ call'[c] = q
  <2> HIDE DEF q
  <2> QED
    BY <1>9, <1>11, MoveFits DEF Typed
<1>13. call'[c] = [call[c] EXCEPT !.lost = @ \union {a}, !.saw = @ \union {why}]
  BY <1>12
<1> QED
  BY <1>1, <1>3, <1>6, <1>12, <1>13, Zenon DEF Proper

\* A step that ends the call.
LEMMA EndMoves ==
    ASSUME Typed, NEW c \in Calls, NEW ph \in Ended, End(c, ph), UNCHANGED <<env, store, told>>
    PROVE  Proper(c) /\ phase'[c] = ph /\ call'[c] = NewCall
<1>1. CallsOK' /\ Alone(c) /\ phase'[c] = ph /\ call'[c] = NewCall
  BY EndFits DEF Typed
<1>2. EnvOK' /\ UNCHANGED store
  BY DEF Typed, EnvOK, env
<1> QED
  BY <1>1, <1>2, StoreAlone DEF Proper

LEMMA AcquireFailsMoves ==
    ASSUME Typed, NEW c \in Calls, AcquireFails(c)
    PROVE  /\ Proper(c) /\ UNCHANGED store /\ phase[c] = "acquire" /\ phase'[c] \in Ended
           /\ phase'[c] \in {"answered", "expired"} => call[c].awaitingFailover
           /\ call'[c] = NewCall
<1> DEFINE ph == IF call[c].awaitingFailover /\ OutOfAccounts(c) THEN "expired" ELSE "failed"
<1>1. ph \in Ended /\ (ph \in {"answered", "expired"} => call[c].awaitingFailover)
  BY DEF Ended
<1>2. End(c, ph) /\ UNCHANGED <<env, store, told>> /\ phase[c] = "acquire"
  BY DEF AcquireFails
<1> HIDE DEF ph
<1> QED
  BY <1>1, <1>2, EndMoves

LEMMA SendEndsMoves ==
    ASSUME Typed, NEW c \in Calls, SendEnds(c)
    PROVE  /\ Proper(c) /\ UNCHANGED store /\ phase[c] = "send" /\ phase'[c] \in Ended
           /\ call'[c] = NewCall
<1>1. PICK ph \in {"answered", "failed"} : End(c, ph)
  BY DEF SendEnds
<1>2. UNCHANGED <<env, store, told>> /\ phase[c] = "send" /\ ph \in Ended
  BY <1>1 DEF SendEnds, Ended
<1> QED
  BY <1>1, <1>2, EndMoves

LEMMA SendExpiresMoves ==
    ASSUME Typed, NEW c \in Calls, SendExpires(c)
    PROVE  /\ Proper(c) /\ UNCHANGED store /\ phase[c] = "send"
           /\ \/ phase'[c] \in Ended /\ call'[c] = NewCall
              \/ /\ phase'[c] = "recover" /\ ~call[c].recoveryAttempted
                 /\ call'[c] = [call[c] EXCEPT !.recoveryAttempted = TRUE]
              \/ /\ phase'[c] = "acquire" /\ call[c].recoveryAttempted
                 /\ call'[c] = NextRound(Left(call[c]))
<1> DEFINE q == call[c]
<1>1. /\ phase[c] = "send" /\ UNCHANGED <<env, store, told>> /\ EnvOK' /\ UNCHANGED store
      /\ call[c] \in Call /\ call[c].auth \in Auth /\ call[c].attempt < MaxAttempts
  <2>1. phase[c] = "send" /\ UNCHANGED <<env, store, told>>
    BY DEF SendExpires
  <2>2. Fits("send", call[c])
    BY <2>1 DEF Typed, CallsOK
  <2> QED
    BY <2>1, <2>2 DEF Typed, Fits, Ended, EnvOK, env
<1>2. /\ q \in Call /\ q.auth \in Auth /\ q.attempt = call[c].attempt
      /\ q.recoveryAttempted = call[c].recoveryAttempted
  BY <1>1 DEF Call
<1>3. \/ End(c, "expired")
      \/ /\ ~Final(c) /\ ~q.recoveryAttempted /\ Goto(c, "recover")
         /\ Becomes(c, [q EXCEPT !.recoveryAttempted = TRUE])
      \/ q.recoveryAttempted /\ Failover(c, q)
  BY DEF SendExpires
<1>4. CASE End(c, "expired")
  <2>1. "expired" \in Ended
    BY DEF Ended
  <2> QED
    BY <1>1, <1>4, <2>1, EndMoves
<1>5. CASE /\ ~Final(c) /\ ~q.recoveryAttempted /\ Goto(c, "recover")
           /\ Becomes(c, [q EXCEPT !.recoveryAttempted = TRUE])
  <2> DEFINE new == [q EXCEPT !.recoveryAttempted = TRUE]
  <2>1. new \in Call /\ new.attempt = q.attempt /\ new.auth = q.auth
    <3> HIDE DEF q
    <3> QED
      BY <1>2 DEF Call
  <2>2. call[c].attempt + 1 < MaxAttempts
    BY <1>1, <1>5, OrchestratorConstants DEF Final, Call
  <2>3. Fits("recover", new)
    <3> HIDE DEF new, q
    <3> QED
      BY <1>1, <1>2, <2>1, <2>2 DEF Fits, Phases
  <2>4. Goto(c, "recover") /\ Becomes(c, new)
    BY <1>5
  <2>5. CallsOK' /\ Alone(c) /\ phase'[c] = "recover" /\ call'[c] = new
    <3> HIDE DEF new
    <3> QED
      BY <2>3, <2>4, MoveFits DEF Typed
  <2>6. Proper(c)
    BY <1>1, <2>5, StoreAlone DEF Proper
  <2> QED
    BY <1>1, <1>2, <1>5, <2>5, <2>6
<1>6. CASE q.recoveryAttempted /\ Failover(c, q)
  <2>1. /\ CallsOK' /\ Alone(c)
        /\ \/ phase'[c] = "acquire" /\ call'[c] = NextRound(Left(q))
           \/ phase'[c] = "limited" /\ call'[c] = NewCall
    <3> HIDE DEF q
    <3> QED
      BY <1>2, <1>6, FailoverFits DEF Typed
  <2>2. Proper(c) /\ "limited" \in Ended
    BY <1>1, <2>1, StoreAlone DEF Proper, Ended
  <2> QED
    BY <1>1, <1>2, <1>6, <2>1, <2>2
<1> QED
  BY <1>3, <1>4, <1>5, <1>6

\* A cooldown is a time.
LEMMA CooldownType ==
    ASSUME NEW stamp \in Nat, NEW until \in Cooldowns(stamp)
    PROVE  until \in Nat
BY OrchestratorConstants DEF Cooldowns

LEMMA SendIsLimitedMoves ==
    ASSUME Typed, NEW c \in Calls, SendIsLimited(c)
    PROVE  /\ Proper(c) /\ UNCHANGED store /\ phase[c] = "send" /\ phase'[c] = "cool"
           /\ \E until : call'[c] = [call[c] EXCEPT !.until = until]
<1>1. PICK until \in Cooldowns(call[c].stamp) :
         Becomes(c, [call[c] EXCEPT !.until = until])
  BY DEF SendIsLimited
<1>2. /\ phase[c] = "send" /\ EnvOK' /\ UNCHANGED store /\ Goto(c, "cool")
      /\ call[c] \in Call /\ Fits("send", call[c])
  BY DEF SendIsLimited, Typed, CallsOK, EnvOK, env
<1>3. until \in Nat
  BY <1>1, <1>2, CooldownType DEF Call
<1> DEFINE q == [call[c] EXCEPT !.until = until]
<1>4. q \in Call /\ q.attempt = call[c].attempt /\ q.auth = call[c].auth
  BY <1>2, <1>3 DEF Call
<1>5. Becomes(c, q)
  BY <1>1
<1> HIDE DEF q
<1>6. Fits("cool", q)
  BY <1>2, <1>4 DEF Fits, Phases, Ended
<1>7. CallsOK' /\ Alone(c) /\ phase'[c] = "cool" /\ call'[c] = q
  BY <1>2, <1>5, <1>6, MoveFits DEF Typed
<1> QED
  BY <1>2, <1>7, StoreAlone DEF Proper, q

LEMMA CoolMoves ==
    ASSUME Typed, NEW c \in Calls, Cool(c)
    PROVE  /\ Proper(c) /\ phase[c] = "cool"
           /\ \/ /\ phase'[c] = "acquire"
                 /\ call'[c] = NextRound([call[c] EXCEPT !.until = 0])
              \/ phase'[c] \in Ended /\ call'[c] = NewCall
<1> DEFINE q == [call[c] EXCEPT !.until = 0]
           a == call[c].auth.key
           until == call[c].until
<1>1. phase[c] = "cool" /\ Retry(c, q) /\ UNCHANGED env
  BY DEF Cool
<1>2. call[c] \in Call /\ a \in Accounts /\ until \in Nat /\ q \in Call
  BY <1>1 DEF Typed, CallsOK, Fits, Call, Auth
<1>3. \/ store' = [store EXCEPT ![a].cooldown = until] /\ told' = [told EXCEPT ![a] = IF until > @ THEN until ELSE @]
      \/ UNCHANGED <<store, told>>
  BY DEF Cool, SetCooldown
<1>4. StoreOK' /\ Grows /\ told' \in [Accounts -> Nat]
  <2>1. CASE /\ store' = [store EXCEPT ![a].cooldown = until]
             /\ told' = [told EXCEPT ![a] = IF until > @ THEN until ELSE @]
    <3> DEFINE rec == [store[a] EXCEPT !.cooldown = until]
    <3> HIDE DEF a, until
    <3>1. rec \in Record /\ rec.token = store[a].token
      BY <1>2 DEF Typed, StoreOK, Record
    <3>2. store' = [store EXCEPT ![a] = rec]
      BY <1>2, <2>1 DEF Typed, StoreOK
    <3>3. told' \in [Accounts -> Nat]
      BY <1>2, <2>1 DEF Typed, EnvOK
    <3> HIDE DEF rec
    <3> QED
      BY <1>2, <3>1, <3>2, <3>3, Rewritten
  <2>2. CASE UNCHANGED <<store, told>>
    BY <2>2, StoreAlone DEF Typed, EnvOK
  <2> QED
    BY <1>3, <2>1, <2>2
<1>5. EnvOK'
  BY <1>1, <1>4 DEF Typed, EnvOK, env
<1>6. /\ CallsOK' /\ Alone(c)
      /\ \/ phase'[c] = "acquire" /\ call'[c] = NextRound(q)
         \/ phase'[c] = "limited" /\ call'[c] = NewCall
  <2> HIDE DEF q
  <2> QED
    BY <1>1, <1>2, RetryFits DEF Typed
<1>7. "limited" \in Ended
  BY DEF Ended
<1> QED
  BY <1>1, <1>4, <1>5, <1>6, <1>7 DEF Proper

\* The locals of a call that sends its request again, at once.
Again(q) == [q EXCEPT !.attempt = @ + 1, !.stamp = clock]

LEMMA AgainType ==
    ASSUME Typed, NEW c \in Calls, phase[c] = "recover"
    PROVE  /\ call[c] \in Call /\ call[c].auth \in Auth
           /\ Again(call[c]) \in Call /\ Again(call[c]).attempt < MaxAttempts
<1> DEFINE next == call[c].attempt + 1
<1>1. call[c] \in Call /\ call[c].auth \in Auth /\ next \in Nat /\ next < MaxAttempts /\ clock \in Nat
  <2>1. Fits("recover", call[c])
    BY DEF Typed, CallsOK
  <2> QED
    BY <2>1 DEF Fits, Typed, EnvOK, Call
<1>2. Again(call[c]) = [call[c] EXCEPT !.attempt = next, !.stamp = clock]
  BY <1>1 DEF Again, Call
<1> HIDE DEF next
<1> QED
  BY <1>1, <1>2 DEF Call

LEMMA RecoverConvergesMoves ==
    ASSUME Typed, NEW c \in Calls, RecoverConverges(c)
    PROVE  /\ Proper(c) /\ UNCHANGED store /\ phase[c] = "recover" /\ phase'[c] = "send"
           /\ \E auth \in Auth :
                 /\ auth.key = call[c].auth.key /\ auth.token = store[auth.key].token
                 /\ auth.token # call[c].auth.token
                 /\ call'[c] = Sending(Again(call[c]), auth)
<1> DEFINE a == call[c].auth.key
           auth == [key |-> a, token |-> store[a].token]
<1>1. phase[c] = "recover" /\ UNCHANGED <<env, store, told>> /\ store[a].token # call[c].auth.token
  BY DEF RecoverConverges, Converged
<1>2. Use(c, Again(call[c]), auth)
  BY DEF RecoverConverges, Again
<1>3. auth \in Auth
  BY <1>1, AgainType DEF Auth, Typed, StoreOK, Record
<1>4. auth.key = a /\ auth.token = store[auth.key].token
  OBVIOUS
<1> HIDE DEF auth
<1>5. CallsOK' /\ Alone(c) /\ phase'[c] = "send" /\ call'[c] = Sending(Again(call[c]), auth)
  BY <1>1, <1>2, <1>3, AgainType, UseFits DEF Typed
<1>6. EnvOK'
  BY <1>1 DEF Typed, EnvOK, env
<1>7. Proper(c)
  BY <1>1, <1>5, <1>6, StoreAlone DEF Proper
<1> QED
  BY <1>1, <1>3, <1>4, <1>5, <1>7

LEMMA RecoverRefreshesMoves ==
    ASSUME Typed, NEW c \in Calls, RecoverRefreshes(c)
    PROVE  /\ Proper(c) /\ phase[c] = "recover" /\ phase'[c] = "send"
           /\ \E auth \in Auth :
                 /\ auth.key = call[c].auth.key /\ auth.token = store'[auth.key].token
                 /\ store'[auth.key].token = store[auth.key].token + 1
                 /\ call'[c] = Sending(Again(call[c]), auth)
<1> DEFINE a == call[c].auth.key
           auth == [key |-> a, token |-> store[a].token + 1]
<1>1. /\ phase[c] = "recover" /\ UNCHANGED <<env, told>> /\ SaveTokens(a)
  BY DEF RecoverRefreshes
<1>2. Use(c, Again(call[c]), auth)
  BY DEF RecoverRefreshes, Again
<1>3. a \in Accounts /\ store[a].token \in Nat
  BY <1>1, AgainType DEF Auth, Typed, StoreOK, Record
<1>4. StoreOK' /\ Grows /\ store'[a].token = store[a].token + 1
  <2> HIDE DEF a
  <2> QED
    BY <1>1, <1>3, Refreshed
<1>5. auth \in Auth /\ auth.key = a /\ auth.token = store'[auth.key].token
  BY <1>3, <1>4 DEF Auth
<1> HIDE DEF auth
<1>6. CallsOK' /\ Alone(c) /\ phase'[c] = "send" /\ call'[c] = Sending(Again(call[c]), auth)
  BY <1>1, <1>2, <1>5, AgainType, UseFits DEF Typed
<1>7. EnvOK'
  BY <1>1 DEF Typed, EnvOK, env
<1>8. Proper(c)
  BY <1>4, <1>6, <1>7 DEF Proper
<1> QED
  BY <1>1, <1>4, <1>5, <1>6, <1>8

LEMMA RecoverFailsMoves ==
    ASSUME Typed, NEW c \in Calls, RecoverFails(c)
    PROVE  /\ Proper(c) /\ UNCHANGED store /\ phase[c] = "recover"
           /\ \/ phase'[c] = "acquire" /\ call'[c] = NextRound(Left(call[c]))
              \/ phase'[c] \in Ended /\ call'[c] = NewCall
<1>1. phase[c] = "recover" /\ Failover(c, call[c]) /\ UNCHANGED <<env, store, told>>
  BY DEF RecoverFails
<1>2. /\ CallsOK' /\ Alone(c)
      /\ \/ phase'[c] = "acquire" /\ call'[c] = NextRound(Left(call[c]))
         \/ phase'[c] = "limited" /\ call'[c] = NewCall
  BY <1>1, AgainType, FailoverFits DEF Typed
<1>3. EnvOK' /\ "limited" \in Ended
  BY <1>1 DEF Typed, EnvOK, env, Ended
<1> QED
  BY <1>1, <1>2, <1>3, StoreAlone DEF Proper

-----------------------------------------------------------------------------
(* Every step                                                              *)

\* The clock, the server, other processes and the tools leave the calls alone.
LEMMA OthersMove ==
    ASSUME Typed, Tick \/ \E a \in Accounts : OtherStep(a)
    PROVE  EnvOK' /\ StoreOK' /\ CallsOK' /\ Grows /\ phase' = phase /\ call' = call
<1>1. EnvOK /\ StoreOK /\ CallsOK
  BY DEF Typed
<1>2. CASE Tick
  BY <1>1, <1>2, StoreAlone DEF Tick, EnvOK, CallsOK
<1>3. ASSUME NEW a \in Accounts, Expire(a)
      PROVE  EnvOK' /\ StoreOK' /\ CallsOK' /\ Grows /\ phase' = phase /\ call' = call
  <2>1. store[a].token \in Nat
    BY <1>1 DEF StoreOK, Record
  <2>2. EnvOK'
    BY <1>1, <1>3, <2>1 DEF Expire, Meddle, EnvOK
  <2> QED
    BY <1>1, <1>3, <2>2, StoreAlone DEF Expire, Meddle, CallsOK
<1>4. ASSUME NEW a \in Accounts, Toggle(a)
      PROVE  EnvOK' /\ StoreOK' /\ CallsOK' /\ Grows /\ phase' = phase /\ call' = call
  <2> DEFINE rec == [store[a] EXCEPT !.enabled = ~@]
  <2>1. rec \in Record /\ rec.token = store[a].token
    BY <1>1 DEF StoreOK, Record
  <2>2. store' = [store EXCEPT ![a] = rec]
    BY <1>4 DEF Toggle
  <2>3. StoreOK' /\ Grows
    <3> HIDE DEF rec
    <3> QED
      BY <2>1, <2>2, Rewritten
  <2> QED
    BY <1>1, <1>4, <2>3 DEF Toggle, Meddle, EnvOK, CallsOK
<1>5. ASSUME NEW a \in Accounts, PeerClaims(a)
      PROVE  EnvOK' /\ StoreOK' /\ CallsOK' /\ Grows /\ phase' = phase /\ call' = call
  <2> DEFINE rec == [store[a] EXCEPT !.leased = TRUE]
  <2>1. rec \in Record /\ rec.token = store[a].token
    BY <1>1 DEF StoreOK, Record
  <2>2. store' = [store EXCEPT ![a] = rec]
    BY <1>5 DEF PeerClaims
  <2>3. StoreOK' /\ Grows
    <3> HIDE DEF rec
    <3> QED
      BY <2>1, <2>2, Rewritten
  <2> QED
    BY <1>1, <1>5, <2>3 DEF PeerClaims, Meddle, EnvOK, CallsOK
<1>6. ASSUME NEW a \in Accounts, PeerRefreshes(a)
      PROVE  EnvOK' /\ StoreOK' /\ CallsOK' /\ Grows /\ phase' = phase /\ call' = call
  <2>1. StoreOK' /\ Grows
    BY <1>6, Refreshed DEF PeerRefreshes
  <2> QED
    BY <1>1, <1>6, <2>1 DEF PeerRefreshes, env, EnvOK, CallsOK
<1>7. ASSUME NEW a \in Accounts, PeerFails(a)
      PROVE  EnvOK' /\ StoreOK' /\ CallsOK' /\ Grows /\ phase' = phase /\ call' = call
  <2> DEFINE rec == [store[a] EXCEPT !.leased = FALSE]
  <2>1. rec \in Record /\ rec.token = store[a].token
    BY <1>1 DEF StoreOK, Record
  <2>2. (\E why \in {"grant", "failure"} : SaveFailure(a, why)) \/ store' = [store EXCEPT ![a] = rec]
    BY <1>7 DEF PeerFails
  <2>3. StoreOK' /\ Grows
    <3> HIDE DEF rec
    <3> QED
      BY <2>1, <2>2, Rewritten, FailureSaved
  <2> QED
    BY <1>1, <1>7, <2>3 DEF PeerFails, env, EnvOK, CallsOK
<1> QED
  BY <1>2, <1>3, <1>4, <1>5, <1>6, <1>7 DEF OtherStep

\* The history variables stay typed.
LEMMA WatchTyped ==
    ASSUME Typed, CallsOK', Watch
    PROVE  HistoryOK'
<1>1. ASSUME NEW c \in Calls
      PROVE  /\ rejected'[c] \in SUBSET Auth
             /\ tried'[c] \in SUBSET Accounts
             /\ usable'[c] \in SUBSET Accounts
  <2>1. phase[c] = "send" => call[c].auth \in Auth
    BY DEF Typed, CallsOK, Fits
  <2>2. phase'[c] = "send" => call'[c].auth.key \in Accounts
    BY DEF CallsOK, Fits, Auth
  <2>3. rejected[c] \in SUBSET Auth /\ tried[c] \in SUBSET Accounts /\ usable[c] \in SUBSET Accounts
    BY DEF Typed, HistoryOK
  <2>4. rejected'[c] \in SUBSET Auth
    <3>1. rejected'[c] \in {{}, rejected[c] \union {call[c].auth}, rejected[c]}
      BY DEF Watch
    <3>2. rejected'[c] = rejected[c] \union {call[c].auth} => rejected'[c] = {} \/ phase[c] = "send" \/ rejected'[c] = rejected[c]
      BY DEF Watch, Rejects
    <3> QED
      BY <2>1, <2>3, <3>1, <3>2
  <2>5. tried'[c] \in SUBSET Accounts
    BY <2>2, <2>3 DEF Watch
  <2>6. usable'[c] \in SUBSET Accounts
    BY <2>3 DEF Watch
  <2> QED
    BY <2>4, <2>5, <2>6
<1> QED
  BY <1>1 DEF Watch, HistoryOK

\* What the calls do, in one place.
LEMMA CallStepProper ==
    ASSUME Typed, NEW c \in Calls, Begin(c) \/ CallStep(c)
    PROVE  Proper(c)
BY BeginMoves, AcquireMoves, LoseCandidateMoves, AcquireFailsMoves, SendEndsMoves, SendExpiresMoves,
   SendIsLimitedMoves, CoolMoves, RecoverConvergesMoves, RecoverRefreshesMoves, RecoverFailsMoves
   DEF CallStep

LEMMA TypedStep == Typed /\ [Next]_vars => Typed'
<1> SUFFICES ASSUME Typed, [Next]_vars PROVE Typed'
  OBVIOUS
<1>1. CASE Next
  <2>1. EnvOK' /\ StoreOK' /\ CallsOK'
    BY <1>1, CallStepProper, OthersMove DEF Next, Proper
  <2>2. HistoryOK'
    BY <1>1, <2>1, WatchTyped DEF Next
  <2> QED
    BY <2>1, <2>2 DEF Typed
<1>2. CASE UNCHANGED vars
  BY <1>2 DEF vars, Typed, EnvOK, StoreOK, CallsOK, HistoryOK
<1> QED
  BY <1>1, <1>2

LEMMA TypedInit == Init => Typed
<1> SUFFICES ASSUME Init PROVE Typed
  OBVIOUS
<1>1. EnvOK /\ StoreOK /\ HistoryOK
  BY DEF Init, EnvOK, StoreOK, HistoryOK, Record
<1>2. CallsOK
  <2>1. \A c \in Calls : phase[c] = "idle" /\ call[c] = NewCall
    BY DEF Init
  <2>2. phase \in [Calls -> Phases] /\ call \in [Calls -> Call]
    BY NewCallFits DEF Init, Phases
  <2> QED
    BY <2>1, <2>2, NewCallFits DEF CallsOK
<1> QED
  BY <1>1, <1>2 DEF Typed

LEMMA TypedImpliesTypeOK == Typed => TypeOK
<1> SUFFICES ASSUME Typed PROVE TypeOK
  OBVIOUS
<1>1. ASSUME NEW c \in Calls, phase[c] \in {"send", "recover", "cool"}
      PROVE  call[c].auth # NoAuth /\ call[c].attempt < MaxAttempts
  BY <1>1, OrchestratorConstants DEF Typed, CallsOK, Fits, Ended
<1> QED
  BY <1>1 DEF Typed, TypeOK, EnvOK, StoreOK, CallsOK, HistoryOK

LEMMA AlwaysTyped == Spec => []Typed
BY TypedInit, TypedStep, PTL DEF Spec

\* The types are kept, and no attempt beyond the last is made: the recovery and
\* the cooldown of an attempt always have a token to act on.
THEOREM TypeCorrect == Spec => []TypeOK
BY AlwaysTyped, TypedImpliesTypeOK, PTL

-----------------------------------------------------------------------------
(* Tokens                                                                  *)

\* A rejected token is of an account to avoid, or the store has a newer one, or it
\* is the one being recovered.
Settled(r, ph, q, st) ==
    /\ r.token <= st[r.key].token
    /\ r.key \in q.avoid \/ r.token < st[r.key].token \/ (ph = "recover" /\ r = q.auth)

\* Until its one recovery is over a call avoids nobody, so that the recovered
\* token is the only one of its rejected tokens that matters.
Clean(ph, q, rej, st) ==
    /\ ph \in {"idle"} \union Ended => rej = {}
    /\ \A r \in rej : Settled(r, ph, q, st)
    /\ ph = "recover" \/ ~q.recoveryAttempted => q.avoid = {}
    /\ ph = "recover" => q.recoveryAttempted
    /\ ph \in {"send", "recover"} => q.auth.token <= st[q.auth.key].token
    /\ ph = "send" => q.auth \notin rej
    /\ ph \in {"send", "recover", "cool"} \/ (ph = "acquire" /\ q.awaitingFailover) => q.picked = q.auth

CleanCall(c) == Clean(phase[c], call[c], rejected[c], store)

Safe == \A c \in Calls : CleanCall(c)

\* What is settled stays settled while tokens grow.
LEMMA SettledGrows ==
    ASSUME Typed, StoreOK', Grows, NEW r \in Auth, NEW ph, NEW q, Settled(r, ph, q, store)
    PROVE  Settled(r, ph, q, store')
<1>1. /\ r.token \in Nat /\ store[r.key].token \in Nat /\ store'[r.key].token \in Nat
      /\ store'[r.key].token >= store[r.key].token
  BY DEF Typed, StoreOK, Record, Auth, Grows
<1> QED
  BY <1>1 DEF Settled

\* A call that does not move stays clean.
LEMMA OthersStayClean ==
    ASSUME Typed, StoreOK', Grows, Watch, NEW d \in Calls, CleanCall(d),
           phase'[d] = phase[d], call'[d] = call[d]
    PROVE  CleanCall(d)'
<1>1. rejected'[d] \in {{}, rejected[d]} /\ (phase[d] \in {"idle"} \union Ended => rejected'[d] = {})
  BY DEF Watch, Rejects, Running
<1>2. rejected[d] \subseteq Auth
  BY DEF Typed, HistoryOK
<1>3. \A r \in rejected'[d] : Settled(r, phase[d], call[d], store')
  BY <1>1, <1>2, SettledGrows DEF CleanCall, Clean
<1>4. phase[d] \in {"send", "recover"} => call[d].auth.token <= store'[call[d].auth.key].token
  <2> SUFFICES ASSUME phase[d] \in {"send", "recover"}
               PROVE  call[d].auth.token <= store'[call[d].auth.key].token
    OBVIOUS
  <2>1. Fits(phase[d], call[d])
    BY DEF Typed, CallsOK
  <2>2. call[d].auth \in Auth
    BY <2>1 DEF Fits
  <2>3. call[d].auth.token <= store[call[d].auth.key].token
    BY DEF CleanCall, Clean
  <2>4. /\ store[call[d].auth.key].token \in Nat /\ store'[call[d].auth.key].token \in Nat
        /\ store'[call[d].auth.key].token >= store[call[d].auth.key].token /\ call[d].auth.token \in Nat
    BY <2>2 DEF Typed, StoreOK, Record, Auth, Grows
  <2> QED
    BY <2>3, <2>4
<1> QED
  BY <1>1, <1>3, <1>4 DEF CleanCall, Clean

\* A call that has ended has forgotten everything.
LEMMA EndedIsClean ==
    ASSUME Watch, NEW c \in Calls, phase'[c] \in Ended, call'[c] = NewCall
    PROVE  CleanCall(c)'
<1>1. rejected'[c] = {}
  BY DEF Watch, Running
<1> QED
  BY <1>1 DEF CleanCall, Clean, NewCall, Ended

\* What a step adds to the rejected tokens of a call that goes on.
LEMMA RejectedGrows ==
    ASSUME Watch, NEW c \in Calls, phase'[c] \notin {"idle"} \union Ended
    PROVE  rejected'[c] = IF phase[c] = "send" /\ phase'[c] \in {"recover", "acquire"}
                          THEN rejected[c] \union {call[c].auth} ELSE rejected[c]
BY DEF Watch, Running, Rejects

\* A token from the store is sent: no rejected one is of that account and as new.
LEMMA SendingIsClean ==
    ASSUME Typed, CallsOK', Watch, NEW c \in Calls, phase[c] # "send", phase'[c] = "send",
           NEW q \in Call, NEW auth \in Auth, call'[c] = Sending(q, auth),
           auth.token = store'[auth.key].token, StoreOK',
           \A r \in rejected[c] : Settled(r, "send", q, store'),
           \A r \in rejected[c] : r.key = auth.key => r.token < auth.token,
           ~q.recoveryAttempted => q.avoid = {}
    PROVE  CleanCall(c)'
<1>1. rejected'[c] = rejected[c] /\ rejected[c] \subseteq Auth
  BY RejectedGrows DEF Ended, Typed, HistoryOK
<1>2. /\ call'[c].auth = auth /\ call'[c].picked = auth
      /\ call'[c].recoveryAttempted = q.recoveryAttempted /\ call'[c].avoid = q.avoid
  BY DEF Sending, Call
<1>3. auth.token \in Nat
  BY DEF Auth
<1>4. auth \notin rejected[c]
  BY <1>3
<1>5. \A r \in rejected'[c] : Settled(r, "send", call'[c], store')
  BY <1>1, <1>2 DEF Settled
<1>6. auth.token <= store'[auth.key].token
  BY <1>3
<1> QED
  BY <1>1, <1>2, <1>4, <1>5, <1>6 DEF CleanCall, Clean, Ended

\* A rejected token in a growing store.
LEMMA RejectedTokens ==
    ASSUME Typed, NEW c \in Calls, CleanCall(c), StoreOK', Grows, NEW r \in rejected[c]
    PROVE  /\ r \in Auth /\ Settled(r, phase[c], call[c], store')
           /\ r.token \in Nat /\ store[r.key].token \in Nat /\ store'[r.key].token \in Nat
           /\ store'[r.key].token >= store[r.key].token /\ r.token <= store[r.key].token
<1>1. r \in Auth
  BY DEF Typed, HistoryOK
<1>2. Settled(r, phase[c], call[c], store)
  BY DEF CleanCall, Clean
<1> QED
  BY <1>1, <1>2, SettledGrows DEF Settled, Typed, StoreOK, Record, Auth, Grows

LEMMA BeginClean ==
    ASSUME Typed, NEW c \in Calls, CleanCall(c), Begin(c), Watch
    PROVE  CleanCall(c)'
<1>1. ~Running(c) /\ phase'[c] = "acquire" /\ call'[c] = [NewCall EXCEPT !.stamp = clock]
  BY BeginMoves
<1>2. rejected'[c] = {}
  BY <1>1, RejectedGrows DEF CleanCall, Clean, Running, Ended
<1>3. call'[c].avoid = {} /\ ~call'[c].recoveryAttempted /\ ~call'[c].awaitingFailover
  BY <1>1 DEF NewCall
<1> QED
  BY <1>1, <1>2, <1>3 DEF CleanCall, Clean, Ended

LEMMA AcquireClean ==
    ASSUME Typed, NEW c \in Calls, CleanCall(c), Acquire(c), Watch
    PROVE  CleanCall(c)'
<1>1. Proper(c) /\ phase[c] = "acquire" /\ phase'[c] = "send"
  BY AcquireMoves
<1>2. PICK auth \in Auth : /\ auth.key \in Candidates(c) /\ auth.key \notin call[c].avoid
                          /\ auth.token = store'[auth.key].token
                          /\ call'[c] = Sending(call[c], auth)
  BY AcquireMoves
<1>3. StoreOK' /\ Grows /\ CallsOK' /\ call[c] \in Call
  BY <1>1 DEF Proper, Typed, CallsOK
<1>4. ASSUME NEW r \in rejected[c]
      PROVE  Settled(r, "send", call[c], store') /\ (r.key = auth.key => r.token < auth.token)
  <2>1. Settled(r, "acquire", call[c], store')
    BY <1>1, <1>3, RejectedTokens
  <2> QED
    BY <1>2, <2>1 DEF Settled
<1>5. ~call[c].recoveryAttempted => call[c].avoid = {}
  BY DEF CleanCall, Clean
<1> QED
  BY <1>1, <1>2, <1>3, <1>4, <1>5, SendingIsClean

LEMMA LoseCandidateClean ==
    ASSUME Typed, NEW c \in Calls, CleanCall(c), LoseCandidate(c), Watch
    PROVE  CleanCall(c)'
<1>1. Proper(c) /\ phase[c] = "acquire" /\ phase'[c] = "acquire"
  BY LoseCandidateMoves
<1>2. StoreOK' /\ Grows /\ call[c] \in Call
  BY <1>1 DEF Proper, Typed, CallsOK
<1>3. /\ call'[c].auth = call[c].auth /\ call'[c].picked = call[c].picked
      /\ call'[c].avoid = call[c].avoid /\ call'[c].recoveryAttempted = call[c].recoveryAttempted
      /\ call'[c].awaitingFailover = call[c].awaitingFailover
  BY <1>2, LoseCandidateMoves DEF Call
<1>4. rejected'[c] = rejected[c]
  BY <1>1, RejectedGrows DEF Ended
<1>5. \A r \in rejected'[c] : Settled(r, "acquire", call'[c], store')
  BY <1>1, <1>2, <1>3, <1>4, RejectedTokens DEF Settled
<1> QED
  BY <1>1, <1>3, <1>4, <1>5 DEF CleanCall, Clean, Ended

\* The fields of a call that goes to its next round.
LEMMA NextRoundFields ==
    ASSUME NEW q \in Call
    PROVE  /\ NextRound(q).auth = q.auth /\ NextRound(q).picked = q.picked
           /\ NextRound(q).avoid = q.avoid /\ NextRound(q).recoveryAttempted = q.recoveryAttempted
           /\ NextRound(q).awaitingFailover = q.awaitingFailover
BY DEF NextRound, Call

\* The fields of a call that gives up its account.
LEMMA LeftFields ==
    ASSUME NEW q \in Call, q.auth \in Auth
    PROVE  /\ Left(q) \in Call
           /\ NextRound(Left(q)).auth = q.auth /\ NextRound(Left(q)).picked = q.picked
           /\ NextRound(Left(q)).avoid = q.avoid \union {q.auth.key}
           /\ NextRound(Left(q)).recoveryAttempted = q.recoveryAttempted
<1>1. Left(q) \in Call
  BY DEF Left, Call, Auth
<1>2. /\ Left(q).auth = q.auth /\ Left(q).picked = q.picked
      /\ Left(q).avoid = q.avoid \union {q.auth.key} /\ Left(q).recoveryAttempted = q.recoveryAttempted
  BY DEF Left, Call
<1> QED
  BY <1>1, <1>2, NextRoundFields

LEMMA SendExpiresClean ==
    ASSUME Typed, NEW c \in Calls, CleanCall(c), SendExpires(c), Watch
    PROVE  CleanCall(c)'
<1> DEFINE q == call[c]
<1>1. Proper(c) /\ UNCHANGED store /\ phase[c] = "send"
  BY SendExpiresMoves
<1>2. StoreOK' /\ Grows /\ call[c] \in Call /\ call[c].auth \in Auth
  BY <1>1 DEF Proper, Typed, CallsOK, Fits
<1>3. /\ q \in Call /\ q.auth = call[c].auth /\ q.picked = call[c].picked
      /\ q.avoid = call[c].avoid /\ q.recoveryAttempted = call[c].recoveryAttempted
  BY <1>2 DEF Call
<1>4. /\ call[c].auth.token <= store'[call[c].auth.key].token
      /\ call[c].picked = call[c].auth
      /\ ~call[c].recoveryAttempted => call[c].avoid = {}
  BY <1>1 DEF CleanCall, Clean
<1>5. CASE phase'[c] \in Ended /\ call'[c] = NewCall
  BY <1>5, EndedIsClean
<1>6. CASE /\ phase'[c] = "recover" /\ ~call[c].recoveryAttempted
           /\ call'[c] = [q EXCEPT !.recoveryAttempted = TRUE]
  <2>1. /\ call'[c].auth = call[c].auth /\ call'[c].picked = call[c].picked
        /\ call'[c].avoid = call[c].avoid /\ call'[c].recoveryAttempted
    <3> HIDE DEF q
    <3> QED
      BY <1>3, <1>6 DEF Call
  <2>2. rejected'[c] = rejected[c] \union {call[c].auth}
    BY <1>1, <1>6, RejectedGrows DEF Ended
  <2>3. ASSUME NEW r \in rejected'[c]
        PROVE  Settled(r, "recover", call'[c], store')
    <3>1. CASE r = call[c].auth
      BY <1>4, <2>1, <3>1 DEF Settled
    <3>2. CASE r \in rejected[c]
      <4>1. Settled(r, "send", call[c], store')
        BY <1>1, <1>2, <3>2, RejectedTokens
      <4> QED
        BY <2>1, <4>1 DEF Settled
    <3> QED
      BY <2>2, <3>1, <3>2
  <2> QED
    BY <1>4, <1>6, <2>1, <2>3 DEF CleanCall, Clean, Ended
<1>7. CASE /\ phase'[c] = "acquire" /\ call[c].recoveryAttempted
           /\ call'[c] = NextRound(Left(q))
  <2>1. /\ call'[c].auth = call[c].auth /\ call'[c].picked = call[c].picked
        /\ call'[c].avoid = call[c].avoid \union {call[c].auth.key}
        /\ call'[c].recoveryAttempted
    <3> HIDE DEF q
    <3> QED
      BY <1>2, <1>3, <1>7, LeftFields
  <2>2. rejected'[c] = rejected[c] \union {call[c].auth}
    BY <1>1, <1>7, RejectedGrows DEF Ended
  <2>3. ASSUME NEW r \in rejected'[c]
        PROVE  Settled(r, "acquire", call'[c], store')
    <3>1. CASE r = call[c].auth
      BY <1>4, <2>1, <3>1 DEF Settled
    <3>2. CASE r \in rejected[c]
      <4>1. Settled(r, "send", call[c], store')
        BY <1>1, <1>2, <3>2, RejectedTokens
      <4> QED
        BY <2>1, <4>1 DEF Settled
    <3> QED
      BY <2>2, <3>1, <3>2
  <2> QED
    BY <1>4, <1>7, <2>1, <2>3 DEF CleanCall, Clean, Ended
<1> QED
  BY <1>5, <1>6, <1>7, SendExpiresMoves

LEMMA SendIsLimitedClean ==
    ASSUME Typed, NEW c \in Calls, CleanCall(c), SendIsLimited(c), Watch
    PROVE  CleanCall(c)'
<1>1. Proper(c) /\ phase[c] = "send" /\ phase'[c] = "cool"
  BY SendIsLimitedMoves
<1>2. StoreOK' /\ Grows /\ call[c] \in Call
  BY <1>1 DEF Proper, Typed, CallsOK
<1>3. /\ call'[c].auth = call[c].auth /\ call'[c].picked = call[c].picked
      /\ call'[c].avoid = call[c].avoid /\ call'[c].recoveryAttempted = call[c].recoveryAttempted
  BY <1>2, SendIsLimitedMoves DEF Call
<1>4. rejected'[c] = rejected[c]
  BY <1>1, RejectedGrows DEF Ended
<1>5. \A r \in rejected'[c] : Settled(r, "cool", call'[c], store')
  BY <1>1, <1>2, <1>3, <1>4, RejectedTokens DEF Settled
<1> QED
  BY <1>1, <1>3, <1>5 DEF CleanCall, Clean, Ended

LEMMA CoolClean ==
    ASSUME Typed, NEW c \in Calls, CleanCall(c), Cool(c), Watch
    PROVE  CleanCall(c)'
<1> DEFINE q == [call[c] EXCEPT !.until = 0]
<1>1. Proper(c) /\ phase[c] = "cool"
  BY CoolMoves
<1>2. StoreOK' /\ Grows /\ call[c] \in Call
  BY <1>1 DEF Proper, Typed, CallsOK
<1>3. CASE phase'[c] = "acquire" /\ call'[c] = NextRound(q)
  <2>1. q \in Call /\ q.auth = call[c].auth /\ q.picked = call[c].picked
        /\ q.avoid = call[c].avoid /\ q.recoveryAttempted = call[c].recoveryAttempted
    BY <1>2 DEF Call
  <2>2. /\ call'[c].auth = call[c].auth /\ call'[c].picked = call[c].picked
        /\ call'[c].avoid = call[c].avoid /\ call'[c].recoveryAttempted = call[c].recoveryAttempted
    <3> HIDE DEF q
    <3> QED
      BY <1>3, <2>1, NextRoundFields
  <2>3. rejected'[c] = rejected[c]
    BY <1>1, <1>3, RejectedGrows DEF Ended
  <2>4. \A r \in rejected'[c] : Settled(r, "acquire", call'[c], store')
    BY <1>1, <1>2, <2>2, <2>3, RejectedTokens DEF Settled
  <2> QED
    BY <1>1, <1>3, <2>2, <2>4 DEF CleanCall, Clean, Ended
<1>4. CASE phase'[c] \in Ended /\ call'[c] = NewCall
  BY <1>4, EndedIsClean
<1> QED
  BY <1>3, <1>4, CoolMoves

\* The fields of a call that sends again at once.
LEMMA AgainFields ==
    ASSUME NEW q \in Call
    PROVE  /\ Again(q).auth = q.auth /\ Again(q).avoid = q.avoid
           /\ Again(q).recoveryAttempted = q.recoveryAttempted
BY DEF Again, Call

\* The recovered account's new token is newer than any rejected one: while its
\* token is recovered a call avoids nobody.
LEMMA RecoveredClean ==
    ASSUME Typed, NEW c \in Calls, CleanCall(c), Proper(c), Watch,
           phase[c] = "recover", phase'[c] = "send",
           NEW auth \in Auth, auth.key = call[c].auth.key, auth.token = store'[auth.key].token,
           auth.token # call[c].auth.token,
           call'[c] = Sending(Again(call[c]), auth)
    PROVE  CleanCall(c)'
<1> DEFINE q == Again(call[c])
<1>1. StoreOK' /\ Grows /\ CallsOK' /\ call[c] \in Call /\ q \in Call /\ call[c].auth \in Auth
  BY AgainType DEF Proper
<1>2. call[c].avoid = {} /\ q.avoid = {}
  BY <1>1, AgainFields DEF CleanCall, Clean
<1>3. ASSUME NEW r \in rejected[c]
      PROVE  Settled(r, "send", q, store') /\ (r.key = auth.key => r.token < auth.token)
  <2>1. /\ Settled(r, "recover", call[c], store') /\ r \in Auth
        /\ r.token \in Nat /\ store'[r.key].token \in Nat
    BY <1>1, RejectedTokens
  <2>2. r.token <= store'[r.key].token /\ (r.token < store'[r.key].token \/ r = call[c].auth)
    BY <1>2, <2>1 DEF Settled
  <2>3. r.token < store'[r.key].token
    BY <2>1, <2>2
  <2> HIDE DEF q
  <2> QED
    BY <2>3, <2>2 DEF Settled
<1> HIDE DEF q
<1>4. call'[c] = Sending(q, auth)
  BY DEF q
<1> QED
  BY <1>1, <1>2, <1>3, <1>4, SendingIsClean

LEMMA RecoverClean ==
    ASSUME Typed, NEW c \in Calls, CleanCall(c), Watch,
           RecoverConverges(c) \/ RecoverRefreshes(c)
    PROVE  CleanCall(c)'
<1>1. CASE RecoverConverges(c)
  <2>1. Proper(c) /\ UNCHANGED store /\ phase[c] = "recover" /\ phase'[c] = "send"
    BY <1>1, RecoverConvergesMoves
  <2> QED
    BY <1>1, <2>1, RecoverConvergesMoves, RecoveredClean
<1>2. CASE RecoverRefreshes(c)
  <2>1. Proper(c) /\ phase[c] = "recover" /\ phase'[c] = "send"
    BY <1>2, RecoverRefreshesMoves
  <2>2. PICK auth \in Auth : /\ auth.key = call[c].auth.key /\ auth.token = store'[auth.key].token
                            /\ store'[auth.key].token = store[auth.key].token + 1
                            /\ call'[c] = Sending(Again(call[c]), auth)
    BY <1>2, RecoverRefreshesMoves
  <2>3. call[c].auth.token <= store[auth.key].token /\ call[c].auth \in Auth
    BY <2>1, <2>2, AgainType DEF CleanCall, Clean
  <2>4. store[auth.key].token \in Nat /\ call[c].auth.token \in Nat
    BY <2>3 DEF Typed, StoreOK, Record, Auth
  <2>5. auth.token # call[c].auth.token
    BY <2>2, <2>3, <2>4
  <2> QED
    BY <2>1, <2>2, <2>5, RecoveredClean
<1> QED
  BY <1>1, <1>2

LEMMA RecoverFailsClean ==
    ASSUME Typed, NEW c \in Calls, CleanCall(c), RecoverFails(c), Watch
    PROVE  CleanCall(c)'
<1>1. Proper(c) /\ phase[c] = "recover"
  BY RecoverFailsMoves
<1>2. StoreOK' /\ Grows /\ call[c] \in Call /\ call[c].auth \in Auth
  BY <1>1, AgainType DEF Proper
<1>3. CASE phase'[c] = "acquire" /\ call'[c] = NextRound(Left(call[c]))
  <2>1. /\ call'[c].auth = call[c].auth /\ call'[c].picked = call[c].picked
        /\ call'[c].avoid = call[c].avoid \union {call[c].auth.key}
        /\ call'[c].recoveryAttempted = call[c].recoveryAttempted
    BY <1>2, <1>3, LeftFields
  <2>2. rejected'[c] = rejected[c]
    BY <1>1, <1>3, RejectedGrows DEF Ended
  <2>3. \A r \in rejected'[c] : Settled(r, "acquire", call'[c], store')
    BY <1>1, <1>2, <2>1, <2>2, RejectedTokens DEF Settled
  <2>4. call[c].picked = call[c].auth /\ call[c].recoveryAttempted
    BY <1>1 DEF CleanCall, Clean
  <2> QED
    BY <1>1, <1>3, <2>1, <2>3, <2>4 DEF CleanCall, Clean, Ended
<1>4. CASE phase'[c] \in Ended /\ call'[c] = NewCall
  BY <1>4, EndedIsClean
<1> QED
  BY <1>3, <1>4, RecoverFailsMoves

-----------------------------------------------------------------------------
(* The theorems                                                            *)

\* The calls' own steps.
LEMMA CallStepClean ==
    ASSUME Typed, Safe, Watch, NEW c \in Calls, Begin(c) \/ CallStep(c)
    PROVE  Safe'
<1>1. Proper(c) /\ CleanCall(c)
  BY CallStepProper DEF Safe
<1>2. CleanCall(c)'
  <2>1. CASE SendEnds(c) \/ AcquireFails(c)
    BY <2>1, SendEndsMoves, AcquireFailsMoves, EndedIsClean
  <2> QED
    BY <1>1, <2>1, BeginClean, AcquireClean, LoseCandidateClean, SendExpiresClean, SendIsLimitedClean,
       CoolClean, RecoverClean, RecoverFailsClean DEF CallStep
<1>3. ASSUME NEW d \in Calls, d # c
      PROVE  CleanCall(d)'
  BY <1>1, <1>3, OthersStayClean DEF Safe, Proper, Alone
<1> QED
  BY <1>2, <1>3 DEF Safe

LEMMA SafeStep == Typed /\ Safe /\ [Next]_vars => Safe'
<1> SUFFICES ASSUME Typed, Safe, [Next]_vars PROVE Safe'
  OBVIOUS
<1>1. CASE Next
  <2>1. Watch
    BY <1>1 DEF Next
  <2>2. ASSUME Tick \/ \E a \in Accounts : OtherStep(a) PROVE Safe'
    BY <2>1, <2>2, OthersMove, OthersStayClean DEF Safe
  <2> QED
    BY <1>1, <2>1, <2>2, CallStepClean DEF Next
<1>2. CASE UNCHANGED vars
  BY <1>2 DEF vars, Safe, CleanCall
<1> QED
  BY <1>1, <1>2

LEMMA SafeInit == Init => Safe
BY DEF Init, Safe, CleanCall, Clean, NewCall

LEMMA AlwaysSafe == Spec => [](Typed /\ Safe)
BY TypedInit, TypedStep, SafeInit, SafeStep, PTL DEF Spec

\* However recoveries, failovers, 429s, refreshes by others and changes of the
\* accounts follow each other, no call sends a token again that the server has
\* rejected to it with a 401.
THEOREM NeverResends == Spec => []NeverResendsRejected
<1>1. Safe => NeverResendsRejected
  BY DEF Safe, CleanCall, Clean, NeverResendsRejected
<1> QED
  BY <1>1, AlwaysSafe, PTL

\* The answer, and a 401 passed on, are charged to the token that got them.
THEOREM ChargedCorrectly == Spec => ChargedToItsToken
<1> DEFINE A == \A c \in Calls : Ends(c, "answered") \/ Ends(c, "expired") =>
                  call[c].picked = call[c].auth
<1>1. Typed /\ Safe /\ [Next]_vars => [A]_vars
  <2> SUFFICES ASSUME Typed, Safe, Next, NEW c \in Calls, Ends(c, "answered") \/ Ends(c, "expired")
               PROVE  call[c].picked = call[c].auth
    OBVIOUS
  <2>1. PICK d \in Calls : Begin(d) \/ CallStep(d)
    BY OthersMove DEF Next, Ends
  <2>2. d = c
    BY <2>1, CallStepProper DEF Proper, Alone, Ends
  <2>3. phase'[c] \in {"answered", "expired"}
    BY DEF Ends
  <2>4. CleanCall(c)
    BY DEF Safe
  <2>5. phase[c] \in {"send", "recover", "cool"} \/ (phase[c] = "acquire" /\ call[c].awaitingFailover)
    BY <2>1, <2>2, <2>3, BeginMoves, AcquireMoves, LoseCandidateMoves, AcquireFailsMoves, SendEndsMoves,
       SendExpiresMoves, SendIsLimitedMoves, CoolMoves, RecoverConvergesMoves, RecoverRefreshesMoves,
       RecoverFailsMoves DEF CallStep
  <2> QED
    BY <2>4, <2>5 DEF CleanCall, Clean
<1>2. ChargedToItsToken <=> [][A]_vars
  BY DEF ChargedToItsToken
<1> QED
  BY <1>1, <1>2, AlwaysSafe, PTL DEF Spec

-----------------------------------------------------------------------------
(* Failing over before giving up                                           *)

HasToken == {"send", "recover", "cool"}

\* A running call has sent a request with every account it avoids and had its token
\* rejected; its own account is not among those; and no account that stayed
\* eligible is lost to it.
Chasing(c) ==
    /\ call[c].avoid \subseteq tried[c]
    /\ \A a \in call[c].avoid : \E r \in rejected[c] : r.key = a
    /\ call[c].failoverScheduled => call[c].avoid # {}
    /\ \A a \in usable[c] : Eligible(a) /\ a \notin call[c].lost
    /\ phase[c] \in HasToken => call[c].auth.key \in tried[c] \ call[c].avoid
    /\ phase[c] = "recover" => call[c].auth \in rejected[c]

Chases(c) == IsFiniteSet(rejected[c]) /\ (Running(c) => Chasing(c))

Chased == \A c \in Calls : Chases(c)

\* The history of a call that goes on.
LEMMA HistoryGrows ==
    ASSUME Typed, Watch, NEW c \in Calls, Chases(c), Running(c), Running(c)'
    PROVE  /\ IsFiniteSet(rejected'[c]) /\ rejected[c] \subseteq rejected'[c]
           /\ phase[c] = "send" /\ phase'[c] \in {"recover", "acquire"} => call[c].auth \in rejected'[c]
           /\ tried[c] \subseteq tried'[c]
           /\ phase'[c] = "send" => call'[c].auth.key \in tried'[c]
           /\ \A a \in usable'[c] : a \in usable[c] /\ Eligible(a)'
<1>1. rejected'[c] = IF Rejects(c) THEN rejected[c] \union {call[c].auth} ELSE rejected[c]
  BY DEF Watch
<1>2. IsFiniteSet(rejected'[c])
  BY <1>1, FS_AddElement DEF Chases
<1>3. tried[c] \subseteq tried'[c] /\ (phase'[c] = "send" => call'[c].auth.key \in tried'[c])
  BY DEF Watch
<1>4. usable'[c] = {a \in usable[c] : Eligible(a)'}
  BY DEF Watch
<1> QED
  BY <1>1, <1>2, <1>3, <1>4 DEF Rejects

\* A call that is not running remembers nothing.
LEMMA IdleChases ==
    ASSUME Watch, NEW c \in Calls, ~Running(c)'
    PROVE  Chases(c)'
<1>1. rejected'[c] = {}
  BY DEF Watch
<1> QED
  BY <1>1, FS_EmptySet DEF Chases

\* A call that keeps the accounts it avoids.
LEMMA KeepsChasing ==
    ASSUME Typed, Watch, NEW c \in Calls, Chases(c), Running(c), Running(c)',
           call'[c].avoid = call[c].avoid,
           call'[c].failoverScheduled = call[c].failoverScheduled,
           \A a \in call'[c].lost : a \in call[c].lost \/ ~Eligible(a)',
           phase'[c] = "send" => call'[c].auth.key \notin call[c].avoid,
           phase'[c] \in {"recover", "cool"} => phase[c] \in HasToken /\ call'[c].auth = call[c].auth,
           phase'[c] = "recover" => phase[c] \in {"send", "recover"}
    PROVE  Chases(c)'
<1>1. /\ IsFiniteSet(rejected'[c]) /\ rejected[c] \subseteq rejected'[c]
      /\ phase[c] = "send" /\ phase'[c] \in {"recover", "acquire"} => call[c].auth \in rejected'[c]
      /\ tried[c] \subseteq tried'[c]
      /\ phase'[c] = "send" => call'[c].auth.key \in tried'[c]
      /\ \A a \in usable'[c] : a \in usable[c] /\ Eligible(a)'
  BY HistoryGrows
<1>2. Chasing(c)
  BY DEF Chases
<1>3. \A a \in usable'[c] : Eligible(a)' /\ a \notin call'[c].lost
  BY <1>1, <1>2 DEF Chasing
<1>4. /\ call'[c].avoid \subseteq tried'[c]
      /\ \A a \in call'[c].avoid : \E r \in rejected'[c] : r.key = a
      /\ call'[c].failoverScheduled => call'[c].avoid # {}
  BY <1>1, <1>2 DEF Chasing
<1>5. phase'[c] \in HasToken => call'[c].auth.key \in tried'[c] \ call'[c].avoid
  BY <1>1, <1>2 DEF Chasing, HasToken
<1>6. phase'[c] = "recover" => call'[c].auth \in rejected'[c]
  BY <1>1, <1>2 DEF Chasing
<1>7. Chasing(c)'
  BY <1>3, <1>4, <1>5, <1>6 DEF Chasing
<1> QED
  BY <1>1, <1>7 DEF Chases

\* A call that gives up its account.
LEMMA LeftChasing ==
    ASSUME Typed, Watch, NEW c \in Calls, Chases(c),
           phase[c] \in {"send", "recover"}, phase'[c] = "acquire",
           call'[c] = NextRound(Left(call[c]))
    PROVE  Chases(c)'
<1>0. call[c] \in Call /\ call[c].auth \in Auth
  BY DEF Typed, CallsOK, Fits
<1>1. /\ call'[c].avoid = call[c].avoid \union {call[c].auth.key}
      /\ call'[c].lost = {}
  <2>1. Left(call[c]) \in Call /\ call'[c].avoid = call[c].avoid \union {call[c].auth.key}
    BY <1>0, LeftFields
  <2> HIDE DEF Left
  <2> QED
    BY <2>1 DEF NextRound, Call
<1>2. /\ IsFiniteSet(rejected'[c]) /\ rejected[c] \subseteq rejected'[c]
      /\ phase[c] = "send" /\ phase'[c] \in {"recover", "acquire"} => call[c].auth \in rejected'[c]
      /\ tried[c] \subseteq tried'[c]
      /\ \A a \in usable'[c] : a \in usable[c] /\ Eligible(a)'
  BY HistoryGrows DEF Running, Ended
<1>3. Chasing(c)
  BY DEF Chases, Running, Ended
<1>4. call[c].auth \in rejected'[c] /\ call[c].auth.key \in tried[c]
  BY <1>2, <1>3 DEF Chasing, HasToken
<1>5. Chasing(c)'
  BY <1>1, <1>2, <1>3, <1>4 DEF Chasing, HasToken
<1> QED
  BY <1>2, <1>5 DEF Chases

\* A call that only changes its attempt.
LEMMA NextRoundChasing ==
    ASSUME Typed, Watch, NEW c \in Calls, Chases(c), Running(c), phase'[c] = "acquire",
           NEW q \in Call, call'[c] = NextRound(q),
           q.avoid = call[c].avoid, q.failoverScheduled = call[c].failoverScheduled
    PROVE  Chases(c)'
<1>1. /\ call'[c].avoid = call[c].avoid /\ call'[c].lost = {}
      /\ call'[c].failoverScheduled = call[c].failoverScheduled
  BY DEF NextRound, Call
<1> QED
  BY <1>1, KeepsChasing DEF Running, Ended

\* A call that sends a token of an account it does not avoid.
LEMMA SendingChasing ==
    ASSUME Typed, Watch, NEW c \in Calls, Chases(c), Running(c), phase'[c] = "send",
           NEW q \in Call, NEW auth \in Auth, call'[c] = Sending(q, auth),
           auth.key \notin call[c].avoid,
           q.avoid = call[c].avoid, q.failoverScheduled = call[c].failoverScheduled, q.lost = call[c].lost
    PROVE  Chases(c)'
<1>1. /\ call'[c].avoid = call[c].avoid /\ call'[c].lost = call[c].lost /\ call'[c].auth = auth
      /\ call'[c].failoverScheduled = call[c].failoverScheduled
  BY DEF Sending, Call
<1> QED
  BY <1>1, KeepsChasing DEF Running, Ended

LEMMA BeginChasing ==
    ASSUME Typed, NEW c \in Calls, Chases(c), Begin(c), Watch
    PROVE  Chases(c)'
<1>1. /\ ~Running(c) /\ phase'[c] = "acquire" /\ call'[c] = [NewCall EXCEPT !.stamp = clock]
  BY BeginMoves
<1>2. call'[c].avoid = {} /\ call'[c].lost = {} /\ call'[c].failoverScheduled = FALSE
  BY <1>1 DEF NewCall
<1>3. rejected'[c] = rejected[c] /\ usable'[c] = {a \in Accounts : Eligible(a)'}
  BY <1>1 DEF Watch, Running, Ended, Rejects
<1>4. Chasing(c)'
  BY <1>1, <1>2, <1>3 DEF Chasing, HasToken
<1> QED
  BY <1>3, <1>4 DEF Chases

LEMMA AcquireChasing ==
    ASSUME Typed, NEW c \in Calls, Chases(c), Acquire(c), Watch
    PROVE  Chases(c)'
<1>1. phase[c] = "acquire" /\ phase'[c] = "send" /\ call[c] \in Call
  BY AcquireMoves DEF Typed, CallsOK
<1>2. PICK auth \in Auth : auth.key \notin call[c].avoid /\ call'[c] = Sending(call[c], auth)
  BY AcquireMoves
<1> QED
  BY <1>1, <1>2, SendingChasing DEF Running, Ended

\* An account whose refresh has just failed is not eligible.
LEMMA FailureEndsEligibility ==
    ASSUME Typed, NEW a \in Accounts, NEW why \in {"grant", "failure"}, Eligible(a), SaveFailure(a, why),
           UNCHANGED clock
    PROVE  ~Eligible(a)'
<1>1. store \in [Accounts -> Record] /\ clock \in Nat /\ FailureCooldown \in Nat \ {0}
  BY OrchestratorConstants DEF Typed, StoreOK, EnvOK
<1>2. CASE why = "grant"
  BY <1>1, <1>2 DEF SaveFailure, Eligible, Record
<1>3. CASE why # "grant"
  <2> DEFINE until == clock + FailureCooldown
  <2>1. store' = [store EXCEPT ![a] = [store[a] EXCEPT !.leased = FALSE, !.cooldown = until]]
    BY <1>1, <1>3 DEF SaveFailure, Eligible
  <2>2. ~(until <= clock)
    BY <1>1
  <2> HIDE DEF until
  <2>3. store'[a].cooldown = until
    BY <1>1, <2>1 DEF Record
  <2> QED
    BY <2>2, <2>3 DEF Eligible
<1> QED
  BY <1>2, <1>3

LEMMA LoseCandidateChasing ==
    ASSUME Typed, NEW c \in Calls, Chases(c), LoseCandidate(c), Watch
    PROVE  Chases(c)'
<1>1. phase[c] = "acquire" /\ phase'[c] = "acquire" /\ call[c] \in Call /\ UNCHANGED clock
  BY LoseCandidateMoves DEF Typed, CallsOK, LoseCandidate, env
<1>2. PICK a \in Candidates(c), why \in {"grant", "failure"} :
         /\ SaveFailure(a, why)
         /\ call'[c] = [call[c] EXCEPT !.lost = @ \union {a}, !.saw = @ \union {why}]
  BY LoseCandidateMoves
<1>3. ~Eligible(a)'
  BY <1>1, <1>2, FailureEndsEligibility DEF Candidates
<1>4. /\ call'[c].avoid = call[c].avoid /\ call'[c].failoverScheduled = call[c].failoverScheduled
      /\ call'[c].lost = call[c].lost \union {a}
  BY <1>1, <1>2 DEF Call
<1> QED
  BY <1>1, <1>3, <1>4, KeepsChasing DEF Running, Ended

LEMMA SendExpiresChasing ==
    ASSUME Typed, NEW c \in Calls, Chases(c), SendExpires(c), Watch
    PROVE  Chases(c)'
<1>1. phase[c] = "send" /\ call[c] \in Call
  BY SendExpiresMoves DEF Typed, CallsOK
<1>2. CASE phase'[c] = "recover" /\ call'[c] = [call[c] EXCEPT !.recoveryAttempted = TRUE]
  <2>1. /\ call'[c].avoid = call[c].avoid /\ call'[c].failoverScheduled = call[c].failoverScheduled
        /\ call'[c].lost = call[c].lost /\ call'[c].auth = call[c].auth
    BY <1>1, <1>2 DEF Call
  <2> QED
    BY <1>1, <1>2, <2>1, KeepsChasing DEF Running, Ended, HasToken
<1> QED
  BY <1>1, <1>2, SendExpiresMoves, LeftChasing, IdleChases DEF Running

LEMMA SendIsLimitedChasing ==
    ASSUME Typed, NEW c \in Calls, Chases(c), SendIsLimited(c), Watch
    PROVE  Chases(c)'
<1>1. phase[c] = "send" /\ phase'[c] = "cool" /\ call[c] \in Call
  BY SendIsLimitedMoves DEF Typed, CallsOK
<1>2. /\ call'[c].avoid = call[c].avoid /\ call'[c].failoverScheduled = call[c].failoverScheduled
      /\ call'[c].lost = call[c].lost /\ call'[c].auth = call[c].auth
  BY <1>1, SendIsLimitedMoves DEF Call
<1> QED
  BY <1>1, <1>2, KeepsChasing DEF Running, Ended, HasToken

LEMMA CoolChasing ==
    ASSUME Typed, NEW c \in Calls, Chases(c), Cool(c), Watch
    PROVE  Chases(c)'
<1> DEFINE q == [call[c] EXCEPT !.until = 0]
<1>1. phase[c] = "cool" /\ Running(c) /\ call[c] \in Call
  BY CoolMoves DEF Typed, CallsOK, Running, Ended
<1>2. q \in Call /\ q.avoid = call[c].avoid /\ q.failoverScheduled = call[c].failoverScheduled
  BY <1>1 DEF Call
<1>3. \/ phase'[c] = "acquire" /\ call'[c] = NextRound(q)
      \/ phase'[c] \in Ended
  BY CoolMoves
<1> HIDE DEF q
<1> QED
  BY <1>1, <1>2, <1>3, NextRoundChasing, IdleChases DEF Running

LEMMA RecoverChasing ==
    ASSUME Typed, NEW c \in Calls, Chases(c), Watch,
           RecoverConverges(c) \/ RecoverRefreshes(c)
    PROVE  Chases(c)'
<1> DEFINE q == Again(call[c])
<1>1. phase[c] = "recover" /\ phase'[c] = "send"
  BY RecoverConvergesMoves, RecoverRefreshesMoves
<1>2. PICK auth \in Auth : auth.key = call[c].auth.key /\ call'[c] = Sending(q, auth)
  BY RecoverConvergesMoves, RecoverRefreshesMoves
<1>3. call[c] \in Call /\ q \in Call
  BY <1>1, AgainType
<1>4. q.avoid = call[c].avoid /\ q.failoverScheduled = call[c].failoverScheduled /\ q.lost = call[c].lost
  BY <1>3 DEF Again, Call
<1>5. Running(c) /\ call[c].auth.key \notin call[c].avoid
  BY <1>1 DEF Chases, Chasing, Running, Ended, HasToken
<1> HIDE DEF q
<1> QED
  BY <1>1, <1>2, <1>3, <1>4, <1>5, SendingChasing

LEMMA RecoverFailsChasing ==
    ASSUME Typed, NEW c \in Calls, Chases(c), RecoverFails(c), Watch
    PROVE  Chases(c)'
BY RecoverFailsMoves, LeftChasing, IdleChases DEF Running

\* A call that does not move.
LEMMA OthersStayChasing ==
    ASSUME Typed, Watch, NEW d \in Calls, Chases(d), phase'[d] = phase[d], call'[d] = call[d]
    PROVE  Chases(d)'
<1>1. CASE Running(d)
  <2>1. Chasing(d)
    BY <1>1 DEF Chases
  <2>2. phase[d] = "send" => call[d].auth.key \notin call[d].avoid
    BY <2>1 DEF Chasing, HasToken
  <2> QED
    BY <1>1, <2>2, KeepsChasing DEF Running, HasToken
<1>2. CASE ~Running(d)
  BY <1>2, IdleChases DEF Running
<1> QED
  BY <1>1, <1>2

LEMMA CallStepChasing ==
    ASSUME Typed, Chased, Watch, NEW c \in Calls, Begin(c) \/ CallStep(c)
    PROVE  Chased'
<1>1. Proper(c) /\ Chases(c)
  BY CallStepProper DEF Chased
<1>2. Chases(c)'
  <2>1. CASE SendEnds(c) \/ AcquireFails(c)
    BY <2>1, SendEndsMoves, AcquireFailsMoves, IdleChases DEF Running
  <2> QED
    BY <1>1, <2>1, BeginChasing, AcquireChasing, LoseCandidateChasing, SendExpiresChasing,
       SendIsLimitedChasing, CoolChasing, RecoverChasing, RecoverFailsChasing DEF CallStep
<1>3. ASSUME NEW d \in Calls, d # c
      PROVE  Chases(d)'
  BY <1>1, <1>3, OthersStayChasing DEF Chased, Proper, Alone
<1> QED
  BY <1>2, <1>3 DEF Chased

LEMMA ChasedStep == Typed /\ Chased /\ [Next]_vars => Chased'
<1> SUFFICES ASSUME Typed, Chased, [Next]_vars PROVE Chased'
  OBVIOUS
<1>1. CASE Next
  <2>1. Watch
    BY <1>1 DEF Next
  <2>2. ASSUME Tick \/ \E a \in Accounts : OtherStep(a) PROVE Chased'
    BY <2>1, <2>2, OthersMove, OthersStayChasing DEF Chased
  <2> QED
    BY <1>1, <2>1, <2>2, CallStepChasing DEF Next
<1>2. CASE UNCHANGED vars
  BY <1>2 DEF vars, Chased, Chases, Chasing, Running, Eligible
<1> QED
  BY <1>1, <1>2

LEMMA ChasedInit == Init => Chased
BY FS_EmptySet DEF Init, Chased, Chases, Running

LEMMA AlwaysChased == Spec => [](Typed /\ Chased)
BY TypedInit, TypedStep, ChasedInit, ChasedStep, PTL DEF Spec

\* Two accounts among the rejected tokens.
LEMMA TwoAccounts ==
    ASSUME NEW R, IsFiniteSet(R), NEW r \in R, NEW s \in R, r.key # s.key
    PROVE  Cardinality({x.key : x \in R}) >= 2
<1> DEFINE K == {x.key : x \in R}
           f == [x \in R |-> x.key]
           pair == {r.key, s.key}
<1>1. f \in Surjection(R, K)
  BY DEF Surjection
<1>2. IsFiniteSet(K)
  BY <1>1, FS_Surjection
<1>3. pair \subseteq K
  OBVIOUS
<1>4. Cardinality(pair) <= Cardinality(K)
  BY <1>2, <1>3, FS_Subset
<1>5. Cardinality({r.key}) = 1 /\ IsFiniteSet({r.key})
  BY FS_Singleton
<1>6. Cardinality({r.key} \union {s.key}) = Cardinality({r.key}) + 1
  BY <1>5, FS_AddElement
<1>7. pair = {r.key} \union {s.key}
  OBVIOUS
<1>8. Cardinality(K) \in Nat
  BY <1>2, FS_CardinalityType
<1> HIDE DEF K, pair
<1>9. Cardinality(K) >= 2
  BY <1>4, <1>5, <1>6, <1>7, <1>8
<1> QED
  BY <1>9 DEF K

\* The only steps that pass a 401 on.
LEMMA ExpiryMoves ==
    ASSUME Typed, NEW c \in Calls, CallStep(c), phase'[c] = "expired"
    PROVE  AcquireFails(c) \/ SendExpires(c)
<1>1. ASSUME NEW ph, Goto(c, ph) PROVE ph = "expired"
  BY <1>1 DEF Goto, Typed, CallsOK
<1>2. ~SendEnds(c)
  BY <1>1 DEF SendEnds, End
<1>3. ~Cool(c) /\ ~RecoverFails(c)
  BY <1>1 DEF Cool, RecoverFails, Failover, Retry, End
<1> QED
  BY <1>2, <1>3, AcquireMoves, LoseCandidateMoves, SendIsLimitedMoves, RecoverConvergesMoves,
     RecoverRefreshesMoves DEF CallStep

\* The caller gets a 401 only with nothing left to try, whatever recoveries,
\* failovers, lost candidates and changes by others came before.
THEOREM FailsOverFirst == Spec => ExpiresOnlyWithoutFallback
<1> DEFINE A == \A c \in Calls : Ends(c, "expired") =>
                  \/ phase[c] = "send" /\ call[c].attempt + 1 = MaxAttempts
                  \/ Cardinality({r.key : r \in rejected[c] \union {call[c].auth}}) >= 2
                  \/ usable[c] \subseteq tried[c]
<1>1. Typed /\ Chased /\ [Next]_vars => [A]_vars
  <2> SUFFICES ASSUME Typed, Chased, Next, NEW c \in Calls, Ends(c, "expired")
               PROVE  \/ phase[c] = "send" /\ call[c].attempt + 1 = MaxAttempts
                      \/ Cardinality({r.key : r \in rejected[c] \union {call[c].auth}}) >= 2
                      \/ usable[c] \subseteq tried[c]
    OBVIOUS
  <2>1. PICK d \in Calls : Begin(d) \/ CallStep(d)
    BY OthersMove DEF Next, Ends
  <2>2. d = c
    BY <2>1, CallStepProper DEF Proper, Alone, Ends
  <2>3. Chases(c) /\ call[c] \in Call /\ phase'[c] = "expired"
    BY DEF Chased, Typed, CallsOK, Ends
  <2>4. CASE AcquireFails(c)
    <3>1. Candidates(c) = {} /\ Chasing(c)
      BY <2>3, <2>4 DEF AcquireFails, Chases, Running, Ended
    <3>2. usable[c] \subseteq Accounts
      BY DEF Typed, HistoryOK
    <3> QED
      BY <3>1, <3>2 DEF Candidates, Chasing
  <2>5. CASE SendExpires(c)
    <3>1. phase[c] = "send" /\ Chasing(c) /\ Fits("send", call[c])
      BY <2>3, <2>5 DEF SendExpires, Chases, Running, Ended, Typed, CallsOK
    <3>2. Final(c) \/ call[c].failoverScheduled
      BY <2>3, <2>5 DEF SendExpires, Goto, Failover, Retry, End, Typed, CallsOK
    <3>3. CASE Final(c)
      <4>1. call[c].attempt \in Nat /\ call[c].attempt < MaxAttempts
        BY <2>3, <3>1 DEF Fits, Call, Ended
      <4> QED
        BY <3>1, <3>3, <4>1, OrchestratorConstants DEF Final
    <3>4. CASE call[c].failoverScheduled
      <4>1. PICK b \in call[c].avoid : TRUE
        BY <3>1, <3>4 DEF Chasing
      <4>2. PICK r \in rejected[c] : r.key = b
        BY <3>1 DEF Chasing
      <4>3. call[c].auth.key # b
        BY <3>1 DEF Chasing, HasToken
      <4>4. IsFiniteSet(rejected[c] \union {call[c].auth})
        BY <2>3, FS_AddElement DEF Chases
      <4> QED
        BY <4>2, <4>3, <4>4, TwoAccounts
    <3> QED
      BY <3>2, <3>3, <3>4
  <2> QED
    BY <2>1, <2>2, <2>3, <2>4, <2>5, BeginMoves, ExpiryMoves
<1>2. ExpiresOnlyWithoutFallback <=> [][A]_vars
  BY DEF ExpiresOnlyWithoutFallback
<1> QED
  BY <1>1, <1>2, AlwaysChased, PTL DEF Spec

-----------------------------------------------------------------------------
(* Sitting out cooldowns                                                   *)

\* Nobody else refreshes: neither a second call nor another process.
Unshared == ~Overlapping /\ "lease" \notin Meddling

OneRuns == \A c, d \in Calls : Running(c) /\ Running(d) => c = d

Unleased == \A a \in Accounts : ~store[a].leased

\* A wait that is not over is in the store ...
Waits == \A a \in Accounts : told[a] <= clock \/ told[a] <= store[a].cooldown

\* ... and not of the account in hand.
InHand == \A c \in Calls : phase[c] \in HasToken => told[call[c].auth.key] <= clock

Cold == OneRuns /\ Unleased /\ Waits /\ InHand

\* At most one call runs after the step of one that runs or is alone.
LEMMA OneRunsOn ==
    ASSUME OneRuns, NEW c \in Calls, Running(c) \/ \A d \in Calls : ~Running(d), Alone(c)
    PROVE  OneRuns' /\ \A d \in Calls \ {c} : ~Running(d)'
BY DEF OneRuns, Running, Alone

\* No other call has an account in hand.
LEMMA NoneElseInHand ==
    ASSUME NEW c \in Calls, \A d \in Calls \ {c} : ~Running(d)',
           phase'[c] \in HasToken => told'[call'[c].auth.key] <= clock'
    PROVE  InHand'
BY DEF InHand, HasToken, Running, Ended

\* A refresh, and a failed one, of an account whose wait is over.
LEMMA RefreshKeepsWaits ==
    ASSUME Typed, Unleased, Waits, NEW a \in Accounts, told[a] <= clock,
           SaveTokens(a) \/ \E why \in {"grant", "failure"} : SaveFailure(a, why),
           UNCHANGED <<clock, told>>
    PROVE  Unleased' /\ Waits'
<1>1. store \in [Accounts -> Record]
  BY DEF Typed, StoreOK
<1>2. /\ \A b \in Accounts \ {a} : store'[b] = store[b]
      /\ ~store'[a].leased
  BY <1>1 DEF SaveTokens, SaveFailure, Record
<1> QED
  BY <1>2 DEF Unleased, Waits

\* A step that leaves the store and what was told alone.
LEMMA SameKeepsWaits ==
    ASSUME Unleased, Waits, UNCHANGED <<store, told, clock>>
    PROVE  Unleased' /\ Waits'
BY DEF Unleased, Waits

\* The steps that end a call, send its request again or move on with it.
LEMMA QuietIsCold ==
    ASSUME Typed, Cold, NEW c \in Calls, Running(c), Alone(c), UNCHANGED <<store, told, clock>>,
           phase'[c] \in HasToken => phase[c] \in HasToken /\ call'[c].auth.key = call[c].auth.key
    PROVE  Cold'
<1>1. OneRuns' /\ \A d \in Calls \ {c} : ~Running(d)'
  BY OneRunsOn DEF Cold
<1>2. phase'[c] \in HasToken => told'[call'[c].auth.key] <= clock'
  BY DEF Cold, InHand
<1>3. InHand'
  BY <1>1, <1>2, NoneElseInHand
<1> QED
  BY <1>1, <1>3, SameKeepsWaits DEF Cold

LEMMA BeginCold ==
    ASSUME Unshared, Typed, Cold, NEW c \in Calls, Begin(c)
    PROVE  Cold'
<1>1. \A d \in Calls : ~Running(d)
  BY DEF Begin, Unshared
<1>2. Alone(c) /\ phase'[c] = "acquire" /\ UNCHANGED <<store, told, clock>>
  BY BeginMoves DEF Proper, Begin, env
<1>3. OneRuns' /\ \A d \in Calls \ {c} : ~Running(d)'
  BY <1>1, <1>2, OneRunsOn DEF Cold
<1>4. InHand'
  BY <1>2, <1>3, NoneElseInHand DEF HasToken
<1> QED
  BY <1>2, <1>3, <1>4, SameKeepsWaits DEF Cold

\* A candidate's wait is over.
LEMMA CandidateIsCold ==
    ASSUME Typed, Waits, NEW c \in Calls, NEW a \in Candidates(c)
    PROVE  told[a] <= clock
<1>1. a \in Accounts /\ store[a].cooldown <= clock
  BY DEF Candidates, Eligible
<1>2. told[a] \in Nat /\ clock \in Nat /\ store[a].cooldown \in Nat
  BY <1>1 DEF Typed, EnvOK, StoreOK, Record
<1> QED
  BY <1>1, <1>2 DEF Waits

LEMMA AcquireCold ==
    ASSUME Typed, Cold, NEW c \in Calls, Acquire(c)
    PROVE  Cold' /\ told[call'[c].auth.key] <= clock
<1>1. /\ phase[c] = "acquire" /\ phase'[c] = "send" /\ Alone(c) /\ call[c] \in Call
      /\ UNCHANGED <<clock, told>> /\ Running(c)
  BY AcquireMoves DEF Proper, Typed, CallsOK, Acquire, env, Running, Ended
<1>2. PICK auth \in Auth : auth.key \in Candidates(c) /\ call'[c] = Sending(call[c], auth)
  BY AcquireMoves
<1>3. call'[c].auth.key \in Candidates(c) /\ told[call'[c].auth.key] <= clock
  <2>1. call'[c].auth = auth
    BY <1>1, <1>2 DEF Sending, Call
  <2> QED
    BY <1>2, <2>1, CandidateIsCold DEF Cold
<1>4. Unleased' /\ Waits'
  <2>1. PICK a \in Candidates(c) : SaveTokens(a) \/ UNCHANGED store
    BY DEF Acquire
  <2> QED
    BY <1>1, <2>1, CandidateIsCold, RefreshKeepsWaits, SameKeepsWaits DEF Cold, Candidates
<1>5. OneRuns' /\ \A d \in Calls \ {c} : ~Running(d)'
  BY <1>1, OneRunsOn DEF Cold
<1>6. InHand'
  BY <1>1, <1>3, <1>5, NoneElseInHand
<1> QED
  BY <1>3, <1>4, <1>5, <1>6 DEF Cold

LEMMA LoseCandidateCold ==
    ASSUME Typed, Cold, NEW c \in Calls, LoseCandidate(c)
    PROVE  Cold'
<1>1. /\ phase[c] = "acquire" /\ phase'[c] = "acquire" /\ Alone(c)
      /\ UNCHANGED <<clock, told>> /\ Running(c)
  BY LoseCandidateMoves DEF Proper, LoseCandidate, env, Running, Ended
<1>2. PICK a \in Candidates(c), why \in {"grant", "failure"} : SaveFailure(a, why)
  BY LoseCandidateMoves
<1>3. Unleased' /\ Waits'
  BY <1>1, <1>2, CandidateIsCold, RefreshKeepsWaits DEF Cold, Candidates
<1>4. OneRuns' /\ \A d \in Calls \ {c} : ~Running(d)'
  BY <1>1, OneRunsOn DEF Cold
<1>5. InHand'
  BY <1>1, <1>4, NoneElseInHand DEF HasToken
<1> QED
  BY <1>3, <1>4, <1>5 DEF Cold

\* A 429 is only told to an account whose last wait is over: what it replaces in
\* the store does not matter.
LEMMA CoolCold ==
    ASSUME Typed, Cold, NEW c \in Calls, Cool(c)
    PROVE  Cold'
<1> DEFINE a == call[c].auth.key
           until == call[c].until
<1>1. /\ phase[c] = "cool" /\ phase'[c] \in {"acquire"} \union Ended /\ Alone(c) /\ UNCHANGED clock
      /\ call[c] \in Call /\ Running(c)
  BY CoolMoves DEF Proper, Cool, env, Running, Ended, Typed, CallsOK
<1>2. a \in Accounts /\ until \in Nat /\ told[a] <= clock
  BY <1>1 DEF Cold, InHand, HasToken, Typed, CallsOK, Fits, Call, Auth
<1>3. \/ /\ store' = [store EXCEPT ![a].cooldown = until]
         /\ told' = [told EXCEPT ![a] = IF until > @ THEN until ELSE @]
      \/ UNCHANGED <<store, told>>
  BY DEF Cool, SetCooldown
<1>4. Unleased' /\ Waits'
  <2>1. CASE /\ store' = [store EXCEPT ![a].cooldown = until]
             /\ told' = [told EXCEPT ![a] = IF until > @ THEN until ELSE @]
    <3> HIDE DEF a, until
    <3>1. /\ \A b \in Accounts \ {a} : store'[b] = store[b] /\ told'[b] = told[b]
          /\ store'[a].cooldown = until /\ store'[a].leased = store[a].leased
          /\ told'[a] \in {until, told[a]}
      BY <1>2, <2>1 DEF Typed, StoreOK, EnvOK, Record
    <3>2. told'[a] <= clock' \/ told'[a] <= store'[a].cooldown
      BY <1>1, <1>2, <3>1
    <3> QED
      BY <1>1, <3>1, <3>2 DEF Cold, Unleased, Waits
  <2> QED
    BY <1>1, <1>3, <2>1, SameKeepsWaits DEF Cold
<1>5. OneRuns' /\ \A d \in Calls \ {c} : ~Running(d)'
  BY <1>1, OneRunsOn DEF Cold
<1>6. InHand'
  BY <1>1, <1>5, NoneElseInHand DEF HasToken, Ended
<1> QED
  BY <1>4, <1>5, <1>6 DEF Cold

LEMMA RecoverRefreshesCold ==
    ASSUME Typed, Cold, NEW c \in Calls, RecoverRefreshes(c)
    PROVE  Cold'
<1> DEFINE a == call[c].auth.key
<1>1. /\ phase[c] = "recover" /\ phase'[c] = "send" /\ Alone(c) /\ UNCHANGED <<clock, told>>
      /\ SaveTokens(a) /\ Running(c)
  BY RecoverRefreshesMoves DEF Proper, RecoverRefreshes, env, Running, Ended
<1>2. a \in Accounts /\ told[a] <= clock
  BY <1>1, AgainType DEF Cold, InHand, HasToken, Auth
<1>3. Unleased' /\ Waits'
  <2> HIDE DEF a
  <2> QED
    BY <1>1, <1>2, RefreshKeepsWaits DEF Cold
<1>4. OneRuns' /\ \A d \in Calls \ {c} : ~Running(d)'
  BY <1>1, OneRunsOn DEF Cold
<1>5. call'[c].auth.key = a
  <2>1. Again(call[c]) \in Call
    BY <1>1, AgainType
  <2> QED
    BY <2>1, RecoverRefreshesMoves DEF Sending, Call
<1>6. InHand'
  BY <1>1, <1>2, <1>4, <1>5, NoneElseInHand
<1> QED
  BY <1>3, <1>4, <1>6 DEF Cold

LEMMA RecoverConvergesCold ==
    ASSUME Typed, Cold, NEW c \in Calls, RecoverConverges(c)
    PROVE  Cold'
<1>1. /\ phase[c] = "recover" /\ phase'[c] = "send" /\ Alone(c) /\ UNCHANGED <<store, clock, told>>
      /\ Running(c)
  BY RecoverConvergesMoves DEF Proper, RecoverConverges, env, Running, Ended
<1>2. call'[c].auth.key = call[c].auth.key
  <2>1. Again(call[c]) \in Call
    BY <1>1, AgainType
  <2> QED
    BY <2>1, RecoverConvergesMoves DEF Sending, Call
<1> QED
  BY <1>1, <1>2, QuietIsCold DEF HasToken

\* The steps of a call that only move it on.
LEMMA MovesOnCold ==
    ASSUME Typed, Cold, NEW c \in Calls,
           AcquireFails(c) \/ SendEnds(c) \/ SendExpires(c) \/ SendIsLimited(c) \/ RecoverFails(c)
    PROVE  Cold'
<1>1. Alone(c) /\ Running(c) /\ UNCHANGED <<store, told, clock>>
  BY AcquireFailsMoves, SendEndsMoves, SendExpiresMoves, SendIsLimitedMoves, RecoverFailsMoves
     DEF Proper, Running, Ended, AcquireFails, SendEnds, SendExpires, SendIsLimited, RecoverFails, env
<1>2. call[c] \in Call
  BY DEF Typed, CallsOK
<1>3. phase'[c] \in HasToken => phase[c] \in HasToken /\ call'[c].auth = call[c].auth
  <2>1. CASE AcquireFails(c) \/ SendEnds(c) \/ RecoverFails(c)
    BY <2>1, AcquireFailsMoves, SendEndsMoves, RecoverFailsMoves DEF HasToken, Ended
  <2>2. CASE SendExpires(c)
    BY <1>2, <2>2, SendExpiresMoves DEF HasToken, Ended, Call
  <2>3. CASE SendIsLimited(c)
    BY <1>2, <2>3, SendIsLimitedMoves DEF HasToken, Call
  <2> QED
    BY <2>1, <2>2, <2>3
<1> QED
  BY <1>1, <1>3, QuietIsCold

\* The clock, the server and the tools: nobody holds a lease.
LEMMA OthersCold ==
    ASSUME Unshared, Typed, Cold, Tick \/ \E a \in Accounts : OtherStep(a)
    PROVE  Cold'
<1>1. phase' = phase /\ call' = call
  BY OthersMove
<1>2. OneRuns'
  BY <1>1 DEF Cold, OneRuns, Running
<1>3. UNCHANGED told
  BY DEF Tick, OtherStep, Expire, PeerClaims, PeerRefreshes, PeerFails, Toggle, Meddle
<1>4. /\ clock \in Nat /\ clock' \in Nat /\ clock <= clock'
      /\ \A a \in Accounts : told[a] \in Nat /\ store[a].cooldown \in Nat
  <2>1. clock' \in Nat
    BY OthersMove DEF EnvOK
  <2>2. clock <= clock'
    BY DEF Typed, EnvOK, Tick, OtherStep, Expire, PeerClaims, PeerRefreshes, PeerFails, Toggle, Meddle, env
  <2> QED
    BY <2>1, <2>2 DEF Typed, EnvOK, StoreOK, Record
<1>5. \A b \in Accounts : store'[b].cooldown = store[b].cooldown /\ store'[b].leased = store[b].leased
  <2>1. CASE UNCHANGED store
    BY <2>1
  <2>2. ASSUME NEW a \in Accounts, Toggle(a) 
      PROVE  \A b \in Accounts : store'[b].cooldown = store[b].cooldown /\ store'[b].leased = store[b].leased
    BY <2>2 DEF Toggle, Typed, StoreOK, Record
  <2>3. UNCHANGED store \/ \E a \in Accounts : Toggle(a)
    BY DEF Unshared, Cold, Unleased, Tick, OtherStep, Expire, PeerClaims, PeerRefreshes, PeerFails, Meddle
  <2> QED
    BY <2>1, <2>2, <2>3
<1>6. Unleased'
  BY <1>5 DEF Cold, Unleased
<1>7. Waits'
  BY <1>3, <1>4, <1>5 DEF Cold, Waits
<1>8. InHand'
  <2> SUFFICES ASSUME NEW c \in Calls, phase[c] \in HasToken
               PROVE  told[call[c].auth.key] <= clock'
    BY <1>1, <1>3 DEF InHand
  <2>1. call[c].auth.key \in Accounts
    BY DEF Typed, CallsOK, Fits, HasToken, Auth
  <2> QED
    BY <1>4, <2>1 DEF Cold, InHand
<1> QED
  BY <1>2, <1>6, <1>7, <1>8 DEF Cold

LEMMA ColdStep == Unshared /\ Typed /\ Cold /\ [Next]_vars => Cold'
<1> SUFFICES ASSUME Unshared, Typed, Cold, [Next]_vars PROVE Cold'
  OBVIOUS
<1>1. CASE Next
  BY <1>1, BeginCold, AcquireCold, LoseCandidateCold, CoolCold, RecoverRefreshesCold,
     RecoverConvergesCold, MovesOnCold, OthersCold DEF Next, CallStep
<1>2. CASE UNCHANGED vars
  BY <1>2 DEF vars, Cold, OneRuns, Unleased, Waits, InHand, Running
<1> QED
  BY <1>1, <1>2

LEMMA ColdInit == Init => Cold
BY DEF Init, Cold, OneRuns, Unleased, Waits, InHand, Running, HasToken

\* As long as nobody else refreshes an account, which ends its cooldown, no call is
\* given it before the end of what its last 429s asked for: not after a recovery, a
\* failed refresh or a shorter Retry-After either.
THEOREM CooldownsAreSatOut == Unshared => (Spec => SitsOutCooldowns)
<1> DEFINE A == \A c \in Calls : Acquire(c) => clock >= told[call'[c].auth.key]
<1> SUFFICES ASSUME Unshared PROVE Spec => SitsOutCooldowns
  OBVIOUS
<1>0. Typed /\ Cold /\ [Next]_vars => Cold'
  BY ColdStep
<1>1. Spec => [](Typed /\ Cold)
  BY <1>0, TypedInit, TypedStep, ColdInit, PTL DEF Spec
<1>2. Typed /\ Cold /\ [Next]_vars => [A]_vars
  <2> SUFFICES ASSUME Typed, Cold, NEW c \in Calls, Acquire(c)
               PROVE  clock >= told[call'[c].auth.key]
    OBVIOUS
  <2>1. told[call'[c].auth.key] <= clock
    BY AcquireCold
  <2>2. call'[c] \in Call /\ Fits("send", call'[c])
    BY AcquireMoves DEF Proper, CallsOK
  <2>3. call'[c].auth.key \in Accounts
    BY <2>2 DEF Fits, Auth
  <2> QED
    BY <2>1, <2>3 DEF Typed, EnvOK
<1>3. SitsOutCooldowns <=> [][A]_vars
  BY DEF SitsOutCooldowns
<1> QED
  BY <1>1, <1>2, <1>3, PTL DEF Spec
=============================================================================
