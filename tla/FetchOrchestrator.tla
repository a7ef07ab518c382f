-------------------------- MODULE FetchOrchestrator --------------------------
(***************************************************************************)
(* FetchOrchestrator.execute: how concurrent calls get their request       *)
(* answered by one of the accounts.  A call makes a bounded number of      *)
(* attempts; a 401 token_expired leads to one recovery of the token and    *)
(* one change of account, a 429 to a cooldown of the account.              *)
(*                                                                         *)
(* Acquisition is the contract of acquireOpenAIAuth (AcquireAuth): an      *)
(* eligible account that is not to be avoided, after any number of failed  *)
(* refreshes, or an error.  Recovery is what recoverExpiredOpenAIAuth      *)
(* answers (its refresh is in AuthRefresh).  A token is numbered in the    *)
(* order of issue.                                                         *)
(***************************************************************************)
EXTENDS Naturals, FiniteSets

CONSTANTS
    Calls,
    Accounts,
    NoAuth,            \* no token in hand
    MaxAttempts,
    FallbackCooldown,  \* computeBackoffMs: 5 s whatever the attempt
    FailureCooldown,   \* AUTH_FAILURE_COOLDOWN_MS
    Seconds,           \* what a Retry-After may say in seconds
    Dates,             \* ... and as a date
    Overlapping,       \* may calls overlap?
    SaveFails,         \* may a load or save of the store fail?
    Meddling,          \* what others do to the accounts
    MaxTime,           \* bound on the clock
    MaxToken,          \* bound on the tokens issued
    MaxChanges         \* bound on what others do

VARIABLES
    clock,
    store,      \* [Accounts -> record]
    dead,       \* [Accounts -> Nat]: the server rejects tokens up to this one
    phase,      \* where each call is
    call,       \* its locals
    told,       \* history: until when the last saved 429 of an account told to wait
    rejected,   \* history: the tokens each call has seen rejected
    tried,      \* history: the accounts it has sent its request with
    usable,     \* history: the accounts that were eligible ever since it began
    changes

vars == <<clock, store, dead, phase, call, told, rejected, tried, usable, changes>>
env == <<clock, dead, changes>>

Record == [enabled : BOOLEAN, leased : BOOLEAN, token : Nat, cooldown : Nat]
Auth == [key : Accounts, token : Nat]
Phases == {"idle", "acquire", "send", "recover", "cool", "answered", "expired", "limited", "failed"}
Ended == {"answered", "expired", "limited", "failed"}

\* auth: the token of the current or the last attempt; avoid: tokenExpiredIdentityKeys;
\* lost, saw: the locals of acquireOpenAIAuth; picked: selectedAuthForQuota, which
\* the quota of the answer is charged to.
Call == [attempt : Nat, stamp : Nat, auth : Auth \union {NoAuth}, avoid : SUBSET Accounts,
         recoveryAttempted : BOOLEAN, failoverScheduled : BOOLEAN, awaitingFailover : BOOLEAN,
         lost : SUBSET Accounts, saw : SUBSET {"grant", "failure"},
         until : Nat, picked : Auth \union {NoAuth}]

NewCall == [attempt |-> 0, stamp |-> 0, auth |-> NoAuth, avoid |-> {},
            recoveryAttempted |-> FALSE, failoverScheduled |-> FALSE, awaitingFailover |-> FALSE,
            lost |-> {}, saw |-> {}, until |-> 0, picked |-> NoAuth]

ASSUME OrchestratorConstants ==
    /\ NoAuth \notin Auth
    /\ MaxAttempts \in Nat \ {0}
    /\ FallbackCooldown \in Nat /\ FailureCooldown \in Nat \ {0}
    /\ Seconds \subseteq Nat /\ Dates \subseteq Nat
    /\ Overlapping \in BOOLEAN /\ SaveFails \in BOOLEAN
    /\ Meddling \subseteq {"expire", "lease", "toggle"}
    /\ MaxTime \in Nat /\ MaxToken \in Nat /\ MaxChanges \in Nat

Eligible(a) == store[a].enabled /\ ~store[a].leased /\ store[a].cooldown <= clock
Running(c) == phase[c] \notin {"idle"} \union Ended

Init ==
    /\ clock = 1
    /\ store = [a \in Accounts |-> [enabled |-> TRUE, leased |-> FALSE, token |-> 1, cooldown |-> 0]]
    /\ dead = [a \in Accounts |-> 0]
    /\ phase = [c \in Calls |-> "idle"]
    /\ call = [c \in Calls |-> NewCall]
    /\ told = [a \in Accounts |-> 0]
    /\ rejected = [c \in Calls |-> {}]
    /\ tried = [c \in Calls |-> {}]
    /\ usable = [c \in Calls |-> {}]
    /\ changes = 0

-----------------------------------------------------------------------------
(* Saves of a refresh                                                      *)

\* A success stores the next token, and ends the lease and any cooldown.
SaveTokens(a) ==
    store' = [store EXCEPT ![a].token = @ + 1, ![a].leased = FALSE, ![a].cooldown = 0]

\* A failure ends the lease; a rejected grant disables the account, another failure
\* replaces its cooldown.
SaveFailure(a, why) ==
    IF why = "grant" THEN store' = [store EXCEPT ![a].enabled = FALSE, ![a].leased = FALSE, ![a].cooldown = 0]
    ELSE store' = [store EXCEPT ![a].leased = FALSE,
                                ![a].cooldown = IF store[a].enabled THEN clock + FailureCooldown ELSE @]

-----------------------------------------------------------------------------
(* A call                                                                  *)

Goto(c, ph) == phase' = [phase EXCEPT ![c] = ph]
Becomes(c, locals) == call' = [call EXCEPT ![c] = locals]
End(c, ph) == Goto(c, ph) /\ Becomes(c, NewCall)

Begin(c) ==
    /\ phase[c] = "idle"
    /\ Overlapping \/ \A d \in Calls : ~Running(d)
    /\ Goto(c, "acquire")
    /\ Becomes(c, [NewCall EXCEPT !.stamp = clock])
    /\ UNCHANGED <<env, store, told>>

\* Faulty: a retry after a rate limit is not counted.
RetryForFree(c, locals) ==
    /\ Goto(c, "acquire")
    /\ Becomes(c, [locals EXCEPT !.stamp = clock, !.lost = {}, !.saw = {}])

\* The next round of the loop, if there is one.
Retry(c, locals) ==
    IF locals.attempt + 1 < MaxAttempts
    THEN /\ Goto(c, "acquire")
         /\ Becomes(c, [locals EXCEPT !.attempt = @ + 1, !.stamp = clock, !.lost = {}, !.saw = {}])
    ELSE End(c, "limited")

\* Faulty: the quota of the answer is charged to the token before the recovery.
UseUnpicked(c, locals, auth) ==
    /\ Goto(c, "send")
    /\ Becomes(c, [locals EXCEPT !.auth = auth, !.awaitingFailover = FALSE,
                                 !.picked = IF @ = NoAuth THEN auth ELSE @])

\* The request is sent with this token.
Use(c, locals, auth) ==
    /\ Goto(c, "send")
    /\ Becomes(c, [locals EXCEPT !.auth = auth, !.picked = auth, !.awaitingFailover = FALSE])

Candidates(c) == {a \in Accounts \ (call[c].avoid \union call[c].lost) : Eligible(a)}

\* The answer of acquireOpenAIAuth: a stored token, or one it has just refreshed.
Acquire(c) ==
    /\ phase[c] = "acquire"
    /\ \E a \in Candidates(c) :
          \/ /\ Use(c, call[c], [key |-> a, token |-> store[a].token])
             /\ UNCHANGED store
          \/ /\ store[a].token < MaxToken
             /\ SaveTokens(a)
             /\ Use(c, call[c], [key |-> a, token |-> store[a].token + 1])
    /\ UNCHANGED <<env, told>>

\* On its way it may lose candidates to failed refreshes, disabled or cooled down.
LoseCandidate(c) ==
    /\ phase[c] = "acquire"
    /\ \E a \in Candidates(c), why \in {"grant", "failure"} :
          /\ SaveFailure(a, why)
          /\ Becomes(c, [call[c] EXCEPT !.lost = @ \union {a}, !.saw = @ \union {why}])
    /\ UNCHANGED <<env, phase, told>>

\* acquireOpenAIAuth reports no_enabled_accounts or all_accounts_cooling_down.
OutOfAccounts(c) ==
    (\E a \in Accounts : store[a].enabled /\ ~Eligible(a)) \/ call[c].saw = {}

\* While a failover is awaited, the 401 is the answer.
AcquireFails(c) ==
    /\ phase[c] = "acquire"
    /\ Candidates(c) = {}
    /\ End(c, IF call[c].awaitingFailover /\ OutOfAccounts(c) THEN "expired" ELSE "failed")
    /\ UNCHANGED <<env, store, told>>

\* An answer that is neither a 429 nor a 401 token_expired is the caller's, and
\* so is an exception of fetch or of the request's preparation.
SendEnds(c) ==
    /\ phase[c] = "send"
    /\ End(c, "answered") \/ End(c, "failed")
    /\ UNCHANGED <<env, store, told>>

\* The account of the last attempt is given up.
Failover(c, locals) ==
    Retry(c, [locals EXCEPT !.failoverScheduled = TRUE, !.awaitingFailover = TRUE,
                            !.avoid = @ \union {locals.auth.key}])

\* Faulty: nobody counts before a recovery or a failover.
FinalNever(c) == FALSE

\* Faulty: the last attempt is given away.
FinalEarly(c) == call[c].attempt + 2 >= MaxAttempts

Final(c) == call[c].attempt + 1 >= MaxAttempts

\* 401 token_expired: one recovery, then one failover, if attempts are left.
SendExpires(c) ==
    /\ phase[c] = "send"
    /\ call[c].auth.token <= dead[call[c].auth.key]
    /\ \/ /\ Final(c) \/ (call[c].recoveryAttempted /\ call[c].failoverScheduled)
          /\ End(c, "expired")
       \/ /\ ~Final(c) /\ ~call[c].recoveryAttempted
          /\ Goto(c, "recover")
          /\ Becomes(c, [call[c] EXCEPT !.recoveryAttempted = TRUE])
       \/ /\ ~Final(c) /\ call[c].recoveryAttempted /\ ~call[c].failoverScheduled
          /\ Failover(c, call[c])
    /\ UNCHANGED <<env, store, told>>

\* Retry-After: none, a number of seconds, or a date; counted from the start of
\* the attempt.
Cooldowns(stamp) ==
    {stamp + FallbackCooldown} \union {stamp + s : s \in Seconds}
    \union {IF d > stamp THEN d ELSE stamp : d \in Dates}

SendIsLimited(c) ==
    /\ phase[c] = "send"
    /\ call[c].auth.token > dead[call[c].auth.key]
    /\ \E until \in Cooldowns(call[c].stamp) :
          Becomes(c, [call[c] EXCEPT !.until = until])
    /\ Goto(c, "cool")
    /\ UNCHANGED <<env, store, told>>

\* Faulty: a cooldown that is over is not replaced.
SetCooldownOnce(a, until) ==
    store' = IF store[a].cooldown = 0 THEN [store EXCEPT ![a].cooldown = until] ELSE store

SetCooldown(a, until) == store' = [store EXCEPT ![a].cooldown = until]

\* setAccountCooldown: the save may fail, and leaves a disabled account alone.
Cool(c) ==
    /\ phase[c] = "cool"
    /\ LET a == call[c].auth.key
           until == call[c].until
       IN  \/ /\ store[a].enabled
              /\ SetCooldown(a, until)
              /\ told' = [told EXCEPT ![a] = IF until > @ THEN until ELSE @]
           \/ (SaveFails \/ ~store[a].enabled) /\ UNCHANGED <<store, told>>
    /\ Retry(c, [call[c] EXCEPT !.until = 0])
    /\ UNCHANGED env

\* Faulty: whatever token the store has is taken for a new one.
ConvergedAnyway(c) == store[call[c].auth.key].enabled

\* Recovery found a token in the store that is not the rejected one ...
Converged(c) ==
    LET a == call[c].auth.key
    IN  store[a].enabled /\ store[a].token # call[c].auth.token

RecoverConverges(c) ==
    /\ phase[c] = "recover"
    /\ Converged(c)
    /\ LET a == call[c].auth.key
       IN  Use(c, [call[c] EXCEPT !.attempt = @ + 1, !.stamp = clock],
               [key |-> a, token |-> store[a].token])
    /\ UNCHANGED <<env, store, told>>

\* ... or refreshed the rejected one, which also ends the account's cooldown.
RecoverRefreshes(c) ==
    /\ phase[c] = "recover"
    /\ LET a == call[c].auth.key
       IN  /\ store[a].enabled /\ ~store[a].leased /\ ~Converged(c)
           /\ store[a].token < MaxToken
           /\ SaveTokens(a)
           /\ Use(c, [call[c] EXCEPT !.attempt = @ + 1, !.stamp = clock],
                  [key |-> a, token |-> store[a].token + 1])
    /\ UNCHANGED <<env, told>>

\* ... or nothing, after a failed refresh, a wait for somebody else's or an error of
\* the store.
RecoverFails(c) ==
    /\ phase[c] = "recover"
    /\ SaveFails \/ ~Converged(c)
    /\ Failover(c, call[c])
    /\ UNCHANGED <<env, store, told>>

-----------------------------------------------------------------------------
(* Others                                                                  *)

Tick ==
    /\ clock < MaxTime
    /\ clock' = clock + 1
    /\ UNCHANGED <<store, dead, phase, call, told, changes>>

Meddle(what) ==
    /\ what \in Meddling
    /\ changes < MaxChanges
    /\ changes' = changes + 1
    /\ UNCHANGED <<clock, phase, call, told>>

\* The server rejects the tokens issued so far.
Expire(a) ==
    /\ Meddle("expire")
    /\ dead' = [dead EXCEPT ![a] = store[a].token]
    /\ UNCHANGED store

\* Another process, or a tick of the refresh scheduler, takes an account to refresh ...
PeerClaims(a) ==
    /\ Meddle("lease")
    /\ Eligible(a)
    /\ store' = [store EXCEPT ![a].leased = TRUE]
    /\ UNCHANGED dead

\* ... refreshes it, whatever was saved in between ...
PeerRefreshes(a) ==
    /\ store[a].leased /\ store[a].enabled /\ store[a].token < MaxToken
    /\ SaveTokens(a)
    /\ UNCHANGED <<env, phase, call, told>>

\* ... fails to, or dies and leaves the lease to expire.
PeerFails(a) ==
    /\ store[a].leased
    /\ \/ \E why \in {"grant", "failure"} : SaveFailure(a, why)
       \/ store' = [store EXCEPT ![a].leased = FALSE]
    /\ UNCHANGED <<env, phase, call, told>>

Toggle(a) ==
    /\ Meddle("toggle")
    /\ store' = [store EXCEPT ![a].enabled = ~@]
    /\ UNCHANGED dead

-----------------------------------------------------------------------------
CallStep(c) ==
    \/ Acquire(c) \/ LoseCandidate(c) \/ AcquireFails(c)
    \/ SendEnds(c) \/ SendExpires(c) \/ SendIsLimited(c) \/ Cool(c)
    \/ RecoverConverges(c) \/ RecoverRefreshes(c) \/ RecoverFails(c)

OtherStep(a) == Expire(a) \/ PeerClaims(a) \/ PeerRefreshes(a) \/ PeerFails(a) \/ Toggle(a)

\* A 401 that is not the end of the call.
Rejects(c) == phase[c] = "send" /\ phase'[c] \in {"recover", "acquire"}

\* The history variables of a step.
Watch ==
    /\ rejected' = [c \in Calls |->
          CASE ~Running(c)' -> {}
            [] Running(c)' /\ Rejects(c) -> rejected[c] \union {call[c].auth}
            [] Running(c)' /\ ~Rejects(c) -> rejected[c]]
    /\ tried' = [c \in Calls |->
          CASE ~Running(c)' -> {}
            [] phase'[c] = "send" -> tried[c] \union {call'[c].auth.key}
            [] Running(c)' /\ phase'[c] # "send" -> tried[c]]
    /\ usable' = [c \in Calls |->
          CASE ~Running(c)' -> {}
            [] Running(c)' /\ ~Running(c) -> {a \in Accounts : Eligible(a)'}
            [] Running(c)' /\ Running(c) -> {a \in usable[c] : Eligible(a)'}]

Next ==
    /\ \/ Tick
       \/ \E c \in Calls : Begin(c) \/ CallStep(c)
       \/ \E a \in Accounts : OtherStep(a)
    /\ Watch

\* Every await of a call ends: HTTP requests and file operations.
Fairness == \A c \in Calls : WF_vars(CallStep(c) /\ Watch)

Spec == Init /\ [][Next]_vars /\ Fairness

-----------------------------------------------------------------------------
(* Properties                                                              *)

TypeOK ==
    /\ clock \in Nat /\ changes \in Nat
    /\ store \in [Accounts -> Record]
    /\ dead \in [Accounts -> Nat]
    /\ told \in [Accounts -> Nat]
    /\ phase \in [Calls -> Phases]
    /\ call \in [Calls -> Call]
    /\ \A c \in Calls : phase[c] \in {"send", "recover", "cool"} =>
          call[c].auth # NoAuth /\ call[c].attempt < MaxAttempts
    /\ rejected \in [Calls -> SUBSET Auth]
    /\ tried \in [Calls -> SUBSET Accounts]
    /\ usable \in [Calls -> SUBSET Accounts]

\* A call never sends a token that the server has already rejected to it, in
\* whatever way recoveries, failovers and 429s follow each other.
NeverResendsRejected == \A c \in Calls : phase[c] = "send" => call[c].auth \notin rejected[c]

Ends(c, ph) == phase[c] # ph /\ phase'[c] = ph

\* What the caller gets is charged to the token that got it, after recoveries and
\* failed failovers too.
ChargedToItsToken ==
    [][\A c \in Calls : Ends(c, "answered") \/ Ends(c, "expired") =>
          call[c].picked = call[c].auth]_vars

\* The caller gets a 401 token_expired only if two accounts failed it, the attempts
\* are used up, or no other account stayed eligible.
ExpiresOnlyWithoutFallback ==
    [][\A c \in Calls : Ends(c, "expired") =>
          \/ phase[c] = "send" /\ call[c].attempt + 1 = MaxAttempts
          \/ Cardinality({r.key : r \in rejected[c] \union {call[c].auth}}) >= 2
          \/ usable[c] \subseteq tried[c]]_vars

\* No call is given an account before the end of the cooldown that its last 429s
\* asked for.
SitsOutCooldowns ==
    [][\A c \in Calls : Acquire(c) => clock >= told[call'[c].auth.key]]_vars

\* Every call ends.
Terminates == \A c \in Calls : phase[c] = "acquire" ~> phase[c] \in Ended
=============================================================================
