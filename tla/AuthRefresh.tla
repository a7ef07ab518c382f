----------------------------- MODULE AuthRefresh -----------------------------
(***************************************************************************)
(* The account leases of the plugin: several OpenCode processes and flows  *)
(* share one auth store, each refreshes accounts over HTTP outside the     *)
(* file lock, and the OAuth server rotates a refresh token whenever it is  *)
(* used.  A step of a process is one locked save, or one event of its HTTP *)
(* request.  The users of the store (login, toggle, remove, a 429 on a     *)
(* request) act at any time.                                               *)
(***************************************************************************)
EXTENDS AccountLease, FiniteSets

CONSTANTS
    Accounts,     \* (auth mode, identity key) pairs
    NoAccount,
    Proc,         \* concurrent runs of a refresh flow
    Kind,         \* [Proc -> Kinds]
    ClaimDelay,   \* longest time from a flow's timestamp to its claim's save
    HttpTimeout,  \* OAUTH_HTTP_TIMEOUT_MS
    CommitDelay,  \* longest time from a response to the last save that records it
    MaxTime,      \* bound on the clock
    MaxIssue      \* bound on the token pairs issued per account

VARIABLES
    clock,   \* Date.now()
    store,   \* codex-accounts.json
    issued,  \* OAuth server: pairs issued so far, per account
    valid,   \* OAuth server: refresh tokens it would accept, per account
    pc,      \* where each process is
    job,     \* its locals
    stale,   \* proactive tick: staleClaimIdentityKeys
    lost     \* history: accounts whose rotated token could not reach the store

vars == <<clock, store, issued, valid, pc, job, stale, lost>>

Refreshing == {"sent", "answered", "rejected", "failed"}
PCs == {"idle", "selected"} \union Refreshing

\* stamp: the `now' of the flow; until: when its current step must be over.
Job == [acct : Accounts \union {NoAccount}, seen : Nat, stamp : Nat,
        lease : Nat, answer : Nat, until : Nat]
NoJob == [acct |-> NoAccount, seen |-> 0, stamp |-> 0,
          lease |-> 0, answer |-> 0, until |-> 0]

ASSUME RefreshConstants ==
    /\ NoAccount \notin Accounts
    /\ Kind \in [Proc -> Kinds]
    /\ ClaimDelay \in Nat
    /\ HttpTimeout \in Nat
    /\ CommitDelay \in Nat
    /\ MaxTime \in Nat
    /\ MaxIssue \in Nat

\* From the timestamp of a claim to the save of its outcome.
Slack == ClaimDelay + HttpTimeout + CommitDelay

(***************************************************************************)
(* 30 s and 120 s leases against a 15 s HTTP timeout: a lease outlives the *)
(* refresh it covers, and two leases of different lengths expire further   *)
(* apart than a refresh lasts.  CODEX_OAUTH_HTTP_TIMEOUT_MS can break it.  *)
(***************************************************************************)
LeasesOutliveRefreshes ==
    /\ \A k \in Kinds : LeaseLength[k] > Slack
    /\ \A k, l \in Kinds :
          LeaseLength[k] > LeaseLength[l] => LeaseLength[k] > LeaseLength[l] + Slack

-----------------------------------------------------------------------------
\* Every account starts with a pair that has expired, or with no tokens at all.
Imported(t) == [present |-> TRUE, enabled |-> TRUE, token |-> t,
                expires |-> 0, cooldown |-> 0, lease |-> 0]

Init ==
    /\ clock = 1
    /\ store \in [Accounts -> {Imported(0), Imported(1)}]
    /\ issued = [a \in Accounts |-> 1]
    /\ valid = [a \in Accounts |-> {1}]
    /\ pc = [p \in Proc |-> "idle"]
    /\ job = [p \in Proc |-> NoJob]
    /\ stale = [p \in Proc |-> {}]
    /\ lost = {}

\* Time passes, but no step of a process takes longer than it may.
Tick ==
    /\ clock < MaxTime
    /\ \A p \in Proc : pc[p] # "idle" => clock < job[p].until
    /\ clock' = clock + 1
    /\ UNCHANGED <<store, issued, valid, pc, job, stale, lost>>

-----------------------------------------------------------------------------
(* Claims                                                                  *)

\* One iteration of acquireOpenAIAuth up to the claim: an unlocked snapshot,
\* a selected account whose access token has expired.
AcquireSelects(p, a) ==
    /\ pc[p] = "idle" /\ Kind[p] = "acquire"
    /\ Eligible(store[a], clock)
    /\ store[a].token # 0
    /\ store[a].expires <= clock
    /\ pc' = [pc EXCEPT ![p] = "selected"]
    /\ job' = [job EXCEPT ![p] = [acct |-> a, seen |-> store[a].token, stamp |-> clock,
                                  lease |-> 0, answer |-> 0, until |-> clock + ClaimDelay]]
    /\ UNCHANGED <<clock, store, issued, valid, stale, lost>>

\* The selected account has no refresh token: it cools down, from the iteration's time.
AcquireFindsNoRefresh(a) ==
    /\ \E p \in Proc : pc[p] = "idle" /\ Kind[p] = "acquire"
    /\ Eligible(store[a], clock)
    /\ store[a].token = 0
    /\ store' = [store EXCEPT ![a].cooldown = clock + FailureCooldown]
    /\ UNCHANGED <<clock, issued, valid, pc, job, stale, lost>>

\* The claim is written and the refresh request leaves.
TakeLease(p, a, stamp) ==
    /\ store' = [store EXCEPT ![a] = WithLease(@, stamp + LeaseLength[Kind[p]])]
    /\ pc' = [pc EXCEPT ![p] = "sent"]
    /\ job' = [job EXCEPT ![p] = [acct |-> a, seen |-> store[a].token, stamp |-> stamp,
                                  lease |-> stamp + LeaseLength[Kind[p]],
                                  answer |-> 0, until |-> clock + HttpTimeout]]

AcquireClaims(p) ==
    /\ pc[p] = "selected"
    /\ LET a == job[p].acct
       IN  \/ /\ AcquireMayClaim(store[a], job[p].seen, job[p].stamp)
              /\ TakeLease(p, a, job[p].stamp)
           \/ /\ ~AcquireMayClaim(store[a], job[p].seen, job[p].stamp)
              /\ pc' = [pc EXCEPT ![p] = "idle"]
              /\ job' = [job EXCEPT ![p] = NoJob]
              /\ UNCHANGED store
    /\ UNCHANGED <<clock, issued, valid, stale, lost>>

\* The tick claims one due account after another; which comes first is left open.
ProactiveClaims(p, a) ==
    /\ pc[p] = "idle" /\ Kind[p] = "proactive"
    /\ a \notin stale[p]
    /\ ProactiveMayClaim(store[a], clock)
    /\ TakeLease(p, a, clock)
    /\ UNCHANGED <<clock, issued, valid, stale, lost>>

\* No account is due any more, or a save threw: the tick is over, the next one
\* starts afresh.
ProactiveTickEnds(p) ==
    /\ pc[p] = "idle" /\ stale[p] # {}
    /\ stale' = [stale EXCEPT ![p] = {}]
    /\ UNCHANGED <<clock, store, issued, valid, pc, job, lost>>

OtherClaims(p, a) ==
    /\ pc[p] = "idle" /\ Kind[p] \in {"reactive", "menu", "quota"}
    /\ MayClaim(store[a], clock)
    /\ TakeLease(p, a, clock)
    /\ UNCHANGED <<clock, issued, valid, stale, lost>>

-----------------------------------------------------------------------------
(* The refresh request                                                     *)

Answered(p, outcome, new) ==
    /\ pc[p] = "sent"
    /\ pc' = [pc EXCEPT ![p] = outcome]
    /\ job' = [job EXCEPT ![p] = [@ EXCEPT !.answer = new, !.until = clock + CommitDelay]]

\* The server accepts a refresh token once: it answers with a new pair.
Rotate(a, seen) ==
    /\ seen \in valid[a]
    /\ issued[a] < MaxIssue
    /\ issued' = [issued EXCEPT ![a] = @ + 1]
    /\ valid' = [valid EXCEPT ![a] = (@ \ {seen}) \union {issued[a] + 1}]

ServerRotates(p) ==
    /\ Answered(p, "answered", issued[job[p].acct] + 1)
    /\ Rotate(job[p].acct, job[p].seen)
    /\ UNCHANGED <<clock, store, stale, lost>>

\* invalid_grant
ServerRejects(p) ==
    /\ Answered(p, "rejected", 0)
    /\ job[p].seen \notin valid[job[p].acct]
    /\ UNCHANGED <<clock, store, issued, valid, stale, lost>>

\* A network error, a 5xx or the HTTP timeout; the server never saw the request.
RequestFails(p) ==
    /\ Answered(p, "failed", 0)
    /\ UNCHANGED <<clock, store, issued, valid, stale, lost>>

\* The server rotated the token, and the answer never arrived.
ResponseLost(p) ==
    /\ Answered(p, "failed", 0)
    /\ Rotate(job[p].acct, job[p].seen)
    /\ lost' = lost \union {job[p].acct}
    /\ UNCHANGED <<clock, store, stale>>

-----------------------------------------------------------------------------
(* Outcomes                                                                *)

\* Faulty: the locals are dropped while the request is still out.
FinishEarly(p) ==
    /\ pc' = pc
    /\ job' = [job EXCEPT ![p] = NoJob]

Finish(p) ==
    /\ pc' = [pc EXCEPT ![p] = "idle"]
    /\ job' = [job EXCEPT ![p] = NoJob]

\* What the flow of process p writes over record r after a successful refresh.
Persisted(p, r) ==
    LET c == [seen |-> job[p].seen, lease |-> job[p].lease]
        new == job[p].answer
    IN  CASE Kind[p] \in {"acquire", "menu"} -> PersistUnderLease(r, c, new, clock)
          [] Kind[p] = "quota" -> PersistQuota(r, c, new, clock)
          [] Kind[p] = "proactive" -> PersistProactive(r, c, new, clock)
          [] Kind[p] = "reactive" -> PersistReactive(r, c, new, clock)

\* ... and after a failed one.
Released(p, r) ==
    LET c == [seen |-> job[p].seen, lease |-> job[p].lease]
        terminal == pc[p] = "rejected"
    IN  CASE Kind[p] = "acquire" -> ReleaseAcquire(r, c, terminal, clock)
          [] Kind[p] = "proactive" -> ReleaseProactive(r, c, terminal, clock)
          [] Kind[p] \in {"menu", "quota"} -> ReleaseMenu(r, c, clock)
          [] Kind[p] = "reactive" -> ReleaseReactive(r, c)

\* A claim the proactive tick finds it has lost is not tried again in this tick.
NoteStale(p, r) ==
    stale' = IF /\ Kind[p] = "proactive"
                /\ r.present
                /\ ~Mine(r, [seen |-> job[p].seen, lease |-> job[p].lease])
             THEN [stale EXCEPT ![p] = @ \union {job[p].acct}]
             ELSE stale

\* The new pair of an account that was disabled meanwhile is thrown away.
Succeed(p) ==
    /\ pc[p] = "answered"
    /\ LET a == job[p].acct
       IN  /\ store' = [store EXCEPT ![a] = Persisted(p, @)]
           /\ NoteStale(p, store[a])
           /\ lost' = IF /\ store[a].present /\ ~store[a].enabled
                         /\ store[a].token = job[p].seen
                      THEN lost \union {a} ELSE lost
    /\ Finish(p)
    /\ UNCHANGED <<clock, issued, valid>>

(***************************************************************************)
(* The save of the new pair throws and leaves the store as it was: the     *)
(* request path and the menu catch that like a failed refresh and go on to *)
(* release the claim.  In the other flows it ends the run (Crash).  A save *)
(* that throws after its rename is Succeed: the release then finds nothing *)
(* of the claim.                                                           *)
(***************************************************************************)
Catching == {"acquire", "menu", "quota"}
SaveThrows(p) ==
    /\ pc[p] = "answered" /\ Kind[p] \in Catching
    /\ pc' = [pc EXCEPT ![p] = "failed"]
    /\ job' = [job EXCEPT ![p].answer = 0]
    /\ lost' = lost \union {job[p].acct}
    /\ UNCHANGED <<clock, store, issued, valid, stale>>

Fail(p) ==
    /\ pc[p] \in {"rejected", "failed"}
    /\ LET a == job[p].acct
       IN  /\ store' = [store EXCEPT ![a] = Released(p, @)]
           /\ NoteStale(p, store[a])
    /\ Finish(p)
    /\ UNCHANGED <<clock, issued, valid, lost>>

\* The process dies between two saves, or a save throws and nobody catches it;
\* the lease stays behind.
Crash(p) ==
    /\ pc[p] # "idle"
    /\ lost' = IF pc[p] = "answered" THEN lost \union {job[p].acct} ELSE lost
    /\ stale' = [stale EXCEPT ![p] = {}]
    /\ Finish(p)
    /\ UNCHANGED <<clock, store, issued, valid>>

-----------------------------------------------------------------------------
(* The users of the store                                                  *)

(***************************************************************************)
(* persistOAuthTokensForMode, for a new account or over an old one.  A     *)
(* lease is known by its expiry in milliseconds; a login takes a browser   *)
(* round trip, so no claim of a running refresh carries its timestamp.     *)
(***************************************************************************)
Login(a) ==
    /\ issued[a] < MaxIssue
    /\ \A p \in Proc : pc[p] \in Refreshing /\ job[p].acct = a => job[p].stamp < clock
    /\ issued' = [issued EXCEPT ![a] = @ + 1]
    /\ valid' = [valid EXCEPT ![a] = @ \union {issued[a] + 1}]
    /\ store' = [store EXCEPT ![a] = [present |-> TRUE, enabled |-> TRUE,
                                      token |-> issued[a] + 1, expires |-> clock + TokenLife,
                                      cooldown |-> 0, lease |-> 0]]
    /\ lost' = lost \ {a}
    /\ UNCHANGED <<clock, pc, job, stale>>

\* onToggleAccount and the toggle tool.
Toggle(a) ==
    /\ store[a].present
    /\ store' = [store EXCEPT ![a].enabled = ~@]
    /\ UNCHANGED <<clock, issued, valid, pc, job, stale, lost>>

\* onDeleteAccount, onDeleteAll and the remove tool.
Remove(a) ==
    /\ store[a].present
    /\ store' = [store EXCEPT ![a] = Absent]
    /\ UNCHANGED <<clock, issued, valid, pc, job, stale, lost>>

\* setAccountCooldown after a 429.
RateLimited(a) ==
    /\ store[a].present /\ store[a].enabled
    /\ store' = [store EXCEPT ![a].cooldown = clock + FailureCooldown]
    /\ UNCHANGED <<clock, issued, valid, pc, job, stale, lost>>

-----------------------------------------------------------------------------
ProcessStep(p) ==
    \/ \E a \in Accounts : AcquireSelects(p, a) \/ ProactiveClaims(p, a) \/ OtherClaims(p, a)
    \/ AcquireClaims(p) \/ ProactiveTickEnds(p)
    \/ ServerRotates(p) \/ ServerRejects(p) \/ RequestFails(p) \/ ResponseLost(p)
    \/ Succeed(p) \/ SaveThrows(p) \/ Fail(p) \/ Crash(p)

UserStep(a) ==
    AcquireFindsNoRefresh(a) \/ Login(a) \/ Toggle(a) \/ Remove(a) \/ RateLimited(a)

Next ==
    \/ Tick
    \/ \E p \in Proc : ProcessStep(p)
    \/ \E a \in Accounts : UserStep(a)

Spec == Init /\ [][Next]_vars

-----------------------------------------------------------------------------
(* Properties                                                              *)

TypeOK ==
    /\ clock \in Nat
    /\ store \in [Accounts -> Record]
    /\ issued \in [Accounts -> Nat]
    /\ valid \in [Accounts -> SUBSET Nat]
    /\ pc \in [Proc -> PCs]
    /\ job \in [Proc -> Job]
    /\ \A p \in Proc : pc[p] # "idle" => job[p].acct \in Accounts
    /\ stale \in [Proc -> SUBSET Accounts]
    /\ lost \subseteq Accounts

Holding(p, a) == pc[p] \in Refreshing /\ job[p].acct = a

\* No two refreshes of one account are under way with the same refresh token:
\* the lease deduplicates refreshes across processes and flows, whatever
\* users do to the store in between.
OneRefreshPerToken ==
    \A a \in Accounts : \A p, q \in Proc :
        Holding(p, a) /\ Holding(q, a) /\ p # q => job[p].seen # job[q].seen

\* A stored refresh token the server no longer accepts is about to be replaced:
\* the process that used it holds the new pair and the account's lease, unless the
\* answer was lost, its reader crashed, the save of the new pair threw, or the
\* account was disabled meanwhile.
NoTokenLost ==
    \A a \in Accounts \ lost :
        store[a].present /\ store[a].token # 0 =>
            \/ store[a].token \in valid[a]
            \/ \E p \in Proc :
                  /\ Holding(p, a)
                  /\ pc[p] = "answered"
                  /\ job[p].seen = store[a].token
                  /\ job[p].lease = store[a].lease
                  /\ job[p].answer \in valid[a]

\* A refresh never puts an older pair over a newer one, a login's for instance.
NeverRollsBack ==
    [][\A a \in Accounts : store'[a].present => store'[a].token >= store[a].token]_vars

\* An account that is and stays disabled keeps its tokens: no automated flow
\* that was already refreshing it writes to it.
DisabledKeepsTokens ==
    [][\A a \in Accounts :
          store[a].present /\ ~store[a].enabled /\ store'[a].present /\ ~store'[a].enabled
            => store'[a].token = store[a].token]_vars

\* The last step of a refresh disables an account.
AutoDisables(a) ==
    /\ store[a].enabled /\ store'[a].present /\ ~store'[a].enabled
    /\ \E p \in Proc : Holding(p, a) /\ pc'[p] = "idle"

\* Refreshing disables an account only if its stored refresh token is useless, and
\* that only happens to an account whose rotated token got lost: racing flows
\* alone never disable a healthy account.
NoSpuriousDisable ==
    [][\A a \in Accounts :
          AutoDisables(a) => a \in lost /\ store[a].token \notin valid[a]]_vars
=============================================================================
