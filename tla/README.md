# A verification development for opencode-codex-auth

opencode-codex-auth is an OpenCode plugin that serves OpenAI requests from several ChatGPT
accounts. Any number of OpenCode processes share one auth store, `codex-accounts.json`. Each
process selects an account per request, refreshes OAuth tokens in the background, on demand and
from an interactive menu, moves accounts in and out of rotation as quotas run out, and rewrites
each request for the catalog of the account that was picked.

The specifications here model that machinery in TLA+. TLC checks them on small instances, and
TLAPS proves the main results for every value of the constants.

Contents: [Inventory](#inventory), [Modules](#modules), [Runs](#runs), [Findings](#findings),
[Proofs](#proofs), [Known traits](#known-traits), [Not modelled](#not-modelled).

## Inventory

| Component | State it keeps | Operations | What must hold |
|---|---|---|---|
| Auth store (`lib/storage.ts`, `lib/storage/auth-state.ts`) | accounts of two modes (native, codex): tokens, identity, expiry, cooldown, lease, enabled, active pointer | locked save (read, normalise, update, write), unlocked snapshot, migration, import | no update is lost; a record never mixes two accounts; reading what was written changes nothing |
| File lock, atomic writes (`lib/cache-lock.ts`, `lib/cache-io.ts`, `lib/quarantine.ts`) | lock directory, temporary files, quarantine directory | lock with retries, write, sync, rename, quarantine of corrupt files | one holder; readers see an old or a new file, also after a crash |
| Refresh flows (`acquire-auth.ts`, `proactive-refresh.ts`, `reactive-refresh.ts`, `auth-menu-flow.ts`, `auth-menu-quotas.ts`) | lease on the account record, claim in memory | claim, refresh over HTTP, write back | a token is refreshed once; rotated tokens are kept; healthy accounts stay enabled |
| Rotation (`lib/rotation.ts`, `lib/account-routing.ts`) | sticky and hybrid session maps and cursors | `selectAccount` | only eligible accounts; a session stays with its account |
| Request acquisition (`acquire-auth.ts`) | attempted keys, refresh claim | `acquireOpenAIAuth` | fails only when nothing is usable; ends; leaves no lease |
| Fetch orchestrator and loader (`lib/fetch-orchestrator.ts`, `openai-loader-fetch*.ts`) | attempts of a request, accounts given up, selected token | request, 401 recovery and failover, 429 cooldown and switch | bounded attempts; no rejected token again; quotas charged to the right token |
| Session affinity (`lib/session-affinity.ts`, `session-affinity-state.ts`) | sessions and their accounts, in memory and in a file both modes share | load, prune, queued save | live sessions keep their account; no queued save is dropped |
| Login, tools, menu (`oauth-persistence.ts`, `accounts.ts`, `accounts-tools.ts`, `auth-menu-flow.ts`) | account records, a merged list of rows, a drawn menu | login, switch, toggle, remove | what the user does hits that account in each mode, and sticks |
| OAuth logins (`oauth-server.ts`, `oauth-auth-methods.ts`) | one callback server, one pending authorization, two timers; a device poll | start, callback, timeout, close; poll, slow down | a callback settles its own login; every login ends |
| Plugin lifecycle (`src/index.ts`, `plugin-lifecycle.ts`, `refresh-queue.ts`) | one scheduler variable, timers, a queue, a running flag | boot, tick, stop, dispose | refreshed in time; nothing outlives its invocation |
| Agent execution (`agent-execution.ts`, `ultra.ts`) | role cache, generations, shared lookups | resolve, delete session | no role of a deleted session is used |
| Configuration (`lib/config/*`) | a file of two possible names, its template, a resolved configuration | ensure, find, parse, override, quarantine | the user's file decides; old and new names agree |
| Request transforms (`codex-native.ts`, `request-transform-*.ts`) | notes between hooks, the active catalog | `chat.params`, `chat.headers`, fetch, payload synchronisation | what the host set survives; no default of another account's catalog is sent |
| Model catalog (`model-catalog/*`, `catalog-sync.ts`) | memory, disk and GitHub tiers, shared fetches; the provider's map of models | get a catalog, apply it | fallbacks do not displace better data; the models offered are those of the active catalog |
| Quota alerts and autoheal (`quota-threshold-alerts.ts`, `live-quota-status.ts`) | thresholds warned of, cooldowns, a snapshot file | evaluate a reading, cool down, lift a cooldown | one warning per crossing and period; no cooldown lifted that still counts |
| Client version (`client-identity.ts`, `remote-cache-fetch.ts`) | file, memory, shared refresh | resolve, refresh, follow redirects | never older than before; only allowed hosts |
| Status screens, personas, diagnostics, installer | files of one writer, or none | | see [Not modelled](#not-modelled) |

Components interact through the auth store (shared state under a file lock, read without it by
`acquireOpenAIAuth`), through a few more files of the same kind, and through callbacks: from the
fetch orchestrator into acquisition, recovery and cooldowns, and from OpenCode into the hooks. The
hard behaviours are the interleavings around `await`s (HTTP calls outside the lock, lookups, timers,
hooks of several requests), late and lost answers, processes that die with a lease or half a save,
decisions made on unlocked snapshots, data of one account used for another, and time: leases,
cooldowns and expiries are compared with `Date.now()`.

## Modules

| Module | What it models |
|---|---|
| `AccountLease` | one account record, and the body of every `saveAuthStorage` callback of a refresh flow as a function from the record found to the record written |
| `AuthRefresh` | the store, the clock, the OAuth server and any number of concurrent runs of the five flows |
| `Rotation` | `selectAccount` and `resolveAccountRouting` as operators: strategies, session map with its eviction, routing order, drains |
| `AcquireAuth` | the loop of `acquireOpenAIAuth` for the concurrent requests of one process, over a store that others change; uses `AccountLease` and `Rotation` |
| `FetchOrchestrator` | `FetchOrchestrator.execute` for concurrent calls: attempts, 401 recovery and failover, 429 cooldowns, over the contracts of acquisition and recovery |
| `StoreFile` | a locked save of the accounts file step by step, unlocked readers, quarantine, crashes, power losses, failed operations |
| `AtomicStore` | what `StoreFile` promises: one value that changes by one whole update at a time and loses nothing whose save returned |
| `SessionAffinity` | the session maps of several processes, their queued saves and pruning |
| `AuthState` | the records of both modes: normalisation, migration, merge, import, login, the tools and the menu |
| `PluginLifecycle` | overlapping invocations of the plugin and their refresh schedulers |
| `AgentExecution` | roles of chat turns: cache, generations, shared lookups |
| `BrowserLogin`, `DeviceLogin` | logins over the callback server; the polling of the headless one |
| `Configuration` | starts of several processes over a configuration file that a user edits |
| `RequestSettings`, `RequestScope` | what a request asks of the model (operators); the hooks it passes and the catalogs that change under it |
| `ProviderModels` | the provider's map of models under successive catalogs |
| `QuotaWatch` | quota readings, warnings, cooldowns, and the status command that lifts one |
| `Catalog`, `ClientVersion` | cached data of servers with shared fetches, fallbacks and redirects |
| `MCAuthRefresh`, `MCAcquireAuth`, `MCFetchOrchestrator`, `MCFiles`, `MCProcess`, `MCRecords`, `MCCaches` | instances for TLC |
| `AuthRefreshProofs`, `RotationProofs`, `AcquireAuthProofs`, `FetchOrchestratorProofs` | theorems about one component each |
| `FilesProofs`, `ProcessProofs`, `RecordsProofs`, `CachesProofs` | theorems about the components of `MCFiles`, `MCProcess`, `MCRecords` and `MCCaches`, and about their conjunctions |

How they relate. `AcquireAuth` composes `Rotation` with the record changes of `AccountLease`, which
`AuthRefresh` uses, too. `RequestScope` extends `RequestSettings`. `StoreFile` implements
`AtomicStore`: that is why a locked save may be one step in every other module.
`FetchOrchestrator` takes acquisition and recovery by their contracts, `AuthRefresh` and
`AcquireAuth` are what stands behind these.

`MCFiles`, `MCProcess`, `MCRecords` and `MCCaches` each hold several components that share no
variable. Their variable `part` is chosen at the start, and a behaviour is one of that part while
the others keep their initial state: every part is checked as if alone, without the product of the
state spaces. A property of such a run is the conjunction of properties of its parts where these
ask the same kind of question; the tables under [Runs](#runs) take them apart.

Definitions marked `Faulty` in the modules are what a plausible mistake would make of the definition
after them. No specification uses them: put in its place they show that the properties notice.

### AccountLease and AuthRefresh

A saved record is `[present, enabled, token, expires, cooldown, lease]`. The access and refresh
tokens of an account are always written together, so one number stands for the pair: the order in
which the server issued it. `Mine` is the ownership test of every write-back (same lease, same
refresh token). The five flows differ in what they check before they claim (`AcquireMayClaim`,
`ProactiveMayClaim`, `MayClaim`), in whether they look at the clock again when they commit
(`PersistUnderLease` does, `PersistProactive` and `PersistReactive` do not), and in what they do on
failure (`ReleaseAcquire` and `ReleaseProactive` disable after an `invalid_grant`, the menu cools
down, the recovery only drops its lease).

A process of `AuthRefresh` is one run of a flow; a step is one locked save or one event of its HTTP
request. `pc` goes `idle -> (selected ->) sent -> answered | rejected | failed -> idle`. The request
path has an extra `selected` state, because it claims with the token and the `now` of an earlier
unlocked read; the proactive tick remembers the accounts whose claim it lost (`stale`). The OAuth
server (external) accepts a refresh token once and answers with a new pair; an answer can be lost, a
process can crash, and users log in, toggle, remove and hit 429s at any time. `lost` is a history
variable: the accounts whose rotated pair cannot reach the store any more, because the answer was
lost, its reader died, the save of the pair threw, or the account was disabled while it was
refreshed. `SaveThrows` is that save: the request path and the menu catch it like a failed refresh,
release the claim and cool the account down (acquire-auth.ts:525-558, auth-menu-flow.ts:302-317,
auth-menu-quotas.ts:242-245); in the other flows it ends the run, which is `Crash`.

Left out of these two modules: the auth mode (an account of the model is an identity in a mode),
`activeIdentityKey` and `lastUsed`, identities completed from token claims (`AuthState` has them),
which account the rotation prefers (any eligible one may be selected), and the batch refresh of the menu's transfer. A locked
save is one atomic step, as `withFileLock` and the rename make it (`StoreFile`).

### Rotation and AcquireAuth

Accounts are the numbers of `Keys` in stored order. `KeyRank` is their order under `localeCompare`,
the tie-break of the hybrid strategy at its cursor, and `CodeRank` that under `<`, which breaks the
ties of a selection without a session (rotation.ts:233, :377). A session state is the pair of
`StickySessionState`: the map as a sequence of entries in insertion order (`Assign` drops the oldest ones beyond `MaxSessions`) and the
cursor. A selector of the routing policy is the set of accounts it matches, and counts only if it
matches exactly one of the accounts offered. `SelectAccount` is the code's chain of returns: no
eligible account, the session's own account, then `NewAssignment` with drains, order, cursor and the
strategy's default.

A request of `AcquireAuth` is one call of `acquireOpenAIAuth`. Its phases end where the code awaits:

| Phase | Action | Code |
|---|---|---|
| `idle` | `Begin` | the call, with the keys its caller gave up (`avoidIdentityKeys`) |
| `load` | `Load` | the unlocked `authSnapshot`, with the cooldowns of exhausted quotas added |
| `bench` | `Bench` | the locked save of these cooldowns |
| `select` | `Select` | the selection, then one of the next three phases, an answer or a stop |
| `touch` | `Touch` | the locked save behind a fresh token (active account, `lastUsed`) |
| `park` | `Park` | the locked save of a cooldown for an account without a refresh token |
| `claim` | `ClaimLease` | the locked claim, taken or lost |
| `refresh` | `RefreshSucceeds`, `RefreshFails` | the HTTP refresh and the locked save after it |
| `final` | `Conclude` | the last unlocked read and the classification of the failure |

`req` holds the locals that live across awaits: the keys tried, the number of accounts in the last
snapshot, the candidate, the token and time of the snapshot, the lease, the failures seen. The record
changes of a claim and of a refresh are the operators of `AccountLease`, the same `AuthRefresh` uses.

Others act between any two phases: `PeerClaims`, `PeerRefreshes` (flows of other processes),
`RateLimited`, `Toggle`, `Remove`, `Login`. `Meddling` says which of them an instance has.

Abstractions, and why they are sound for the properties:

- `lastUsed` is a rank, the highest for the latest use; only its order is read.
- `active` is normalised (`Healthy`) whenever records change; the code normalises on every read and
  save before it uses the pointer.
- Quota snapshots are a constant: for each account, when its exhausted quota resets, or 0.
- The session map starts empty or as restored from disk with one session (`Restored`); writing it to
  disk is in `SessionAffinity`.
- Every account has an identity key, and a login is one to a stored account.
- A new pair is numbered one above the pair it replaces. `AuthRefresh` has the server's numbering.
- Loads and saves do not throw. One that does outside of the refresh ends the request with an error at
  once, healthy accounts or not, and a claim it had stays until it expires; see
  [Known traits](#known-traits).

`usable` and `homed` are history variables that only properties read: the accounts that were usable
(fresh token, no obstacle) at every moment since a request began, and the account its session had
when it began, while it is the only request of that session.

### FetchOrchestrator

A call is one run of `execute`; `call` holds the locals that live across awaits. Its phases:

| Phase | Actions | Code |
|---|---|---|
| `idle` | `Begin` | the call, up to its first attempt |
| `acquire` | `Acquire`, `LoseCandidate`, `AcquireFails` | `acquireAuth`: an answer, a candidate lost to a failed refresh, or an error |
| `send` | `SendEnds`, `SendExpires`, `SendIsLimited` | the request, and its answer: the caller's, a 401 `token_expired`, or a 429 |
| `recover` | `RecoverConverges`, `RecoverRefreshes`, `RecoverFails` | `recoverTokenExpired`: a newer token from the store, one it refreshed, or none |
| `cool` | `Cool` | `setCooldown`, then the next attempt or the end of the loop |
| `answered`, `expired`, `limited`, `failed` | | what the caller gets: the answer, the 401, the synthetic 429, an error |

`attempt`, `avoid` (`tokenExpiredIdentityKeys`), `recoveryAttempted`, `failoverScheduled` and
`awaitingFailover` are the code's variables. `stamp` is the `now` of the attempt, which the cooldown
of a 429 is counted from. `picked` is `selectedAuthForQuota` of `openai-loader-fetch.ts`.

Others act between any two phases: the server expires tokens (`Expire`), other processes or the
refresh tick claim an account, refresh it, fail to, or die with the lease (`PeerClaims`,
`PeerRefreshes`, `PeerFails`), users enable and disable (`Toggle`). `Meddling` selects among them.

Abstractions:

- `Acquire` may answer with any eligible account that is not to be avoided, with its stored token or
  with a refreshed one. `AcquireAuth` models which account it is. `failed` stands for all its errors but
  the two that end an awaited failover with the 401.
- Recovery is one step with its answer. Its claim and write-back are in `AuthRefresh`; that stored
  tokens never go back is `NeverRollsBack` there, and here tokens are numbered as they are issued.
- A request may end, be limited or, if its token is expired, be rejected. All other statuses are the
  caller's answer. Redirects, toasts, session events and the hooks around a request are left out:
  the hooks swallow their errors or end the call as `failed`.
- Time: 5 s and the cooldowns of failed refreshes are one tick each, Retry-After comes from small sets.

History variables that only properties read: `told` (until when the saved 429s of an account asked to
wait), `rejected` and `tried` (the tokens a call saw rejected, the accounts it used), `usable` (the
accounts that stayed eligible since it began).

### StoreFile and AtomicStore

A saver goes `idle -> lock -> owner -> read -> write -> sync -> rename -> dirsync -> release -> idle`,
one step per operation of the file system in `withLockedFile`, `saveAuthStorage` and
`writeJsonFileAtomic`. A read that finds the file corrupt goes to `quarantine`, and so does an
unlocked reader, which moves whatever the path names by the time of its rename. `file` is what the
path names, `disk` what it names after a loss of power; contents are the set of updates applied,
whether they parse, and whether they were synced. `returned` records the updates whose save
returned without an error.

The lock is modelled by the steps of the repository's own `lockWithDirectoryFallback`.
`proper-lockfile`, used where it can be imported, is external: it makes and removes a directory, too,
and takes over one that is no longer refreshed (`ClearLock`). A holder that is alive is assumed to
refresh it in time. Faults (`MaxFaults` of them) are a failed operation, a crash, a power loss, and an
edit that leaves something unreadable.

`AtomicStore` has five actions: apply one update to what is there or was put aside, return, spoil, put
aside, and fall back after a power loss to contents that miss nothing whose save returned. The
refinement mapping forgets the steps: `contents` is `Whole(file)` and `aside` the set of `Whole` of
what was put aside, where `Whole` drops the mark of syncing. Read, write to the temporary file, sync
and the lock map to stutters; the rename is `Apply`, the release `Return`.

### SessionAffinity

A process has its sessions with the time they were last seen, their accounts, and `stage`, which
tells where its job is: looking up the file of one session after the other, saving, or idle.
`Persist` is one step of that job. A job works on the keys it copied at its start, and `due`
counts the saves queued behind it. `errorLogged` is set by a failed save. `OnRead` is what a read of
the file gives: what is there, or, if it cannot be read or parsed, an empty file
(session-affinity.ts:200-219). A save over the latter drops the other mode's record, which the history
variable `erased` remembers until that mode saves again. Sessions come
and go as files of OpenCode; `MissingGrace`, `SessionTTL` and `MaxKeys` are the code's bounds, shortened.

### AuthState

Each write is one step, as it runs under the lock and ends with a normalisation (`Save`). An
identity (account id, e-mail, plan) is one value, known whole or not at all; an incomplete one keeps
its `part`. Keys are identities, odd keys of older versions, and generated ones (`Fallback`). Two
`part`s, three refresh tokens with an `Owner`, and two expiries are enough for every branch of the
matches: by key, by identity, by refresh token, and ambiguous ones. `Refreshed` stores a new refresh
token of the same owner, whose claims may be the first to name the account; one for a request or of
the menu makes the account the active one. It, `Login`, `Import`, the
tools by row number of the merged list and the menu on rows that were drawn earlier (`shown`) are
the writers. `last` is the last write, for the properties.

### PluginLifecycle, AgentExecution, BrowserLogin, DeviceLogin, Configuration

- `PluginLifecycle`: `Boot`, `StartScheduler`, `Initialised`, `InitFails` and `Dispose` are what an
  invocation does between its awaits, on the module's one `scheduler` variable (`owner`). `Fire` is
  the interval timer with its queue of one task, `EndRefresh` the end of a tick. `Advance` may not
  pass a timer that is due, nor a refresh beyond `LongestRefresh`.
- `AgentExecution`: `ResolveAtOnce` answers from the cache or the agent's name; `ResolveByLookup` joins a
  pending lookup or starts one; `Learn` is OpenCode's answer with the code's check of the
  generation, `CloseLookup` the end of a lookup, `Resolve` the continuation of a waiting turn.
  `DeleteSession` bumps the generation.
- `BrowserLogin`: `Start` binds the server or reuses it, `LoginStep` collects the steps that go on by
  themselves (bind, prepare, exchange, settle, time out), `Callback` and `CallbackFails` come from a
  browser, `Close` is the closing timer. `Adverse` names three schedules that need a race of seconds or
  less against minutes: a callback within the last 15 s of its ten minutes, two logins that begin
  within the milliseconds of a bind, a closing timer of 2 s that fires between `start` and
  `waitForCallback`. The run and the theorem exclude them; with them the properties fail.
- `DeviceLogin`: time in units of 5 s; `Poll`, its four answers, the exchange, and a request's timeout.
  The server may ask for any interval (oauth-auth-methods.ts:263); `LongestGap` is the 30 s of :332. The
  body of an answer is taken to come with its headers, and intervals that `setTimeout` cannot hold
  (2^31 ms) are left out.
- `Configuration`: a start makes the template where no file is (mkdir, open, write), then reads the
  file there is, quarantines a legacy one where both are, and resolves it with the environment. A
  file is `Nothing`, `Torn` (opened, still empty), the template or a document. Settings read by their
  own name alone are represented by the runtime mode.

### RequestSettings, RequestScope, ProviderModels

`RequestSettings` has the merges of `chat.params` (host, configuration by model and variant, catalog),
Ultra's wire effort, the instructions with their delegation paragraph, and what
`applySelectedCatalogScopeToPayload` and the payload transformation do when the request is sent. A
text of instructions is whose it is, whether it has the tool names of a build agent, and whether it
tells to delegate. `RequestScope` runs them: a request is `idle -> agent -> params -> headers -> catalog ->
selected -> sent | fatal -> done`, one step per stretch between awaits, and may be sent again after a
rejection. Its note from params to headers waits in a queue under its message. Others set
catalogs, and a deleted session (`SessionDeleted`) or a request of another provider
(`OtherProvider`) drops the notes that wait.

`ProviderModels` keeps the host's map. `Apply` is `applyCodexCatalogToProviderModels`: entries, custom
models, pruning, aliases, in the code's order, on the map the application before left. `Configure` is
the config hook. A model is the host's or ours, and has its context, efforts and text.

### QuotaWatch, Catalog, ClientVersion

- `QuotaWatch`: one account, two windows. `Answer` schedules a refresh as the loader does, a job
  fetches, evaluates, stores and cools down (`JobStep`), the status command asks, stores and lifts
  (`ProbeStep`); `Consume` and `Tick` are the server and time. Times are distances, so that nothing
  grows. A reading shows one window or both (`Shows`). Where the five-hour one is left out, the first
  limit, the weekly one, stands in for it (`Source`); of a weekly one left out, what was known stays
  (`Tracked`). The command looks at the windows it is shown only (`Available`). History: `warned`, the
  thresholds warned of since the window's reset; `mixed`, the windows another one was taken for since
  then; `since`, the exhausted windows that a command which may lift is shown. An answer that shows no
  window is no reading (codex-quota-fetch.ts). A refresh is assumed to end within `FetchLimit`, though the
  code aborts its fetch only until the headers are there (codex-quota-fetch.ts:186-194): the body (:204),
  the locked save and the toasts are not timed.
- `Catalog`: callers of one account id and the plugin's own start share memory, file and the fetch
  under way; `CallStep` is the stretch between two awaits of `getCodexModelCatalog`. A time to live ends
  at any time (`Elapse`).
- `ClientVersion`: the file, the copy in memory, a refresh by API and then by web page, each through
  `fetchRemoteText` with its own redirects, with callers joining. All processes write the one file,
  without a lock: `PeerSaves` is another process's save, of a release as old as its own request.
  `fetch.was` is the version a refresh puts back into memory when it fails. `peered` is history: the
  file was written by another process since this one wrote it, read it or started.

## Runs

| Run | What it asks |
|---|---|
| `refresh_flows` | all five refresh flows, one process each, on one account: all six properties |
| `acquire_sticky` | two requests of one session, pid offsets, every kind of change by others but removal |
| `acquire_hybrid` | two sessions, LRU order, a routing order, a drained account, an exhausted quota |
| `acquire_ends` | a round-robin request among two changes of any kind: it ends |
| `orchestrator_overlap` | two overlapping calls, one expiry, lease or toggle by others: the safety properties |
| `orchestrator_single` | one call, two expiries, cooldowns of different lengths: it ends and sits them out |
| `files` | the shared files: `StoreFile` (part `store`), `SessionAffinity` (`affinity`) |
| `process` | the memory of a process: `PluginLifecycle` (part `plugin`), `AgentExecution` (`agents`), `BrowserLogin` (`login`), `DeviceLogin` (`device`), `Configuration` (`config`) |
| `records` | what is made of records: `AuthState` (part `accounts`), `RequestScope` (`alone`, `pair`), `ProviderModels` (`models`) |
| `caches` | what is learnt from servers: `QuotaWatch` (part `quota`), `Catalog` (`catalog`), `ClientVersion` (`version`) |
| `requests_ultra`, `models_authoritative` | violations: the two [findings](#findings) |

### refresh_flows

- `OneRefreshPerToken`: no two refreshes of one account are under way with the same refresh token.
- `NoTokenLost`: a stored token the server no longer accepts is about to be replaced by the process
  that used it, unless the account is in `lost`: a lost answer, a crash, a save of the new pair that
  threw, a disable.
- `NeverRollsBack`: no step puts an older pair over a newer one.
- `DisabledKeepsTokens`: an account that is and stays disabled keeps its tokens.
- `NoSpuriousDisable`: a refresh disables an account only if its stored token is useless, and that
  happens only to accounts in `lost`.

Bounds: one account (accounts interact only through `stale`, which never lets a claim happen),
five processes, one per flow, a clock of 9 ticks, three issued pairs. Leases of 30 s and 120 s are 4
and 8 ticks and a refresh lasts at most 3, so one run sees a claim, its expiry and the whole life of
the claim that follows it, and a late commit after each. The clock and the issue bound stop every
behaviour, so deadlock is not checked.

### acquire_sticky, acquire_hybrid, acquire_ends

- `FailsOnlyWhenExhausted`: a request fails only if no account was usable from its start to its end,
  those that the policy drains apart. docs/multi-account.md:156 promises it. The runs leave removals
  and ambiguous selectors out; see [Known traits](#known-traits).
- `NoLeakedLease`: a live lease taken by this process belongs to a request that is refreshing.
- `SessionKeepsAccount`: a request of a session that has an account gets that account if it stays
  usable (docs/multi-account.md:79). The runs keep the sessions within `MaxSessions`: beyond it the
  code evicts the oldest insertion, in use or not.
- `DrainsOnly`: no session is newly assigned to a drained account.
- `Terminates`: a request that has started ends.

Bounds: two accounts, enough for a first choice to be lost and a second to be tried, for both orders
of LRU and for a selector to match one or both; two requests, one or two sessions; a clock of two
ticks with leases of one and two, so that leases, cooldowns and quotas run out while a request is
under way; one change by others at any point (two in `acquire_ends`). A request ends and is not
started again, so the behaviours stop and deadlock is not checked.

### orchestrator_overlap, orchestrator_single

- `NeverResendsRejected`: a call never sends a token that it has seen rejected with a 401.
- `ExpiresOnlyWithoutFallback`: a 401 is passed on only if the attempts are used up, two accounts
  failed, or no other account stayed eligible.
- `ChargedToItsToken`: the quota of an answer is charged to the token that got it.
- `SitsOutCooldowns`: no call is given an account before the end of the cooldowns saved for it.
- `Terminates`: a call that has started ends.

Bounds: two accounts and the code's three attempts, so a recovery, a failover and
a 429 can follow each other in every order that fits; two calls; tokens up to 2 or 3, enough for a
rejected token, the recovered one and one more. `orchestrator_overlap` stops the clock, so cooldowns
last to the end; `orchestrator_single` lets them run out, and a Retry-After date in the past leaves
none. Accounts and calls are interchangeable, so symmetry is used except for liveness.
`SitsOutCooldowns` is asked of one call without peers. Calls end and are not started again;
deadlock is not checked.

### files

| Property | Holds of | Says |
|---|---|---|
| `OneSaverInside` | store | two savers are never between making and removing the lock directory |
| `SavesAreAtomic` | store | the stepwise saves implement `AtomicStore`, whatever fails, crashes or loses power |
| `FilesSound` | both | types; `NeverTorn`: the path never names half a file; `LockIsLetGo`: without faults no lock is left behind; `SettledIsOnDisk`: once a process's queue is empty and its last save did not fail, the file has its sessions' accounts, unless a save of the other mode could not read the file and dropped them since |
| `KeepsLiveSessions` | affinity | a session loses its account only to make room, or when its file is missing beyond the grace |
| `EveryQueueDrains` | affinity | queued saves are carried out, failed ones do not hold up the queue |

Bounds: two savers with two saves each and two updates, so that a save meets every step of another
one and its own update again; one reader; one retry; two faults, so that a fault meets the recovery
from another one. Two processes of different modes, one session and account, three uses and one,
a clock of two ticks against a grace of one and a lifetime of two. The bounds on saves and uses end
the behaviours; deadlock is not checked.

### process

| Property | Holds of | Says |
|---|---|---|
| `SchedulersServe` | plugin | an ended invocation leaves no timer (`EndedIsSilent`), a scheduler refreshes within two periods (`RefreshedInTime`) and is stopped by its own end or a new start only (`StoppedByOwnEnd`) |
| `NoStaleRole` | agents | a turn is told a session's role only if it is its role at that moment |
| `LoginIsServed` | login | a waiting login is the pending one, the server listens, and a code is exchanged with the redirect URI its authorize URL had |
| `LoginsSettle` | login | every login ends, the server is closed again and again |
| `DeviceKeepsTime` | device | the polling ends in time (`DeviceEndsInTime`), and becomes faster only where a `slow_down` brings a gap above 30 s down to 30 s (`NeverHastier`) |
| `ConfigurationIsTheUsers` | config | a process runs with the best of the files while nobody changes them (`UsesWhatIsThere`); the template goes only where no file of the user's was (`TemplateOnlyWhereNone`) |
| `ProcessSound` | all | types; cached roles are proven and lookups shared (`RolesAreProven`); deprecated names of a setting agree with the new ones (`AliasesAgree`) |

Bounds: two invocations with an interval of two ticks, refreshes of up to five and a clock of nine, so
that a refresh outlasts its timer twice; three turns and lookups of one session with one deletion, so
that a lookup from before it, one from after it and a turn that joins them coexist; three logins on
two hosts, so that the closing timer one leaves behind meets the next two; device intervals of one,
two, four and eight units, the last above the longest gap of six, with a patience of 20; two starts, one edit, three documents (right in old and new
names, wrong in one value, custom models). Invocations, turns, logins, starts are used once;
deadlock is not checked.

### records

| Property | Holds of | Says |
|---|---|---|
| `StoredIsNormal` | accounts | normalising what any writer left gives it back |
| `AccountsAreKept` | accounts | an import leaves every account one of its owner with tokens as late, and changes nothing when it is repeated, if no key is two owners' (`KeysOwned`) and, for the second, the installation has one account of each owner (`OwnersDiffer`) and no two records share a refresh token (`Shared`); a login leaves its account enabled, active and with its tokens |
| `WritesHitTheirRow` | accounts | while keys tell the records of a mode apart (`KeysTell`; for a removal also `OneKeyEach`), switch, toggle and removal by row reach that account in every mode, are still there after the next merging and spare the others; a deletion from an old menu removes only what its row showed |
| `TakesOwn` | alone, pair | of two requests of one message neither takes the other's note while its own waits |
| `RecordsSound` | all | types; `OwnersAreNamed`: identity and key are those of the tokens' owner; `RequestSound`: what the host set survives, no default of another account is sent, delegation, summaries and encrypted reasoning fit; `MadeOfCurrentCatalog`: what comes from the catalog is what that catalog alone makes of it; `NoUltraWhenOff` |

Bounds: two identities, three refresh tokens and two expiries, two writes on each of six stores (empty,
migrated, both modes, shared tokens, incomplete identities, odd keys) and four older installations:
two writes are what a stale menu and a repeated import need. The hypotheses above are what a third
write or another installation would break ([Known traits](#known-traits)); most of the stores here satisfy
them, and the theorems below need no bound. One request of each kind against every
change of two accounts' catalogs, with two attempts; two requests of one message without changes. Four
catalogs that add, drop and change a model, three host maps, two custom models, applied in any order
and number. Writes and attempts are bounded; deadlock is not checked.

### caches

| Property | Holds of | Says |
|---|---|---|
| `QuotaIsHeeded` | quota | each threshold is warned of once until the window resets, whatever readings fail or leave the window out, unless another window was taken for it (`WarnedOnce`); the status command lifts no cooldown when it is shown a window exhausted since before it asked (`LiftSparesExhausted`) |
| `BetterIsKept` | catalog, version | an account that asks with its token gets a live catalog unless a fetch failed (`TokenGetsLive`); an older version replaces a newer one only after another process wrote the file, never by a failed refresh or a restart alone (`VersionIsKept`) |
| `EveryoneGoesOn` | catalog, version | whoever waits for a catalog or a version goes on, whatever fails |
| `CachesSound` | all | types; one refresh of a quota (`OneRefresh`) and one fetch of a catalog at a time (`OneFetch`); redirects stay on the allowed hosts within their limit (`AsksAllowedHosts`) |

Bounds: windows that reset after 2 and 4 ticks with thresholds at 1 and 0 steps left, so that a
window is crossed, resets and is crossed again while a refresh is late, with readings of either window
or both; one request at a time, with a
refresh of its own still under way when it ends. One account and the plugin's start ask for the
catalog, so that one joins the other's fetch, and its failure. Two releases, three redirects, two
allowed hosts and a foreign one, and another process that writes the version file. These systems go on for ever by their environment; the parts that stop
are covered by `EveryoneGoesOn`, and deadlock is not checked.

### Fairness

Fairness is given per actor, for the steps its runtime must take, never for users, servers, other
processes or the clock:

| Runs | Weakly fair | Why the code justifies it |
|---|---|---|
| `acquire_ends` | `RequestStep(r)` for each request | every await of the loop is a file operation (bounded by the lock's retries) or an HTTP request with a timeout |
| `orchestrator_single` | `CallStep(c)` for each call | as above, and the request itself ends by the host's own limits |
| `process` | `LoginStep(l)`, `Close` | binding, the exchange (with its HTTP timeout), the timers and the continuations go on by themselves; browsers need not come back |
| `files` | `Persist(p)` | file operations of the event loop; the job has no other await |
| `caches` | `CallStep(c)` of the catalog, `FetchStep` | requests are aborted after their timeout until their headers are there; that their bodies come or fail, too, is assumed, as they are read without one (catalog-fetch.ts:154-172) |

## Findings

`requests_ultra`: docs/configuration.md:150 says the backend receives the configured wire effort and
not the literal `ultra`. The payload is normalised to it first (request-transform-payload.ts:384-395).
For a request made under another account's catalog, `applySelectedCatalogScopeToPayload` (:813-829)
then replaces the injected default effort by the acquired account's, and where that default is
`ultra` the literal goes out.

`models_authoritative`: docs/configuration.md:246 calls account-scoped catalogs authoritative, and
:235 says that a custom model without its target is skipped. `applyCodexCatalogToProviderModels` looks
the target up in the provider map before the models outside the catalog are pruned
(provider.ts:675-679). After a switch to an account whose catalog lacks the target, the custom model
and its aliases stay offered with the metadata of the catalog before. The next application removes
them.

## Proofs

### AuthRefresh

`TypeCorrect` holds for any constants. The other five theorems assume `LeasesOutliveRefreshes`:
every lease is longer than the longest refresh (`Slack`: claim, HTTP, commit), and two leases of
different lengths differ by more than that. The defaults satisfy it: 30 s and 120 s against a 15 s
timeout. Without it they fail, as a second flow then claims while the first still refreshes.

The inductive invariant `IInv` adds to `TypeOK`:

- `Timely`: a process in flight is within the time its current step may take, so its claim's lease
  is still in the future;
- `Ordered`: stored and remembered tokens were issued, and a new pair is younger than the one it
  replaces;
- `Owned`: a refreshing process whose token is still the stored one owns the record's lease;
- `Succession`: a refresh of a replaced token began before anything claimed for the new one;
- `Answers`: an answer in hand is accepted by the server, and what a rejection says.

`OneRefreshPerToken` is not inductive: a claim is only refused because the live lease of the other
process is still on the record, and that follows from `Timely` and `Owned`. `NoTokenLost` needs
`Succession`, and the two disabling properties need `Answers`. The proofs take one step per action
(`QuietStep`, `SelectStep`, `ClaimStep`, `AnswerStep`, `FinishStep`, `LoginStep`, `RemoveStep`).

### Rotation and AcquireAuth

`RotationProofs` needs `RotationConstants` only: the keys are finitely many numbers, and neither
`KeyRank` nor `CodeRank` confuses two of them.

- `ServesEligible`: `SelectAccount` answers if and only if the session's account is eligible or some
  undrained account is; the answer is eligible, and drained only if the session already had it.
- `AssignsUndrained`: the sessions still form a map within its limit (`IsState`), and every entry
  that is new assigns the account served, which is not drained.
- `SparesOthers`: while the sessions fit into the map (`Fits`), a selection changes the entry of its
  own session only, and not even that if its account is eligible.

`Nth` and `NthUsed` are choices of the account with exactly `i` others before it. That there is one
is the pigeonhole argument of lemma `Ranked`: counts of predecessors under a strict total order are
pairwise different numbers below the cardinality, so every such number occurs. `ForgetEffect` and
`AssignEffect` say what removing and appending with eviction keep of a map.

`AcquireAuthProofs`, one lemma per action and theorem:

- `TypeCorrect` says more than types: a session has one entry, the map keeps its bound under every
  interleaving, a snapshot exists exactly in the phases that read it, and a request that touches,
  parks, claims or refreshes has an account.
- `NeverAssignsDrained` (`DrainsOnly`) follows from it and `AssignsUndrained`: only `Select` changes
  the map, and an account that a selector names alone is drained wherever it is offered.
- `LeasesAreGivenUp` (`NoLeakedLease`) has the invariant `LeaseOwned`: a lease on a record is a
  peer's or of the one request that refreshes under it, with that request's claim. A lease found in
  the store at first counts as a peer's.
- `UsableIsTried` (`FailsOnlyWhenExhausted`) has the invariant `Reachable`: what was usable so far is
  untried, promising in the snapshot a selection is made from, and the loop goes on while a stored
  account is untried. Two hypotheses: `NoRemoval`, since the loop stops when the keys tried number the
  accounts left, and `Unambiguous`, since a drain selector that matches several accounts is ignored
  while all of them are offered and counts once only one is left (docs/multi-account.md calls
  ambiguous selectors ignored; acquire-auth.ts:266 resolves them against the accounts untried).
- `SessionsKeepTheirAccount` (`SessionKeepsAccount`) adds `HomeKept`: the map still has the account a
  session began with. Its hypothesis `Roomy` is that the strategy goes by sessions and that the map has
  room for all of them: the code evicts the oldest insertion, in use or not.

### FetchOrchestrator

The theorems of `FetchOrchestratorProofs` hold for any calls, accounts, attempts, Retry-After
values and meddling, under `OrchestratorConstants` (the constants are numbers and sets of numbers, and
a failed refresh cools down for some time); the last one has a hypothesis of its own.

- `TypeCorrect` rests on `Fits`, which ties a call's locals to its phase: running calls are below the
  attempt limit, a recovery always leaves one more attempt, and from `send` on there is a token.
- `NeverResends` needs `Clean`. A rejected token is of an account to avoid, or older than the stored
  one, or the very token being recovered (`Settled`); and a call that has not finished its one
  recovery avoids nobody. The last part makes recovery safe: nothing else keeps the recovered
  account from being one that the call has already given up. Stored tokens only grow (`Grows`), so
  what others do cannot unsettle a token.
- `ChargedCorrectly` is the last conjunct of `Clean`: `picked` is the token in hand in every phase that
  can end with an answer, an awaited failover included.
- `FailsOverFirst` (`ExpiresOnlyWithoutFallback`) has the invariant `Chasing`: the accounts to avoid
  were tried and have a rejected token each, a scheduled failover avoids somebody, the account in hand is
  none of those, and no account that stayed eligible is lost to a failed refresh. Then a second
  rejection after a failover is of a second account, and a call without candidates has tried what
  stayed eligible.
- `CooldownsAreSatOut` (`SitsOutCooldowns`) assumes `Unshared`: calls do not overlap and no other
  process claims. A successful refresh ends the account's cooldown by design, so one by somebody else
  that began before a 429 lets the account in again early. The invariant `Cold` says that an
  account's wait is over or in the store, and over if the call has the account in hand: a 429 then
  never replaces a wait that still counts, though `setAccountCooldown` would.

Each action has a lemma `...Moves` (what it does to the call and the store), and one for each of the
three invariants.

### Files

`FilesProofs` assumes `StoreFileAssumption` and `AffinityAssumption`: the bounds are numbers, the
special values differ, the grace is no longer than the lifetime. The invariant of the store,
`FileInv`, is `FileTypeOK`, `OneSaverInside`, `Durable` and, for every saver, `Holds`, `Prepared` and
`Stored`:

- `Holds(s)`: a saver inside is the owner of the lock, once it has said so. It makes `OneSaverInside`
  inductive: nobody makes a directory that is there, and a release compares the owner.
- `Prepared(s)`: what a saver is about to write contains what the file has, and is built on the file or on
  contents put aside since it was read. Only the lock keeps that true between read and rename.
- `Stored(s)` and `Durable`: what a save stored is in the file or put aside, now and after a loss of
  power; neither `file` nor `disk` ever names contents that were not synced.

`SaversTakeTurns` and `FileIsWhole` follow at once, `LocksAreLetGo` with one more lemma per step.
`SaveImplementsStore` proves the refinement: the initial states map to an initial state of
`AtomicStore`, and every step to one of its steps or a stutter, one lemma per kind of step.

Of session affinity, `Typed` is types and the order of the queue. What a process puts into its maps and
what it prunes are described by lemmas on sequences of entries (`IsPut`, `Changed`, `Without` with `Nth`).

- `SavesReachTheFile` (`SettledIsOnDisk`): `DiskInv` says it of processes that have not started, too.
  It assumes `OneProcessPerMode`; two processes of one mode overwrite each other's record. A mode in
  `erased` is left out until it saves again.
- `LiveSessionsAreKept` (`KeepsLiveSessions`): `LiveInv` says that a job spares what was seen since it
  began (`SparesNew`: what it has found missing was seen lately, if its file is there by now), that its
  lookups are answered in time and its sessions are known (`JobInv`), and that no session has two
  entries. It assumes `Roomy`, room for every session: beyond `MAX_SESSION_KEYS` a session evicted from
  the times seen still has its account, which then has no grace.

`FilesAreSound` puts them together for the instances of `MCFiles`.

### Processes

`ProcessProofs` has the parts of `MCProcess`, each with an inductive invariant:

- `NoRoleIsStale` (`NoStaleRole`), for any sessions, turns, lookups and deletions. `AgentInv` ties the
  places an answer passes: an answer is the session's role as long as the generation in which it was
  asked lasts (`LookupSound`), the pending lookup of a session is of its present generation
  (`PendingSound`), a waiting turn remembers the generation of its lookup (`TurnSound`), a cached role
  is the session's (`RoleSound`). A deletion changes lineage and generation in one step, which keeps
  all four. `RolesStayProven` (`RolesAreProven`) adds that an open lookup of the present generation is
  the pending one.
- `LoginsAreServed` (`LoginIsServed`), for any logins and hosts, under `Adverse = {}`. `LoginInv` adds
  `PendingWaits` (only a waiting login is pending), `OneBinds` and `BindingIsShown`, and `ServerStays`:
  from the moment it has its redirect URI until it is answered, a login finds the server at that
  address. The closing timer is why this is not obvious: it is set by the end of one login and fires
  during another one.
- `SchedulersKeepTime` and `SchedulersDoServe` (`SchedulersServe`). `CapturesItsOwn`: an invocation
  with a timer is running, and an enabled one past its boot holds itself; `FiresInTime`: a timer, a waiting task and a tick
  together never leave a gap of two periods. That no other's end stops a scheduler needs
  `OneConfiguration`, under which every invocation `HoldsItsOwn`: if only some invocations of a process enable the refresh, one that does not
  captures a scheduler another one started (src/index.ts:139) and stops it when it ends.
- `DevicesKeepTime` (`DeviceKeepsTime`): the gap between polls and the time left add up (`DeviceInTime`),
  and the gap stays below the longer of the first interval and 30 s (`GapFits`), which is the margin
  by which a login may outlast its patience.
- `ConfigurationsAreTheUsers` (`ConfigurationIsTheUsers`): `StartSound` says, for each point of a
  start, which files its search has passed over and why, as long as nobody edits them. `NamesAgree`
  (`AliasesAgree`) is a fact about `Resolved` for every file and environment.

`ProcessIsSound` is the conjunction `ProcessSound`.

### Caches

`CachesProofs` assumes `QuotaConstants`, `CatalogConstants` and `VersionConstants` (periods and
bounds are numbers, special values differ).

- `QuotasAreHeeded` (`QuotaIsHeeded`): `WarnedInOrder` says that what was warned of is no further than the
  quota is down and than the tracker knows, and that a reading about to be stored is either of the
  window before or no better than what was warned of. `ProbeHolds` follows the status command: what it
  lifts was available in its sample. `Paced`: the age of a refresh and the time to the next add up to the
  period, and a refresh past its fetch has a reading.
- `BetterStays` (`BetterIsKept`): `FailuresAreKnown` ties a fallback to a failed fetch of the caller or
  of the one it joined; `FileIsAhead`: while the file can be kept, it is never behind the copy in memory,
  and a refresh remembers the best version there was.
- `CachesAreSound` is the conjunction `CachesSound`; `OneOwner` is what makes a fetch the only one.

### Records

`RecordsProofs` assumes `AuthConstants` (every refresh token has an owner, expiry times are numbers,
identities are no fallback or odd keys, the files there are at first are honest, see below), `RequestConstants` (at least one attempt,
no request is absent) and `ModelConstants` (the host's own models carry none of the plugin's defaults, two
aliases have two slugs).

- `OwnersStayNamed` and `StoredStaysNormal` (`StoredIsNormal`). `OwnersAreNamed` is not inductive: a record
  without identity gets it from the claims of its token, so `Honest` says of those, too, that they are the
  owner's, and `AuthInv` says it of every record of the store and of the older installation, with
  `Normalise(stored) = stored`. The heart of the proof is that normalising twice is normalising once
  (`NormalHonest`, `ReconcileFits`, `HealFits`, `NormaliseFits`): the active account chosen by `Reconcile` is
  one that `Reconcile` leaves. Then one lemma per match and merge (`UpsertFits`, `ImportAccountFits`,
  `AddRowFits`, `HydratedFits`, `ToolChangeFits`) says that it makes honest records of honest ones. The
  loops over accounts are recursive functions that `Unfolds` unfolds for any length.
- `AccountsStayKept` (`AccountsAreKept`). A login: `LoginSticks` follows the record that `Upsert` makes
  through `Heal`, which leaves a normal record and a usable active account as they are. An import:
  under `KeysOwned` whatever matches is of one owner (`MatchOwner`), so `ImportStep` keeps every record in
  its place, of its owner, with tokens as late. Its repetition: `ImportAgain` shows that an
  account finds the very record it was merged into, which wins again (`PreferredAgain`), and `ImportsSettle`
  that the accounts after it, being other owners', left that record alone.
- `WritesHitRows` (`WritesHitTheirRow`). `GroupEffect` says of the merged list that each row is one of the
  records of its key, and enabled only if one of them is; `HydratedEffect` that under `KeysTell` the keys
  the tools hand out are those of the rows; `DomainMatchEffect` that the record with the row's key is then
  the one that is changed. `MenuIndexShows` says what a row drawn earlier can reach.
- `RequestsAreSound` (`RequestSound`). `ScopeInv` follows a request through its phases: an option that a
  note calls injected is what the note's catalog made of it (`Prepared`, `Noticed`), and from the selection
  on the catalog of `previous` is the one the note was taken under. What the synchronisation then does
  to one option is described once (`IsSynced`, `IsSent`), for every option, setting and catalog.
- `OwnNotesAreTaken` (`TakesOwn`): a note is taken only if it waits alone, so if the request's own waits
  the one taken is its own, or none.
- `UltraStaysOff` (`NoUltraWhenOff`): `Sound` says of every model of a map where it can come from (`Stems`)
  and that it is `Modest`; each stage of `Applied` keeps it.
- `ModelsAreCurrent` (`MadeOfCurrentCatalog`): an application starts from the map of the one before, so the
  invariant `FollowInv` compares two runs of the stages, one on that map and one on an empty one
  (`Agrees`, `FollowsAlone`; one lemma per stage). It has the hypothesis `NamesApart`: a custom model whose
  slug is in a catalog is a copy of a model of that catalog, and the slug of an alias for a long
  context is no catalog's or custom model's. Without the first, a custom model keeps a copy from the
  catalog before (the finding `models_authoritative`); without the second, the alias changes a model of
  the same name ([Known traits](#known-traits)). The instance of `records` satisfies both.

`RecordsAreSound` is the conjunction `RecordsSound`.

### What stays with TLC

Liveness (`Terminates`, `LoginsSettle`, `EveryQueueDrains`, `EveryoneGoesOn`), because the prover has no
fairness reasoning, and the two violations. They are checked on the bounds above.

## Known traits

What the models show and no property forbids, because the code does it and nothing in the repository
says otherwise, or says it loosely.

Refreshing and selecting:

- `CODEX_OAUTH_HTTP_TIMEOUT_MS` has no upper bound; above 30 s a refresh outlives its lease and a second
  flow sends the same token (acquire-auth.ts:17).
- The loop of `acquireOpenAIAuth` stops when the keys tried number at least the accounts now stored: an
  account removed meanwhile makes it stop one account early (acquire-auth.ts:464).
- The policy is resolved against the accounts not tried yet: a selector that matches two accounts and
  does not count starts to count once one of them was tried (acquire-auth.ts:262).
- A request that loses the claim of its only account may report `no_enabled_accounts` (acquire-auth.ts:657).
- The path of a fresh token returns the token of an account that was just disabled (acquire-auth.ts:380).
- A call makes three attempts however many accounts are left (fetch-orchestrator.ts:262):
  docs/development/OPENCODE_V1_17_18_SYNC.md calls the bound intended.
- The cooldown of a 429 counts from the start of the attempt; one as long as Retry-After leaves none
  (fetch-orchestrator.ts:437). `setAccountCooldown` also shortens a longer one (storage.ts:240), and the
  success save of a refresh under way deletes a newer one (proactive-refresh.ts:153).
- An `onAttemptRequest` hook that throws something not fatal leaves the request untransformed
  (fetch-orchestrator.ts:340-362).
- Response bodies are read without a timeout (oauth-utils.ts:145, codex-quota-fetch.ts:204,
  catalog-fetch.ts:154-172).
- A success save that throws loses the rotated pair: the claim is released, the account cooled down, and
  its next refresh may get an `invalid_grant` that disables it (acquire-auth.ts:525-558). Any other save
  or load of `acquireOpenAIAuth` that throws ends the request with `auth_storage_error`, while healthy
  accounts may be left, and leaves its claim to expire.
- A `slow_down` brings a device login that was asked for more than 30 s between polls down to 30 s
  (oauth-auth-methods.ts:263, :332).

One process:

- Two invocations that both stop the scheduler before either starts one leave two running. One whose
  refresh is disabled disposes of the scheduler another one started (src/index.ts).
- The template sets `runtime.mode` to "native", so `OPENCODE_OPENAI_MULTI_SPOOF_MODE` has no effect next to it
  (config/resolve.ts:206). It is written in place, over a file made since the check (config/file.ts:1011).

Files and records:

- A crash leaves the directory lock of the fallback behind for good (cache-lock.ts:112).
- A save that finds its update there already returns without a sync (storage.ts:221).
- Two processes of one mode overwrite each other's affinity record. A save that cannot read or parse the
  file erases the other mode's (session-affinity.ts:200-219); it is back with that mode's next save.
- The file of the client version is shared without a lock. A refresh that fails puts back what the file
  said when it began, also over a newer version that another process wrote meanwhile and memory has
  taken (client-identity.ts:332-338, :356-358, :379).
- A re-import enables an account the user disabled. The menu's toggle flips the record of each mode on
  its own.
- Two records of one key in a domain make the tools do nothing there (accounts-tools.ts:109).
- Two accounts without a key that show the same are one row of the tools, enabled if either is, while
  in their mode they get two keys (accounts-tools.ts:50). If the one that gets the row's key is disabled, a
  switch to the row makes no account active (accounts-tools.ts:211).
- A removal matches by key first: of two records of one identity in two modes, of which one has the
  key of an unknown scheme, it leaves the one in the other mode if that is not the only one there.
- An import repeated adds or changes a record if the installation has two accounts of one owner, or if
  a key of an unknown scheme is two owners' (auth-state.ts:545); then it also may replace one's tokens by
  the other's.

Requests and models:

- A request whose note was dropped takes the one of another request, if that waits alone under the
  message (codex-native.ts:741). It may then go out with a summary and without the encrypted
  reasoning, if the other one was made of a catalog without summaries: `EncryptedFollows`, like
  `HostValuesSurvive`, is asked of requests with their own note or none.
- An unknown default summary of a catalog ends the request with an error instead of being left out.
- A configured value that equals the injected default of the catalog before is replaced, too
  (request-transform-model.ts:597-602). The priority tier survives a change of account.
- The alias `<slug>-1m` overwrites the limits of an unrelated model of that name (provider.ts:375-377).
- `setCatalogModels(undefined)` forgets a catalog that was known (codex-native.ts:487), while the
  provider keeps the models of the last one.
- At most 0.49 % left counts as exhausted. A cooldown for the 5 h window overwrites the longer weekly
  one (openai-loader-fetch-quota.ts:83). The status command lifts a
  cooldown saved after its sample, if no window is exhausted.
- A sample that leaves the exhausted window out lifts the cooldown (live-quota-status.ts:13-20, as
  live-quota-status.test.ts does at :154-193 and :236). Without a five-hour window the weekly one is
  taken for it (quota-threshold-alerts.ts:57): its warnings and crossings come for both, and may come
  again. A reading replaces the stored snapshot, windows it leaves out included.

## Not modelled

- `onTransfer` of the menu: it claims every account at once and refreshes them one after the other. Its
  claims and write-backs are those of the menu's refresh in `AuthRefresh`, in a batch.
- Each poll of the reactive recovery for a refresh by another process, accounts without an identity key
  in the acquisition loop, redirects and toasts of the orchestrator.
- The rewrite of a store that mixes in other providers, the search for older installations, the limit on
  quarantined copies, copies across devices.
- Of requests: input items, the compatibility sanitizer, prompt cache keys, headers, URLs and request
  snapshots. They are transformations of one value without a second actor.
- Parsing of quota, catalog and policy files, quotas under other names than the two windows, prices,
  capabilities and display names.
- Status tools and screens, personalities and skills, diagnostics and redaction, installer and scripts:
  formatting, text, one-shot edits of files, without interleaving or state that others read.
