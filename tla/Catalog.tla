-------------------------------- MODULE Catalog --------------------------------
(***************************************************************************)
(* The catalog of models: every account asks for it when one of its        *)
(* requests is due for a refresh, the plugin itself when it starts.  One   *)
(* call of getCodexModelCatalog goes through the shared GitHub snapshot,   *)
(* the memory, the file of the account and the server, and falls back when *)
(* the server fails.                                                       *)
(*                                                                         *)
(* The accounts here share one account id (members of one workspace), so   *)
(* memory, file and fetch under way are one each.  A step is what runs     *)
(* between two awaits; a time to live ends at any time.                    *)
(***************************************************************************)
EXTENDS Integers, FiniteSets

CONSTANTS Accounts,     \* scopes that ask with a token of their own
          Boot,         \* the plugin's start, which may have no token
          Nothing

ASSUME CatalogConstants ==
  /\ Boot \notin Accounts
  /\ Nothing \notin Accounts \cup {Boot, "server", "github"}
  /\ Nothing \notin [from : {"server", "github"}, fresh : BOOLEAN, fallback : BOOLEAN]

VARIABLES memory,    \* inMemoryCatalog
          disk,      \* the file of the account: a server's catalog
          shared,    \* the GitHub snapshot of the client version is there
          tag,       \* the meta file claims it is
          owner,     \* inFlightCatalogFetches
          call,      \* of each caller
          known      \* catalogModelsByScope
catalogVars == <<memory, disk, shared, tag, owner, call, known>>
files == <<disk, shared, tag>>

Callers == Accounts \cup {Boot}
Entry(from) == [from |-> from, fresh |-> TRUE, fallback |-> FALSE]
FallbackEntry(from) == [Entry(from) EXCEPT !.fallback = TRUE]
Stale(entry) == IF entry = Nothing THEN Nothing ELSE [entry EXCEPT !.fresh = FALSE]
Fresh(entry) == entry # Nothing /\ entry.fresh

\* `failed' is history: a fetch this call depended on has failed.
Idle == [pc |-> "idle", next |-> "idle", token |-> FALSE, etag |-> FALSE,
         disk |-> FALSE, failed |-> FALSE]
Goes(c, pc) == call' = [call EXCEPT ![c].pc = pc]
Joined(c) == {d \in Callers : call[d].pc = "joined" /\ owner = c}

\* A request of an account starts a call when none is under way and the last is
\* long enough ago; initializeCatalogSync and the config hook start Boot's.
Ask(c, token) ==
  /\ call[c].pc = "idle"
  /\ call' = [call EXCEPT ![c].pc = IF token THEN "tag" ELSE "memory", ![c].next = "memory",
                          ![c].token = token]
  /\ UNCHANGED <<memory, files, owner, known>>
\* A request of an account without a catalog waits for the call under way.
Waiting(c) == call[c].pc # "idle" /\ known[c] = Nothing

\* The callers of S end with a catalog or nothing, and the requests that wait for it go on.
Settle(S, from) ==
  /\ known' = [c \in Accounts |-> IF c \in S THEN from ELSE known[c]]
  /\ call' = [c \in Callers |-> IF c \in S THEN Idle ELSE call[c]]
Ends(c, from) == Settle({c} \cup Joined(c), from) /\ owner' = IF owner = c THEN Nothing ELSE owner

-----------------------------------------------------------------------------
(* refreshSharedGitHubModelsCache: two files, written one after the other  *)
(* and without a lock.                                                     *)

ReadTag(c) ==
  /\ call[c].pc = "tag"
  /\ call' = [call EXCEPT ![c].pc = IF tag /\ shared THEN call[c].next ELSE "ask",
                          ![c].etag = tag]
  /\ UNCHANGED <<memory, files, owner, known>>
AnswerGitHub(c, outcome) ==
  /\ call[c].pc = "ask"
  /\ CASE outcome = "ok" -> Goes(c, "snapshot")
       [] outcome = "not_modified" -> call[c].etag /\ Goes(c, "meta")
       [] outcome = "failed" -> Goes(c, call[c].next)
  /\ UNCHANGED <<memory, files, owner, known>>
\* The snapshot may not get written; the meta file is written all the same.
WriteSnapshot(c) ==
  /\ call[c].pc = "snapshot"
  /\ Goes(c, "meta")
  /\ shared' \in {shared, TRUE}
  /\ UNCHANGED <<memory, disk, tag, owner, known>>
WriteTag(c) ==
  /\ call[c].pc = "meta"
  /\ Goes(c, call[c].next)
  /\ tag' \in {tag, TRUE}
  /\ UNCHANGED <<memory, disk, shared, owner, known>>

-----------------------------------------------------------------------------
(* The caches, and the fetch.                                              *)

\* Faulty: a fallback serves callers with a token, too.
MemoryHitAny(c) == Fresh(memory)
MemoryHit(c) == Fresh(memory) /\ (memory.fallback => ~call[c].token)
CheckMemory(c) ==
  /\ call[c].pc = "memory"
  /\ IF MemoryHit(c) THEN Ends(c, memory.from)
     ELSE Goes(c, "disk") /\ UNCHANGED <<owner, known>>
  /\ UNCHANGED <<memory, files>>

\* Faulty: a fetch under way is not looked for.
OwnFetch(c) == owner' = c /\ call' = [call EXCEPT ![c].pc = "fetch", ![c].disk = disk # Nothing]
JoinOrFetch(c) ==
  /\ owner' = IF owner = Nothing THEN c ELSE owner
  /\ call' = [call EXCEPT ![c].pc = IF owner = Nothing THEN "fetch" ELSE "joined",
                          ![c].disk = disk # Nothing,
                          ![c].failed = owner # Nothing /\ call[owner].failed]
ReadDisk(c) ==
  /\ call[c].pc = "disk"
  /\ CASE Fresh(disk) -> memory' = disk /\ Ends(c, disk.from)
       [] ~Fresh(disk) /\ call[c].token -> JoinOrFetch(c) /\ UNCHANGED <<memory, known>>
       [] OTHER -> /\ call' = [call EXCEPT ![c].pc = "fallback", ![c].disk = disk # Nothing]
                   /\ UNCHANGED <<memory, owner, known>>
  /\ UNCHANGED <<files>>
\* The lock of the cache directory was not to be had: the call throws.
LockFails(c) ==
  /\ call[c].pc = "disk"
  /\ call' = [call EXCEPT ![c] = Idle]
  /\ UNCHANGED <<memory, files, owner, known>>

\* Answered: the snapshot is refreshed before the catalog is stored.
CatalogFetched(c) ==
  /\ call[c].pc = "fetch"
  /\ call' = [call EXCEPT ![c].pc = "tag", ![c].next = "store"]
  /\ UNCHANGED <<memory, files, owner, known>>
FetchFails(c) ==
  /\ call[c].pc = "fetch"
  /\ call' = [d \in Callers |-> [call[d] EXCEPT !.failed = @ \/ d \in {c} \cup Joined(c),
                                                !.pc = IF d = c THEN "fallback" ELSE @]]
  /\ UNCHANGED <<memory, files, owner, known>>
Store(c) ==
  /\ call[c].pc = "store"
  /\ memory' = Entry("server")
  /\ Goes(c, "write")
  /\ UNCHANGED <<files, owner, known>>
WriteDisk(c) ==
  /\ call[c].pc = "write"
  /\ disk' \in {disk, Entry("server")}
  /\ Ends(c, "server")
  /\ UNCHANGED <<memory, shared, tag>>

\* Without a snapshot one is fetched, once.
Fallback(c) ==
  /\ call[c].pc = "fallback"
  /\ call' = [call EXCEPT ![c].pc = IF ~shared THEN "tag" ELSE "choose", ![c].next = "choose"]
  /\ UNCHANGED <<memory, files, owner, known>>
\* The file of the account, however old, then the snapshot ("github").
Choose(c) ==
  /\ call[c].pc = "choose"
  /\ LET from == IF call[c].disk THEN disk.from ELSE IF shared THEN "github" ELSE Nothing
     IN /\ memory' = CASE from = Nothing -> memory
                       [] from # Nothing /\ call[c].disk /\ ~call[c].token -> disk
                       [] OTHER -> FallbackEntry(from)
        /\ Ends(c, from)
  /\ UNCHANGED <<files>>

-----------------------------------------------------------------------------
\* Time goes by: an entry gets stale.
Elapse == /\ \/ memory' = Stale(memory) /\ UNCHANGED disk
             \/ disk' = Stale(disk) /\ UNCHANGED memory
          /\ UNCHANGED <<shared, tag, owner, call, known>>
\* The process dies; a snapshot it was writing may be unreadable.
Restart ==
  /\ \E c \in Callers : call[c].pc # "idle"
  /\ shared' \in {shared} \cup {FALSE : c \in {d \in Callers : call[d].pc = "snapshot"}}
  /\ memory' = Nothing /\ owner' = Nothing
  /\ call' = [c \in Callers |-> Idle]
  /\ known' = [c \in Accounts |-> Nothing]
  /\ UNCHANGED <<disk, tag>>

CatalogInit ==
  /\ memory = Nothing /\ disk = Nothing
  /\ shared = FALSE /\ tag = FALSE
  /\ owner = Nothing
  /\ call = [c \in Callers |-> Idle]
  /\ known = [c \in Accounts |-> Nothing]

CallStep(c) == \/ ReadTag(c) \/ WriteSnapshot(c) \/ WriteTag(c)
               \/ \E outcome \in {"ok", "not_modified", "failed"} : AnswerGitHub(c, outcome)
               \/ CheckMemory(c) \/ ReadDisk(c) \/ LockFails(c)
               \/ CatalogFetched(c) \/ FetchFails(c) \/ Store(c) \/ WriteDisk(c)
               \/ Fallback(c) \/ Choose(c)
CatalogNext == \/ \E c \in Callers : CallStep(c)
               \/ \E c \in Accounts : Ask(c, TRUE)
               \/ \E token \in BOOLEAN : Ask(Boot, token)
               \/ Elapse \/ Restart

-----------------------------------------------------------------------------
\* Every part of the state has its type.
CatalogTypeOK ==
  /\ shared \in BOOLEAN /\ tag \in BOOLEAN
  /\ \A e \in {memory, disk} : e # Nothing => e.from \in {"server", "github"} /\ e.fresh \in BOOLEAN
  /\ \A c \in Callers :
       call[c].pc \in {"idle", "tag", "ask", "snapshot", "meta", "memory", "disk", "fetch", "joined",
                       "store", "write", "fallback", "choose"}
  /\ owner \in Callers \cup {Nothing} /\ known \in [Accounts -> {"server", "github", Nothing}]

\* Calls for one account id share one fetch (inFlightCatalogFetches): at most one
\* is under way, and whoever joined waits for one that is.
OneFetch ==
  /\ Cardinality({c \in Callers : call[c].pc = "fetch"}) =< 1
  /\ \A c \in Callers : call[c].pc = "joined" => owner # Nothing /\ call[owner].pc # "idle"

\* An account asks with its token, so what it gets is a catalog of the server
\* unless a fetch it depended on failed, whatever fallback others left in memory.
TokenGetsLive ==
  [][\A c \in Accounts : known[c] # "github" /\ known'[c] = "github" => call[c].failed]_catalogVars

\* Every request that waits for a catalog goes on.
RequestsGoOn == \A c \in Accounts : Waiting(c) ~> ~Waiting(c)
=============================================================================
