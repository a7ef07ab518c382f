--------------------------- MODULE SessionAffinity ---------------------------
(***************************************************************************)
(* Which account a session talks to, remembered across restarts            *)
(* (lib/session-affinity.ts, lib/codex-native/session-affinity-state.ts,   *)
(* and the session part of lib/fetch-orchestrator.ts).  Each process keeps *)
(* the sessions it saw and their accounts in memory, and queues saves of   *)
(* both to one file that the processes of the other mode write too.  A     *)
(* save first forgets sessions whose OpenCode file is gone.  A file that   *)
(* cannot be read or parsed counts as an empty one.                        *)
(***************************************************************************)
EXTENDS Integers, Sequences, FiniteSets

CONSTANTS Procs, Sessions, Accounts,
          Modes, ModeOf,   \* ModeOf[p]: the auth mode of a process
          NoSession,       \* lastSessionKey === null
          MissingGrace,    \* SESSION_AFFINITY_MISSING_GRACE_MS
          SessionTTL,      \* SESSION_KEY_TTL_MS
          MaxKeys,         \* MAX_SESSION_KEYS = MAX_SESSION_AFFINITY_ENTRIES
          MaxUses,         \* MaxUses[p], a bound: requests, assignments and stops of a process
          LastTick         \* bound: the clock

ASSUME AffinityAssumption ==
  /\ ModeOf \in [Procs -> Modes] /\ NoSession \notin Sessions
  /\ MaxUses \in [Procs -> Nat] /\ LastTick \in Nat /\ MaxKeys \in Nat \ {0}
  /\ MissingGrace \in Nat \ {0} /\ SessionTTL \in Nat /\ MissingGrace <= SessionTTL

VARIABLES affinityFile,  \* mode -> the saved sessions and accounts
          exists,        \* sessions with a file of OpenCode
          clock,
          seen,          \* seenSessionKeys: session and time, in insertion order
          accountOf,     \* bySessionKey: session and account, in insertion order
          last,          \* lastSessionKey
          stage,         \* the pruning and saving job of a process
          due,           \* saves queued
          job,           \* keys left to look up, keys found missing, its clock
          errorLogged,   \* persistenceErrorLogged
          uses,          \* requests, assignments and stops
          erased         \* history: modes whose record another mode's save dropped
                         \* since their own last save

affinityVars == <<affinityFile, exists, clock, seen, accountOf, last, stage, due, job,
                  errorLogged, uses, erased>>

Nothing == [seen |-> <<>>, accounts |-> <<>>]
NoJob == [todo |-> {}, missing |-> {}, now |-> 0]
Stages == {"down", "starting", "idle", "checking", "saving"}

Entries(T) == UNION {[1 .. n -> [session : Sessions, value : T]] : n \in 0 .. MaxKeys}
Keys(entries) == {entries[i].session : i \in DOMAIN entries}
Value(entries, s) == entries[CHOOSE i \in DOMAIN entries : entries[i].session = s].value
Nth(kept, n) == CHOOSE i \in kept : Cardinality({j \in kept : j <= i}) = n
\* The others close up, in their order.
Without(entries, gone) ==
  LET kept == {i \in DOMAIN entries : entries[i].session \notin gone}
  IN [n \in 1 .. Cardinality(kept) |-> entries[Nth(kept, n)]]
\* The last MaxKeys entries.
Newest(entries) ==
  SubSeq(entries, IF Len(entries) > MaxKeys THEN Len(entries) - MaxKeys + 1 ELSE 1, Len(entries))
\* A key set again goes to the end; a full map loses its first key.
Put(entries, s, v) == Newest(Append(Without(entries, {s}), [session |-> s, value |-> v]))

AffinityTypeOK ==
  /\ affinityFile \in [Modes -> [seen : Entries(0 .. LastTick), accounts : Entries(Accounts)]]
  /\ exists \subseteq Sessions /\ clock \in 0 .. LastTick
  /\ seen \in [Procs -> Entries(0 .. LastTick)] /\ accountOf \in [Procs -> Entries(Accounts)]
  /\ last \in [Procs -> Sessions \cup {NoSession}] /\ stage \in [Procs -> Stages]
  /\ due \in [Procs -> Nat] /\ uses \in [Procs -> Nat] /\ errorLogged \in [Procs -> BOOLEAN]
  /\ job \in [Procs -> [todo : SUBSET Sessions, missing : SUBSET Sessions, now : 0 .. LastTick]]
  /\ \A p \in Procs : due[p] <= uses[p] /\ uses[p] <= MaxUses[p]
  /\ erased \subseteq Modes

AffinityInit ==
  /\ affinityFile = [m \in Modes |-> Nothing] /\ exists = {} /\ clock = 0
  /\ seen = [p \in Procs |-> <<>>] /\ accountOf = [p \in Procs |-> <<>>]
  /\ last = [p \in Procs |-> NoSession] /\ stage = [p \in Procs |-> "down"]
  /\ due = [p \in Procs |-> 0] /\ job = [p \in Procs |-> NoJob]
  /\ errorLogged = [p \in Procs |-> FALSE] /\ uses = [p \in Procs |-> 0] /\ erased = {}

-----------------------------------------------------------------------------
Known(p) == Keys(seen[p]) \cup Keys(accountOf[p])
Lookups(keys) == [todo |-> keys, missing |-> {}, now |-> clock]
Serving(p) == stage[p] \in {"idle", "checking", "saving"}

\* readUnlocked answers the default file when the read or the parse fails.
OnRead == {affinityFile, [m \in Modes |-> Nothing]}

\* A process starts: it loads its mode's record and looks up every session.
Start(p) ==
  /\ stage[p] = "down"
  /\ \E read \in OnRead :
       LET record == read[ModeOf[p]]
       IN /\ seen' = [seen EXCEPT ![p] = record.seen]
          /\ accountOf' = [accountOf EXCEPT ![p] = record.accounts]
          /\ job' = [job EXCEPT ![p] = Lookups(Keys(record.seen) \cup Keys(record.accounts))]
  /\ stage' = [stage EXCEPT ![p] = "starting"]
  /\ UNCHANGED <<affinityFile, exists, clock, last, due, errorLogged, uses, erased>>

\* One awaited look at the file of a session.
CheckOne(p) ==
  /\ stage[p] \in {"starting", "checking"}
  /\ \E s \in job[p].todo :
       job' = [job EXCEPT ![p].todo = @ \ {s},
                          ![p].missing = IF s \in exists THEN @ ELSE @ \cup {s}]
  /\ UNCHANGED <<affinityFile, exists, clock, seen, accountOf, last, stage, due,
                 errorLogged, uses, erased>>

\* A missing session seen within the grace, by the job's clock, stays.
Spared(p, s) == s \in Keys(seen[p]) /\ job[p].now - Value(seen[p], s) <= MissingGrace

\* Faulty: the grace is not looked at.
DropAll(p) ==
  /\ stage[p] \in {"starting", "checking"} /\ job[p].todo = {}
  /\ seen' = [seen EXCEPT ![p] = Without(@, job[p].missing)]
  /\ accountOf' = [accountOf EXCEPT ![p] = Without(@, job[p].missing)]
  /\ stage' = [stage EXCEPT ![p] = IF @ = "starting" THEN "idle" ELSE "saving"]
  /\ job' = [job EXCEPT ![p] = NoJob]
  /\ UNCHANGED <<affinityFile, exists, clock, last, due, errorLogged, uses, erased>>

\* Every lookup answered: forget the missing sessions.
Drop(p) ==
  /\ stage[p] \in {"starting", "checking"} /\ job[p].todo = {}
  /\ LET gone == {s \in job[p].missing : ~(MissingGrace > 0 /\ Spared(p, s))}
     IN /\ seen' = [seen EXCEPT ![p] = Without(@, gone)]
        /\ accountOf' = [accountOf EXCEPT ![p] = Without(@, gone)]
  /\ stage' = [stage EXCEPT ![p] = IF @ = "starting" THEN "idle" ELSE "saving"]
  /\ job' = [job EXCEPT ![p] = NoJob]
  /\ UNCHANGED <<affinityFile, exists, clock, last, due, errorLogged, uses, erased>>

\* A request names its session.  Sessions not seen for long are forgotten
\* before the session goes to the end; only a first, a repeated or a changed
\* session is saved.
Observe(p, s) ==
  /\ Serving(p) /\ uses[p] < MaxUses[p]
  /\ LET had   == s \in Keys(seen[p])
         stale == {k \in Keys(seen[p]) : clock - Value(seen[p], k) > SessionTTL}
         event == ~had \/ last[p] # NoSession
     IN /\ seen' = [seen EXCEPT ![p] = Put(Without(@, stale), s, clock)]
        /\ due' = [due EXCEPT ![p] = IF event THEN @ + 1 ELSE @]
  /\ last' = [last EXCEPT ![p] = s]
  /\ uses' = [uses EXCEPT ![p] = @ + 1]
  /\ UNCHANGED <<affinityFile, exists, clock, accountOf, stage, job, errorLogged, erased>>

\* The acquisition picks an account for a session that has none, or another
\* one because its own is not eligible, and queues a save.
Assign(p, s, a) ==
  /\ Serving(p) /\ s = last[p] /\ uses[p] < MaxUses[p]
  /\ s \in Keys(accountOf[p]) => Value(accountOf[p], s) # a
  /\ accountOf' = [accountOf EXCEPT ![p] =
       IF s \in Keys(@)
         THEN [i \in DOMAIN @ |-> IF @[i].session = s THEN [session |-> s, value |-> a] ELSE @[i]]
         ELSE Put(@, s, a)]
  /\ due' = [due EXCEPT ![p] = @ + 1] /\ uses' = [uses EXCEPT ![p] = @ + 1]
  /\ UNCHANGED <<affinityFile, exists, clock, seen, last, stage, job, errorLogged, erased>>

\* Faulty: a save with another one queued behind it waits for ever.
BeginLastSave(p) ==
  /\ stage[p] = "idle" /\ due[p] = 1
  /\ stage' = [stage EXCEPT ![p] = "checking"]
  /\ job' = [job EXCEPT ![p] = Lookups(Known(p))]
  /\ UNCHANGED <<affinityFile, exists, clock, seen, accountOf, last, due, errorLogged,
                 uses, erased>>

\* The next queued save begins with a pruning of its own.
BeginSave(p) ==
  /\ stage[p] = "idle" /\ due[p] > 0
  /\ stage' = [stage EXCEPT ![p] = "checking"]
  /\ job' = [job EXCEPT ![p] = Lookups(Known(p))]
  /\ UNCHANGED <<affinityFile, exists, clock, seen, accountOf, last, due, errorLogged,
                 uses, erased>>

Snapshot(p) == [seen |-> Newest(seen[p]), accounts |-> Newest(accountOf[p])]

\* Faulty: the file is replaced by the mode's own record.
SaveAlone(p) ==
  /\ stage[p] = "saving"
  /\ affinityFile' = [m \in Modes |-> IF m = ModeOf[p] THEN Snapshot(p) ELSE Nothing]
  /\ erased' = erased \ {ModeOf[p]}
  /\ errorLogged' = [errorLogged EXCEPT ![p] = FALSE]
  /\ stage' = [stage EXCEPT ![p] = "idle"] /\ due' = [due EXCEPT ![p] = @ - 1]
  /\ UNCHANGED <<exists, clock, seen, accountOf, last, job, uses>>

\* The locked save: the mode's record is what the memory holds now, the other
\* mode's is kept as read under the lock: a read that fails drops it.  A
\* failing save is logged once.
Save(p) ==
  /\ stage[p] = "saving"
  /\ \/ /\ \E read \in OnRead :
             /\ affinityFile' = [read EXCEPT ![ModeOf[p]] = Snapshot(p)]
             /\ erased' = {m \in Modes \ {ModeOf[p]} : m \in erased \/ read[m] # affinityFile[m]}
        /\ errorLogged' = [errorLogged EXCEPT ![p] = FALSE]
     \/ errorLogged' = [errorLogged EXCEPT ![p] = TRUE] /\ UNCHANGED <<affinityFile, erased>>
  /\ stage' = [stage EXCEPT ![p] = "idle"]
  /\ due' = [due EXCEPT ![p] = @ - 1]
  /\ UNCHANGED <<exists, clock, seen, accountOf, last, job, uses>>

\* OpenCode stops; what was not saved is lost.
Stop(p) ==
  /\ stage[p] # "down" /\ uses[p] < MaxUses[p]
  /\ stage' = [stage EXCEPT ![p] = "down"] /\ due' = [due EXCEPT ![p] = 0]
  /\ seen' = [seen EXCEPT ![p] = <<>>] /\ accountOf' = [accountOf EXCEPT ![p] = <<>>]
  /\ last' = [last EXCEPT ![p] = NoSession] /\ job' = [job EXCEPT ![p] = NoJob]
  /\ errorLogged' = [errorLogged EXCEPT ![p] = FALSE]
  /\ uses' = [uses EXCEPT ![p] = @ + 1]
  /\ UNCHANGED <<affinityFile, exists, clock, erased>>

\* OpenCode writes a session's file soon after the session's first request.
WriteSession(s) ==
  /\ s \notin exists /\ exists' = exists \cup {s}
  /\ \E p \in Procs : s \in Known(p)
  /\ \A p \in Procs : s \in Known(p) =>
       s \in Keys(seen[p]) /\ clock - Value(seen[p], s) <= MissingGrace
  /\ UNCHANGED <<affinityFile, clock, seen, accountOf, last, stage, due, job,
                 errorLogged, uses, erased>>

DeleteSession(s) ==
  /\ s \in exists /\ exists' = exists \ {s}
  /\ UNCHANGED <<affinityFile, clock, seen, accountOf, last, stage, due, job,
                 errorLogged, uses, erased>>

\* The lookups of one job are answered within SessionTTL - MissingGrace.
Pass == /\ clock < LastTick /\ clock' = clock + 1
        /\ \A p \in Procs : job[p] # NoJob => clock - job[p].now < SessionTTL - MissingGrace
        /\ UNCHANGED <<affinityFile, exists, seen, accountOf, last, stage, due, job,
                       errorLogged, uses, erased>>

Persist(p) == BeginSave(p) \/ CheckOne(p) \/ Drop(p) \/ Save(p)

AffinityNext ==
  \/ \E p \in Procs : Start(p) \/ Persist(p) \/ Stop(p)
  \/ \E p \in Procs, s \in Sessions : Observe(p, s) \/ \E a \in Accounts : Assign(p, s, a)
  \/ \E s \in Sessions : WriteSession(s) \/ DeleteSession(s)
  \/ Pass

AffinitySpec == AffinityInit /\ [][AffinityNext]_affinityVars /\ \A p \in Procs : WF_affinityVars(Persist(p))

-----------------------------------------------------------------------------
(* Once a process has no save left and its last one did not fail, the file *)
(* gives its sessions the accounts they have in memory: a save queued      *)
(* during another is not dropped, and the other mode's saves do not        *)
(* overwrite the record, unless one of them could not read the file and    *)
(* dropped it since (readUnlocked).  It needs one process per mode.        *)
SettledIsOnDisk ==
  \A p \in Procs : stage[p] = "idle" /\ due[p] = 0 /\ ~errorLogged[p]
                   /\ ModeOf[p] \notin erased =>
    \A i \in DOMAIN accountOf[p] : \E j \in DOMAIN affinityFile[ModeOf[p]].accounts :
      affinityFile[ModeOf[p]].accounts[j] = accountOf[p][i]

(* A running process takes a session's account away only to make room, or  *)
(* when the session's file is missing and it was not seen within the       *)
(* grace: not a session that began while the files were being looked up.   *)
KeepsLiveSessions ==
  [][\A p \in Procs : \A s \in Keys(accountOf[p]) \ Keys(accountOf'[p]) :
       \/ stage'[p] = "down"
       \/ Len(accountOf[p]) = MaxKeys /\ Len(accountOf'[p]) = MaxKeys
       \/ s \notin exists /\ (s \in Keys(seen[p]) => clock - Value(seen[p], s) > MissingGrace)
    ]_affinityVars

(* Queued saves are carried out: neither a failed save nor one that finds  *)
(* new work on the way holds up the queue.                                 *)
QueueDrains == \A p \in Procs : due[p] > 0 ~> due[p] = 0
=============================================================================
