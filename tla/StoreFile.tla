------------------------------ MODULE StoreFile ------------------------------
(***************************************************************************)
(* The accounts file on disk (lib/storage.ts, lib/cache-lock.ts,           *)
(* lib/cache-io.ts, lib/quarantine.ts).  Savers of several processes take  *)
(* the lock, read the file, change it and put a synced temporary file in   *)
(* its place; snapshot readers look at it without the lock.  Both move     *)
(* contents that do not parse to the quarantine directory.  Processes die, *)
(* the machine loses power and operations of the file system fail between  *)
(* any two steps.                                                          *)
(*                                                                         *)
(* The lock is a directory.  Its steps are those of the repository's own   *)
(* lockWithDirectoryFallback; proper-lockfile, which is used where it can  *)
(* be imported, makes and removes a directory, too, and takes over one     *)
(* that its owner no longer refreshes (ClearLock).                         *)
(***************************************************************************)
EXTENDS Integers, FiniteSets

CONSTANTS Savers,     \* calls of saveAuthStorage, one after the other per saver
          Readers,    \* callers of loadAuthStorage({ lockReads: false })
          Updates,    \* what a save adds to the file
          Absent,     \* no file, no temporary file
          Free,       \* no lock directory
          Unowned,    \* a lock directory without an owner file
          Retries,    \* LOCK_RETRIES.retries
          MaxSaves,   \* bound: saves of one saver
          MaxFaults   \* bound: failed operations, crashes, power losses, edits

ASSUME StoreFileAssumption ==
  /\ Retries \in Nat /\ MaxSaves \in Nat /\ MaxFaults \in Nat
  /\ Absent \notin [has : SUBSET Updates, ok : BOOLEAN, synced : BOOLEAN]
  /\ Absent \notin [has : SUBSET Updates, ok : BOOLEAN]
  /\ Free # Unowned /\ {Free, Unowned} \cap Savers = {}
  /\ Savers \cap Readers = {}

VARIABLES file,       \* what the path names now
          disk,       \* what it names after a power loss
          lock,       \* the lock directory and the owner token inside
          temp,       \* each saver's temporary file
          at,         \* where each saver and reader is
          view,       \* what a saver read
          wants,      \* the update it is saving
          outcome,    \* what its save has come to
          tries,      \* failed attempts at the lock
          saves,      \* saves begun
          aside,      \* quarantined contents
          returned,   \* updates whose save returned without an error
          faults      \* faults so far

memory  == <<at, view, wants, outcome, tries>>
fileVars == <<file, disk, lock, temp, memory, saves, aside, returned, faults>>

Places == {"idle", "lock", "owner", "read", "quarantine", "write", "sync",
           "rename", "dirsync", "release"}
Contents == [has : SUBSET Updates, ok : BOOLEAN, synced : BOOLEAN]

\* The saver made the lock directory and has not removed it yet.
Inside(s) == at[s] \notin {"idle", "lock"}

FileTypeOK ==
  /\ file \in Contents \cup {Absent} /\ disk \in Contents \cup {Absent}
  /\ lock \in Savers \cup {Free, Unowned}
  /\ temp \in [Savers -> Contents \cup {Absent}]
  /\ at \in [Savers \cup Readers -> Places]
  /\ view \in [Savers -> SUBSET Updates]
  /\ wants \in [Savers -> Updates]
  /\ outcome \in [Savers -> {"open", "unchanged", "stored", "failed"}]
  /\ tries \in [Savers -> 0 .. Retries]
  /\ saves \in [Savers -> 0 .. MaxSaves]
  /\ aside \subseteq Contents /\ returned \subseteq Updates
  /\ faults \in 0 .. MaxFaults

FileInit ==
  /\ file = Absent /\ disk = Absent /\ lock = Free
  /\ temp = [s \in Savers |-> Absent]
  /\ at = [p \in Savers \cup Readers |-> "idle"]
  /\ view = [s \in Savers |-> {}]
  /\ wants \in [Savers -> Updates]
  /\ outcome = [s \in Savers |-> "open"]
  /\ tries = [s \in Savers |-> 0]
  /\ saves = [s \in Savers |-> 0]
  /\ aside = {} /\ returned = {} /\ faults = 0

-----------------------------------------------------------------------------
\* One of the faults the bound allows happens in this step.
Fault == faults < MaxFaults /\ faults' = faults + 1
Goes(p, place) == at' = [at EXCEPT ![p] = place]
\* The operation throws: the finally block of withLockedFile is next.
ComesTo(s, what) == outcome' = [outcome EXCEPT ![s] = what]
Throws(s) == Fault /\ ComesTo(s, "failed") /\ Goes(s, "release")

Begin(s) == /\ at[s] = "idle" /\ saves[s] < MaxSaves
            /\ saves' = [saves EXCEPT ![s] = @ + 1]
            /\ wants' \in {[wants EXCEPT ![s] = u] : u \in Updates}
            /\ outcome' = [outcome EXCEPT ![s] = "open"]
            /\ tries' = [tries EXCEPT ![s] = 0]
            /\ Goes(s, "lock")
            /\ UNCHANGED <<file, disk, lock, temp, view, aside, returned, faults>>

\* Faulty: mkdir succeeds on a directory that is there (recursive).
TryLockRecursive(s) ==
  /\ at[s] = "lock" /\ lock' = Unowned /\ Goes(s, "owner")
  /\ UNCHANGED <<file, disk, temp, view, wants, outcome, tries, saves, aside, returned, faults>>

\* mkdir of the lock directory: EEXIST is retried after a sleep, at most
\* Retries times.
TryLock(s) ==
  /\ at[s] = "lock"
  /\ \/ lock = Free /\ lock' = Unowned /\ Goes(s, "owner") /\ UNCHANGED tries
     \/ lock # Free /\ tries[s] < Retries
        /\ tries' = [tries EXCEPT ![s] = @ + 1] /\ UNCHANGED <<lock, at>>
     \/ lock # Free /\ tries[s] = Retries /\ Goes(s, "idle") /\ UNCHANGED <<lock, tries>>
  /\ UNCHANGED <<file, disk, temp, view, wants, outcome, saves, aside, returned, faults>>

\* A failure to write the owner file removes the directory and is thrown.
WriteOwner(s) ==
  /\ at[s] = "owner"
  /\ \/ lock' = s /\ Goes(s, "read") /\ UNCHANGED faults
     \/ lock' = Free /\ Goes(s, "idle") /\ Fault
  /\ UNCHANGED <<file, disk, temp, view, wants, outcome, tries, saves, aside, returned>>

Parses(c) == c # Absent => c.ok

\* Faulty: a saver keeps what it read for its first save.
ReadOnce(s) ==
  /\ at[s] = "read" /\ Parses(file) /\ Goes(s, "write")
  /\ view' = [view EXCEPT ![s] = IF file = Absent \/ saves[s] > 1 THEN @ ELSE file.has]
  /\ UNCHANGED <<file, disk, lock, temp, wants, outcome, tries, saves, aside, returned, faults>>

\* A missing file reads as an empty store; an update that changes nothing is
\* not written.
Read(s) ==
  /\ at[s] = "read"
  /\ \/ /\ Parses(file)
        /\ view' = [view EXCEPT ![s] = IF file = Absent THEN {} ELSE file.has]
        /\ IF wants[s] \in view'[s] THEN Goes(s, "release") /\ ComesTo(s, "unchanged")
                                     ELSE Goes(s, "write") /\ UNCHANGED outcome
     \/ /\ ~Parses(file) /\ Goes(s, "quarantine") /\ ComesTo(s, "failed")
        /\ UNCHANGED view
  /\ UNCHANGED <<file, disk, lock, temp, wants, tries, saves, aside, returned, faults>>

\* An unlocked read that finds contents which do not parse; one that finds
\* anything else changes nothing.
ReadSnapshot(r) ==
  /\ at[r] = "idle" /\ ~Parses(file) /\ Goes(r, "quarantine")
  /\ UNCHANGED <<file, disk, lock, temp, view, wants, outcome, tries, saves, aside, returned, faults>>

\* The rename moves whatever the path names by now.  A missing file and a
\* failed move are ignored; the error about the corrupt file is thrown.
Quarantine(p) ==
  /\ at[p] = "quarantine"
  /\ Goes(p, IF p \in Savers THEN "release" ELSE "idle")
  /\ \/ /\ file # Absent /\ aside' = aside \cup {file} /\ file' = Absent
        /\ UNCHANGED faults
     \/ file = Absent /\ UNCHANGED <<file, aside, faults>>
     \/ Fault /\ UNCHANGED <<file, aside>>
  /\ UNCHANGED <<disk, lock, temp, view, wants, outcome, tries, saves, returned>>

WriteTemp(s) ==
  /\ at[s] = "write"
  /\ \/ /\ temp' = [temp EXCEPT ![s] = [has |-> view[s] \cup {wants[s]}, ok |-> TRUE,
                                        synced |-> FALSE]]
        /\ Goes(s, "sync") /\ UNCHANGED <<outcome, faults>>
     \/ Throws(s) /\ UNCHANGED temp
  /\ UNCHANGED <<file, disk, lock, view, wants, tries, saves, aside, returned>>

SyncTemp(s) ==
  /\ at[s] = "sync"
  /\ \/ temp' = [temp EXCEPT ![s].synced = TRUE] /\ Goes(s, "rename") /\ UNCHANGED <<outcome, faults>>
     \/ Throws(s) /\ temp' = [temp EXCEPT ![s] = Absent]
  /\ UNCHANGED <<file, disk, lock, view, wants, tries, saves, aside, returned>>

Rename(s) ==
  /\ at[s] = "rename" /\ temp' = [temp EXCEPT ![s] = Absent]
  /\ \/ file' = temp[s] /\ Goes(s, "dirsync") /\ UNCHANGED <<outcome, faults>>
     \/ Throws(s) /\ UNCHANGED file
  /\ UNCHANGED <<disk, lock, view, wants, tries, saves, aside, returned>>

\* fsync of the directory, and chmod: a failure is thrown though the new
\* contents are in place.
SyncDirectory(s) ==
  /\ at[s] = "dirsync"
  /\ \/ disk' = file /\ Goes(s, "release") /\ ComesTo(s, "stored") /\ UNCHANGED faults
     \/ Throws(s) /\ UNCHANGED disk
  /\ UNCHANGED <<file, lock, temp, view, wants, tries, saves, aside, returned>>

\* The lock directory is removed when the owner file still holds the saver's
\* token; a failure to remove it turns the save into a failed one.
Release(s) ==
  /\ at[s] = "release" /\ Goes(s, "idle")
  /\ \/ /\ lock' = IF lock = s THEN Free ELSE lock
        /\ returned' = IF outcome[s] = "stored" THEN returned \cup {wants[s]} ELSE returned
        /\ UNCHANGED faults
     \/ Fault /\ UNCHANGED <<lock, returned>>
  /\ UNCHANGED <<file, disk, temp, view, wants, outcome, tries, saves, aside>>

-----------------------------------------------------------------------------
\* The process of a saver dies: its lock and its temporary file stay behind.
Crash(s) == /\ at[s] # "idle" /\ Fault /\ Goes(s, "idle")
            /\ temp' = [temp EXCEPT ![s] = Absent]
            /\ UNCHANGED <<file, disk, lock, view, wants, outcome, tries, saves, aside, returned>>

\* Contents that were not synced may come back torn.
AfterLoss(c) == IF c # Absent => c.synced THEN {c} ELSE {c, [c EXCEPT !.ok = FALSE, !.has = {}]}

\* The machine loses power: every process dies, and the path names what the
\* directory held at its last sync or what it holds now.
PowerLoss == /\ Fault
             /\ file' \in AfterLoss(file) \cup AfterLoss(disk)
             /\ disk' = file'
             /\ temp' = [s \in Savers |-> Absent]
             /\ at' = [p \in Savers \cup Readers |-> "idle"]
             /\ UNCHANGED <<lock, view, wants, outcome, tries, saves, aside, returned>>

\* The user edits the file and leaves something that does not parse.
Edit == /\ Fault /\ file # Absent /\ file.ok
        /\ file' = [file EXCEPT !.ok = FALSE] /\ disk' = file'
        /\ UNCHANGED <<lock, temp, memory, saves, aside, returned>>

\* A lock directory whose owner is gone is removed: by proper-lockfile once it is
\* stale, otherwise by the user, since the fallback never does.
ClearLock == /\ lock # Free /\ \A s \in Savers : ~Inside(s)
             /\ lock' = Free
             /\ UNCHANGED <<file, disk, temp, memory, saves, aside, returned, faults>>

Step(s) == \/ TryLock(s) \/ WriteOwner(s) \/ Read(s) \/ WriteTemp(s) \/ SyncTemp(s)
           \/ Rename(s) \/ SyncDirectory(s) \/ Release(s)

FileNext == \/ \E s \in Savers : Begin(s) \/ Step(s) \/ Crash(s)
            \/ \E r \in Readers : ReadSnapshot(r)
            \/ \E p \in Savers \cup Readers : Quarantine(p)
            \/ PowerLoss \/ Edit \/ ClearLock

FileSpec == FileInit /\ [][FileNext]_fileVars
-----------------------------------------------------------------------------
(* Two savers are never between making the lock directory and removing it  *)
(* at once, whatever fails, dies or loses power (cache-lock.ts).            *)
OneSaverInside == \A s, t \in Savers : Inside(s) /\ Inside(t) => s = t

(* What the path names is never half a file: a loss of power shows the old *)
(* contents or the new (writeJsonFileAtomic).                              *)
NeverTorn == file # Absent => file.synced

(* Without a fault nobody leaves the lock directory behind: it is there    *)
(* only while a saver is between taking and releasing it.                  *)
LockIsLetGo == faults = 0 => (lock # Free <=> \E s \in Savers : Inside(s))

Whole(c) == IF c = Absent THEN Absent ELSE [has |-> c.has, ok |-> c.ok]

Store == INSTANCE AtomicStore WITH contents <- Whole(file), aside <- {Whole(c) : c \in aside}

(* The steps of a save, the quarantine and the faults between them         *)
(* implement one atomic store that loses no update whose save returned.    *)
SavesAreAtomic == Store!StoreSpec
=============================================================================
