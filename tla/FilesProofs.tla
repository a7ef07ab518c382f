----------------------------- MODULE FilesProofs -----------------------------
(***************************************************************************)
(* The files that processes share.  The accounts file, for any savers,     *)
(* readers, updates and numbers of faults: one saver at a time is inside,  *)
(* the lock goes with it, the path never names half a file, and every step *)
(* is one of AtomicStore or none.  The session affinity file, for any      *)
(* processes, sessions and accounts: it has what was saved, and sessions   *)
(* that live keep their accounts.                                          *)
(***************************************************************************)
EXTENDS MCFiles, FiniteSetTheorems, SequenceTheorems, TLAPS

Has(c) == IF c = Absent THEN {} ELSE c.has
PutBy == UNION {c.has : c \in aside}
Everything == Has(file) \cup PutBy

\* A saver inside is the owner of the lock, once it has said so.
Holds(s) == Inside(s) => lock = IF at[s] = "owner" THEN Unowned ELSE s

\* What a saver is about to write adds to what is there, or was put aside since
\* it was read.
Prepared(s) ==
  /\ at[s] \in {"write", "sync", "rename"} =>
       /\ Has(file) \subseteq view[s]
       /\ view[s] = Has(file) \/ \E c \in aside : view[s] = c.has
  /\ at[s] \in {"sync", "rename"} =>
       temp[s] = [has |-> view[s] \cup {wants[s]}, ok |-> TRUE, synced |-> (at[s] = "rename")]

\* What a save has stored is still somewhere, after a loss of power too.
Stored(s) ==
  /\ at[s] = "dirsync" => wants[s] \in Everything
  /\ at[s] = "quarantine" => outcome[s] # "stored"
  /\ at[s] = "release" /\ outcome[s] = "stored" =>
       wants[s] \in Everything /\ wants[s] \in Has(disk) \cup PutBy

Saver(s) == Holds(s) /\ Prepared(s) /\ Stored(s)

\* The path names whole files only, now and after a loss of power, and neither
\* of them nor those put aside miss what a save returned.
Durable ==
  /\ file # Absent => file.synced
  /\ disk # Absent => disk.synced
  /\ Has(disk) \subseteq Everything
  /\ returned \subseteq Everything
  /\ returned \subseteq Has(disk) \cup PutBy

FileInv == /\ FileTypeOK /\ OneSaverInside /\ Durable
           /\ \A s \in Savers : Saver(s)

-----------------------------------------------------------------------------
(* Typing: one lemma per kind of step.                                     *)

LEMMA InitTypeOK == FileInit => FileTypeOK
BY StoreFileAssumption DEF FileInit, FileTypeOK, Places

\* The steps of a saver around the lock keep the types.
LEMMA LockTypeOK ==
  ASSUME FileTypeOK, NEW s \in Savers, Begin(s) \/ TryLock(s) \/ WriteOwner(s) \/ Release(s)
  PROVE  FileTypeOK'
<1>1. CASE Begin(s)
  BY <1>1, StoreFileAssumption DEF FileTypeOK, Begin, Goes, Places
<1>2. CASE TryLock(s)
  BY <1>2, StoreFileAssumption DEF FileTypeOK, TryLock, Goes, Places
<1>3. CASE WriteOwner(s)
  BY <1>3, StoreFileAssumption DEF FileTypeOK, WriteOwner, Goes, Places, Fault
<1>4. CASE Release(s)
  BY <1>4, StoreFileAssumption DEF FileTypeOK, Release, Goes, Places, Fault
<1> QED BY <1>1, <1>2, <1>3, <1>4

\* The steps of a saver on the files keep the types.
LEMMA SaveTypeOK ==
  ASSUME FileTypeOK, NEW s \in Savers,
         Read(s) \/ WriteTemp(s) \/ SyncTemp(s) \/ Rename(s) \/ SyncDirectory(s),
         at[s] = "rename" => temp[s] # Absent, at[s] = "sync" => temp[s] # Absent
  PROVE  FileTypeOK'
<1>1. CASE Read(s)
  BY <1>1, StoreFileAssumption DEF FileTypeOK, Read, Parses, Goes, ComesTo, Places, Contents
<1>2. CASE WriteTemp(s)
  <2>1. [has |-> view[s] \cup {wants[s]}, ok |-> TRUE, synced |-> FALSE] \in Contents
    <3>1. view[s] \cup {wants[s]} \in SUBSET Updates
      BY DEF FileTypeOK
    <3> QED BY <3>1 DEF Contents
  <2>2. temp' \in [Savers -> Contents \cup {Absent}]
    BY <1>2, <2>1 DEF WriteTemp, FileTypeOK
  <2> QED
    BY <1>2, <2>2, StoreFileAssumption DEF FileTypeOK, WriteTemp, Throws, Fault, Goes, ComesTo, Places
<1>3. CASE SyncTemp(s)
  <2>1. at[s] = "sync" /\ temp[s] \in Contents
    BY <1>3 DEF SyncTemp, FileTypeOK
  <2>2. [temp[s] EXCEPT !.synced = TRUE] \in Contents
    BY <2>1 DEF Contents
  <2>3. temp' \in [Savers -> Contents \cup {Absent}]
    BY <1>3, <2>2 DEF SyncTemp, FileTypeOK
  <2> QED
    BY <1>3, <2>3, StoreFileAssumption DEF FileTypeOK, SyncTemp, Throws, Fault, Goes, ComesTo, Places
<1>4. CASE Rename(s)
  BY <1>4, StoreFileAssumption DEF FileTypeOK, Rename, Throws, Fault, Goes, ComesTo, Places
<1>5. CASE SyncDirectory(s)
  BY <1>5, StoreFileAssumption DEF FileTypeOK, SyncDirectory, Throws, Fault, Goes, ComesTo, Places
<1> QED BY <1>1, <1>2, <1>3, <1>4, <1>5

\* So do readers, faults and users.
LEMMA OtherTypeOK ==
  ASSUME FileTypeOK,
         \/ \E r \in Readers : ReadSnapshot(r)
         \/ \E p \in Savers \cup Readers : Quarantine(p)
         \/ \E s \in Savers : Crash(s)
         \/ PowerLoss \/ Edit \/ ClearLock
  PROVE  FileTypeOK'
<1>1. CASE \E r \in Readers : ReadSnapshot(r)
  BY <1>1 DEF FileTypeOK, ReadSnapshot, Goes, Places
<1>2. ASSUME NEW p \in Savers \cup Readers, Quarantine(p)
      PROVE  FileTypeOK'
  BY <1>2, StoreFileAssumption DEF FileTypeOK, Quarantine, Goes, Places, Fault
<1>3. CASE \E s \in Savers : Crash(s)
  BY <1>3, StoreFileAssumption DEF FileTypeOK, Crash, Fault, Goes, Places
<1>4. CASE PowerLoss
  <2>1. \A c \in Contents \cup {Absent} : AfterLoss(c) \subseteq Contents \cup {Absent}
    BY DEF AfterLoss, Contents
  <2>2. file' \in Contents \cup {Absent}
    BY <1>4, <2>1 DEF PowerLoss, FileTypeOK
  <2> QED
    BY <1>4, <2>2, StoreFileAssumption DEF FileTypeOK, PowerLoss, Fault, Places
<1>5. CASE Edit
  <2>1. file \in Contents
    BY <1>5 DEF Edit, FileTypeOK
  <2>2. [file EXCEPT !.ok = FALSE] \in Contents
    BY <2>1 DEF Contents
  <2> QED
    BY <1>5, <2>2, StoreFileAssumption DEF FileTypeOK, Edit, Fault, memory
<1>6. CASE ClearLock
  BY <1>6 DEF FileTypeOK, ClearLock, memory
<1> QED BY <1>1, <1>2, <1>3, <1>4, <1>5, <1>6

-----------------------------------------------------------------------------
(* Who a step leaves alone.                                                *)

\* Nothing is asked of a saver that is outside.
LEMMA OutsideIsFine ==
  ASSUME NEW t \in Savers, (~Inside(t))'
  PROVE  Saver(t)'
BY DEF Saver, Holds, Prepared, Stored, Inside

\* A saver keeps its part when neither its own memory nor the files change.
LEMMA BystanderKeeps ==
  ASSUME NEW t \in Savers, Saver(t), at'[t] = at[t],
         UNCHANGED <<file, disk, lock, aside>>, temp'[t] = temp[t],
         view'[t] = view[t], wants'[t] = wants[t], outcome'[t] = outcome[t]
  PROVE  Saver(t)'
BY DEF Saver, Holds, Prepared, Stored, Inside, Has, Everything, PutBy

\* While one saver is inside, or about to be, the others stay outside.
LEMMA OthersAreOutside ==
  ASSUME FileInv, NEW s \in Savers, NEW place, Goes(s, place),
         Inside(s) \/ lock = Free
  PROVE  \A t \in Savers \ {s} : (~Inside(t))'
<1> SUFFICES ASSUME NEW t \in Savers \ {s}, Inside(t)' PROVE FALSE
  OBVIOUS
<1>1. Inside(t)
  BY DEF FileInv, FileTypeOK, Goes, Inside
<1>2. lock # Free
  BY <1>1, StoreFileAssumption DEF FileInv, Saver, Holds
<1> QED BY <1>1, <1>2 DEF FileInv, OneSaverInside

\* What is promised of the files needs nothing but the files.
LEMMA DurableKeeps ==
  ASSUME Durable, UNCHANGED <<file, disk, aside, returned>>
  PROVE  Durable'
BY DEF Durable, Has, Everything, PutBy

\* A step of the saver inside keeps the invariant when it keeps the types, the
\* promises about the files and its own part.
LEMMA AloneInside ==
  ASSUME FileInv, NEW s \in Savers, NEW place, Goes(s, place),
         Inside(s) \/ lock = Free,
         FileTypeOK', Durable', Saver(s)'
  PROVE  FileInv'
<1>1. \A t \in Savers \ {s} : (~Inside(t))'
  BY OthersAreOutside
<1>2. OneSaverInside'
  BY <1>1 DEF OneSaverInside
<1>3. \A t \in Savers : Saver(t)'
  BY <1>1, OutsideIsFine
<1> QED BY <1>2, <1>3 DEF FileInv

-----------------------------------------------------------------------------
(* One lemma per action.                                                   *)

LEMMA BeginKeeps ==
  ASSUME FileInv, NEW s \in Savers, Begin(s)
  PROVE  FileInv'
<1>1. FileTypeOK'
  BY LockTypeOK DEF FileInv
<1>2. Durable'
  BY DurableKeeps DEF FileInv, Begin
<1>3. \A t \in Savers : Inside(t)' => Inside(t) /\ t # s
  BY DEF FileInv, FileTypeOK, Begin, Goes, Inside
<1>4. OneSaverInside'
  BY <1>3 DEF FileInv, OneSaverInside
<1>5. ASSUME NEW t \in Savers PROVE Saver(t)'
  <2>1. CASE t = s
    BY <1>3, <2>1, OutsideIsFine
  <2>2. CASE t # s
    <3>1. at'[t] = at[t] /\ wants'[t] = wants[t] /\ outcome'[t] = outcome[t]
      BY <2>2 DEF FileInv, FileTypeOK, Begin, Goes, ComesTo
    <3> QED BY <3>1, BystanderKeeps DEF FileInv, Begin
  <2> QED BY <2>1, <2>2
<1> QED BY <1>1, <1>2, <1>4, <1>5 DEF FileInv

LEMMA TryLockKeeps ==
  ASSUME FileInv, NEW s \in Savers, TryLock(s)
  PROVE  FileInv'
<1>1. FileTypeOK'
  BY LockTypeOK DEF FileInv
<1>2. Durable'
  BY DurableKeeps DEF FileInv, TryLock
<1>3. CASE lock = Free
  <2>1. Goes(s, "owner") /\ lock' = Unowned
    BY <1>3 DEF TryLock
  <2>2. at'[s] = "owner"
    BY <2>1 DEF FileInv, FileTypeOK, Goes
  <2>3. Saver(s)'
    BY <2>1, <2>2 DEF Saver, Holds, Prepared, Stored, Inside
  <2> QED BY <1>1, <1>2, <1>3, <2>1, <2>3, AloneInside
<1>4. CASE lock # Free
  <2>1. lock' = lock
    BY <1>4 DEF TryLock
  <2>2. \A t \in Savers : at'[t] = at[t] \/ ~Inside(t)'
    BY <1>4 DEF FileInv, FileTypeOK, TryLock, Goes, Inside
  <2>3. \A t \in Savers : Inside(t)' => Inside(t)
    BY <2>2 DEF Inside
  <2>4. OneSaverInside'
    BY <2>3 DEF FileInv, OneSaverInside
  <2>5. \A t \in Savers : Saver(t)'
    BY <2>1, <2>2, BystanderKeeps, OutsideIsFine DEF FileInv, TryLock
  <2> QED BY <1>1, <1>2, <2>4, <2>5 DEF FileInv
<1> QED BY <1>3, <1>4

LEMMA WriteOwnerKeeps ==
  ASSUME FileInv, NEW s \in Savers, WriteOwner(s)
  PROVE  FileInv'
<1>1. FileTypeOK'
  BY LockTypeOK DEF FileInv
<1>2. Durable'
  BY DurableKeeps DEF FileInv, WriteOwner
<1>3. Inside(s)
  BY DEF WriteOwner, Inside
<1>4. CASE Goes(s, "read") /\ lock' = s
  <2>1. at'[s] = "read"
    BY <1>4 DEF FileInv, FileTypeOK, Goes
  <2>2. Saver(s)'
    BY <1>4, <2>1 DEF Saver, Holds, Prepared, Stored, Inside
  <2> QED BY <1>1, <1>2, <1>3, <1>4, <2>2, AloneInside
<1>5. CASE Goes(s, "idle")
  <2>1. at'[s] = "idle"
    BY <1>5 DEF FileInv, FileTypeOK, Goes
  <2>2. Saver(s)'
    BY <2>1, OutsideIsFine DEF Inside
  <2> QED BY <1>1, <1>2, <1>3, <1>5, <2>2, AloneInside
<1> QED BY <1>4, <1>5 DEF WriteOwner

LEMMA ReadKeeps ==
  ASSUME FileInv, NEW s \in Savers, Read(s)
  PROVE  FileInv'
<1>1. FileTypeOK'
  BY SaveTypeOK DEF FileInv, Read
<1>2. Durable'
  BY DurableKeeps DEF FileInv, Read
<1>3. Inside(s) /\ lock' = s
  BY DEF Read, Inside, FileInv, Saver, Holds
<1>4. CASE Goes(s, "write") /\ view' = [view EXCEPT ![s] = IF file = Absent THEN {} ELSE file.has]
  <2>1. at'[s] = "write" /\ view'[s] = Has(file)
    BY <1>4 DEF FileInv, FileTypeOK, Goes, Has
  <2>2. file' = file
    BY DEF Read
  <2>3. Saver(s)'
    BY <1>3, <2>1, <2>2 DEF Saver, Holds, Prepared, Stored, Inside, Has
  <2> QED BY <1>1, <1>2, <1>3, <1>4, <2>3, AloneInside
<1>5. ASSUME NEW place \in {"release", "quarantine"}, NEW what \in {"unchanged", "failed"},
             Goes(s, place), ComesTo(s, what)
      PROVE  FileInv'
  <2>1. at'[s] = place /\ outcome'[s] = what
    BY <1>5 DEF FileInv, FileTypeOK, Goes, ComesTo
  <2>2. Saver(s)'
    BY <1>3, <2>1 DEF Saver, Holds, Prepared, Stored, Inside
  <2> QED BY <1>1, <1>2, <1>3, <1>5, <2>2, AloneInside
<1> QED BY <1>4, <1>5 DEF Read

\* A saver inside that fails keeps the invariant.
LEMMA ThrowsKeeps ==
  ASSUME FileInv, NEW s \in Savers, Inside(s), at[s] # "owner", Throws(s),
         UNCHANGED <<file, disk, lock, aside, returned>>, FileTypeOK'
  PROVE  FileInv'
<1>1. Durable'
  BY DurableKeeps DEF FileInv
<1>2. at'[s] = "release" /\ outcome'[s] = "failed" /\ lock' = s
  BY DEF FileInv, FileTypeOK, Throws, Goes, ComesTo, Saver, Holds
<1>3. Saver(s)'
  BY <1>2 DEF Saver, Holds, Prepared, Stored, Inside
<1> QED BY <1>1, <1>3, AloneInside DEF Throws

LEMMA WriteTempKeeps ==
  ASSUME FileInv, NEW s \in Savers, WriteTemp(s)
  PROVE  FileInv'
<1>1. FileTypeOK'
  BY SaveTypeOK DEF FileInv, WriteTemp
<1>2. Inside(s) /\ at[s] = "write" /\ lock' = s
  BY DEF WriteTemp, Inside, FileInv, Saver, Holds
<1>3. CASE Throws(s)
  BY <1>1, <1>2, <1>3, ThrowsKeeps DEF WriteTemp
<1>4. CASE /\ temp' = [temp EXCEPT ![s] = [has |-> view[s] \cup {wants[s]}, ok |-> TRUE,
                                           synced |-> FALSE]]
           /\ Goes(s, "sync")
  <2>1. Durable'
    BY DurableKeeps DEF FileInv, WriteTemp
  <2>2. /\ at'[s] = "sync" /\ view'[s] = view[s] /\ wants'[s] = wants[s]
        /\ temp'[s] = [has |-> view[s] \cup {wants[s]}, ok |-> TRUE, synced |-> FALSE]
    BY <1>4 DEF FileInv, FileTypeOK, Goes, WriteTemp
  <2>3. Prepared(s)
    BY DEF FileInv, Saver
  <2>4. Prepared(s)'
    BY <1>2, <2>2, <2>3 DEF Prepared, Has, WriteTemp
  <2>5. Saver(s)'
    BY <1>2, <2>2, <2>4 DEF Saver, Holds, Stored, Inside
  <2> QED BY <1>1, <1>2, <1>4, <2>1, <2>5, AloneInside
<1> QED BY <1>3, <1>4 DEF WriteTemp

LEMMA SyncedRecord ==
  ASSUME NEW h \in SUBSET Updates, NEW c, c = [has |-> h, ok |-> TRUE, synced |-> FALSE]
  PROVE  [c EXCEPT !.synced = TRUE] = [has |-> h, ok |-> TRUE, synced |-> TRUE]
<1>1. c \in Contents
  BY DEF Contents
<1>2. c.has = h /\ c.ok = TRUE
  OBVIOUS
<1>3. [c EXCEPT !.synced = TRUE] \in Contents
  BY <1>1 DEF Contents
<1>4. /\ [c EXCEPT !.synced = TRUE].has = h /\ [c EXCEPT !.synced = TRUE].ok = TRUE
      /\ [c EXCEPT !.synced = TRUE].synced = TRUE
  BY <1>1, <1>2 DEF Contents
<1>5. [has |-> h, ok |-> TRUE, synced |-> TRUE] \in Contents
  BY DEF Contents
<1>6. \A a, b \in Contents : a.has = b.has /\ a.ok = b.ok /\ a.synced = b.synced => a = b
  BY DEF Contents
<1> DEFINE d == [c EXCEPT !.synced = TRUE]
           e == [has |-> h, ok |-> TRUE, synced |-> TRUE]
<1>7. e.has = h /\ e.ok = TRUE /\ e.synced = TRUE
  OBVIOUS
<1>8. d \in Contents /\ e \in Contents /\ d.has = e.has /\ d.ok = e.ok /\ d.synced = e.synced
  BY <1>3, <1>4, <1>5, <1>7
<1> HIDE DEF d, e
<1>9. d = e
  BY <1>6, <1>8
<1> QED BY <1>9 DEF d, e

LEMMA SyncTempKeeps ==
  ASSUME FileInv, NEW s \in Savers, SyncTemp(s)
  PROVE  FileInv'
<1>1. Inside(s) /\ at[s] = "sync" /\ lock' = s
  BY DEF SyncTemp, Inside, FileInv, Saver, Holds
<1>2. /\ Prepared(s)
      /\ temp[s] = [has |-> view[s] \cup {wants[s]}, ok |-> TRUE, synced |-> FALSE]
  BY <1>1 DEF FileInv, Saver, Prepared
<1>3. temp[s] # Absent
  <2>1. view[s] \cup {wants[s]} \in SUBSET Updates
    BY DEF FileInv, FileTypeOK
  <2>2. temp[s] \in Contents
    BY <1>2, <2>1 DEF Contents
  <2> QED BY <2>2, StoreFileAssumption DEF Contents
<1>4. FileTypeOK'
  BY <1>1, <1>3, SaveTypeOK DEF FileInv
<1>5. CASE Throws(s)
  BY <1>1, <1>4, <1>5, ThrowsKeeps DEF SyncTemp
<1>6. CASE temp' = [temp EXCEPT ![s].synced = TRUE] /\ Goes(s, "rename")
  <2>1. Durable'
    BY DurableKeeps DEF FileInv, SyncTemp
  <2>2. at'[s] = "rename" /\ view'[s] = view[s] /\ wants'[s] = wants[s]
    BY <1>6 DEF FileInv, FileTypeOK, Goes, SyncTemp
  <2>3. temp'[s] = [temp[s] EXCEPT !.synced = TRUE]
    BY <1>6 DEF FileInv, FileTypeOK
  <2>4. temp'[s] = [has |-> view[s] \cup {wants[s]}, ok |-> TRUE, synced |-> TRUE]
    <3>1. view[s] \cup {wants[s]} \in SUBSET Updates
      BY DEF FileInv, FileTypeOK
    <3> QED BY <1>2, <2>3, <3>1, SyncedRecord
  <2>5. Prepared(s)'
    BY <1>1, <1>2, <2>2, <2>4 DEF Prepared, Has, SyncTemp
  <2>6. Saver(s)'
    BY <1>1, <2>2, <2>5 DEF Saver, Holds, Stored, Inside
  <2> QED BY <1>1, <1>4, <1>6, <2>1, <2>6, AloneInside
<1> QED BY <1>5, <1>6 DEF SyncTemp

\* What a saver renames into place.
LEMMA RenamedIn ==
  ASSUME FileInv, NEW s \in Savers, at[s] = "rename"
  PROVE  /\ temp[s] = [has |-> view[s] \cup {wants[s]}, ok |-> TRUE, synced |-> TRUE]
         /\ temp[s] # Absent /\ temp[s].synced /\ Has(temp[s]) = view[s] \cup {wants[s]}
         /\ Has(file) \subseteq view[s]
<1>1. /\ temp[s] = [has |-> view[s] \cup {wants[s]}, ok |-> TRUE, synced |-> TRUE]
      /\ Has(file) \subseteq view[s]
  BY DEF FileInv, Saver, Prepared
<1>2. view[s] \cup {wants[s]} \in SUBSET Updates
  BY DEF FileInv, FileTypeOK
<1>3. temp[s] \in Contents
  BY <1>1, <1>2 DEF Contents
<1>4. temp[s] # Absent
  BY <1>3, StoreFileAssumption DEF Contents
<1>5. temp[s].synced /\ Has(temp[s]) = view[s] \cup {wants[s]}
  BY <1>1, <1>4 DEF Has
<1> QED BY <1>1, <1>4, <1>5

LEMMA RenameKeeps ==
  ASSUME FileInv, NEW s \in Savers, Rename(s)
  PROVE  FileInv'
<1>1. Inside(s) /\ at[s] = "rename" /\ lock' = s
  BY DEF Rename, Inside, FileInv, Saver, Holds
<1>2. FileTypeOK'
  BY <1>1, RenamedIn, SaveTypeOK DEF FileInv
<1>3. CASE Throws(s) /\ file' = file
  BY <1>1, <1>2, <1>3, ThrowsKeeps DEF Rename
<1>4. CASE file' = temp[s] /\ Goes(s, "dirsync")
  <2>1. file'.synced /\ Has(file)' = view[s] \cup {wants[s]} /\ Has(file) \subseteq Has(file)'
    <3>1. temp[s].synced /\ Has(temp[s]) = view[s] \cup {wants[s]} /\ Has(file) \subseteq view[s]
      BY <1>1, RenamedIn
    <3>2. Has(file)' = Has(temp[s])
      BY <1>4 DEF Has
    <3>3. file'.synced
      BY <1>4, <3>1
    <3> QED BY <3>1, <3>2, <3>3
  <2>2. UNCHANGED <<disk, aside, returned>>
    BY DEF Rename
  <2>3. Durable'
    BY <2>1, <2>2 DEF FileInv, Durable, Everything, PutBy, Has
  <2>4. at'[s] = "dirsync" /\ wants'[s] = wants[s]
    BY <1>4 DEF FileInv, FileTypeOK, Goes, Rename
  <2>5. Saver(s)'
    BY <1>1, <2>1, <2>4 DEF Saver, Holds, Prepared, Stored, Inside, Everything
  <2> QED BY <1>1, <1>2, <1>4, <2>3, <2>5, AloneInside
<1> QED BY <1>3, <1>4 DEF Rename

LEMMA SyncDirectoryKeeps ==
  ASSUME FileInv, NEW s \in Savers, SyncDirectory(s)
  PROVE  FileInv'
<1>1. Inside(s) /\ at[s] = "dirsync" /\ lock' = s
  BY DEF SyncDirectory, Inside, FileInv, Saver, Holds
<1>2. FileTypeOK'
  BY <1>1, SaveTypeOK DEF FileInv
<1>3. CASE Throws(s) /\ disk' = disk
  BY <1>1, <1>2, <1>3, ThrowsKeeps DEF SyncDirectory
<1>4. CASE disk' = file /\ Goes(s, "release")
  <2>1. UNCHANGED <<file, aside, returned>>
    BY DEF SyncDirectory
  <2>2. Durable'
    BY <1>4, <2>1 DEF FileInv, Durable, Everything, PutBy, Has
  <2>3. at'[s] = "release" /\ wants'[s] = wants[s]
    BY <1>4 DEF FileInv, FileTypeOK, Goes, SyncDirectory
  <2>4. wants[s] \in Everything
    BY <1>1 DEF FileInv, Saver, Stored
  <2>5. wants'[s] \in Everything' /\ wants'[s] \in (Has(disk) \cup PutBy)'
    BY <1>4, <2>1, <2>3, <2>4 DEF Everything, PutBy, Has
  <2>6. Saver(s)'
    BY <1>1, <2>3, <2>5 DEF Saver, Holds, Prepared, Stored, Inside
  <2> QED BY <1>1, <1>2, <1>4, <2>2, <2>6, AloneInside
<1> QED BY <1>3, <1>4 DEF SyncDirectory

LEMMA ReleaseKeeps ==
  ASSUME FileInv, NEW s \in Savers, Release(s)
  PROVE  FileInv'
<1>1. FileTypeOK'
  BY LockTypeOK DEF FileInv
<1>2. Inside(s) /\ at[s] = "release" /\ Goes(s, "idle")
  BY DEF Release, Inside
<1>3. Stored(s) /\ UNCHANGED <<file, disk, aside>>
  BY DEF FileInv, Saver, Release
<1>4. returned' \subseteq returned \cup (Everything \cap (Has(disk) \cup PutBy))
  <2>1. returned' = returned \/ (outcome[s] = "stored" /\ returned' = returned \cup {wants[s]})
    <3>1. CASE returned' = returned
      BY <3>1
    <3>2. CASE returned' = IF outcome[s] = "stored" THEN returned \cup {wants[s]} ELSE returned
      BY <3>2
    <3> QED BY <3>1, <3>2, Zenon DEF Release
  <2> QED BY <1>2, <1>3, <2>1 DEF Stored
<1>5. Durable'
  BY <1>3, <1>4 DEF FileInv, Durable, Everything, PutBy, Has
<1>6. (~Inside(s))'
  BY <1>2 DEF FileInv, FileTypeOK, Goes, Inside
<1> QED BY <1>1, <1>2, <1>5, <1>6, OutsideIsFine, AloneInside

LEMMA CrashKeeps ==
  ASSUME FileInv, NEW s \in Savers, Crash(s)
  PROVE  FileInv'
<1>1. FileTypeOK'
  BY OtherTypeOK DEF FileInv
<1>2. Durable'
  BY DurableKeeps DEF FileInv, Crash
<1>3. (~Inside(s))' /\ \A t \in Savers \ {s} : at'[t] = at[t] /\ temp'[t] = temp[t]
  BY DEF FileInv, FileTypeOK, Crash, Goes, Inside
<1>4. OneSaverInside'
  BY <1>3 DEF FileInv, OneSaverInside, Inside
<1>5. ASSUME NEW t \in Savers PROVE Saver(t)'
  <2>1. CASE t = s
    BY <1>3, <2>1, OutsideIsFine
  <2>2. CASE t # s
    BY <1>3, <2>2, BystanderKeeps DEF FileInv, Crash
  <2> QED BY <2>1, <2>2
<1> QED BY <1>1, <1>2, <1>4, <1>5 DEF FileInv

LEMMA ReadSnapshotKeeps ==
  ASSUME FileInv, NEW r \in Readers, ReadSnapshot(r)
  PROVE  FileInv'
<1>1. FileTypeOK'
  BY OtherTypeOK DEF FileInv
<1>2. Durable'
  BY DurableKeeps DEF FileInv, ReadSnapshot
<1>3. \A t \in Savers : at'[t] = at[t]
  BY StoreFileAssumption DEF FileInv, FileTypeOK, ReadSnapshot, Goes
<1>4. OneSaverInside'
  BY <1>3 DEF FileInv, OneSaverInside, Inside
<1>5. \A t \in Savers : Saver(t)'
  BY <1>3, BystanderKeeps DEF FileInv, ReadSnapshot
<1> QED BY <1>1, <1>2, <1>4, <1>5 DEF FileInv

\* Putting contents aside takes nothing away.
LEMMA PutAsideKeepsEverything ==
  ASSUME aside' = aside \cup {file}, file' = Absent, file # Absent
  PROVE  /\ Has(file)' = {} /\ PutBy' = PutBy \cup Has(file)
         /\ Everything' = Everything /\ file \in aside' /\ aside \subseteq aside'
BY DEF Has, PutBy, Everything

LEMMA QuarantineKeeps ==
  ASSUME FileInv, NEW p \in Savers \cup Readers, Quarantine(p)
  PROVE  FileInv'
<1>1. FileTypeOK'
  BY OtherTypeOK DEF FileInv
<1>2. UNCHANGED <<disk, lock, temp, view, wants, outcome, returned>>
  BY DEF Quarantine
<1>3. \/ UNCHANGED <<file, aside>>
      \/ aside' = aside \cup {file} /\ file' = Absent /\ file # Absent
  BY DEF Quarantine
<1>4. Everything' = Everything /\ PutBy \subseteq PutBy' /\ aside \subseteq aside'
  BY <1>3, PutAsideKeepsEverything DEF Everything, PutBy, Has
<1>5. Durable'
  <2>1. file' # Absent => file' = file
    BY <1>3
  <2> QED BY <1>2, <1>4, <2>1 DEF FileInv, Durable, Has
<1>6. \A t \in Savers : at'[t] = at[t] \/ (t = p /\ at[t] = "quarantine" /\ at'[t] = "release")
  <2>1. ASSUME NEW t \in Savers PROVE at'[t] = at[t] \/ (t = p /\ at'[t] = "release")
    <3>1. at \in [Savers \cup Readers -> Places] /\ t \in Savers \cup Readers
      BY DEF FileInv, FileTypeOK
    <3>2. at' = [at EXCEPT ![p] = IF p \in Savers THEN "release" ELSE "idle"]
      BY DEF Quarantine, Goes
    <3>3. CASE t = p
      BY <3>1, <3>2, <3>3
    <3>4. CASE t # p
      BY <3>1, <3>2, <3>4
    <3> QED BY <3>3, <3>4
  <2>2. at[p] = "quarantine"
    BY DEF Quarantine
  <2> QED BY <2>1, <2>2
<1>7. OneSaverInside'
  BY <1>6 DEF FileInv, OneSaverInside, Inside
<1>8. ASSUME NEW t \in Savers PROVE Saver(t)'
  <2>1. Holds(t) /\ Prepared(t) /\ Stored(t)
    BY DEF FileInv, Saver
  <2>2. Holds(t)'
    BY <1>2, <1>6, <2>1 DEF Holds, Inside
  <2>3. Has(file)' \subseteq Has(file)
    BY <1>3 DEF Has
  <2>4. view[t] = Has(file) => view[t] = Has(file)' \/ \E c \in aside' : view[t] = c.has
    BY <1>3 DEF Has
  <2>5. Prepared(t)'
    BY <1>2, <1>4, <1>6, <2>1, <2>3, <2>4 DEF Prepared
  <2>6. (Has(disk) \cup PutBy) \subseteq (Has(disk) \cup PutBy)'
    BY <1>2, <1>4 DEF Has
  <2>7. Stored(t)'
    BY <1>2, <1>4, <1>6, <2>1, <2>6 DEF Stored
  <2> QED BY <2>2, <2>5, <2>7 DEF Saver
<1> QED BY <1>1, <1>5, <1>7, <1>8 DEF FileInv

LEMMA PowerLossKeeps ==
  ASSUME FileInv, PowerLoss
  PROVE  FileInv'
<1>1. FileTypeOK'
  BY OtherTypeOK DEF FileInv
<1>2. AfterLoss(file) = {file} /\ AfterLoss(disk) = {disk}
  BY DEF FileInv, Durable, AfterLoss
<1>3. file' \in {file, disk} /\ disk' = file' /\ UNCHANGED <<aside, returned>>
  BY <1>2 DEF PowerLoss
<1>4. PutBy' = PutBy /\ Has(disk)' = Has(file)'
  BY <1>3 DEF PutBy, Has
<1>5. Has(file)' \in {Has(file), Has(disk)}
  BY <1>3 DEF Has
<1>6. Durable'
  BY <1>3, <1>4, <1>5 DEF FileInv, Durable, Everything
<1>7. \A t \in Savers : (~Inside(t))'
  BY DEF PowerLoss, Inside
<1>8. OneSaverInside' /\ \A t \in Savers : Saver(t)'
  BY <1>7, OutsideIsFine DEF OneSaverInside
<1> QED BY <1>1, <1>6, <1>8 DEF FileInv

\* An edit by hand takes nothing away.
LEMMA EditKeepsHas ==
  ASSUME FileInv, Edit
  PROVE  /\ file' # Absent /\ file'.synced /\ Has(file)' = Has(file)
         /\ disk' = file' /\ UNCHANGED <<lock, temp, memory, aside, returned>>
<1>1. file \in Contents /\ file # Absent /\ file.synced
  BY DEF FileInv, FileTypeOK, Durable, Edit
<1>2. file' = [file EXCEPT !.ok = FALSE]
  BY DEF Edit
<1>3. file' \in Contents /\ file'.has = file.has /\ file'.synced = file.synced
  BY <1>1, <1>2 DEF Contents
<1>4. file' # Absent
  BY <1>3, StoreFileAssumption DEF Contents
<1>5. Has(file)' = Has(file)
  BY <1>1, <1>3, <1>4 DEF Has
<1> QED BY <1>1, <1>3, <1>4, <1>5 DEF Edit

LEMMA EditKeeps ==
  ASSUME FileInv, Edit
  PROVE  FileInv'
<1>1. FileTypeOK'
  BY OtherTypeOK DEF FileInv
<1>2. /\ file' # Absent /\ file'.synced /\ Has(file)' = Has(file)
      /\ disk' = file' /\ UNCHANGED <<lock, temp, at, view, wants, outcome, aside, returned>>
  BY EditKeepsHas DEF memory
<1>3. PutBy' = PutBy /\ Has(disk)' = Has(file)' /\ Everything' = Everything
  BY <1>2 DEF PutBy, Has, Everything
<1>4. Durable'
  BY <1>2, <1>3 DEF FileInv, Durable, Everything
<1>5. OneSaverInside'
  BY <1>2 DEF FileInv, OneSaverInside, Inside
<1>6. ASSUME NEW t \in Savers PROVE Saver(t)'
  <2>1. Holds(t) /\ Prepared(t) /\ Stored(t)
    BY DEF FileInv, Saver
  <2>2. Holds(t)' /\ Prepared(t)'
    BY <1>2, <2>1 DEF Holds, Inside, Prepared
  <2>3. Stored(t)'
    BY <1>2, <1>3, <2>1 DEF Stored, Everything
  <2> QED BY <2>2, <2>3 DEF Saver
<1> QED BY <1>1, <1>4, <1>5, <1>6 DEF FileInv

LEMMA ClearLockKeeps ==
  ASSUME FileInv, ClearLock
  PROVE  FileInv'
<1>1. FileTypeOK'
  BY OtherTypeOK DEF FileInv
<1>2. Durable'
  BY DurableKeeps DEF FileInv, ClearLock
<1>3. \A t \in Savers : (~Inside(t))'
  BY DEF ClearLock, memory, Inside
<1>4. OneSaverInside' /\ \A t \in Savers : Saver(t)'
  BY <1>3, OutsideIsFine DEF OneSaverInside
<1> QED BY <1>1, <1>2, <1>4 DEF FileInv

-----------------------------------------------------------------------------
(* The invariant of the specification.                                     *)

LEMMA InitInv == FileInit => FileInv
<1> SUFFICES ASSUME FileInit PROVE FileInv
  OBVIOUS
<1>1. FileTypeOK
  BY InitTypeOK
<1>2. \A s \in Savers : ~Inside(s)
  BY DEF FileInit, Inside
<1>3. \A s \in Savers : Saver(s)
  BY <1>2 DEF Saver, Holds, Prepared, Stored, Inside
<1>4. Durable
  BY DEF FileInit, Durable, Has
<1> QED BY <1>1, <1>2, <1>3, <1>4 DEF FileInv, OneSaverInside

LEMMA NextInv == FileInv /\ [FileNext]_fileVars => FileInv'
<1> SUFFICES ASSUME FileInv, [FileNext]_fileVars PROVE FileInv'
  OBVIOUS
<1>1. ASSUME NEW s \in Savers, Begin(s) \/ Step(s) \/ Crash(s)
      PROVE  FileInv'
  BY <1>1, BeginKeeps, TryLockKeeps, WriteOwnerKeeps, ReadKeeps, WriteTempKeeps, SyncTempKeeps,
     RenameKeeps, SyncDirectoryKeeps, ReleaseKeeps, CrashKeeps DEF Step
<1>2. ASSUME NEW r \in Readers, ReadSnapshot(r)
      PROVE  FileInv'
  BY <1>2, ReadSnapshotKeeps
<1>3. ASSUME NEW p \in Savers \cup Readers, Quarantine(p)
      PROVE  FileInv'
  BY <1>3, QuarantineKeeps
<1>4. CASE PowerLoss \/ Edit \/ ClearLock
  BY <1>4, PowerLossKeeps, EditKeeps, ClearLockKeeps
<1>5. CASE UNCHANGED fileVars
  <2>1. FileTypeOK'
    BY <1>5 DEF FileInv, FileTypeOK, fileVars, memory
  <2>2. Durable'
    BY <1>5, DurableKeeps DEF FileInv, fileVars
  <2>3. OneSaverInside'
    BY <1>5 DEF FileInv, OneSaverInside, Inside, fileVars, memory
  <2>4. \A t \in Savers : Saver(t)'
    BY <1>5, BystanderKeeps DEF FileInv, fileVars, memory
  <2> QED BY <2>1, <2>2, <2>3, <2>4 DEF FileInv
<1> QED BY <1>1, <1>2, <1>3, <1>4, <1>5 DEF FileNext

LEMMA AlwaysInv == FileSpec => []FileInv
BY InitInv, NextInv, PTL DEF FileSpec

\* Whatever fails, dies or loses power, two savers are never between making the
\* lock directory and removing it (withDirectoryLock of cache-lock.ts).
THEOREM SaversTakeTurns == FileSpec => []OneSaverInside
<1>1. FileInv => OneSaverInside
  BY DEF FileInv
<1> QED BY <1>1, AlwaysInv, PTL

\* The path of the accounts file never names half a file (writeJsonFileAtomic
\* syncs the temporary file before the rename).
THEOREM FileIsWhole == FileSpec => []NeverTorn
<1>1. FileInv => NeverTorn
  BY DEF FileInv, Durable, NeverTorn
<1> QED BY <1>1, AlwaysInv, PTL

-----------------------------------------------------------------------------
(* The refinement.                                                         *)

PutAsideWhole == {Whole(c) : c \in aside}

\* Neither holding nor being absent is changed by leaving out what is synced.
LEMMA WholeHolds ==
  ASSUME NEW c \in Contents \cup {Absent}
  PROVE  /\ Store!Held(Whole(c)) = Has(c)
         /\ Whole(c) \in Store!StoreValues \cup {Absent}
         /\ Whole(c) = Absent <=> c = Absent
         /\ c # Absent => Whole(c) = [has |-> c.has, ok |-> c.ok] /\ Whole(c).has = c.has
<1>1. CASE c = Absent
  BY <1>1 DEF Whole, Store!Held, Has
<1>2. CASE c # Absent
  <2>1. Whole(c) = [has |-> c.has, ok |-> c.ok] /\ c.has \in SUBSET Updates /\ c.ok \in BOOLEAN
    BY <1>2 DEF Whole, Contents
  <2>2. Whole(c) \in Store!StoreValues
    BY <2>1 DEF Store!StoreValues
  <2>3. Whole(c) # Absent
    BY <2>2, StoreFileAssumption DEF Store!StoreValues
  <2>4. Whole(c).has = c.has
    BY <2>1
  <2> QED BY <1>2, <2>1, <2>2, <2>3, <2>4 DEF Store!Held, Has
<1> QED BY <1>1, <1>2

LEMMA WholePutBy ==
  ASSUME FileTypeOK
  PROVE  UNION {c.has : c \in PutAsideWhole} = PutBy
<1>1. \A c \in aside : c \in Contents /\ c # Absent
  BY StoreFileAssumption DEF FileTypeOK, Contents
<1>2. \A c \in aside : Whole(c).has = c.has
  BY <1>1, WholeHolds
<1> QED BY <1>2 DEF PutAsideWhole, PutBy

LEMMA NothingIsLost ==
  ASSUME FileInv
  PROVE  Store!NothingReturnedIsLost
<1>1. Store!Held(Whole(file)) = Has(file)
  BY WholeHolds DEF FileInv, FileTypeOK
<1>2. UNION {c.has : c \in PutAsideWhole} = PutBy
  BY WholePutBy DEF FileInv
<1> QED BY <1>1, <1>2 DEF FileInv, Durable, Everything, Store!NothingReturnedIsLost, PutAsideWhole

LEMMA QuietStep ==
  ASSUME UNCHANGED <<file, aside, returned>>
  PROVE  UNCHANGED Store!storeVars
BY DEF Store!storeVars, Whole

\* Putting a temporary file in place adds one update.
LEMMA RenameApplies ==
  ASSUME FileInv, FileInv', NEW s \in Savers, Rename(s), file' # file
  PROVE  Store!Apply
<1>1. at[s] = "rename" /\ file' = temp[s] /\ UNCHANGED <<aside, returned>>
  BY DEF Rename
<1>2. temp[s] = [has |-> view[s] \cup {wants[s]}, ok |-> TRUE, synced |-> TRUE] /\ temp[s] # Absent
  BY <1>1, RenamedIn
<1>3. Whole(file)' = [has |-> view[s] \cup {wants[s]}, ok |-> TRUE]
  BY <1>1, <1>2 DEF Whole
<1>4. view[s] = Has(file) \/ \E c \in aside : view[s] = c.has
  BY <1>1 DEF FileInv, Saver, Prepared
<1>5. PICK base \in {Whole(file)} \cup PutAsideWhole : Store!Held(base) = view[s]
  <2>1. CASE view[s] = Has(file)
    BY <2>1, WholeHolds DEF FileInv, FileTypeOK
  <2>2. ASSUME NEW c \in aside, view[s] = c.has
        PROVE  Whole(c) \in PutAsideWhole /\ Store!Held(Whole(c)) = view[s]
    <3>1. c \in Contents /\ c # Absent
      BY StoreFileAssumption DEF FileInv, FileTypeOK, Contents
    <3> QED BY <2>2, <3>1, WholeHolds DEF Has, PutAsideWhole
  <2> QED BY <1>4, <2>1, <2>2
<1>6. wants[s] \in Updates
  BY DEF FileInv, FileTypeOK
<1>7. Whole(file)' = [has |-> Store!Held(base) \cup {wants[s]}, ok |-> TRUE]
  BY <1>3, <1>5
<1>8. PutAsideWhole' = PutAsideWhole
  BY <1>1 DEF PutAsideWhole, Whole
<1> QED BY <1>1, <1>5, <1>6, <1>7, <1>8 DEF Store!Apply, PutAsideWhole

LEMMA ReleaseReturns ==
  ASSUME FileInv, NEW s \in Savers, Release(s), returned' # returned
  PROVE  Store!Return
<1>1. UNCHANGED <<file, aside>>
  BY DEF Release
<1>2. returned' = IF outcome[s] = "stored" THEN returned \cup {wants[s]} ELSE returned
  BY Zenon DEF Release
<1>3. returned' = returned \cup {wants[s]} /\ wants[s] \in Updates
  BY <1>2 DEF FileInv, FileTypeOK
<1> QED BY <1>1, <1>3 DEF Store!Return, Whole

LEMMA QuarantinePutsAside ==
  ASSUME FileInv, NEW p \in Savers \cup Readers, Quarantine(p),
         ~ UNCHANGED <<file, aside, returned>>
  PROVE  Store!PutAside
<1>1. file # Absent /\ aside' = aside \cup {file} /\ file' = Absent /\ returned' = returned
  BY DEF Quarantine
<1>2. Whole(file) # Absent /\ Whole(file)' = Absent
  BY <1>1, WholeHolds DEF FileInv, FileTypeOK, Whole
<1>3. PutAsideWhole' = PutAsideWhole \cup {Whole(file)}
  BY <1>1 DEF PutAsideWhole, Whole
<1> QED BY <1>1, <1>2, <1>3 DEF Store!PutAside, PutAsideWhole

LEMMA PowerLossFallsBack ==
  ASSUME FileInv, FileInv', PowerLoss
  PROVE  Store!FallBack
<1>1. AfterLoss(file) = {file} /\ AfterLoss(disk) = {disk}
  BY DEF FileInv, Durable, AfterLoss
<1>2. file' \in {file, disk} /\ UNCHANGED <<aside, returned>>
  BY <1>1 DEF PowerLoss
<1>3. Has(file)' \subseteq Everything
  BY <1>2 DEF FileInv, Durable, Everything, Has
<1>4. /\ Whole(file)' \in Store!StoreValues \cup {Absent}
      /\ Store!Held(Whole(file)) = Has(file)
      /\ Store!Held(Whole(file)') = Has(file)'
  <2>1. file \in Contents \cup {Absent} /\ file' \in Contents \cup {Absent}
    BY DEF FileInv, FileTypeOK
  <2>2. Whole(file)' = Whole(file') /\ Has(file)' = Has(file')
    BY DEF Whole, Has
  <2> QED BY <2>1, <2>2, WholeHolds
<1>5. UNION {c.has : c \in PutAsideWhole} = PutBy
  BY WholePutBy DEF FileInv
<1>6. PutAsideWhole' = PutAsideWhole
  BY <1>2 DEF PutAsideWhole, Whole
<1>7. Store!Held(Whole(file)') \subseteq
        Store!Held(Whole(file)) \cup UNION {c.has : c \in PutAsideWhole}
  BY <1>3, <1>4, <1>5 DEF Everything
<1> QED BY <1>2, <1>4, <1>6, <1>7 DEF Store!FallBack, PutAsideWhole

LEMMA SpoiledRecord ==
  ASSUME NEW h \in SUBSET Updates, NEW b \in BOOLEAN, NEW c, c = [has |-> h, ok |-> b]
  PROVE  [c EXCEPT !.ok = FALSE] = [has |-> h, ok |-> FALSE]
<1> DEFINE R == [has : SUBSET Updates, ok : BOOLEAN]
           d == [c EXCEPT !.ok = FALSE]
           e == [has |-> h, ok |-> FALSE]
<1>1. c \in R /\ c.has = h
  OBVIOUS
<1>2. d \in R /\ d.has = h /\ d.ok = FALSE
  BY <1>1
<1>3. e \in R /\ e.has = h /\ e.ok = FALSE
  OBVIOUS
<1>4. \A x, y \in R : x.has = y.has /\ x.ok = y.ok => x = y
  OBVIOUS
<1> HIDE DEF R, d, e
<1>5. d = e
  BY <1>2, <1>3, <1>4
<1> QED BY <1>5 DEF d, e

LEMMA EditSpoils ==
  ASSUME FileInv, Edit
  PROVE  Store!Spoil
<1>1. file \in Contents /\ file # Absent /\ file' = [file EXCEPT !.ok = FALSE]
  BY DEF FileInv, FileTypeOK, Edit
<1>2. file' # Absent /\ UNCHANGED <<aside, returned>>
  BY EditKeepsHas
<1>3. file'.has = file.has /\ file'.ok = FALSE
  BY <1>1 DEF Contents
<1>4. Whole(file) # Absent /\ Whole(file) = [has |-> file.has, ok |-> file.ok]
  BY <1>1, WholeHolds
<1>5. Whole(file)' = [has |-> file.has, ok |-> FALSE]
  BY <1>2, <1>3 DEF Whole
<1>6. [Whole(file) EXCEPT !.ok = FALSE] = [has |-> file.has, ok |-> FALSE]
  <2>1. file.has \in SUBSET Updates /\ file.ok \in BOOLEAN
    BY <1>1 DEF Contents
  <2> QED BY <1>4, <2>1, SpoiledRecord
<1> QED BY <1>2, <1>4, <1>5, <1>6 DEF Store!Spoil, Whole

LEMMA StepRefines ==
  ASSUME FileInv, FileInv', [FileNext]_fileVars
  PROVE  Store!StoreNext \/ UNCHANGED Store!storeVars
<1>1. ASSUME NEW s \in Savers, Step(s) \/ Begin(s) \/ Crash(s)
      PROVE  Store!StoreNext \/ UNCHANGED Store!storeVars
  <2>1. CASE Rename(s)
    <3>1. UNCHANGED <<aside, returned>>
      BY <2>1 DEF Rename
    <3> QED BY <2>1, <3>1, RenameApplies, QuietStep DEF Store!StoreNext
  <2>2. CASE Release(s)
    <3>1. UNCHANGED <<file, aside>>
      BY <2>2 DEF Release
    <3> QED BY <2>2, <3>1, ReleaseReturns, QuietStep DEF Store!StoreNext
  <2>3. CASE ~Rename(s) /\ ~Release(s)
    <3>1. UNCHANGED <<file, aside, returned>>
      BY <1>1, <2>3 DEF Step, Begin, TryLock, WriteOwner, Read, WriteTemp, SyncTemp, SyncDirectory, Crash
    <3> QED BY <3>1, QuietStep
  <2> QED BY <2>1, <2>2, <2>3
<1>2. ASSUME NEW r \in Readers, ReadSnapshot(r)
      PROVE  UNCHANGED Store!storeVars
  BY <1>2, QuietStep DEF ReadSnapshot
<1>3. ASSUME NEW p \in Savers \cup Readers, Quarantine(p)
      PROVE  Store!StoreNext \/ UNCHANGED Store!storeVars
  BY <1>3, QuarantinePutsAside, QuietStep DEF Store!StoreNext
<1>4. CASE PowerLoss
  BY <1>4, PowerLossFallsBack DEF Store!StoreNext
<1>5. CASE Edit
  BY <1>5, EditSpoils DEF Store!StoreNext
<1>6. CASE ClearLock \/ UNCHANGED fileVars
  BY <1>6, QuietStep DEF ClearLock, fileVars
<1> QED BY <1>1, <1>2, <1>3, <1>4, <1>5, <1>6 DEF FileNext

LEMMA StoreInitRefines == FileInit => Store!StoreInit
BY DEF FileInit, Store!StoreInit, Whole

\* The save, the quarantine and every fault between their steps implement one
\* store that changes by whole updates and loses none whose save returned.
THEOREM SaveImplementsStore == FileSpec => SavesAreAtomic
<1>1. FileInv /\ FileInv' /\ [FileNext]_fileVars
        => [Store!StoreNext /\ Store!NothingReturnedIsLost']_(Store!storeVars)
  <2> SUFFICES ASSUME FileInv, FileInv', [FileNext]_fileVars
               PROVE  \/ Store!StoreNext /\ Store!NothingReturnedIsLost'
                      \/ UNCHANGED Store!storeVars
    OBVIOUS
  <2>1. FileInv' => Store!NothingReturnedIsLost'
    BY NothingIsLost, PTL
  <2> QED BY <2>1, StepRefines
<1> QED BY <1>1, StoreInitRefines, AlwaysInv, PTL DEF FileSpec, SavesAreAtomic, Store!StoreSpec

-----------------------------------------------------------------------------
(* Without a fault the lock goes with the saver inside.                    *)

\* A step without a fault comes from a state without one.
LEMMA FaultsStay ==
  ASSUME FileInv, [FileNext]_fileVars, faults' = 0
  PROVE  faults = 0 /\ ~Fault
<1>1. faults \in Nat
  BY StoreFileAssumption DEF FileInv, FileTypeOK
<1>2. ~Fault
  BY <1>1 DEF Fault
<1>3. UNCHANGED faults
  BY <1>2 DEF FileNext, Begin, Step, TryLock, WriteOwner, Read, ReadSnapshot, Quarantine,
     WriteTemp, SyncTemp, Rename, SyncDirectory, Release, Throws, Crash, PowerLoss, Edit,
     ClearLock, fileVars
<1> QED BY <1>2, <1>3

LEMMA LockGoes ==
  ASSUME FileInv, LockIsLetGo, [FileNext]_fileVars
  PROVE  LockIsLetGo'
<1> SUFFICES ASSUME faults' = 0
             PROVE  (lock # Free)' <=> (\E t \in Savers : Inside(t))'
  BY DEF LockIsLetGo
<1>0. ~Fault /\ (lock # Free <=> \E t \in Savers : Inside(t))
  BY FaultsStay DEF LockIsLetGo
<1>1. at \in [Savers \cup Readers -> Places] /\ FileTypeOK /\ \A s \in Savers : Holds(s)
  BY DEF FileInv, FileTypeOK, Saver
\* A step that leaves the lock and who is inside.
<1>2. ASSUME lock' = lock, \A t \in Savers : Inside(t)' <=> Inside(t)
      PROVE  (lock # Free)' <=> (\E t \in Savers : Inside(t))'
  BY <1>0, <1>2
<1>3. ASSUME NEW p \in Savers \cup Readers, NEW place \in Places, Goes(p, place), lock' = lock,
             p \in Savers => (at[p] \in {"idle", "lock"} <=> place \in {"idle", "lock"})
      PROVE  (lock # Free)' <=> (\E t \in Savers : Inside(t))'
  <2>1. \A t \in Savers : at'[t] = IF t = p THEN place ELSE at[t]
    BY <1>1, <1>3 DEF Goes
  <2> QED BY <1>2, <1>3, <2>1 DEF Inside
<1>4. ASSUME NEW s \in Savers, Begin(s) \/ Step(s)
      PROVE  (lock # Free)' <=> (\E t \in Savers : Inside(t))'
  <2>0. s \in Savers \cup Readers /\ \A place : Goes(s, place) =>
          \A t \in Savers : at'[t] = IF t = s THEN place ELSE at[t]
    BY <1>1 DEF Goes
  <2>1. CASE Begin(s)
    BY <2>0, <2>1, <1>3 DEF Begin, Places
  <2>2. CASE TryLock(s) /\ lock = Free
    <3>1. lock' = Unowned /\ Goes(s, "owner")
      BY <2>2 DEF TryLock
    <3> QED BY <2>0, <3>1, StoreFileAssumption DEF Inside
  <2>3. CASE TryLock(s) /\ lock # Free
    <3>1. CASE UNCHANGED <<lock, at>>
      BY <3>1, <1>2 DEF Inside
    <3>2. CASE Goes(s, "idle") /\ UNCHANGED lock
      BY <3>2, <2>0, <2>3, <1>3 DEF TryLock, Places
    <3> QED BY <2>3, <3>1, <3>2 DEF TryLock
  <2>4. CASE WriteOwner(s)
    <3>1. lock' = s /\ Goes(s, "read")
      BY <2>4, <1>0 DEF WriteOwner
    <3> QED BY <2>0, <3>1, StoreFileAssumption DEF Inside
  <2>5. CASE Read(s)
    <3>1. lock' = lock /\ at[s] = "read" /\ \E place \in {"release", "write", "quarantine"} : Goes(s, place)
      BY <2>5 DEF Read
    <3> QED BY <2>0, <3>1, <1>3 DEF Places
  <2>6. CASE WriteTemp(s) \/ SyncTemp(s) \/ Rename(s) \/ SyncDirectory(s)
    <3>1. /\ lock' = lock /\ at[s] \in {"write", "sync", "rename", "dirsync"}
          /\ \E place \in {"sync", "rename", "dirsync", "release"} : Goes(s, place)
      BY <2>6, <1>0 DEF WriteTemp, SyncTemp, Rename, SyncDirectory, Throws
    <3> QED BY <2>0, <3>1, <1>3 DEF Places
  <2>7. CASE Release(s)
    <3>1. at[s] = "release" /\ Goes(s, "idle") /\ lock' = IF lock = s THEN Free ELSE lock
      BY <2>7, <1>0 DEF Release
    <3>2. lock = s /\ \A t \in Savers : Inside(t) => t = s
      BY <3>1, <1>1 DEF Holds, Inside, FileInv, OneSaverInside
    <3> QED BY <2>0, <3>1, <3>2 DEF Inside
  <2> QED BY <1>4, <2>1, <2>2, <2>3, <2>4, <2>5, <2>6, <2>7 DEF Step
<1>5. ASSUME NEW r \in Readers, ReadSnapshot(r)
      PROVE  (lock # Free)' <=> (\E t \in Savers : Inside(t))'
  BY <1>5, <1>3, StoreFileAssumption DEF ReadSnapshot, Places
<1>6. ASSUME NEW p \in Savers \cup Readers, Quarantine(p)
      PROVE  (lock # Free)' <=> (\E t \in Savers : Inside(t))'
  <2>1. lock' = lock /\ at[p] = "quarantine" /\ Goes(p, IF p \in Savers THEN "release" ELSE "idle")
    BY <1>6 DEF Quarantine
  <2> QED BY <2>1, <1>3 DEF Places
<1>7. CASE ClearLock \/ UNCHANGED fileVars
  BY <1>7, <1>0, <1>2 DEF ClearLock, fileVars, memory, Inside
<1> QED BY <1>0, <1>4, <1>5, <1>6, <1>7 DEF FileNext, Crash, PowerLoss, Edit

LEMMA LockInit == FileInit => LockIsLetGo
BY DEF FileInit, LockIsLetGo, Inside

\* Without a fault no saver leaves the lock directory behind: it is there exactly
\* while one is between making and removing it (withDirectoryLock).
THEOREM LocksAreLetGo == FileSpec => []LockIsLetGo
<1>1. FileInv /\ LockIsLetGo /\ [FileNext]_fileVars => LockIsLetGo'
  BY LockGoes
<1> QED BY <1>1, LockInit, AlwaysInv, PTL DEF FileSpec

-----------------------------------------------------------------------------
(* Records of sessions: what dropping, putting and changing an entry does. *)

Entry(T) == [session : Sessions, value : T]
Distinct(entries) == \A i, j \in DOMAIN entries : entries[i].session = entries[j].session => i = j

LEMMA EntriesAreSequences ==
  ASSUME NEW T, NEW e
  PROVE  e \in Entries(T) <=> e \in Seq(Entry(T)) /\ Len(e) <= MaxKeys
<1>0. MaxKeys \in Nat
  BY AffinityAssumption
<1> DEFINE R == Entry(T)
<1>1. ASSUME NEW n \in 0 .. MaxKeys, e \in [1 .. n -> R]
      PROVE  e \in Seq(R) /\ Len(e) <= MaxKeys
  <2> HIDE DEF R
  <2>1. n \in Nat
    BY <1>0
  <2> QED BY <1>0, <1>1, <2>1
<1>2. ASSUME e \in Seq(R), Len(e) <= MaxKeys
      PROVE  Len(e) \in 0 .. MaxKeys /\ e \in [1 .. Len(e) -> R]
  <2> HIDE DEF R
  <2> QED BY <1>0, <1>2
<1> QED BY <1>1, <1>2 DEF Entries, Entry

LEMMA EntriesHave ==
  ASSUME NEW T, NEW e \in Entries(T)
  PROVE  /\ e \in Seq(Entry(T)) /\ Len(e) \in Nat /\ Len(e) <= MaxKeys
         /\ DOMAIN e = 1 .. Len(e) /\ \A i \in DOMAIN e : e[i] \in Entry(T)
<1>1. e \in Seq(Entry(T)) /\ Len(e) <= MaxKeys
  BY EntriesAreSequences
<1> DEFINE R == Entry(T)
<1> HIDE DEF R
<1>2. e \in Seq(R) => Len(e) \in Nat /\ DOMAIN e = 1 .. Len(e) /\ \A i \in DOMAIN e : e[i] \in R
  OBVIOUS
<1> QED BY <1>1, <1>2 DEF R

\* Every place in a finite set of numbers is taken by one of its elements, and by
\* no other.
LEMMA Placed ==
  ASSUME NEW S, \A k \in S : k \in Nat, IsFiniteSet(S)
  PROVE  /\ Cardinality(S) \in Nat
         /\ \A n \in 1 .. Cardinality(S) :
              Nth(S, n) \in S /\ Cardinality({j \in S : j <= Nth(S, n)}) = n
         /\ \A k \in S : \E n \in 1 .. Cardinality(S) : Nth(S, n) = k
<1> DEFINE c == Cardinality(S)
           upTo(k) == {j \in S : j <= k}
           f == [k \in S |-> Cardinality(upTo(k))]
<1>1. c \in Nat
  BY FS_CardinalityType
<1>2. \A k \in S : IsFiniteSet(upTo(k)) /\ f[k] \in 1 .. c
  <2> SUFFICES ASSUME NEW k \in S PROVE IsFiniteSet(upTo(k)) /\ Cardinality(upTo(k)) \in 1 .. c
    OBVIOUS
  <2>1. upTo(k) \subseteq S /\ k \in upTo(k)
    BY k \in Nat
  <2>2. IsFiniteSet(upTo(k)) /\ Cardinality(upTo(k)) <= c
    BY <2>1, FS_Subset
  <2>3. Cardinality(upTo(k)) \in Nat /\ Cardinality(upTo(k)) # 0
    BY <2>1, <2>2, FS_CardinalityType, FS_EmptySet
  <2> QED BY <1>1, <2>2, <2>3
<1>3. ASSUME NEW j \in S, NEW k \in S, j < k PROVE f[j] # f[k]
  <2>1. upTo(j) \in SUBSET upTo(k) /\ k \in upTo(k) /\ k \notin upTo(j)
    <3>1. j \in Nat /\ k \in Nat
      OBVIOUS
    <3>2. ASSUME NEW i \in S, i <= j PROVE i <= k
      BY <1>3, <3>1, <3>2, i \in Nat
    <3>3. k <= k /\ ~(k <= j)
      BY <1>3, <3>1
    <3> QED BY <3>2, <3>3, Zenon
  <2>2. IsFiniteSet(upTo(k)) /\ upTo(j) # upTo(k)
    BY <1>2, <2>1
  <2> HIDE DEF upTo
  <2>3. Cardinality(upTo(j)) # Cardinality(upTo(k))
    BY <2>1, <2>2, FS_Subset
  <2> QED BY <2>3
<1>4. \A j, k \in S : f[j] = f[k] => j = k
  <2> SUFFICES ASSUME NEW j \in S, NEW k \in S, f[j] = f[k] PROVE j = k
    OBVIOUS
  <2>1. ~(j < k) /\ ~(k < j)
    BY <1>3
  <2> QED BY <2>1, j \in Nat, k \in Nat
<1>5. f \in [S -> 1 .. c]
  BY <1>2
<1> HIDE DEF f
<1>6. f \in Surjection(S, 1 .. c)
  <2>1. f \in Injection(S, 1 .. c)
    BY <1>4, <1>5 DEF Injection, IsInjective
  <2>2. IsFiniteSet(1 .. c) /\ Cardinality(1 .. c) = c
    BY <1>1, FS_Interval
  <2> QED BY <2>1, <2>2, FS_Injection
<1>7. ASSUME NEW n \in 1 .. c
      PROVE  Nth(S, n) \in S /\ f[Nth(S, n)] = n
  <2>1. \E k \in S : f[k] = n
    BY <1>6 DEF Surjection
  <2>2. \A k \in S : f[k] = Cardinality({j \in S : j <= k})
    BY DEF f
  <2> QED BY <2>1, <2>2 DEF Nth
<1>8. ASSUME NEW k \in S PROVE f[k] \in 1 .. c /\ Nth(S, f[k]) = k
  <2>1. f[k] \in 1 .. c
    BY <1>5
  <2> QED BY <2>1, <1>7, <1>4
<1> QED BY <1>1, <1>7, <1>8 DEF f

\* Dropping sessions leaves the entries of the others.
LEMMA WithoutEffect ==
  ASSUME NEW T, NEW e \in Entries(T), NEW gone
  PROVE  /\ Without(e, gone) \in Entries(T) /\ Len(Without(e, gone)) <= Len(e)
         /\ \A i \in DOMAIN Without(e, gone) :
              \E j \in DOMAIN e : e[j] = Without(e, gone)[i] /\ e[j].session \notin gone
         /\ \A j \in DOMAIN e : e[j].session \notin gone =>
              \E i \in DOMAIN Without(e, gone) : Without(e, gone)[i] = e[j]
         /\ Distinct(e) => Distinct(Without(e, gone))
<1> DEFINE kept == {i \in DOMAIN e : e[i].session \notin gone}
           c == Cardinality(kept)
           w == [n \in 1 .. c |-> e[Nth(kept, n)]]
<1>1. Without(e, gone) = w
  BY DEF Without
<1>2. /\ e \in Seq(Entry(T)) /\ Len(e) \in Nat /\ Len(e) <= MaxKeys
      /\ DOMAIN e = 1 .. Len(e) /\ \A i \in DOMAIN e : e[i] \in Entry(T)
  BY EntriesHave
<1>3. /\ \A k \in kept : k \in Nat
      /\ IsFiniteSet(kept) /\ c <= Len(e)
  <2>1. IsFiniteSet(1 .. Len(e)) /\ Cardinality(1 .. Len(e)) = Len(e)
    BY <1>2, FS_Interval
  <2>2. kept \subseteq 1 .. Len(e)
    BY <1>2
  <2> QED BY <2>1, <2>2, FS_Subset
<1>k. \A k \in DOMAIN e : k \in kept <=> e[k].session \notin gone
  OBVIOUS
<1>s. kept \subseteq DOMAIN e
  OBVIOUS
<1> HIDE DEF kept
<1>4. /\ c \in Nat
      /\ \A n \in 1 .. c : Nth(kept, n) \in kept /\ Cardinality({j \in kept : j <= Nth(kept, n)}) = n
      /\ \A k \in kept : \E n \in 1 .. c : Nth(kept, n) = k
  BY <1>3, Placed
<1> HIDE DEF c
<1>5. DOMAIN w = 1 .. c /\ \A n \in 1 .. c : w[n] = e[Nth(kept, n)] /\ w[n] \in Entry(T)
  BY <1>2, <1>4, <1>s
<1>6. w \in [1 .. c -> Entry(T)]
  BY <1>2, <1>4, <1>s
<1> HIDE DEF w
<1>7. w \in Seq(Entry(T)) /\ Len(w) = c
  <2> DEFINE R == Entry(T)
  <2> HIDE DEF R
  <2>1. c \in Nat /\ w \in [1 .. c -> R] => w \in Seq(R) /\ Len(w) = c
    OBVIOUS
  <2> QED BY <1>4, <1>6, <2>1 DEF R
<1>8. c <= MaxKeys
  BY <1>2, <1>3, <1>4, AffinityAssumption
<1>9. w \in Entries(T)
  BY <1>7, <1>8, EntriesAreSequences
<1>10. \A i \in DOMAIN w : \E j \in DOMAIN e : e[j] = w[i] /\ e[j].session \notin gone
  BY <1>4, <1>5, <1>k, <1>s
<1>11. \A j \in DOMAIN e : e[j].session \notin gone => \E i \in DOMAIN w : w[i] = e[j]
  BY <1>4, <1>5, <1>k
<1>12. ASSUME Distinct(e) PROVE Distinct(w)
  <2> SUFFICES ASSUME NEW i \in DOMAIN w, NEW j \in DOMAIN w, w[i].session = w[j].session
               PROVE  i = j
    BY DEF Distinct
  <2>1. Nth(kept, i) = Nth(kept, j)
    BY <1>12, <1>4, <1>5, <1>s DEF Distinct
  <2>2. i \in 1 .. c /\ j \in 1 .. c
    BY <1>5
  <2>3. \A n \in 1 .. c : Cardinality({l \in kept : l <= Nth(kept, n)}) = n
    BY <1>4
  <2> QED BY <2>1, <2>2, <2>3
<1> QED BY <1>1, <1>3, <1>7, <1>9, <1>10, <1>11, <1>12

\* A record within the limit is its own newest part.
LEMMA NewestIsAll ==
  ASSUME NEW T, NEW e \in Entries(T)
  PROVE  Newest(e) = e
<1> DEFINE R == Entry(T)
<1>1. e \in Seq(R) /\ Len(e) \in Nat /\ Len(e) <= MaxKeys /\ MaxKeys \in Nat
  BY EntriesHave, AffinityAssumption
<1>2. Newest(e) = SubSeq(e, 1, Len(e))
  <2>1. ~(Len(e) > MaxKeys)
    BY <1>1
  <2> QED BY <2>1 DEF Newest
<1> HIDE DEF R
<1>3. SubSeq(e, 1, Len(e)) \in Seq(R) /\ Len(SubSeq(e, 1, Len(e))) = Len(e)
      /\ \A i \in 1 .. Len(e) : SubSeq(e, 1, Len(e))[i] = e[i]
  BY <1>1
<1>4. SubSeq(e, 1, Len(e)) = e
  BY <1>1, <1>3, SeqEqual
<1> QED BY <1>2, <1>4

\* q is e with the entry x at its end: the others stay while there is room, and
\* only then is one dropped.
IsPut(T, q, e, x) ==
  /\ q \in Entries(T) /\ \E i \in DOMAIN q : q[i] = x
  /\ \A i \in DOMAIN q : q[i] = x \/ \E j \in DOMAIN e : e[j] = q[i] /\ e[j].session # x.session
  /\ Distinct(e) => Distinct(q)
  /\ \/ Len(Without(e, {x.session})) = MaxKeys /\ Len(e) = MaxKeys /\ Len(q) = MaxKeys
     \/ \A j \in DOMAIN e : e[j].session # x.session => \E i \in DOMAIN q : q[i] = e[j]

LEMMA PutEffect ==
  ASSUME NEW T, NEW e \in Entries(T), NEW s \in Sessions, NEW v \in T
  PROVE  IsPut(T, Put(e, s, v), e, [session |-> s, value |-> v])
<1> DEFINE w == Without(e, {s})
           x == [session |-> s, value |-> v]
           n == Append(w, x)
           d == IF Len(n) > MaxKeys THEN Len(n) - MaxKeys ELSE 0
           q == SubSeq(n, d + 1, Len(n))
           R == Entry(T)
<1>0. MaxKeys \in Nat \ {0}
  BY AffinityAssumption
<1> SUFFICES IsPut(T, Put(e, s, v), e, x)
  OBVIOUS
<1>1. Put(e, s, v) = Newest(n)
  BY DEF Put
<1>2. /\ w \in Entries(T) /\ Len(w) <= Len(e)
      /\ \A i \in DOMAIN w : \E j \in DOMAIN e : e[j] = w[i] /\ e[j].session # s
      /\ \A j \in DOMAIN e : e[j].session # s => \E i \in DOMAIN w : w[i] = e[j]
      /\ Distinct(e) => Distinct(w)
  <2>1. /\ w \in Entries(T) /\ Len(w) <= Len(e)
        /\ \A i \in DOMAIN w : \E j \in DOMAIN e : e[j] = w[i] /\ e[j].session \notin {s}
        /\ \A j \in DOMAIN e : e[j].session \notin {s} => \E i \in DOMAIN w : w[i] = e[j]
        /\ Distinct(e) => Distinct(w)
    BY WithoutEffect
  <2> HIDE DEF w
  <2> QED BY <2>1
<1>3. Len(e) \in Nat /\ Len(e) <= MaxKeys
  BY EntriesHave
<1> HIDE DEF w
<1>4. w \in Seq(R) /\ Len(w) \in Nat /\ Len(w) <= MaxKeys /\ DOMAIN w = 1 .. Len(w)
  BY <1>2, EntriesHave
<1>5. x \in R /\ x.session = s
  BY DEF Entry
<1> HIDE DEF R, x
<1>6. /\ n \in Seq(R) /\ Len(n) = Len(w) + 1
      /\ n[Len(w) + 1] = x /\ \A i \in DOMAIN w : n[i] = w[i]
  BY <1>4, <1>5
<1> HIDE DEF n
<1>7. d \in 0 .. 1 /\ d < Len(n) /\ Len(n) - d <= MaxKeys /\ (d = 1 => Len(w) = MaxKeys)
  <2>1. Len(n) = Len(w) + 1 /\ Len(w) \in Nat /\ Len(w) <= MaxKeys /\ MaxKeys \in Nat
    BY <1>0, <1>4, <1>6
  <2>2. CASE Len(n) > MaxKeys
    <3>1. d = Len(n) - MaxKeys
      BY <2>2
    <3>2. Len(n) = MaxKeys + 1
      BY <2>1, <2>2
    <3>3. d = 1
      BY <2>1, <3>1, <3>2
    <3> HIDE DEF d
    <3> QED BY <1>0, <2>1, <3>2, <3>3
  <2>3. CASE ~(Len(n) > MaxKeys)
    BY <2>1, <2>3
  <2> QED BY <2>2, <2>3
<1>17. Newest(n) = q
  <2>1. Len(n) \in Nat /\ MaxKeys \in Nat
    BY <1>0, <1>4, <1>6
  <2>2. (IF Len(n) > MaxKeys THEN Len(n) - MaxKeys + 1 ELSE 1) = d + 1
    BY <2>1
  <2> QED BY <2>2 DEF Newest
<1> HIDE DEF d
<1>8. /\ q \in Seq(R) /\ Len(q) = Len(n) - d /\ DOMAIN q = 1 .. (Len(n) - d)
      /\ \A i \in 1 .. (Len(n) - d) : q[i] = n[i + d]
  BY <1>4, <1>6, <1>7
<1> HIDE DEF q
<1>9. q \in Entries(T)
  BY <1>7, <1>8, EntriesAreSequences DEF R
<1>10. \A i \in DOMAIN q : i + d \in 1 .. Len(w) + 1 /\ (i + d \in DOMAIN w \/ q[i] = x)
  BY <1>4, <1>6, <1>7, <1>8
<1>11. q[Len(n) - d] = x /\ Len(n) - d \in DOMAIN q
  BY <1>4, <1>6, <1>7, <1>8
<1>12. \A i \in DOMAIN q : q[i] = x \/ (q[i] = w[i + d] /\ i + d \in DOMAIN w)
  BY <1>6, <1>8, <1>10
<1>13. ASSUME NEW i \in DOMAIN q
       PROVE  q[i] = x \/ \E j \in DOMAIN e : e[j] = q[i] /\ e[j].session # s
  BY <1>2, <1>12
<1>14. ASSUME Distinct(e) PROVE Distinct(q)
  <2> SUFFICES ASSUME NEW i \in DOMAIN q, NEW j \in DOMAIN q, q[i].session = q[j].session
               PROVE  i = j
    BY DEF Distinct
  <2>0. i \in Nat /\ j \in Nat /\ q[i] = n[i + d] /\ q[j] = n[j + d]
        /\ i + d \in 1 .. Len(w) + 1 /\ j + d \in 1 .. Len(w) + 1
    <3>1. i \in 1 .. (Len(n) - d) /\ j \in 1 .. (Len(n) - d)
      BY <1>8
    <3>2. Len(n) \in Nat /\ d \in Nat
      BY <1>4, <1>6, <1>7
    <3> QED BY <1>8, <1>10, <3>1, <3>2
  <2>1. \A k \in DOMAIN w : n[k] = w[k] /\ w[k].session # s
    BY <1>2, <1>6
  <2>2. CASE i + d \in DOMAIN w /\ j + d \in DOMAIN w
    <3>0. \A k, l \in DOMAIN w : w[k].session = w[l].session => k = l
      BY <1>2, <1>14 DEF Distinct
    <3>2. w[i + d].session = w[j + d].session
      BY <2>0, <2>1, <2>2
    <3>1. i + d = j + d
      BY <2>2, <3>0, <3>2
    <3> QED BY <2>0, <3>1, <1>7
  <2>3. CASE i + d = Len(w) + 1 \/ j + d = Len(w) + 1
    <3>1. n[Len(w) + 1].session = s
      BY <1>5, <1>6
    <3>2. i + d = Len(w) + 1 /\ j + d = Len(w) + 1
      BY <1>4, <2>0, <2>1, <2>3, <3>1
    <3> QED BY <1>4, <1>7, <2>0, <3>2
  <2> QED BY <1>4, <2>0, <2>2, <2>3
<1>15. CASE d = 0
  <2>1. \A k \in DOMAIN w : k \in DOMAIN q /\ q[k] = w[k]
    BY <1>4, <1>6, <1>8, <1>15
  <2> QED BY <1>1, <1>5, <1>17, <1>2, <1>9, <1>11, <1>13, <1>14, <2>1 DEF IsPut
<1>16. CASE d = 1
  <2>1. Len(w) = MaxKeys /\ Len(q) = MaxKeys /\ Len(e) = MaxKeys
    BY <1>0, <1>2, <1>3, <1>4, <1>6, <1>7, <1>8, <1>16
  <2> QED BY <1>1, <1>5, <1>17, <1>9, <1>11, <1>13, <1>14, <2>1 DEF IsPut, w
<1> QED BY <1>7, <1>15, <1>16

\* The value of a session is that of its entry.
LEMMA ValueIs ==
  ASSUME NEW T, NEW e \in Entries(T)
  PROVE  /\ \A s \in Keys(e) : s \in Sessions /\ Value(e, s) \in T
         /\ Distinct(e) => \A i \in DOMAIN e : Value(e, e[i].session) = e[i].value
<1>1. \A i \in DOMAIN e : e[i].session \in Sessions /\ e[i].value \in T
  BY EntriesHave DEF Entry
<1>2. ASSUME NEW s \in Keys(e) PROVE s \in Sessions /\ Value(e, s) \in T
  <2>1. \E i \in DOMAIN e : e[i].session = s
    BY <1>2 DEF Keys
  <2>2. (CHOOSE i \in DOMAIN e : e[i].session = s) \in DOMAIN e
    BY <2>1
  <2> QED BY <1>1, <2>1, <2>2 DEF Value
<1>3. ASSUME Distinct(e), NEW i \in DOMAIN e PROVE Value(e, e[i].session) = e[i].value
  <2> DEFINE j == CHOOSE k \in DOMAIN e : e[k].session = e[i].session
  <2>1. j \in DOMAIN e /\ e[j].session = e[i].session
    OBVIOUS
  <2>2. j = i
    BY <1>3, <2>1 DEF Distinct
  <2> QED BY <2>2 DEF Value
<1> QED BY <1>2, <1>3

\* Records with the same entry of a session agree on its value.
LEMMA SameValue ==
  ASSUME NEW T, NEW e \in Entries(T), NEW f \in Entries(T), Distinct(e), Distinct(f),
         NEW i \in DOMAIN e, NEW j \in DOMAIN f, e[i] = f[j]
  PROVE  Value(e, e[i].session) = Value(f, e[i].session)
BY ValueIs

LEMMA WithoutKeys ==
  ASSUME NEW T, NEW e \in Entries(T), NEW gone
  PROVE  /\ Keys(Without(e, gone)) = Keys(e) \ gone
         /\ Distinct(e) => \A s \in Keys(e) \ gone : Value(Without(e, gone), s) = Value(e, s)
<1> DEFINE w == Without(e, gone)
<1>1. /\ w \in Entries(T)
      /\ \A i \in DOMAIN w : \E j \in DOMAIN e : e[j] = w[i] /\ e[j].session \notin gone
      /\ \A j \in DOMAIN e : e[j].session \notin gone => \E i \in DOMAIN w : w[i] = e[j]
      /\ Distinct(e) => Distinct(w)
  BY WithoutEffect
<1> HIDE DEF w
<1>2. Keys(w) = Keys(e) \ gone
  <2>1. ASSUME NEW s \in Keys(w) PROVE s \in Keys(e) \ gone
    <3>1. PICK i \in DOMAIN w : w[i].session = s
      BY <2>1 DEF Keys
    <3> QED BY <1>1, <3>1 DEF Keys
  <2>2. ASSUME NEW s \in Keys(e) \ gone PROVE s \in Keys(w)
    <3>1. PICK j \in DOMAIN e : e[j].session = s
      BY <2>2 DEF Keys
    <3>2. PICK i \in DOMAIN w : w[i] = e[j]
      BY <1>1, <2>2, <3>1
    <3> QED BY <3>1, <3>2 DEF Keys
  <2> QED BY <2>1, <2>2
<1>3. ASSUME Distinct(e), NEW s \in Keys(e) \ gone PROVE Value(w, s) = Value(e, s)
  <2>1. PICK i \in DOMAIN w : w[i].session = s
    BY <1>2, <1>3 DEF Keys
  <2>2. PICK j \in DOMAIN e : e[j] = w[i]
    BY <1>1
  <2> QED BY <1>1, <1>3, <2>1, <2>2, SameValue
<1> QED BY <1>2, <1>3 DEF w

LEMMA PutKeys ==
  ASSUME NEW T, NEW e \in Entries(T), NEW s \in Sessions, NEW v \in T
  PROVE  /\ s \in Keys(Put(e, s, v)) /\ Keys(Put(e, s, v)) \subseteq Keys(e) \cup {s}
         /\ \/ /\ Len(Without(e, {s})) = MaxKeys
               /\ Len(e) = MaxKeys /\ Len(Put(e, s, v)) = MaxKeys
            \/ Keys(e) \subseteq Keys(Put(e, s, v))
<1> DEFINE q == Put(e, s, v)
           x == [session |-> s, value |-> v]
<1>0. IsPut(T, q, e, x)
  BY PutEffect
<1>2. x.session = s /\ x.value = v
  OBVIOUS
<1> HIDE DEF q, x
<1>1. /\ q \in Entries(T) /\ (\E i \in DOMAIN q : q[i] = x)
      /\ \A i \in DOMAIN q : q[i] = x \/ \E j \in DOMAIN e : e[j] = q[i] /\ e[j].session # s
      /\ Distinct(e) => Distinct(q)
      /\ \/ Len(Without(e, {s})) = MaxKeys /\ Len(e) = MaxKeys /\ Len(q) = MaxKeys
         \/ \A j \in DOMAIN e : e[j].session # s => \E i \in DOMAIN q : q[i] = e[j]
  BY <1>0, <1>2 DEF IsPut
<1>3. s \in Keys(q)
  BY <1>1, <1>2 DEF Keys
<1>4. ASSUME NEW t \in Keys(q), t # s
      PROVE  \E i \in DOMAIN q, j \in DOMAIN e : e[j] = q[i] /\ q[i].session = t
  <2>1. PICK i \in DOMAIN q : q[i].session = t
    BY <1>4 DEF Keys
  <2> QED BY <1>1, <1>2, <1>4, <2>1
<1>5. Keys(q) \subseteq Keys(e) \cup {s}
  BY <1>4 DEF Keys
<1>6. \/ Len(Without(e, {s})) = MaxKeys /\ Len(e) = MaxKeys /\ Len(q) = MaxKeys
      \/ Keys(e) \subseteq Keys(q)
  <2>1. ASSUME \A j \in DOMAIN e : e[j].session # s => \E i \in DOMAIN q : q[i] = e[j],
               NEW t \in Keys(e)
        PROVE  t \in Keys(q)
    <3>1. PICK j \in DOMAIN e : e[j].session = t
      BY <2>1 DEF Keys
    <3>2. CASE t # s
      <4>1. PICK i \in DOMAIN q : q[i] = e[j]
        BY <2>1, <3>1, <3>2
      <4> QED BY <3>1, <4>1 DEF Keys
    <3> QED BY <1>3, <3>2
  <2> QED BY <1>1, <2>1
<1> QED BY <1>3, <1>5, <1>6 DEF q

Changed(e, s, v) ==
  [i \in DOMAIN e |-> IF e[i].session = s THEN [session |-> s, value |-> v] ELSE e[i]]

\* Another value for a session: the record keeps its sessions.
LEMMA ChangedKeys ==
  ASSUME NEW T, NEW e \in Entries(T), NEW s \in Sessions, NEW v \in T
  PROVE  /\ Changed(e, s, v) \in Entries(T) /\ Keys(Changed(e, s, v)) = Keys(e)
         /\ Distinct(e) => Distinct(Changed(e, s, v))
<1> DEFINE c == Changed(e, s, v)
           R == Entry(T)
<1>1. e \in Seq(R) /\ Len(e) \in Nat /\ Len(e) <= MaxKeys /\ DOMAIN e = 1 .. Len(e)
      /\ \A i \in DOMAIN e : e[i] \in R
  BY EntriesHave
<1>2. /\ DOMAIN c = DOMAIN e
      /\ \A i \in DOMAIN e : c[i] \in R /\ c[i].session = e[i].session
  BY <1>1 DEF Changed, Entry
<1>6. c = [i \in DOMAIN e |-> c[i]]
  BY DEF Changed
<1> HIDE DEF c, R
<1>3. c \in Seq(R) /\ Len(c) = Len(e)
  <2>1. c \in [1 .. Len(e) -> R]
    BY <1>1, <1>2, <1>6
  <2> QED BY <1>1, <2>1
<1>4. c \in Entries(T)
  BY <1>1, <1>3, EntriesAreSequences DEF R
<1>5. Keys(c) = Keys(e) /\ (Distinct(e) => Distinct(c))
  BY <1>2 DEF Keys, Distinct
<1> QED BY <1>4, <1>5 DEF c

LEMMA PutValues ==
  ASSUME NEW T, NEW e \in Entries(T), Distinct(e), NEW s \in Sessions, NEW v \in T
  PROVE  /\ Value(Put(e, s, v), s) = v
         /\ \A t \in Keys(Put(e, s, v)) : t # s => Value(Put(e, s, v), t) = Value(e, t)
<1> DEFINE q == Put(e, s, v)
           x == [session |-> s, value |-> v]
<1>0. IsPut(T, q, e, x)
  BY PutEffect
<1>2. x.session = s /\ x.value = v
  OBVIOUS
<1> HIDE DEF q, x
<1>1. /\ q \in Entries(T) /\ (\E i \in DOMAIN q : q[i] = x) /\ Distinct(q)
      /\ \A i \in DOMAIN q : q[i] = x \/ \E j \in DOMAIN e : e[j] = q[i] /\ e[j].session # s
  BY <1>0, <1>2 DEF IsPut
<1>3. Value(q, s) = v
  BY <1>1, <1>2, ValueIs
<1>4. ASSUME NEW t \in Keys(q), t # s PROVE Value(q, t) = Value(e, t)
  <2>1. PICK i \in DOMAIN q : q[i].session = t
    BY <1>4 DEF Keys
  <2>2. PICK j \in DOMAIN e : e[j] = q[i]
    BY <1>1, <1>2, <1>4, <2>1
  <2> QED BY <1>1, <2>1, <2>2, SameValue
<1> QED BY <1>3, <1>4 DEF q

\* There is room for every session.
Roomy == IsFiniteSet(Sessions) /\ Cardinality(Sessions) <= MaxKeys

LEMMA RoomForAll ==
  ASSUME Roomy, NEW T, NEW e \in Entries(T), Distinct(e), NEW s \in Sessions, s \notin Keys(e)
  PROVE  Len(e) < MaxKeys
<1> DEFINE n == Len(e)
           f == [i \in 1 .. n |-> e[i].session]
<1>1. n \in Nat /\ DOMAIN e = 1 .. n /\ \A i \in 1 .. n : e[i].session \in Sessions
  BY EntriesHave DEF Entry
<1>2. f \in [1 .. n -> Sessions \ {s}]
  BY <1>1 DEF Keys
<1>3. IsFiniteSet(Sessions \ {s}) /\ Cardinality(Sessions \ {s}) = Cardinality(Sessions) - 1
      /\ Cardinality(Sessions) \in Nat
  BY FS_RemoveElement, FS_CardinalityType DEF Roomy
<1>4. IsFiniteSet(1 .. n) /\ Cardinality(1 .. n) = n
  BY <1>1, FS_Interval
<1>5. ~\E i, j \in 1 .. n : i # j /\ f[i] = f[j]
  BY <1>1 DEF Distinct
<1> HIDE DEF f
<1>6. ~(Cardinality(Sessions \ {s}) < Cardinality(1 .. n))
  BY <1>2, <1>3, <1>4, <1>5, FS_PigeonHole
<1> QED BY <1>1, <1>3, <1>4, <1>6, AffinityAssumption DEF Roomy

\* With room for all, putting an entry drops none.
LEMMA PutKeepsAll ==
  ASSUME Roomy, NEW T, NEW e \in Entries(T), Distinct(e), NEW s \in Sessions, NEW v \in T
  PROVE  Keys(Put(e, s, v)) = Keys(e) \cup {s}
<1> DEFINE w == Without(e, {s})
<1>1. /\ w \in Entries(T) /\ (Distinct(e) => Distinct(w))
  BY WithoutEffect
<1>2. s \notin Keys(w)
  BY WithoutKeys
<1> HIDE DEF w
<1>3. Len(w) # MaxKeys
  BY <1>1, <1>2, RoomForAll, EntriesHave, AffinityAssumption
<1> QED BY <1>3, PutKeys DEF w

-----------------------------------------------------------------------------
(* Types, and the saves a job stands for.                                  *)

Ticks == 0 .. LastTick
SeenEntries == Entries(Ticks)
AccountEntries == Entries(Accounts)
Jobs == [todo : SUBSET Sessions, missing : SUBSET Sessions, now : Ticks]
Saved == [seen : SeenEntries, accounts : AccountEntries]

\* A save is queued as long as its job runs, and none is before the first request.
QueueInv ==
  \A p \in Procs : /\ stage[p] \in {"checking", "saving"} => due[p] > 0
                   /\ stage[p] \in {"down", "starting"} => due[p] = 0

Typed == AffinityTypeOK /\ QueueInv

\* The types of one process.
ProcTyped(p) ==
  /\ seen[p] \in SeenEntries /\ accountOf[p] \in AccountEntries
  /\ last[p] \in Sessions \cup {NoSession} /\ stage[p] \in Stages
  /\ due[p] \in Nat /\ uses[p] \in Nat /\ due[p] <= uses[p] /\ uses[p] <= MaxUses[p]
  /\ errorLogged[p] \in BOOLEAN /\ job[p] \in Jobs
  /\ stage[p] \in {"checking", "saving"} => due[p] > 0
  /\ stage[p] \in {"down", "starting"} => due[p] = 0

Functions == /\ seen \in [Procs -> SeenEntries] /\ accountOf \in [Procs -> AccountEntries]
             /\ last \in [Procs -> Sessions \cup {NoSession}] /\ stage \in [Procs -> Stages]
             /\ due \in [Procs -> Nat] /\ uses \in [Procs -> Nat]
             /\ errorLogged \in [Procs -> BOOLEAN] /\ job \in [Procs -> Jobs]

World == /\ affinityFile \in [Modes -> Saved] /\ exists \subseteq Sessions /\ clock \in Ticks
         /\ erased \subseteq Modes

Pieces == World /\ Functions /\ \A p \in Procs : ProcTyped(p)

LEMMA TypedParts == Typed <=> Pieces
<1> HIDE DEF Ticks
<1>1. AffinityTypeOK <=> /\ World /\ Functions
                         /\ \A p \in Procs : due[p] <= uses[p] /\ uses[p] <= MaxUses[p]
  BY DEF AffinityTypeOK, World, Functions, Saved, Jobs, SeenEntries, AccountEntries, Ticks
<1> QED BY <1>1 DEF Pieces, Typed, QueueInv, ProcTyped, Functions

LEMMA EmptyEntries == ASSUME NEW T PROVE <<>> \in Entries(T)
<1>1. <<>> \in Seq(Entry(T)) /\ Len(<<>>) <= MaxKeys
  BY AffinityAssumption
<1> QED BY <1>1, EntriesAreSequences

LEMMA AffinityInitTyped == AffinityInit => Typed
<1> SUFFICES ASSUME AffinityInit PROVE Typed
  OBVIOUS
<1>1. <<>> \in SeenEntries /\ <<>> \in AccountEntries
  BY EmptyEntries DEF SeenEntries, AccountEntries
<1>2. 0 \in Ticks
  BY AffinityAssumption DEF Ticks
<1>3. Nothing \in Saved /\ NoJob \in Jobs
  BY <1>1, <1>2 DEF Nothing, Saved, NoJob, Jobs
<1>4. World /\ Functions
  BY <1>1, <1>2, <1>3 DEF AffinityInit, World, Functions, Stages
<1>5. \A p \in Procs : ProcTyped(p)
  BY <1>1, <1>3, AffinityAssumption DEF AffinityInit, ProcTyped, Stages
<1> QED BY <1>4, <1>5, TypedParts DEF Pieces

\* A step of one process: the others keep their state, and what it leaves to it
\* is typed.
LEMMA StepTyped ==
  ASSUME Typed, NEW p \in Procs, World', Functions', ProcTyped(p)',
         \A q \in Procs \ {p} :
           /\ seen'[q] = seen[q] /\ accountOf'[q] = accountOf[q] /\ last'[q] = last[q]
           /\ stage'[q] = stage[q] /\ due'[q] = due[q] /\ uses'[q] = uses[q]
           /\ errorLogged'[q] = errorLogged[q] /\ job'[q] = job[q]
  PROVE  Typed'
<1>1. \A q \in Procs : ProcTyped(q)
  BY TypedParts DEF Pieces
<1>2. ASSUME NEW q \in Procs \ {p} PROVE ProcTyped(q)'
  <2>1. ProcTyped(q)
    BY <1>1
  <2> QED BY <2>1 DEF ProcTyped
<1>3. \A q \in Procs : ProcTyped(q)'
  BY <1>2
<1>4. Pieces'
  BY <1>3 DEF Pieces
<1> QED BY <1>4, TypedParts, PTL

\* Whatever a read answers is a file.
LEMMA ReadsAreFiles == World => OnRead \subseteq [Modes -> Saved]
<1>1. <<>> \in SeenEntries /\ <<>> \in AccountEntries
  BY EmptyEntries DEF SeenEntries, AccountEntries
<1> QED BY <1>1 DEF World, OnRead, Nothing, Saved

LEMMA StartTyped ==
  ASSUME Typed, NEW p \in Procs, Start(p)
  PROVE  Typed'
<1>1. World /\ Functions /\ ProcTyped(p) /\ ModeOf[p] \in Modes
  BY TypedParts, AffinityAssumption DEF Pieces
<1>0. PICK read \in OnRead :
        LET r == read[ModeOf[p]]
        IN /\ seen' = [seen EXCEPT ![p] = r.seen]
           /\ accountOf' = [accountOf EXCEPT ![p] = r.accounts]
           /\ job' = [job EXCEPT ![p] = Lookups(Keys(r.seen) \cup Keys(r.accounts))]
  BY DEF Start
<1> DEFINE record == read[ModeOf[p]]
           looked == Lookups(Keys(record.seen) \cup Keys(record.accounts))
<1>2. record.seen \in SeenEntries /\ record.accounts \in AccountEntries
  BY <1>1, ReadsAreFiles DEF Saved
<1>3. looked \in Jobs
  <2>1. Keys(record.seen) \subseteq Sessions /\ Keys(record.accounts) \subseteq Sessions
    BY <1>2, ValueIs DEF SeenEntries, AccountEntries
  <2> QED BY <1>1, <2>1 DEF Lookups, Jobs, World
<1>4. /\ seen' = [seen EXCEPT ![p] = record.seen]
      /\ accountOf' = [accountOf EXCEPT ![p] = record.accounts]
      /\ job' = [job EXCEPT ![p] = looked]
      /\ stage[p] = "down" /\ stage' = [stage EXCEPT ![p] = "starting"]
      /\ UNCHANGED <<affinityFile, exists, clock, last, due, errorLogged, uses, erased>>
  BY <1>0 DEF Start
<1> HIDE DEF record, looked
<1>5. World' /\ Functions' /\ ProcTyped(p)'
  BY <1>1, <1>2, <1>3, <1>4 DEF World, Functions, ProcTyped, Stages
<1> QED BY <1>1, <1>4, <1>5, StepTyped DEF Functions

LEMMA CheckOneTyped ==
  ASSUME Typed, NEW p \in Procs, CheckOne(p)
  PROVE  Typed'
<1>1. World /\ Functions /\ ProcTyped(p)
  BY TypedParts DEF Pieces
<1>2. PICK s \in job[p].todo :
        job' = [job EXCEPT ![p].todo = @ \ {s},
                           ![p].missing = IF s \in exists THEN @ ELSE @ \cup {s}]
  BY DEF CheckOne
<1>3. UNCHANGED <<affinityFile, exists, clock, seen, accountOf, last, stage, due, errorLogged, uses, erased>>
  BY DEF CheckOne
<1>4. job' \in [Procs -> Jobs] /\ \A q \in Procs \ {p} : job'[q] = job[q]
  <2> DEFINE gone == IF s \in exists THEN job[p].missing ELSE job[p].missing \cup {s}
             one == [job[p] EXCEPT !.todo = job[p].todo \ {s}]
             two == [one EXCEPT !.missing = gone]
  <2>1. job' = [job EXCEPT ![p] = two]
    BY <1>1, <1>2 DEF Functions
  <2>2. s \in Sessions /\ job[p] \in Jobs
    BY <1>1 DEF ProcTyped, Jobs
  <2>3. gone \in SUBSET Sessions /\ job[p].todo \ {s} \in SUBSET Sessions
    BY <2>2 DEF Jobs
  <2> HIDE DEF gone
  <2>4. one \in Jobs
    BY <2>2, <2>3 DEF Jobs
  <2> HIDE DEF one
  <2>5. two \in Jobs
    BY <2>3, <2>4 DEF Jobs
  <2> HIDE DEF two
  <2> QED BY <1>1, <2>1, <2>5 DEF Functions
<1>5. World' /\ Functions' /\ ProcTyped(p)'
  BY <1>1, <1>3, <1>4 DEF World, Functions, ProcTyped
<1> QED BY <1>1, <1>3, <1>4, <1>5, StepTyped DEF Functions

LEMMA DropTyped ==
  ASSUME Typed, NEW p \in Procs, Drop(p)
  PROVE  Typed'
<1>1. World /\ Functions /\ ProcTyped(p)
  BY TypedParts DEF Pieces
<1> DEFINE gone == {s \in job[p].missing : ~(MissingGrace > 0 /\ Spared(p, s))}
           sn == Without(seen[p], gone)
           an == Without(accountOf[p], gone)
<1>2. sn \in SeenEntries /\ an \in AccountEntries
  BY <1>1, WithoutEffect DEF ProcTyped, SeenEntries, AccountEntries
<1>3. NoJob \in Jobs
  BY AffinityAssumption DEF NoJob, Jobs, Ticks
<1>4. /\ stage[p] \in {"starting", "checking"}
      /\ seen' = [seen EXCEPT ![p] = sn] /\ accountOf' = [accountOf EXCEPT ![p] = an]
      /\ stage' = [stage EXCEPT ![p] = IF stage[p] = "starting" THEN "idle" ELSE "saving"]
      /\ job' = [job EXCEPT ![p] = NoJob]
      /\ UNCHANGED <<affinityFile, exists, clock, last, due, errorLogged, uses, erased>>
  BY DEF Drop
<1> HIDE DEF sn, an
<1>5. World' /\ Functions' /\ ProcTyped(p)'
  BY <1>1, <1>2, <1>3, <1>4 DEF World, Functions, ProcTyped, Stages
<1> QED BY <1>1, <1>4, <1>5, StepTyped DEF Functions

LEMMA ObserveTyped ==
  ASSUME Typed, NEW p \in Procs, NEW s \in Sessions, Observe(p, s)
  PROVE  Typed'
<1>1. World /\ Functions /\ ProcTyped(p)
  BY TypedParts DEF Pieces
<1> DEFINE stale == {k \in Keys(seen[p]) : clock - Value(seen[p], k) > SessionTTL}
           kept == Without(seen[p], stale)
           sn == Put(kept, s, clock)
           event == s \notin Keys(seen[p]) \/ last[p] # NoSession
<1>2. sn \in SeenEntries
  <2>1. kept \in Entries(Ticks)
    BY <1>1, WithoutEffect DEF ProcTyped, SeenEntries
  <2>2. clock \in Ticks
    BY <1>1 DEF World
  <2> HIDE DEF kept
  <2> QED BY <2>1, <2>2, PutEffect DEF IsPut, SeenEntries
<1>3. /\ stage[p] \in {"idle", "checking", "saving"} /\ uses[p] < MaxUses[p]
      /\ seen' = [seen EXCEPT ![p] = sn]
      /\ due' = [due EXCEPT ![p] = IF event THEN due[p] + 1 ELSE due[p]]
      /\ last' = [last EXCEPT ![p] = s] /\ uses' = [uses EXCEPT ![p] = uses[p] + 1]
      /\ UNCHANGED <<affinityFile, exists, clock, accountOf, stage, job, errorLogged, erased>>
  BY DEF Observe, Serving
<1> HIDE DEF sn, event
<1>4. /\ due'[p] \in Nat /\ due'[p] >= due[p] /\ due'[p] <= uses'[p]
      /\ uses'[p] \in Nat /\ uses'[p] <= MaxUses[p]
      /\ due' \in [Procs -> Nat] /\ uses' \in [Procs -> Nat]
  <2>1. /\ due[p] \in Nat /\ uses[p] \in Nat /\ MaxUses[p] \in Nat
        /\ due[p] <= uses[p] /\ uses[p] < MaxUses[p]
    BY <1>1, <1>3, AffinityAssumption DEF ProcTyped
  <2>2. due'[p] \in {due[p], due[p] + 1} /\ uses'[p] = uses[p] + 1
    BY <1>1, <1>3 DEF Functions
  <2>3. due' \in [Procs -> Nat] /\ uses' \in [Procs -> Nat]
    BY <1>1, <1>3, <2>1 DEF Functions
  <2> QED BY <2>1, <2>2, <2>3
<1>5. World' /\ Functions'
  BY <1>1, <1>2, <1>3, <1>4 DEF World, Functions
<1>6. ProcTyped(p)'
  BY <1>1, <1>2, <1>3, <1>4 DEF Functions, ProcTyped, Stages
<1> QED BY <1>1, <1>3, <1>5, <1>6, StepTyped DEF Functions

LEMMA AssignTyped ==
  ASSUME Typed, NEW p \in Procs, NEW s \in Sessions, NEW a \in Accounts, Assign(p, s, a)
  PROVE  Typed'
<1>1. World /\ Functions /\ ProcTyped(p)
  BY TypedParts DEF Pieces
<1> DEFINE an == IF s \in Keys(accountOf[p]) THEN Changed(accountOf[p], s, a)
                                            ELSE Put(accountOf[p], s, a)
<1>2. an \in AccountEntries
  <2>1. accountOf[p] \in Entries(Accounts)
    BY <1>1 DEF ProcTyped, AccountEntries
  <2> QED BY <2>1, ChangedKeys, PutEffect DEF IsPut, AccountEntries
<1>3. /\ stage[p] \in {"idle", "checking", "saving"} /\ uses[p] < MaxUses[p]
      /\ accountOf' = [accountOf EXCEPT ![p] = an]
      /\ due' = [due EXCEPT ![p] = due[p] + 1] /\ uses' = [uses EXCEPT ![p] = uses[p] + 1]
      /\ UNCHANGED <<affinityFile, exists, clock, seen, last, stage, job, errorLogged, erased>>
  BY DEF Assign, Serving, Changed
<1> HIDE DEF an
<1>4. /\ due'[p] \in Nat /\ due'[p] > due[p] /\ due'[p] <= uses'[p]
      /\ uses'[p] \in Nat /\ uses'[p] <= MaxUses[p]
      /\ due' \in [Procs -> Nat] /\ uses' \in [Procs -> Nat]
  <2>1. /\ due[p] \in Nat /\ uses[p] \in Nat /\ MaxUses[p] \in Nat
        /\ due[p] <= uses[p] /\ uses[p] < MaxUses[p]
    BY <1>1, <1>3, AffinityAssumption DEF ProcTyped
  <2>2. due'[p] \in {due[p] + 1} /\ uses'[p] = uses[p] + 1
    BY <1>1, <1>3 DEF Functions
  <2>3. due' \in [Procs -> Nat] /\ uses' \in [Procs -> Nat]
    BY <1>1, <1>3, <2>1 DEF Functions
  <2> QED BY <2>1, <2>2, <2>3
<1>5. World' /\ Functions'
  BY <1>1, <1>2, <1>3, <1>4 DEF World, Functions
<1>6. ProcTyped(p)'
  BY <1>1, <1>2, <1>3, <1>4 DEF Functions, ProcTyped, Stages
<1> QED BY <1>1, <1>3, <1>5, <1>6, StepTyped DEF Functions

LEMMA BeginSaveTyped ==
  ASSUME Typed, NEW p \in Procs, BeginSave(p)
  PROVE  Typed'
<1>1. World /\ Functions /\ ProcTyped(p)
  BY TypedParts DEF Pieces
<1> DEFINE looked == Lookups(Known(p))
<1>2. looked \in Jobs
  <2>1. Known(p) \subseteq Sessions
    BY <1>1, ValueIs DEF ProcTyped, Known, SeenEntries, AccountEntries
  <2> QED BY <1>1, <2>1 DEF Lookups, Jobs, World
<1>3. /\ stage[p] = "idle" /\ due[p] > 0
      /\ stage' = [stage EXCEPT ![p] = "checking"] /\ job' = [job EXCEPT ![p] = looked]
      /\ UNCHANGED <<affinityFile, exists, clock, seen, accountOf, last, due, errorLogged, uses, erased>>
  BY DEF BeginSave
<1> HIDE DEF looked
<1>4. World' /\ Functions' /\ ProcTyped(p)'
  BY <1>1, <1>2, <1>3 DEF World, Functions, ProcTyped, Stages
<1> QED BY <1>1, <1>3, <1>4, StepTyped DEF Functions

\* What is saved is what the memory holds.
LEMMA SnapshotIs ==
  ASSUME Typed, NEW p \in Procs
  PROVE  Snapshot(p) = [seen |-> seen[p], accounts |-> accountOf[p]] /\ Snapshot(p) \in Saved
<1>1. seen[p] \in Entries(Ticks) /\ accountOf[p] \in Entries(Accounts)
  BY TypedParts DEF Pieces, ProcTyped, SeenEntries, AccountEntries
<1>2. Newest(seen[p]) = seen[p] /\ Newest(accountOf[p]) = accountOf[p]
  BY <1>1, NewestIsAll
<1> QED BY <1>1, <1>2 DEF Snapshot, Saved, SeenEntries, AccountEntries

LEMMA SaveTyped ==
  ASSUME Typed, NEW p \in Procs, Save(p)
  PROVE  Typed'
<1>1. World /\ Functions /\ ProcTyped(p)
  BY TypedParts DEF Pieces
<1>2. /\ affinityFile' \in [Modes -> Saved] /\ erased' \subseteq Modes
      /\ errorLogged' \in [Procs -> BOOLEAN]
      /\ \A q \in Procs \ {p} : errorLogged'[q] = errorLogged[q]
  <2>1. \/ \E read \in OnRead : affinityFile' = [read EXCEPT ![ModeOf[p]] = Snapshot(p)]
        \/ affinityFile' = affinityFile
    BY DEF Save
  <2>4. erased' \subseteq Modes
    BY <1>1 DEF Save, World
  <2>2. \/ errorLogged' = [errorLogged EXCEPT ![p] = FALSE]
        \/ errorLogged' = [errorLogged EXCEPT ![p] = TRUE]
    BY DEF Save
  <2>3. affinityFile' \in [Modes -> Saved]
    BY <1>1, <2>1, SnapshotIs, ReadsAreFiles DEF World
  <2> QED BY <1>1, <2>2, <2>3, <2>4 DEF Functions
<1>3. /\ stage[p] = "saving"
      /\ stage' = [stage EXCEPT ![p] = "idle"] /\ due' = [due EXCEPT ![p] = due[p] - 1]
      /\ UNCHANGED <<exists, clock, seen, accountOf, last, job, uses>>
  BY DEF Save
<1>4. due' \in [Procs -> Nat] /\ due'[p] <= uses[p]
  BY <1>1, <1>3 DEF ProcTyped, Functions
<1>5. World' /\ Functions'
  BY <1>1, <1>2, <1>3, <1>4 DEF World, Functions, Stages
<1>6. ProcTyped(p)'
  BY <1>1, <1>2, <1>3, <1>4 DEF ProcTyped, Functions, Stages
<1> QED BY <1>1, <1>2, <1>3, <1>5, <1>6, StepTyped DEF Functions

LEMMA StopTyped ==
  ASSUME Typed, NEW p \in Procs, Stop(p)
  PROVE  Typed'
<1>1. World /\ Functions /\ ProcTyped(p)
  BY TypedParts DEF Pieces
<1>2. <<>> \in SeenEntries /\ <<>> \in AccountEntries
  BY EmptyEntries DEF SeenEntries, AccountEntries
<1>3. NoJob \in Jobs
  BY AffinityAssumption DEF NoJob, Jobs, Ticks
<1>4. /\ due' \in [Procs -> Nat] /\ due'[p] = 0
      /\ uses' \in [Procs -> Nat] /\ uses'[p] \in Nat /\ uses'[p] <= MaxUses[p]
  BY <1>1, AffinityAssumption DEF Stop, ProcTyped, Functions
<1>5. World' /\ Functions'
  BY <1>1, <1>2, <1>3, <1>4 DEF Stop, World, Functions, Stages
<1>6. ProcTyped(p)'
  BY <1>1, <1>2, <1>3, <1>4 DEF Stop, ProcTyped, Functions, Stages
<1> QED BY <1>1, <1>5, <1>6, StepTyped DEF Functions, Stop

LEMMA OutsideTyped ==
  ASSUME Typed, (\E s \in Sessions : WriteSession(s) \/ DeleteSession(s)) \/ Pass
  PROVE  Typed'
<1>1. World /\ UNCHANGED <<affinityFile, seen, accountOf, last, stage, due, job, errorLogged, uses, erased>>
  BY TypedParts DEF Pieces, WriteSession, DeleteSession, Pass
<1>2. World'
  <2>1. exists' \subseteq Sessions
    BY <1>1 DEF World, WriteSession, DeleteSession, Pass
  <2>2. clock' \in Ticks
    BY <1>1, AffinityAssumption DEF World, WriteSession, DeleteSession, Pass, Ticks
  <2> QED BY <1>1, <2>1, <2>2 DEF World
<1>3. Functions' /\ \A p \in Procs : ProcTyped(p)'
  BY <1>1, TypedParts DEF Pieces, Functions, ProcTyped
<1>4. Pieces'
  BY <1>2, <1>3 DEF Pieces
<1> QED BY <1>4, TypedParts, PTL

LEMMA AffinityNextTyped == Typed /\ [AffinityNext]_affinityVars => Typed'
<1> SUFFICES ASSUME Typed, [AffinityNext]_affinityVars PROVE Typed'
  OBVIOUS
<1>1. CASE UNCHANGED affinityVars
  BY <1>1 DEF Typed, AffinityTypeOK, QueueInv, affinityVars
<1>2. CASE AffinityNext
  BY <1>2, StartTyped, CheckOneTyped, DropTyped, ObserveTyped, AssignTyped, BeginSaveTyped,
     SaveTyped, StopTyped, OutsideTyped DEF AffinityNext, Persist
<1> QED BY <1>1, <1>2

-----------------------------------------------------------------------------
(* The file has what was saved, if no two processes write the same record. *)

OneProcessPerMode == \A p, q \in Procs : ModeOf[p] = ModeOf[q] => p = q

OnDisk(p) ==
  \A i \in DOMAIN accountOf[p] : \E j \in DOMAIN affinityFile[ModeOf[p]].accounts :
    affinityFile[ModeOf[p]].accounts[j] = accountOf[p][i]

\* A process that pruned nothing but what it loaded has nothing to save.
Settled(p) == /\ stage[p] = "starting" \/ (stage[p] = "idle" /\ due[p] = 0 /\ ~errorLogged[p])
              /\ ModeOf[p] \notin erased

DiskInv == \A p \in Procs : Settled(p) => OnDisk(p)

\* Steps that leave what a process has settled.
LEMMA StaysOnDisk ==
  ASSUME DiskInv, NEW q \in Procs, Settled(q)' => Settled(q),
         accountOf'[q] = accountOf[q], affinityFile'[ModeOf[q]] = affinityFile[ModeOf[q]]
  PROVE  (Settled(q) => OnDisk(q))'
<1>1. Settled(q) => OnDisk(q)
  BY DEF DiskInv
<1> QED BY <1>1 DEF OnDisk

LEMMA DiskInvKept ==
  ASSUME OneProcessPerMode, Typed, DiskInv, [AffinityNext]_affinityVars
  PROVE  DiskInv'
<1>0. Functions /\ World
  BY TypedParts DEF Pieces
<1> SUFFICES ASSUME NEW q \in Procs PROVE (Settled(q) => OnDisk(q))'
  BY DEF DiskInv
<1>1. CASE UNCHANGED affinityVars
  BY <1>1, StaysOnDisk DEF affinityVars, Settled
<1>2. ASSUME NEW p \in Procs, p # q, Start(p) \/ Persist(p) \/ Stop(p)
                \/ \E s \in Sessions : Observe(p, s) \/ \E a \in Accounts : Assign(p, s, a)
      PROVE  (Settled(q) => OnDisk(q))'
  <2>1. /\ accountOf'[q] = accountOf[q]
        /\ stage'[q] = stage[q] /\ due'[q] = due[q] /\ errorLogged'[q] = errorLogged[q]
    BY <1>0, <1>2 DEF Functions, Start, Persist, BeginSave, CheckOne, Drop, Save, Stop,
       Observe, Assign
  <2>2. CASE Save(p)
    <3>1. ModeOf[p] # ModeOf[q] /\ ModeOf[q] \in Modes
      BY <1>2, AffinityAssumption DEF OneProcessPerMode
    <3>2. ModeOf[q] \notin erased' =>
            ModeOf[q] \notin erased /\ affinityFile'[ModeOf[q]] = affinityFile[ModeOf[q]]
      <4>1. CASE UNCHANGED <<affinityFile, erased>>
        BY <4>1
      <4>2. CASE \E read \in OnRead :
                   /\ affinityFile' = [read EXCEPT ![ModeOf[p]] = Snapshot(p)]
                   /\ erased' = {m \in Modes \ {ModeOf[p]} : m \in erased \/ read[m] # affinityFile[m]}
        <5>1. PICK read \in OnRead :
                   /\ affinityFile' = [read EXCEPT ![ModeOf[p]] = Snapshot(p)]
                   /\ erased' = {m \in Modes \ {ModeOf[p]} : m \in erased \/ read[m] # affinityFile[m]}
          BY <4>2
        <5>2. affinityFile'[ModeOf[q]] = read[ModeOf[q]]
          BY <1>0, <3>1, <5>1, ReadsAreFiles
        <5> QED BY <3>1, <5>1, <5>2
      <4> QED BY <2>2, <4>1, <4>2 DEF Save
    <3>3. CASE ModeOf[q] \in erased'
      BY <3>3 DEF Settled
    <3>4. CASE ModeOf[q] \notin erased'
      <4>1. Settled(q)' => Settled(q)
        BY <2>1, <3>2, <3>4 DEF Settled
      <4> QED BY <2>1, <3>2, <3>4, <4>1, StaysOnDisk
    <3> QED BY <3>3, <3>4
  <2>3. CASE ~Save(p)
    <3>1. UNCHANGED <<affinityFile, erased>>
      BY <1>2, <2>3 DEF Start, Persist, BeginSave, CheckOne, Drop, Stop, Observe, Assign
    <3>2. Settled(q)' => Settled(q)
      BY <2>1, <3>1 DEF Settled
    <3> QED BY <2>1, <3>1, <3>2, StaysOnDisk
  <2> QED BY <2>2, <2>3
<1>3. CASE Start(q)
  <2>1. PICK read \in OnRead : accountOf'[q] = read[ModeOf[q]].accounts
    BY <1>0, <1>3 DEF Start, Functions
  <2>2. affinityFile' = affinityFile /\ ModeOf[q] \in Modes
    BY <1>3, AffinityAssumption DEF Start
  <2>3. accountOf'[q] = affinityFile[ModeOf[q]].accounts \/ accountOf'[q] = <<>>
    BY <2>1, <2>2 DEF OnRead, Nothing
  <2> QED BY <2>2, <2>3 DEF OnDisk
<1>4. CASE CheckOne(q)
  BY <1>4, StaysOnDisk DEF CheckOne, Settled
<1>5. CASE BeginSave(q)
  <2>1. stage'[q] = "checking"
    BY <1>0, <1>5 DEF BeginSave, Functions
  <2> QED BY <2>1 DEF Settled
<1>6. CASE Drop(q)
  <2> DEFINE gone == {s \in job[q].missing : ~(MissingGrace > 0 /\ Spared(q, s))}
             an == Without(accountOf[q], gone)
  <2>1. accountOf'[q] = an /\ affinityFile' = affinityFile
    BY <1>0, <1>6 DEF Drop, Functions
  <2>2. \A i \in DOMAIN an : \E j \in DOMAIN accountOf[q] : accountOf[q][j] = an[i]
    <3>1. accountOf[q] \in Entries(Accounts)
      BY <1>0 DEF Functions, AccountEntries
    <3> HIDE DEF gone
    <3>2. \A i \in DOMAIN Without(accountOf[q], gone) : \E j \in DOMAIN accountOf[q] :
            /\ accountOf[q][j] = Without(accountOf[q], gone)[i]
            /\ accountOf[q][j].session \notin gone
      BY <3>1, WithoutEffect
    <3> QED BY <3>2
  <2> HIDE DEF an
  <2>3. CASE stage[q] = "starting"
    <3>1. Settled(q)' => OnDisk(q)
      BY <1>6, <2>3 DEF DiskInv, Settled, Drop
    <3> QED BY <2>1, <2>2, <3>1 DEF OnDisk
  <2>4. CASE stage[q] # "starting"
    <3>1. stage'[q] = "saving"
      BY <1>0, <1>6, <2>4 DEF Drop, Functions
    <3> QED BY <3>1 DEF Settled
  <2> QED BY <2>3, <2>4
<1>7. CASE Save(q)
  <2>1. stage'[q] = "idle" /\ accountOf' = accountOf
    BY <1>0, <1>7 DEF Save, Functions
  <2>2. CASE errorLogged' = [errorLogged EXCEPT ![q] = TRUE]
    BY <1>0, <2>1, <2>2 DEF Settled, Functions
  <2>3. CASE \E read \in OnRead : affinityFile' = [read EXCEPT ![ModeOf[q]] = Snapshot(q)]
    <3>1. affinityFile'[ModeOf[q]].accounts = accountOf[q]
      BY <1>0, <2>3, SnapshotIs, ReadsAreFiles, AffinityAssumption
    <3> QED BY <2>1, <3>1 DEF OnDisk
  <2> QED BY <1>7, <2>2, <2>3 DEF Save
<1>8. CASE Stop(q)
  <2>1. stage'[q] = "down"
    BY <1>0, <1>8 DEF Stop, Functions
  <2> QED BY <2>1 DEF Settled
<1>9. ASSUME NEW s \in Sessions, Observe(q, s)
      PROVE  (Settled(q) => OnDisk(q))'
  <2>1. UNCHANGED <<accountOf, affinityFile, erased, stage, errorLogged>> /\ due'[q] \in {due[q], due[q] + 1}
    BY <1>0, <1>9 DEF Observe, Functions
  <2>2. due[q] \in Nat
    BY <1>0 DEF Functions
  <2> QED BY <2>1, <2>2, StaysOnDisk DEF Settled
<1>10. ASSUME NEW s \in Sessions, NEW a \in Accounts, Assign(q, s, a)
       PROVE  (Settled(q) => OnDisk(q))'
  <2>1. due'[q] = due[q] + 1 /\ due[q] \in Nat /\ stage'[q] # "starting"
    BY <1>0, <1>10 DEF Assign, Serving, Functions
  <2> QED BY <2>1 DEF Settled
<1>11. CASE (\E s \in Sessions : WriteSession(s) \/ DeleteSession(s)) \/ Pass
  <2>1. UNCHANGED <<affinityFile, erased, accountOf, stage, due, errorLogged>>
    BY <1>11 DEF WriteSession, DeleteSession, Pass
  <2> QED BY <2>1, StaysOnDisk DEF Settled
<1> QED BY <1>1, <1>2, <1>3, <1>4, <1>5, <1>6, <1>7, <1>8, <1>9, <1>10, <1>11 DEF AffinityNext, Persist

LEMMA DiskInvInit == AffinityInit => DiskInv
BY DEF AffinityInit, DiskInv, Settled, OnDisk

LEMMA DiskInvSettles == DiskInv => SettledIsOnDisk
BY DEF DiskInv, SettledIsOnDisk, Settled, OnDisk

-----------------------------------------------------------------------------
(* A session that began while the files were being looked up is spared.    *)

\* What a job has found missing was seen lately, if its file is there by now.
SparesNew(p) ==
  \A s \in job[p].missing \cap exists : s \in Known(p) =>
    s \in Keys(seen[p]) /\ job[p].now - Value(seen[p], s) <= MissingGrace

\* The lookups of a job are answered in time, and its sessions are known.
JobInv(p) ==
  /\ job[p].now <= clock
  /\ job[p].todo \cup job[p].missing # {} => clock - job[p].now <= SessionTTL - MissingGrace
  /\ last[p] \in job[p].todo \cup job[p].missing => last[p] \in Known(p)

ProcLive(p) ==
  /\ Distinct(seen[p]) /\ Distinct(accountOf[p])
  /\ stage[p] = "down" => accountOf[p] = <<>> /\ last[p] = NoSession /\ job[p] = NoJob
  /\ JobInv(p) /\ SparesNew(p)

FileDistinct == \A m \in Modes : Distinct(affinityFile[m].seen) /\ Distinct(affinityFile[m].accounts)

LiveInv == FileDistinct /\ \A p \in Procs : ProcLive(p)

\* Steps of other processes leave a process as it was.
LEMMA OthersLive ==
  ASSUME NEW p \in Procs, ProcLive(p), UNCHANGED <<exists, clock>>,
         seen'[p] = seen[p], accountOf'[p] = accountOf[p], last'[p] = last[p],
         stage'[p] = stage[p], job'[p] = job[p]
  PROVE  ProcLive(p)'
BY DEF ProcLive, JobInv, SparesNew, Known, Keys, Value

LEMMA EmptyJobIsFine ==
  ASSUME NEW p \in Procs, job'[p] = NoJob, clock' \in Nat
  PROVE  JobInv(p)' /\ SparesNew(p)'
BY DEF NoJob, JobInv, SparesNew

\* A job that begins has found nothing yet.
LEMMA NewJobIsFine ==
  ASSUME NEW p \in Procs, clock \in Nat, clock' = clock, NEW keys, job'[p] = Lookups(keys),
         last'[p] \in keys => last'[p] \in Known(p)'
  PROVE  JobInv(p)' /\ SparesNew(p)'
<1>1. job'[p].todo = keys /\ job'[p].missing = {} /\ job'[p].now = clock
  BY DEF Lookups
<1> QED BY <1>1, AffinityAssumption DEF JobInv, SparesNew

LEMMA StartLive ==
  ASSUME Typed, LiveInv, NEW p \in Procs, Start(p)
  PROVE  LiveInv'
<1>0. Functions /\ World /\ clock \in Nat /\ ModeOf[p] \in Modes
  BY TypedParts, AffinityAssumption DEF Pieces, World, Ticks
<1>1. /\ UNCHANGED <<affinityFile, exists, clock, last>> /\ stage[p] = "down" /\ stage'[p] # "down"
      /\ Distinct(seen'[p]) /\ Distinct(accountOf'[p])
      /\ \E keys : job'[p] = Lookups(keys) /\ keys \subseteq Sessions
  <2>0. PICK read \in OnRead :
          LET r == read[ModeOf[p]]
          IN /\ seen' = [seen EXCEPT ![p] = r.seen]
             /\ accountOf' = [accountOf EXCEPT ![p] = r.accounts]
             /\ job' = [job EXCEPT ![p] = Lookups(Keys(r.seen) \cup Keys(r.accounts))]
    BY DEF Start
  <2> DEFINE record == read[ModeOf[p]]
             keys == Keys(record.seen) \cup Keys(record.accounts)
  <2>1. job'[p] = Lookups(keys)
    BY <1>0, <2>0 DEF Functions
  <2>2. record.seen \in Entries(Ticks) /\ record.accounts \in Entries(Accounts)
    BY <1>0, ReadsAreFiles DEF Saved, SeenEntries, AccountEntries
  <2>3. keys \subseteq Sessions
    BY <2>2, ValueIs
  <2>4. Distinct(record.seen) /\ Distinct(record.accounts)
    <3>1. Distinct(<<>>)
      BY DEF Distinct
    <3> QED BY <1>0, <3>1 DEF OnRead, Nothing, LiveInv, FileDistinct
  <2>5. seen'[p] = record.seen /\ accountOf'[p] = record.accounts
    BY <1>0, <2>0 DEF Functions
  <2>6. /\ UNCHANGED <<affinityFile, exists, clock, last>>
        /\ stage[p] = "down" /\ stage'[p] # "down"
    BY <1>0 DEF Start, Functions
  <2> QED BY <2>1, <2>3, <2>4, <2>5, <2>6
<1>2. last[p] \notin Sessions
  BY <1>1, AffinityAssumption DEF LiveInv, ProcLive
<1>3. JobInv(p)' /\ SparesNew(p)'
  BY <1>0, <1>1, <1>2, NewJobIsFine
<1>4. ProcLive(p)'
  <2>1. Distinct(seen[p])' /\ Distinct(accountOf[p])'
    BY <1>1 DEF Distinct
  <2> QED BY <1>0, <1>1, <1>3, <2>1 DEF ProcLive
<1>5. ASSUME NEW q \in Procs \ {p} PROVE ProcLive(q)'
  BY <1>0, <1>1, OthersLive DEF Start, Functions, LiveInv
<1> QED BY <1>1, <1>4, <1>5 DEF LiveInv, FileDistinct

LEMMA CheckOneLive ==
  ASSUME Typed, LiveInv, NEW p \in Procs, CheckOne(p)
  PROVE  LiveInv'
<1>0. Functions /\ World /\ job[p] \in Jobs
  BY TypedParts DEF Pieces, Functions
<1>1. UNCHANGED <<affinityFile, exists, clock, seen, accountOf, last, stage>>
  BY DEF CheckOne
<1>2. PICK s \in job[p].todo :
        job' = [job EXCEPT ![p].todo = @ \ {s},
                           ![p].missing = IF s \in exists THEN @ ELSE @ \cup {s}]
  BY DEF CheckOne
<1>3. /\ job'[p].now = job[p].now /\ job'[p].todo \subseteq job[p].todo
      /\ job'[p].missing \cap exists = job[p].missing \cap exists
      /\ job'[p].missing \subseteq job[p].missing \cup {s}
      /\ \A q \in Procs \ {p} : job'[q] = job[q]
  <2> DEFINE gone == IF s \in exists THEN job[p].missing ELSE job[p].missing \cup {s}
             one == [job[p] EXCEPT !.todo = job[p].todo \ {s}]
             two == [one EXCEPT !.missing = gone]
  <2>1. job' = [job EXCEPT ![p] = two]
    BY <1>0, <1>2 DEF Functions
  <2>2. gone \cap exists = job[p].missing \cap exists /\ gone \subseteq job[p].missing \cup {s}
    OBVIOUS
  <2> HIDE DEF gone
  <2>3. two.now = job[p].now /\ two.todo = job[p].todo \ {s} /\ two.missing = gone
    BY <1>0 DEF Jobs
  <2> HIDE DEF two
  <2> QED BY <1>0, <2>1, <2>2, <2>3 DEF Functions
<1>4. Known(p)' = Known(p)
  BY <1>1 DEF Known, Keys
<1>5. JobInv(p)'
  <2>1. JobInv(p) /\ job'[p].todo \cup job'[p].missing \subseteq job[p].todo \cup job[p].missing
    BY <1>2, <1>3 DEF LiveInv, ProcLive
  <2> QED BY <1>1, <1>2, <1>3, <1>4, <2>1 DEF JobInv
<1>6. SparesNew(p)'
  <2>1. SparesNew(p)
    BY DEF LiveInv, ProcLive
  <2>2. seen' = seen /\ exists' = exists
    BY <1>1
  <2> QED BY <1>3, <1>4, <2>1, <2>2 DEF SparesNew
<1>7. stage[p] # "down"
  BY DEF CheckOne
<1>8. ProcLive(p)'
  BY <1>1, <1>5, <1>6, <1>7 DEF LiveInv, ProcLive
<1>9. ASSUME NEW q \in Procs \ {p} PROVE ProcLive(q)'
  BY <1>1, <1>3, OthersLive DEF LiveInv
<1> QED BY <1>1, <1>8, <1>9 DEF LiveInv, FileDistinct

LEMMA DropLive ==
  ASSUME Typed, LiveInv, NEW p \in Procs, Drop(p)
  PROVE  LiveInv'
<1>0. Functions /\ World /\ clock \in Nat
  BY TypedParts, AffinityAssumption DEF Pieces, World, Ticks
<1> DEFINE gone == {s \in job[p].missing : ~(MissingGrace > 0 /\ Spared(p, s))}
<1>1. UNCHANGED <<affinityFile, exists, clock, last>> /\ stage'[p] # "down" /\ job'[p] = NoJob
      /\ seen'[p] = Without(seen[p], gone) /\ accountOf'[p] = Without(accountOf[p], gone)
  BY <1>0 DEF Drop, Functions
<1> HIDE DEF gone
<1>2. Distinct(seen[p])' /\ Distinct(accountOf[p])'
  <2>1. seen[p] \in Entries(Ticks) /\ accountOf[p] \in Entries(Accounts)
    BY <1>0 DEF Functions, SeenEntries, AccountEntries
  <2>2. Distinct(Without(seen[p], gone)) /\ Distinct(Without(accountOf[p], gone))
    BY <2>1, WithoutEffect DEF LiveInv, ProcLive
  <2>3. Distinct(seen'[p]) /\ Distinct(accountOf'[p])
    BY <1>1, <2>2
  <2> QED BY <2>3 DEF Distinct
<1>3. JobInv(p)' /\ SparesNew(p)'
  BY <1>0, <1>1, EmptyJobIsFine
<1>4. ProcLive(p)'
  BY <1>1, <1>2, <1>3 DEF ProcLive
<1>5. ASSUME NEW q \in Procs \ {p} PROVE ProcLive(q)'
  BY <1>0, <1>1, OthersLive DEF Drop, Functions, LiveInv
<1> QED BY <1>1, <1>4, <1>5 DEF LiveInv, FileDistinct

\* A session seen within the grace, by the clock of a job, is not stale yet.
LEMMA ObserveLive ==
  ASSUME Roomy, Typed, LiveInv, NEW p \in Procs, NEW s \in Sessions, Observe(p, s)
  PROVE  LiveInv'
<1>0. Functions /\ World /\ clock \in Nat /\ clock \in Ticks /\ job[p] \in Jobs
  BY TypedParts, AffinityAssumption DEF Pieces, World, Ticks, Functions
<1> DEFINE stale == {k \in Keys(seen[p]) : clock - Value(seen[p], k) > SessionTTL}
           kept == Without(seen[p], stale)
           sn == Put(kept, s, clock)
<1>1. /\ UNCHANGED <<affinityFile, exists, clock, accountOf, stage, job>>
      /\ seen'[p] = sn /\ last'[p] = s /\ stage[p] # "down"
  BY <1>0 DEF Observe, Functions, Serving
<1>2. seen[p] \in Entries(Ticks) /\ Distinct(seen[p])
  BY <1>0 DEF Functions, SeenEntries, LiveInv, ProcLive
<1>3. /\ kept \in Entries(Ticks) /\ Distinct(kept)
      /\ Keys(kept) = Keys(seen[p]) \ stale
      /\ \A k \in Keys(kept) : Value(kept, k) = Value(seen[p], k)
  <2> HIDE DEF stale
  <2>1. Without(seen[p], stale) \in Entries(Ticks) /\ Distinct(Without(seen[p], stale))
    BY <1>2, WithoutEffect
  <2>2. /\ Keys(Without(seen[p], stale)) = Keys(seen[p]) \ stale
        /\ \A k \in Keys(seen[p]) \ stale : Value(Without(seen[p], stale), k) = Value(seen[p], k)
    BY <1>2, WithoutKeys
  <2> QED BY <2>1, <2>2
<1>s. \A k \in stale : k \in Keys(seen[p]) /\ clock - Value(seen[p], k) > SessionTTL
  OBVIOUS
<1> HIDE DEF kept, stale
<1>4. /\ Distinct(sn) /\ Keys(sn) = Keys(kept) \cup {s} /\ Value(sn, s) = clock
      /\ \A k \in Keys(sn) : k # s => Value(sn, k) = Value(kept, k)
  <2>1. Distinct(Put(kept, s, clock))
    BY <1>0, <1>3, PutEffect DEF IsPut
  <2>2. Keys(Put(kept, s, clock)) = Keys(kept) \cup {s}
    BY <1>0, <1>3, PutKeepsAll
  <2>3. /\ Value(Put(kept, s, clock), s) = clock
        /\ \A k \in Keys(Put(kept, s, clock)) : k # s => Value(Put(kept, s, clock), k) = Value(kept, k)
    BY <1>0, <1>3, PutValues
  <2> QED BY <1>3, <2>1, <2>2, <2>3
<1> HIDE DEF sn
<1>5. /\ Known(p)' = Keys(sn) \cup Keys(accountOf[p])
      /\ \A k : k \in Known(p)' => k = s \/ k \in Known(p)
  BY <1>1, <1>3, <1>4 DEF Known, Keys
<1>6. JobInv(p)'
  <2>1. JobInv(p)
    BY DEF LiveInv, ProcLive
  <2>2. s \in Known(p)'
    BY <1>4, <1>5
  <2> QED BY <1>1, <2>1, <2>2 DEF JobInv
<1>7. SparesNew(p)'
  <2>0. job[p].now <= clock /\ job[p].now \in Nat
    BY <1>0, AffinityAssumption DEF LiveInv, ProcLive, JobInv, Jobs, Ticks
  <2>1. ASSUME NEW k \in job[p].missing \cap exists, k \in Known(p)'
        PROVE  k \in Keys(sn) /\ job[p].now - Value(sn, k) <= MissingGrace
    <3>1. CASE k = s
      BY <1>0, <1>4, <2>0, <3>1, AffinityAssumption
    <3>2. CASE k # s
      <4>1. k \in Known(p)
        BY <1>5, <2>1, <3>2
      <4>2. k \in Keys(seen[p]) /\ job[p].now - Value(seen[p], k) <= MissingGrace
        BY <2>1, <4>1 DEF LiveInv, ProcLive, SparesNew
      <4>3. clock - job[p].now <= SessionTTL - MissingGrace
        BY <2>1 DEF LiveInv, ProcLive, JobInv
      <4>4. Value(seen[p], k) \in Nat
        BY <1>2, <4>2, ValueIs, AffinityAssumption DEF Ticks
      <4>5. ~(clock - Value(seen[p], k) > SessionTTL)
        BY <1>0, <2>0, <4>2, <4>3, <4>4, AffinityAssumption
      <4>6. k \in Keys(kept) /\ Value(sn, k) = Value(seen[p], k)
        BY <1>3, <1>4, <1>s, <3>2, <4>2, <4>5
      <4> QED BY <1>4, <4>2, <4>6
    <3> QED BY <3>1, <3>2
  <2>2. \A k \in job'[p].missing \cap exists' : k \in Known(p)' =>
          k \in Keys(seen'[p]) /\ job'[p].now - Value(seen'[p], k) <= MissingGrace
    BY <1>1, <2>1
  <2> QED BY <2>2 DEF SparesNew, Keys, Value
<1>8. ProcLive(p)'
  <2>1. Distinct(seen[p])'
    BY <1>1, <1>4 DEF Distinct
  <2> QED BY <1>1, <1>6, <1>7, <2>1 DEF LiveInv, ProcLive, Distinct
<1>9. ASSUME NEW q \in Procs \ {p} PROVE ProcLive(q)'
  BY <1>0, <1>1, OthersLive DEF Observe, Functions, LiveInv
<1> QED BY <1>1, <1>8, <1>9 DEF LiveInv, FileDistinct

LEMMA AssignLive ==
  ASSUME Roomy, Typed, LiveInv, NEW p \in Procs, NEW s \in Sessions, NEW a \in Accounts,
         Assign(p, s, a)
  PROVE  LiveInv'
<1>0. Functions /\ World
  BY TypedParts DEF Pieces
<1> DEFINE an == IF s \in Keys(accountOf[p]) THEN Changed(accountOf[p], s, a)
                                            ELSE Put(accountOf[p], s, a)
<1>1. /\ UNCHANGED <<affinityFile, exists, clock, seen, last, stage, job>>
      /\ accountOf'[p] = an /\ stage[p] # "down" /\ s = last[p]
  BY <1>0 DEF Assign, Serving, Functions, Changed
<1>2. accountOf[p] \in Entries(Accounts) /\ Distinct(accountOf[p])
  BY <1>0 DEF Functions, AccountEntries, LiveInv, ProcLive
<1>3. Distinct(an) /\ Keys(an) = Keys(accountOf[p]) \cup {s}
  <2>1. Distinct(Changed(accountOf[p], s, a)) /\ Keys(Changed(accountOf[p], s, a)) = Keys(accountOf[p])
    BY <1>2, ChangedKeys
  <2>2. Distinct(Put(accountOf[p], s, a))
    BY <1>2, PutEffect DEF IsPut
  <2>3. Keys(Put(accountOf[p], s, a)) = Keys(accountOf[p]) \cup {s}
    BY <1>2, PutKeepsAll
  <2> QED BY <2>1, <2>2, <2>3
<1> HIDE DEF an
<1>4. Known(p)' = Known(p) \cup {s}
  BY <1>1, <1>3 DEF Known, Keys
<1>5. JobInv(p)'
  BY <1>1, <1>4 DEF LiveInv, ProcLive, JobInv
<1>6. SparesNew(p)'
  <2>1. JobInv(p) /\ SparesNew(p)
    BY DEF LiveInv, ProcLive
  <2>2. \A k \in job[p].missing : k \in Known(p)' => k \in Known(p)
    BY <1>1, <1>4, <2>1 DEF JobInv
  <2> QED BY <1>1, <2>1, <2>2 DEF SparesNew
<1>7. ProcLive(p)'
  <2>1. Distinct(accountOf[p])'
    BY <1>1, <1>3 DEF Distinct
  <2> QED BY <1>1, <1>5, <1>6, <2>1 DEF LiveInv, ProcLive, Distinct
<1>8. ASSUME NEW q \in Procs \ {p} PROVE ProcLive(q)'
  BY <1>0, <1>1, OthersLive DEF Assign, Functions, LiveInv
<1> QED BY <1>1, <1>7, <1>8 DEF LiveInv, FileDistinct

LEMMA BeginSaveLive ==
  ASSUME Typed, LiveInv, NEW p \in Procs, BeginSave(p)
  PROVE  LiveInv'
<1>0. Functions /\ World /\ clock \in Nat
  BY TypedParts, AffinityAssumption DEF Pieces, World, Ticks
<1>1. /\ UNCHANGED <<affinityFile, exists, clock, seen, accountOf, last>>
      /\ job'[p] = Lookups(Known(p)) /\ stage'[p] # "down"
  BY <1>0 DEF BeginSave, Functions
<1>2. Known(p)' = Known(p)
  BY <1>1 DEF Known, Keys
<1>3. JobInv(p)' /\ SparesNew(p)'
  BY <1>0, <1>1, <1>2, NewJobIsFine
<1>4. ProcLive(p)'
  BY <1>1, <1>3 DEF LiveInv, ProcLive, Distinct
<1>5. ASSUME NEW q \in Procs \ {p} PROVE ProcLive(q)'
  BY <1>0, <1>1, OthersLive DEF BeginSave, Functions, LiveInv
<1> QED BY <1>1, <1>4, <1>5 DEF LiveInv, FileDistinct

LEMMA SaveLive ==
  ASSUME Typed, LiveInv, NEW p \in Procs, Save(p)
  PROVE  LiveInv'
<1>0. Functions /\ World
  BY TypedParts DEF Pieces
<1>1. UNCHANGED <<exists, clock, seen, accountOf, last, job>> /\ stage[p] # "down" /\ stage'[p] # "down"
  BY <1>0 DEF Save, Functions
<1>2. ProcLive(p)'
  BY <1>1 DEF LiveInv, ProcLive, JobInv, SparesNew, Known, Keys, Value, Distinct
<1>3. ASSUME NEW q \in Procs \ {p} PROVE ProcLive(q)'
  BY <1>0, <1>1, OthersLive DEF Save, Functions, LiveInv
<1>4. FileDistinct'
  <2>1. Distinct(seen[p]) /\ Distinct(accountOf[p]) /\ FileDistinct
    BY DEF LiveInv, ProcLive
  <2>2. CASE \E read \in OnRead : affinityFile' = [read EXCEPT ![ModeOf[p]] = Snapshot(p)]
    <3>0. PICK read \in OnRead : affinityFile' = [read EXCEPT ![ModeOf[p]] = Snapshot(p)]
      BY <2>2
    <3>1. affinityFile'[ModeOf[p]].seen = seen[p] /\ affinityFile'[ModeOf[p]].accounts = accountOf[p]
      BY <1>0, <3>0, SnapshotIs, ReadsAreFiles, AffinityAssumption
    <3>2. \A m \in Modes : m # ModeOf[p] => affinityFile'[m] \in {affinityFile[m], Nothing}
      BY <1>0, <3>0 DEF World, OnRead
    <3>3. Distinct(<<>>)
      BY DEF Distinct
    <3>4. \A m \in Modes : Distinct(affinityFile'[m].seen) /\ Distinct(affinityFile'[m].accounts)
      BY <2>1, <3>1, <3>2, <3>3 DEF FileDistinct, Nothing
    <3> QED BY <3>4 DEF FileDistinct, Distinct
  <2>3. CASE affinityFile' = affinityFile
    BY <2>1, <2>3 DEF FileDistinct, Distinct
  <2> QED BY <2>2, <2>3 DEF Save
<1> QED BY <1>2, <1>3, <1>4 DEF LiveInv

LEMMA StopLive ==
  ASSUME Typed, LiveInv, NEW p \in Procs, Stop(p)
  PROVE  LiveInv'
<1>0. Functions /\ World /\ clock \in Nat
  BY TypedParts, AffinityAssumption DEF Pieces, World, Ticks
<1>1. /\ UNCHANGED <<affinityFile, exists, clock>> /\ seen'[p] = <<>> /\ accountOf'[p] = <<>>
      /\ last'[p] = NoSession /\ job'[p] = NoJob
  BY <1>0 DEF Stop, Functions
<1>2. JobInv(p)' /\ SparesNew(p)'
  BY <1>0, <1>1, EmptyJobIsFine
<1>3. ProcLive(p)'
  BY <1>1, <1>2 DEF ProcLive, Distinct
<1>4. ASSUME NEW q \in Procs \ {p} PROVE ProcLive(q)'
  BY <1>0, <1>1, OthersLive DEF Stop, Functions, LiveInv
<1> QED BY <1>1, <1>3, <1>4 DEF LiveInv, FileDistinct

\* A session's file is written within the grace, and lookups are answered in time.
LEMMA OutsideLive ==
  ASSUME Typed, LiveInv, (\E s \in Sessions : WriteSession(s) \/ DeleteSession(s)) \/ Pass
  PROVE  LiveInv'
<1>0. Functions /\ World /\ clock \in Nat
  BY TypedParts, AffinityAssumption DEF Pieces, World, Ticks
<1>1. UNCHANGED <<affinityFile, seen, accountOf, last, stage, job>>
  BY DEF WriteSession, DeleteSession, Pass
<1>2. FileDistinct'
  BY <1>1 DEF LiveInv, FileDistinct, Distinct
<1>3. ASSUME NEW q \in Procs PROVE ProcLive(q)'
  <2>1. ProcLive(q) /\ job[q].now \in Nat
    BY <1>0, AffinityAssumption DEF LiveInv, Functions, Jobs, Ticks
  <2>2. Known(q)' = Known(q)
    BY <1>1 DEF Known, Keys
  <2>3. JobInv(q)'
    <3>1. CASE Pass
      <4>1. clock' = clock + 1
        BY <3>1 DEF Pass
      <4>2. job[q].todo \cup job[q].missing # {} => clock - job[q].now < SessionTTL - MissingGrace
        BY <3>1 DEF Pass, NoJob
      <4>3. job[q].todo \cup job[q].missing # {} => clock' - job[q].now <= SessionTTL - MissingGrace
        BY <1>0, <2>1, <4>1, <4>2, AffinityAssumption
      <4>4. job[q].now <= clock'
        BY <1>0, <2>1, <4>1 DEF ProcLive, JobInv
      <4> QED BY <1>1, <2>1, <2>2, <4>3, <4>4 DEF ProcLive, JobInv
    <3>2. CASE ~Pass
      <4>1. clock' = clock
        BY <3>2 DEF WriteSession, DeleteSession
      <4> QED BY <1>1, <2>1, <2>2, <4>1 DEF ProcLive, JobInv
    <3> QED BY <3>1, <3>2
  <2>4. SparesNew(q)'
    <3>1. CASE \E s \in Sessions : WriteSession(s)
      <4>1. PICK s \in Sessions : WriteSession(s)
        BY <3>1
      <4>2. exists' = exists \cup {s}
        BY <4>1 DEF WriteSession
      <4>3. s \in Known(q) => s \in Keys(seen[q]) /\ job[q].now - Value(seen[q], s) <= MissingGrace
        <5>1. ASSUME s \in Known(q) PROVE s \in Keys(seen[q]) /\ clock - Value(seen[q], s) <= MissingGrace
          BY <4>1, <5>1 DEF WriteSession
        <5>2. seen[q] \in Entries(Ticks) /\ job[q].now <= clock
          BY <1>0, <2>1 DEF Functions, SeenEntries, ProcLive, JobInv
        <5>3. s \in Keys(seen[q]) => Value(seen[q], s) \in Nat
          BY <5>2, ValueIs, AffinityAssumption DEF Ticks
        <5> QED BY <1>0, <2>1, <5>1, <5>2, <5>3, AffinityAssumption
      <4> QED BY <1>1, <2>1, <2>2, <4>2, <4>3 DEF ProcLive, SparesNew
    <3>2. CASE ~(\E s \in Sessions : WriteSession(s))
      <4>1. exists' \subseteq exists
        BY <3>2 DEF DeleteSession, Pass
      <4> QED BY <1>1, <2>1, <2>2, <4>1 DEF ProcLive, SparesNew
    <3> QED BY <3>1, <3>2
  <2> QED BY <1>1, <2>1, <2>3, <2>4 DEF ProcLive, Distinct
<1> QED BY <1>2, <1>3 DEF LiveInv

LEMMA LiveInvKept ==
  ASSUME Roomy, Typed, LiveInv, [AffinityNext]_affinityVars
  PROVE  LiveInv'
<1>1. CASE UNCHANGED affinityVars
  <2>1. UNCHANGED <<affinityFile, exists, clock, seen, accountOf, last, stage, job>>
    BY <1>1 DEF affinityVars
  <2>2. \A p \in Procs : ProcLive(p)'
    BY <2>1, OthersLive DEF LiveInv
  <2>3. FileDistinct'
    BY <2>1 DEF LiveInv, FileDistinct
  <2> QED BY <2>2, <2>3 DEF LiveInv
<1>2. CASE AffinityNext
  BY <1>2, StartLive, CheckOneLive, DropLive, ObserveLive, AssignLive, BeginSaveLive, SaveLive,
     StopLive, OutsideLive DEF AffinityNext, Persist
<1> QED BY <1>1, <1>2

LEMMA LiveInvInit == AffinityInit => LiveInv
<1> SUFFICES ASSUME AffinityInit PROVE LiveInv
  OBVIOUS
<1>1. FileDistinct
  BY DEF AffinityInit, Nothing, FileDistinct, Distinct
<1>2. ASSUME NEW p \in Procs PROVE ProcLive(p)
  BY DEF AffinityInit, ProcLive, Distinct, JobInv, SparesNew, NoJob
<1> QED BY <1>1, <1>2 DEF LiveInv

-----------------------------------------------------------------------------
(* What a step may take away.                                              *)

TakenWell(p) ==
  \A s \in Keys(accountOf[p]) \ Keys(accountOf'[p]) :
    \/ stage'[p] = "down"
    \/ Len(accountOf[p]) = MaxKeys /\ Len(accountOf'[p]) = MaxKeys
    \/ s \notin exists /\ (s \in Keys(seen[p]) => clock - Value(seen[p], s) > MissingGrace)

LEMMA DropTakesWell ==
  ASSUME Typed, LiveInv, NEW p \in Procs, Drop(p)
  PROVE  TakenWell(p)
<1>0. Functions /\ World /\ clock \in Nat
  BY TypedParts, AffinityAssumption DEF Pieces, World, Ticks
<1> DEFINE gone == {s \in job[p].missing : ~(MissingGrace > 0 /\ Spared(p, s))}
<1>1. accountOf'[p] = Without(accountOf[p], gone)
  BY <1>0 DEF Drop, Functions
<1>2. \A s \in gone : s \in job[p].missing /\ ~Spared(p, s)
  BY AffinityAssumption
<1> HIDE DEF gone
<1>3. Keys(accountOf'[p]) = Keys(accountOf[p]) \ gone
  <2>1. accountOf[p] \in Entries(Accounts)
    BY <1>0 DEF Functions, AccountEntries
  <2> QED BY <1>1, <2>1, WithoutKeys
<1>4. ASSUME NEW s \in Keys(accountOf[p]) \ Keys(accountOf'[p])
      PROVE  s \notin exists /\ (s \in Keys(seen[p]) => clock - Value(seen[p], s) > MissingGrace)
  <2>1. s \in job[p].missing /\ ~Spared(p, s) /\ s \in Known(p)
    BY <1>2, <1>3, <1>4 DEF Known
  <2>2. s \notin exists
    BY <2>1 DEF LiveInv, ProcLive, SparesNew, Spared
  <2>3. ASSUME s \in Keys(seen[p]) PROVE clock - Value(seen[p], s) > MissingGrace
    <3>1. job[p].now <= clock /\ job[p].now \in Nat
      BY <1>0, AffinityAssumption DEF LiveInv, ProcLive, JobInv, Functions, Jobs, Ticks
    <3>2. Value(seen[p], s) \in Nat
      <4>1. seen[p] \in Entries(Ticks)
        BY <1>0 DEF Functions, SeenEntries
      <4> QED BY <2>3, <4>1, ValueIs, AffinityAssumption DEF Ticks
    <3>3. ~(job[p].now - Value(seen[p], s) <= MissingGrace)
      BY <2>1, <2>3 DEF Spared
    <3> QED BY <1>0, <3>1, <3>2, <3>3, AffinityAssumption
  <2> QED BY <2>2, <2>3
<1> QED BY <1>4 DEF TakenWell

LEMMA AssignTakesWell ==
  ASSUME Typed, NEW p \in Procs, NEW s \in Sessions, NEW a \in Accounts, Assign(p, s, a)
  PROVE  TakenWell(p)
<1>0. Functions
  BY TypedParts DEF Pieces
<1>1. accountOf[p] \in Entries(Accounts)
  BY <1>0 DEF Functions, AccountEntries
<1>2. accountOf'[p] = IF s \in Keys(accountOf[p]) THEN Changed(accountOf[p], s, a)
                                                 ELSE Put(accountOf[p], s, a)
  BY <1>0 DEF Assign, Functions, Changed
<1>3. Keys(Changed(accountOf[p], s, a)) = Keys(accountOf[p])
  BY <1>1, ChangedKeys
<1>4. \/ /\ Len(accountOf[p]) = MaxKeys /\ Len(Put(accountOf[p], s, a)) = MaxKeys
      \/ Keys(accountOf[p]) \subseteq Keys(Put(accountOf[p], s, a))
  BY <1>1, PutKeys
<1> QED BY <1>2, <1>3, <1>4 DEF TakenWell

LEMMA TakesWell ==
  ASSUME Typed, LiveInv, [AffinityNext]_affinityVars
  PROVE  \A p \in Procs : TakenWell(p)
<1>0. Functions
  BY TypedParts DEF Pieces
<1> SUFFICES ASSUME NEW q \in Procs PROVE TakenWell(q)
  OBVIOUS
<1>1. CASE accountOf'[q] = accountOf[q]
  BY <1>1 DEF TakenWell
<1>2. CASE Start(q)
  BY <1>2 DEF Start, LiveInv, ProcLive, Keys, TakenWell
<1>3. CASE Stop(q)
  BY <1>0, <1>3 DEF Stop, Functions, TakenWell
<1>4. CASE Drop(q)
  BY <1>4, DropTakesWell
<1>5. CASE \E s \in Sessions, a \in Accounts : Assign(q, s, a)
  BY <1>5, AssignTakesWell
<1>6. ASSUME accountOf'[q] # accountOf[q]
      PROVE  \/ Start(q) \/ Stop(q) \/ Drop(q)
             \/ \E s \in Sessions, a \in Accounts : Assign(q, s, a)
  <2>1. PICK p \in Procs : \/ Start(p) \/ Stop(p) \/ Drop(p)
                           \/ \E s \in Sessions, a \in Accounts : Assign(p, s, a)
    BY <1>6 DEF AffinityNext, affinityVars, Persist, BeginSave, CheckOne, Save, Observe, WriteSession,
       DeleteSession, Pass
  <2>2. p # q => accountOf'[q] = accountOf[q]
    BY <1>0, <2>1 DEF Functions, Start, Stop, Drop, Assign
  <2> QED BY <1>6, <2>1, <2>2
<1> QED BY <1>1, <1>2, <1>3, <1>4, <1>5, <1>6

-----------------------------------------------------------------------------
(* What the two files promise.                                             *)

LEMMA AlwaysTyped == AffinitySpec => []Typed
BY AffinityInitTyped, AffinityNextTyped, PTL DEF AffinitySpec

\* Once the saves of a process are done and the last did not fail, the session
\* affinity file has its sessions' accounts, as long as no other process writes
\* the record of its mode, and until a save of the other mode cannot read the file
\* and drops them (createSessionAffinityRuntimeState, readUnlocked).
THEOREM SavesReachTheFile == OneProcessPerMode => (AffinitySpec => []SettledIsOnDisk)
<1> SUFFICES ASSUME OneProcessPerMode PROVE AffinitySpec => []SettledIsOnDisk
  OBVIOUS
<1>1. Typed /\ DiskInv /\ [AffinityNext]_affinityVars => DiskInv'
  BY DiskInvKept
<1> QED BY <1>1, AlwaysTyped, DiskInvInit, DiskInvSettles, PTL DEF AffinitySpec

\* A running process takes a session's account away only to make room or when the
\* session's file is missing and it was not seen within the grace, whatever is
\* requested while the files are being looked up (pruneMissingSessions).
THEOREM LiveSessionsAreKept == Roomy => (AffinitySpec => KeepsLiveSessions)
<1> SUFFICES ASSUME Roomy PROVE AffinitySpec => KeepsLiveSessions
  OBVIOUS
<1>1. Typed /\ LiveInv /\ [AffinityNext]_affinityVars => LiveInv'
  BY LiveInvKept
<1>2. Typed /\ LiveInv /\ [AffinityNext]_affinityVars =>
        [\A p \in Procs : \A s \in Keys(accountOf[p]) \ Keys(accountOf'[p]) :
           \/ stage'[p] = "down"
           \/ Len(accountOf[p]) = MaxKeys /\ Len(accountOf'[p]) = MaxKeys
           \/ s \notin exists /\ (s \in Keys(seen[p]) => clock - Value(seen[p], s) > MissingGrace)
        ]_affinityVars
  BY TakesWell DEF TakenWell
<1> QED BY <1>1, <1>2, AlwaysTyped, LiveInvInit, PTL DEF AffinitySpec, KeepsLiveSessions

\* Each part keeps what it promises while the other stands still, so the two files
\* are sound together; settled affinities are on disk but for those that a save of
\* the other mode dropped, which could not read them.
THEOREM FilesAreSound == OneProcessPerMode => (Spec => []FilesSound)
<1> SUFFICES ASSUME OneProcessPerMode PROVE Spec => []FilesSound
  OBVIOUS
<1>1. Typed /\ DiskInv /\ [AffinityNext]_affinityVars => DiskInv'
  BY DiskInvKept
<1>2. FileInv /\ LockIsLetGo /\ [FileNext]_fileVars => LockIsLetGo'
  BY LockGoes
<1>3. FileInv /\ LockIsLetGo /\ Typed /\ DiskInv => FilesSound
  BY DiskInvSettles DEF Typed, FilesSound, FileInv, Durable, NeverTorn
<1>4. Init => FileInit /\ AffinityInit
  BY DEF Init
<1>5. [Next]_vars => [FileNext]_fileVars /\ [AffinityNext]_affinityVars
  BY DEF Next, vars, Only, OnlyAffinity, fileVars, affinityVars
<1>6. Spec => Init /\ [][Next]_vars
  BY PTL DEF Spec
<1> QED BY <1>1, <1>2, <1>3, <1>4, <1>5, <1>6, InitInv, NextInv, LockInit, AffinityInitTyped,
     AffinityNextTyped, DiskInvInit, PTL
=============================================================================
