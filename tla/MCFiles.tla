------------------------------- MODULE MCFiles -------------------------------
(***************************************************************************)
(* Instances of the files that several processes share: the accounts file  *)
(* and the session affinity file.  They share nothing with each other, so  *)
(* a behaviour is one of a single part and the other keeps its initial     *)
(* state.                                                                  *)
(***************************************************************************)
EXTENDS StoreFile, SessionAffinity

CONSTANTS Parts, p1, p2, native, codex

VARIABLE part

vars == <<part, fileVars, affinityVars>>

MCModeOf == [p \in Procs |-> IF p = p1 THEN native ELSE codex]
MCMaxUses == [p \in Procs |-> IF p = p1 THEN 3 ELSE 1]

Init == /\ part \in Parts /\ FileInit /\ AffinityInit
        /\ part # "store" => \A s, t \in Savers : wants[s] = wants[t]

Only(name) == part = name /\ UNCHANGED part
OnlyAffinity == Only("affinity") /\ UNCHANGED fileVars

Next == \/ Only("store") /\ FileNext /\ UNCHANGED affinityVars
        \/ OnlyAffinity /\ AffinityNext

Spec == /\ Init /\ [][Next]_vars
        /\ \A p \in Procs : WF_vars(OnlyAffinity /\ Persist(p))

(* Every variable of the two files has its type; the accounts file is never *)
(* half a file, its lock is not left behind without a fault, and the        *)
(* affinity file has what was saved (writeJsonFileAtomic, withLockedFile,   *)
(* createSessionAffinityRuntimeState).                                      *)
FilesSound == /\ FileTypeOK /\ AffinityTypeOK
              /\ NeverTorn /\ LockIsLetGo /\ SettledIsOnDisk

(* The liveness of the session affinity queue, where that part acts. *)
EveryQueueDrains == part = "affinity" => QueueDrains
=============================================================================
