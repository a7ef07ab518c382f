----------------------------- MODULE AtomicStore -----------------------------
(***************************************************************************)
(* What the accounts file promises its callers, whatever happens between   *)
(* the steps of a save: one value that changes by one whole update at a    *)
(* time, and that never goes back behind an update whose save returned,    *)
(* except that unreadable contents are put aside and kept for repair.      *)
(***************************************************************************)
CONSTANTS Updates, Absent

VARIABLES contents,  \* Absent, or the updates applied and whether they parse
          aside,     \* the contents moved to the quarantine directory
          returned   \* the updates whose save returned without an error

storeVars == <<contents, aside, returned>>

StoreValues == [has : SUBSET Updates, ok : BOOLEAN]

Held(c) == IF c = Absent THEN {} ELSE c.has

StoreInit == /\ contents = Absent
             /\ aside = {}
             /\ returned = {}

\* The file is replaced as a whole: by what it held, or what was put aside
\* meanwhile, and the one update more.
Apply == /\ \E u \in Updates, base \in {contents} \cup aside :
               contents' = [has |-> Held(base) \cup {u}, ok |-> TRUE]
         /\ UNCHANGED <<aside, returned>>

Return == /\ \E u \in Updates : returned' = returned \cup {u}
          /\ UNCHANGED <<contents, aside>>

\* Someone else's editor, or a disk, makes the contents unreadable.
Spoil == /\ contents # Absent
         /\ contents' = [contents EXCEPT !.ok = FALSE]
         /\ UNCHANGED <<aside, returned>>

PutAside == /\ contents # Absent
            /\ aside' = aside \cup {contents}
            /\ contents' = Absent
            /\ UNCHANGED returned

\* A power failure takes back whole updates, none of which had returned, or
\* brings back a file that had been put aside.
FallBack == /\ contents' \in StoreValues \cup {Absent}
            /\ Held(contents') \subseteq Held(contents) \cup UNION {c.has : c \in aside}
            /\ UNCHANGED <<aside, returned>>

StoreNext == \/ Apply \/ Return \/ Spoil \/ PutAside \/ FallBack

\* No update whose save returned is ever gone: it is in the file or in a file
\* put aside.
NothingReturnedIsLost == returned \subseteq Held(contents) \cup UNION {c.has : c \in aside}

StoreSpec == StoreInit /\ [][StoreNext /\ NothingReturnedIsLost']_storeVars
=============================================================================
