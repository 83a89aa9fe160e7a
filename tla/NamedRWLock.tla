---------------------------- MODULE NamedRWLock ----------------------------
(***************************************************************************)
(* What a table of named reader/writer locks promises its callers: one     *)
(* lock per NAME, whatever objects implement it.  The detailed table of    *)
(* namedlock/namedlock.go is module NamedLock, which implements this one;  *)
(* module Store is built on two instances of it (Store.hostLock and        *)
(* Store.dataLock).                                                        *)
(*                                                                         *)
(* As in sync.RWMutex a writer first announces itself, which keeps new     *)
(* readers out, and holds the lock once the readers before it have left.   *)
(***************************************************************************)
CONSTANTS Procs,    \* the goroutines that lock
          Names     \* the names that are locked

VARIABLES writers,  \* writers[n]: the writer announced on n, {} or one process
          readers   \* readers[n]: the processes that hold n for reading

lockVars == <<writers, readers>>

Init == /\ writers = [n \in Names |-> {}]
        /\ readers = [n \in Names |-> {}]

\* p holds n for writing: it is announced and no reader is left.
HoldsW(p, n) == p \in writers[n] /\ readers[n] = {}

HoldsR(p, n) == p \in readers[n]

\* First half of Lock; the caller goes on when HoldsW(p, n).
Announce(p, n) == /\ writers[n] = {}
                  /\ writers' = [writers EXCEPT ![n] = {p}]
                  /\ UNCHANGED readers

\* Unlock lets in, at once, the readers R that were blocked behind p.
Unlock(p, n, R) == /\ HoldsW(p, n)
                   /\ writers' = [writers EXCEPT ![n] = {}]
                   /\ readers' = [readers EXCEPT ![n] = R]

RLock(p, n) == /\ writers[n] = {}
               /\ readers' = [readers EXCEPT ![n] = @ \cup {p}]
               /\ UNCHANGED writers

RUnlock(p, n) == /\ HoldsR(p, n)
                 /\ readers' = [readers EXCEPT ![n] = @ \ {p}]
                 /\ UNCHANGED writers

\* TryLock that succeeds announces and holds in one step.
TryLock(p, n) == readers[n] = {} /\ Announce(p, n)

Next == \E p \in Procs, n \in Names :
          \/ Announce(p, n)
          \/ \E R \in SUBSET Procs : Unlock(p, n, R)
          \/ RLock(p, n)
          \/ RUnlock(p, n)
          \/ TryLock(p, n)

Spec == Init /\ [][Next]_lockVars

-----------------------------------------------------------------------------
\* A name is never held by a writer and anyone else.
Exclusion == \A n \in Names : \A p, q \in Procs :
               HoldsW(p, n) /\ (HoldsW(q, n) \/ HoldsR(q, n)) => p = q
=============================================================================
