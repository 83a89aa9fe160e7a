--------------------------- MODULE LifecycleProofs ---------------------------
(***************************************************************************)
(* One process at a time writes to the directory, and nothing runs after   *)
(* Release, for any number of processes, calls and cleaners.  IInv is      *)
(* inductive; its part about calls is that one that was not in Get when    *)
(* Release was called finds the store open as long as it is in Get, and    *)
(* that its goroutines are counted before Release looks.                   *)
(***************************************************************************)
EXTENDS Lifecycle, FiniteSetTheorems, TLAPS

Holding == {"locked", "open", "cancelled", "waited"}

\* A store that has been made has the lock file to itself.
Locks == /\ lockFile = {} \/ \E s \in Stores : lockFile = {s}
         /\ \A s \in Stores : phase[s] \in Holding => lockFile = {s}

\* The cleaners run between New and the end of Release.
Cleans == \A s \in Stores : phase[s] \in {"absent", "locked", "waited", "released"} =>
                              cleaners[s] = {}

\* A call that is not idle is one of a store that was made.
AtHome == \A c \in Calls : IF pc[c] = "idle" THEN tasks[c] = {}
                           ELSE phase[home[c]] \notin {"absent", "locked"}

\* In Get, but not when Release was called: the store is open.
OpenWithin == \A c \in Calls \ late : Within(c) => phase[home[c]] = "open"

\* What such a call has left behind, Release waits for.
Awaited == \A c \in Calls \ late : tasks[c] # {} => phase[home[c]] \in {"open", "cancelled"}

IInv == TypeOK /\ Locks /\ Cleans /\ AtHome /\ OpenWithin /\ Awaited

\* What stores and calls have to do with each other.
Ties == Cleans /\ AtHome /\ OpenWithin /\ Awaited

USE DEF Become, Goto

-----------------------------------------------------------------------------
LEMMA AtMostOne == ASSUME NEW S, S = {} \/ \E s \in Stores : S = {s}
                   PROVE  Cardinality(S) <= 1
<1>1. CASE S = {}
  BY <1>1, FS_EmptySet
<1>2. ASSUME NEW s \in Stores, S = {s} PROVE Cardinality(S) <= 1
  BY <1>2, FS_Singleton
<1> QED
  BY <1>1, <1>2

\* It holds at first.
LEMMA InitIInv == Init => IInv
<1> SUFFICES ASSUME Init PROVE IInv
  OBVIOUS
<1>1. Cardinality(lockFile) <= 1
  BY AtMostOne DEF Init
<1>2. Nowhere \in Stores
  BY CallsAssumption DEF Nowhere
<1> QED
  BY <1>1, <1>2
     DEF Init, IInv, TypeOK, Phases, Labels, Locks, Holding, Cleans, AtHome, OpenWithin, Awaited,
         Within

-----------------------------------------------------------------------------
(* Types and the lock file: what a step of a store does.                    *)

\* The types of what is no lock file.
Types == /\ phase \in [Stores -> Phases]
         /\ cleaners \in [Stores -> SUBSET Cleaners]
         /\ pc \in [Calls -> Labels]
         /\ home \in [Calls -> Stores]
         /\ tasks \in [Calls -> SUBSET Tasks]
         /\ watcher \in [Calls -> BOOLEAN]
         /\ gone \subseteq Calls
         /\ cancelled \subseteq Calls
         /\ late \subseteq Calls

LEMMA TypesAre == TypeOK <=> /\ Types
                             /\ lockFile \subseteq Stores
                             /\ Cardinality(lockFile) <= 1
  BY DEF TypeOK, Types

\* A call leaves the stores alone: their part of the invariant stays.
LEMMA CallsKeepLocks == IInv /\ UNCHANGED stores => /\ Locks' /\ Cleans'
                                                    /\ lockFile' \subseteq Stores
                                                    /\ Cardinality(lockFile') <= 1
  BY DEF IInv, TypeOK, Locks, Cleans, stores

LEMMA GetKeeps == ASSUME IInv, NEW c \in Calls, GetNext(c)
                  PROVE  Types' /\ AtHome' /\ OpenWithin' /\ Awaited' /\ UNCHANGED stores
<1> USE DEF IInv, TypeOK, Types, AtHome, OpenWithin, Awaited, Within, Labels, stores, Adds, Tasks
<1>1. CASE Get(c)
  <2>1. PICK s \in Stores : /\ pc[c] = "idle" /\ phase[s] = "open"
                            /\ home' = [home EXCEPT ![c] = s]
                            /\ Goto(c, "inside")
                            /\ UNCHANGED <<stores, tasks, watcher, gone, cancelled, late>>
    BY <1>1 DEF Get
  <2> QED
    BY <2>1
<1>2. CASE GetServes(c)
  BY <1>2 DEF GetServes
<1>3. CASE Ask(c)
  BY <1>3 DEF Ask
<1>4. CASE Answered(c)
  BY <1>4 DEF Answered
<1>5. CASE AskFails(c)
  BY <1>5 DEF AskFails
<1>6. CASE CloseRequested(c)
  BY <1>6 DEF CloseRequested
<1>7. CASE Write(c)
  BY <1>7 DEF Write
<1>8. CASE Register(c)
  BY <1>8 DEF Register
<1>9. CASE GetOpens(c)
  BY <1>9 DEF GetOpens
<1>10. CASE HandlerEnds(c)
  BY <1>10 DEF HandlerEnds
<1>11. CASE ClientGone(c)
  BY <1>11 DEF ClientGone
<1>12. CASE Over(c)
  <2>1. Nowhere \in Stores
    BY CallsAssumption DEF Nowhere
  <2> QED
    BY <1>12, <2>1 DEF Over
<1> QED
  BY <1>1, <1>2, <1>3, <1>4, <1>5, <1>6, <1>7, <1>8, <1>9, <1>10, <1>11, <1>12 DEF GetNext

LEMMA OthersKeep ==
  ASSUME IInv, NEW c \in Calls, Watching(c) \/ \E t \in Tasks : TaskEnds(c, t)
  PROVE  Types' /\ AtHome' /\ OpenWithin' /\ Awaited' /\ UNCHANGED stores
<1> USE DEF IInv, TypeOK, Types, AtHome, OpenWithin, Awaited, Within, Labels, stores
<1>1. CASE WatchGone(c)
  BY <1>1 DEF WatchGone
<1>2. CASE WatchTold(c)
  BY <1>2 DEF WatchTold
<1>3. ASSUME NEW t \in Tasks, TaskEnds(c, t)
      PROVE Types' /\ AtHome' /\ OpenWithin' /\ Awaited' /\ UNCHANGED stores
  BY <1>3 DEF TaskEnds
<1> QED
  BY <1>1, <1>2, <1>3 DEF Watching

LEMMA StoreKeeps == ASSUME IInv, NEW s \in Stores, StoreNext(s)
                    PROVE  /\ Types' /\ Cleans' /\ AtHome' /\ OpenWithin' /\ Awaited'
                           /\ Locks' /\ lockFile' \subseteq Stores
<1> USE DEF IInv, TypeOK, Types, Cleans, AtHome, OpenWithin, Awaited, Within, Phases, Labels, calls,
            Locks, Holding
<1>1. CASE NewLock(s)
  BY <1>1 DEF NewLock, LockFree
<1>2. CASE NewReady(s)
  BY <1>2 DEF NewReady
<1>3. CASE NewFails(s)
  BY <1>3 DEF NewFails
<1>4. CASE Release(s)
  BY <1>4 DEF Release
<1>5. CASE Waited(s)
  <2>1. /\ cleaners[s] = {}
        /\ \A c \in Calls : home[c] = s => tasks[c] = {}
    BY <1>5 DEF Waited, Group
  <2> QED
    BY <1>5, <2>1 DEF Waited
<1>6. CASE Unlock(s)
  BY <1>6 DEF Unlock
<1>7. CASE Exit(s)
  <2>1. Nowhere \in Stores
    BY CallsAssumption DEF Nowhere
  <2>2. /\ phase' = [phase EXCEPT ![s] = "absent"]
        /\ lockFile' = lockFile \ {s}
        /\ cleaners' = [cleaners EXCEPT ![s] = {}]
    BY <1>7 DEF Exit
  <2>3. /\ pc' = [c \in Calls |-> IF home[c] = s THEN "idle" ELSE pc[c]]
        /\ tasks' = [c \in Calls |-> IF home[c] = s THEN {} ELSE tasks[c]]
        /\ watcher' = [c \in Calls |-> IF home[c] = s THEN FALSE ELSE watcher[c]]
        /\ home' = [c \in Calls |-> IF home[c] = s THEN Nowhere ELSE home[c]]
    BY <1>7 DEF Exit
  <2>4. /\ gone' = gone \ {c \in Calls : home[c] = s}
        /\ cancelled' = cancelled \ {c \in Calls : home[c] = s}
        /\ late' = late \ {c \in Calls : home[c] = s}
    BY <1>7 DEF Exit
  <2>5. Types' /\ Cleans'
    BY <2>1, <2>2, <2>3, <2>4
  <2>6. Locks' /\ lockFile' \subseteq Stores
    BY <2>2
  <2>7. AtHome' /\ OpenWithin' /\ Awaited'
    BY <2>1, <2>2, <2>3, <2>4
  <2> QED
    BY <2>5, <2>6, <2>7
<1>8. ASSUME NEW k \in Cleaners, CleanerStops(s, k)
      PROVE  /\ Types' /\ Cleans' /\ AtHome' /\ OpenWithin' /\ Awaited'
             /\ Locks' /\ lockFile' \subseteq Stores
  BY <1>8 DEF CleanerStops
<1> QED
  BY <1>1, <1>2, <1>3, <1>4, <1>5, <1>6, <1>7, <1>8 DEF StoreNext

\* Every step keeps the invariant.
LEMMA NextIInv == IInv /\ [Next]_vars => IInv'
<1> SUFFICES ASSUME IInv, [Next]_vars PROVE IInv'
  OBVIOUS
<1>1. ASSUME NEW s \in Stores, StoreNext(s) PROVE IInv'
  <2>1. Cardinality(lockFile') <= 1
    BY <1>1, StoreKeeps, AtMostOne DEF Locks
  <2> QED
    BY <1>1, <2>1, StoreKeeps DEF IInv, TypeOK, Types
<1>2. ASSUME NEW c \in Calls, GetNext(c) PROVE IInv'
  BY <1>2, GetKeeps, CallsKeepLocks DEF IInv, TypeOK, Types
<1>3. ASSUME NEW c \in Calls, Watching(c) \/ \E t \in Tasks : TaskEnds(c, t) PROVE IInv'
  BY <1>3, OthersKeep, CallsKeepLocks DEF IInv, TypeOK, Types
<1>4. CASE UNCHANGED vars
  BY <1>4 DEF vars, stores, calls, IInv, TypeOK, Locks, Cleans, AtHome, OpenWithin, Awaited, Within
<1> QED
  BY <1>1, <1>2, <1>3, <1>4 DEF Next

-----------------------------------------------------------------------------
\* The invariant is inductive.
THEOREM Inductive == Spec => []IInv
  BY InitIInv, NextIInv, PTL DEF Spec

\* store.go 102, 436: what a call of a store does in the directory it does under
\* the lock file, if it was not in Get when Release was called.
THEOREM OwnersWrite == Spec => OnlyOwnerWrites
<1>1. ASSUME IInv, NEW c \in Calls \ late, Touches(c) PROVE lockFile = {home[c]}
  <2>1. phase[home[c]] \in {"open", "cancelled"}
    BY <1>1 DEF IInv, Touches, OpenWithin, Awaited, Within
  <2> QED
    BY <1>1, <2>1 DEF IInv, TypeOK, Locks, Holding
<1>2. IInv /\ [Next]_vars
        => [\A c \in Calls \ late : Touches(c) => lockFile = {home[c]}]_vars
  BY <1>1
<1> QED
  BY Inductive, <1>2, PTL DEF Spec, OnlyOwnerWrites

\* store.go 136-139: when Release has waited, neither a cleaner of the store runs nor
\* any call but those that were in Get when it was called.
THEOREM Quieted == Spec => []ReleasedIsQuiet
<1>1. IInv => ReleasedIsQuiet
  BY DEF IInv, ReleasedIsQuiet, Cleans, OpenWithin, Awaited
<1> QED
  BY Inductive, <1>1, PTL
=============================================================================
