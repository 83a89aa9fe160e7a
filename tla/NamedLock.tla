----------------------------- MODULE NamedLock -----------------------------
(***************************************************************************)
(* namedlock/namedlock.go: a table of reader/writer locks created on       *)
(* demand.  NamedLock.holders maps a name to a reference-counted holder    *)
(* with a sync.RWMutex; the last caller to let go of a holder removes it   *)
(* from the map, and the next caller of the same name makes a new one.     *)
(*                                                                         *)
(* The map and the counts are only touched under NamedLock.mu, so          *)
(* increase, holder and decrease are single steps; between them a          *)
(* goroutine works on the holder's mutex without NamedLock.mu.             *)
(***************************************************************************)
EXTENDS Integers, FiniteSets

CONSTANTS Procs,     \* goroutines; each uses one name of this table at a time
          Names,     \* lock names
          Holders,   \* identities of *holder objects, reused once collected
          NoHolder   \* the nil *holder

ASSUME ProcsAssumption   == IsFiniteSet(Procs)
ASSUME NamesAssumption   == Names # {}
ASSUME HoldersAssumption == NoHolder \notin Holders

VARIABLES holders,   \* NamedLock.holders
          count,     \* holder.count
          hname,     \* holder.name
          wmu,       \* holder.mutex: the announced or holding writer
          rmu,       \* holder.mutex: the readers let in
          rwait,     \* holder.mutex: the readers blocked behind a writer
          pc,        \* where each goroutine is
          name,      \* Locker.name of its current call
          got,       \* the holder increase gave it (kept until decrease)
          found      \* the holder Unlock or RUnlock looked up

vars == <<holders, count, hname, wmu, rmu, rwait, pc, name, got, found>>

muVars  == <<wmu, rmu, rwait>>
mapVars == <<holders, count, hname>>

PCs == {"idle", "lock1", "lock2", "rlock1", "rlock2", "try", "rtry", "giveup",
        "wheld", "rheld", "wfound", "rfound", "release", "panic"}

Entry == {"lock1", "rlock1", "try", "rtry"}

TypeOK == /\ holders \in [Names -> Holders \cup {NoHolder}]
          /\ count \in [Holders -> Nat]
          /\ hname \in [Holders -> Names]
          /\ wmu \in [Holders -> SUBSET Procs]
          /\ rmu \in [Holders -> SUBSET Procs]
          /\ rwait \in [Holders -> SUBSET Procs]
          /\ pc \in [Procs -> PCs]
          /\ name \in [Procs -> Names]
          /\ got \in [Procs -> Holders \cup {NoHolder}]
          /\ found \in [Procs -> Holders \cup {NoHolder}]

Init == /\ holders = [n \in Names |-> NoHolder]
        /\ count = [h \in Holders |-> 0]
        /\ hname \in [Holders -> {CHOOSE n \in Names : TRUE}]
        /\ wmu = [h \in Holders |-> {}]
        /\ rmu = [h \in Holders |-> {}]
        /\ rwait = [h \in Holders |-> {}]
        /\ pc = [p \in Procs |-> "idle"]
        /\ name \in [Procs -> {CHOOSE n \in Names : TRUE}]
        /\ got = [p \in Procs |-> NoHolder]
        /\ found = [p \in Procs |-> NoHolder]

-----------------------------------------------------------------------------
(* NamedLock.increase, holder and holder.decrease, each under NamedLock.mu. *)

\* h is reachable from neither the map nor a goroutine: it can be the
\* identity of a new holder.
Collected(h) == /\ \A n \in Names : holders[n] # h
                /\ \A p \in Procs : got[p] # h /\ found[p] # h

\* The counts once h has one more user.
Counted(h) == [count EXCEPT ![h] = @ + 1]

\* p calls Lock, RLock, TryLock or TryRLock on n, and increase finds a holder.
IncreaseOld(p, n, entry) ==
  /\ pc[p] = "idle"
  /\ holders[n] # NoHolder
  /\ count' = Counted(holders[n])
  /\ got' = [got EXCEPT ![p] = holders[n]]
  /\ name' = [name EXCEPT ![p] = n]
  /\ pc' = [pc EXCEPT ![p] = entry]
  /\ UNCHANGED <<holders, hname, muVars, found>>

\* The same call when increase finds no holder and makes one.
IncreaseNew(p, n, entry) ==
  /\ pc[p] = "idle"
  /\ holders[n] = NoHolder
  /\ \E h \in Holders :
       /\ Collected(h)
       /\ holders' = [holders EXCEPT ![n] = h]
       /\ count' = [count EXCEPT ![h] = 1]
       /\ hname' = [hname EXCEPT ![h] = n]
       /\ wmu' = [wmu EXCEPT ![h] = {}]
       /\ rmu' = [rmu EXCEPT ![h] = {}]
       /\ rwait' = [rwait EXCEPT ![h] = {}]
       /\ got' = [got EXCEPT ![p] = h]
  /\ name' = [name EXCEPT ![p] = n]
  /\ pc' = [pc EXCEPT ![p] = entry]
  /\ UNCHANGED found

\* Seeded fault: the holder is dropped while one user is left.
DroppedEarly(h) == IF count[h] - 1 <= 1 THEN [holders EXCEPT ![hname[h]] = NoHolder]
                                        ELSE holders

\* Seeded fault: the holder is never dropped.
DroppedNever(h) == holders

\* The map once the last user of h has let go.
Dropped(h) == IF count[h] - 1 <= 0 THEN [holders EXCEPT ![hname[h]] = NoHolder]
                                   ELSE holders

\* decrease, after a failed try (on the holder of the call itself) or after
\* an unlock (on the holder that was looked up).
Decrease(p) ==
  /\ pc[p] \in {"giveup", "release"}
  /\ LET h == IF pc[p] = "giveup" THEN got[p] ELSE found[p] IN
       /\ count' = [count EXCEPT ![h] = @ - 1]
       /\ holders' = Dropped(h)
  /\ got' = [got EXCEPT ![p] = NoHolder]
  /\ found' = [found EXCEPT ![p] = NoHolder]
  /\ pc' = [pc EXCEPT ![p] = "idle"]
  /\ UNCHANGED <<hname, muVars, name>>

\* Unlock and RUnlock look the holder up again by name.
Lookup(p) ==
  /\ pc[p] \in {"wheld", "rheld"}
  /\ found' = [found EXCEPT ![p] = holders[name[p]]]
  /\ pc' = [pc EXCEPT ![p] = IF holders[name[p]] = NoHolder THEN "panic"
                             ELSE IF pc[p] = "wheld" THEN "wfound" ELSE "rfound"]
  /\ UNCHANGED <<mapVars, muVars, name, got>>

-----------------------------------------------------------------------------
(* holder.mutex, a sync.RWMutex.                                            *)

At(p, l) == pc[p] = l
Goto(p, l) == pc' = [pc EXCEPT ![p] = l]

\* Seeded fault: readers get past an announced writer.
MayReadAlways(h) == TRUE

\* A reader may enter while no writer is announced.
MayRead(h) == wmu[h] = {}

\* Lock takes the mutex's inner lock and announces the writer, ...
Announce(p) == /\ At(p, "lock1")
               /\ wmu[got[p]] = {}
               /\ wmu' = [wmu EXCEPT ![got[p]] = {p}]
               /\ Goto(p, "lock2")
               /\ UNCHANGED <<mapVars, rmu, rwait, name, got, found>>

\* ... and returns when the readers before it have left.
Drained(p) == /\ At(p, "lock2")
              /\ rmu[got[p]] = {}
              /\ Goto(p, "wheld")
              /\ UNCHANGED <<mapVars, muVars, name, got, found>>

RLock(p) == /\ At(p, "rlock1")
            /\ MayRead(got[p])
            /\ rmu' = [rmu EXCEPT ![got[p]] = @ \cup {p}]
            /\ Goto(p, "rheld")
            /\ UNCHANGED <<mapVars, wmu, rwait, name, got, found>>

\* A writer is announced: the reader blocks ...
RBlock(p) == /\ At(p, "rlock1")
             /\ ~MayRead(got[p])
             /\ rwait' = [rwait EXCEPT ![got[p]] = @ \cup {p}]
             /\ Goto(p, "rlock2")
             /\ UNCHANGED <<mapVars, wmu, rmu, name, got, found>>

\* ... until that writer's Unlock lets it in.
RWake(p) == /\ At(p, "rlock2")
            /\ p \in rmu[got[p]]
            /\ Goto(p, "rheld")
            /\ UNCHANGED <<mapVars, muVars, name, got, found>>

TryLock(p) == /\ At(p, "try")
              /\ LET ok == wmu[got[p]] = {} /\ rmu[got[p]] = {} IN
                   /\ wmu' = IF ok THEN [wmu EXCEPT ![got[p]] = {p}] ELSE wmu
                   /\ Goto(p, IF ok THEN "wheld" ELSE "giveup")
              /\ UNCHANGED <<mapVars, rmu, rwait, name, got, found>>

TryRLock(p) == /\ At(p, "rtry")
               /\ LET ok == MayRead(got[p]) IN
                    /\ rmu' = IF ok THEN [rmu EXCEPT ![got[p]] = @ \cup {p}] ELSE rmu
                    /\ Goto(p, IF ok THEN "rheld" ELSE "giveup")
               /\ UNCHANGED <<mapVars, wmu, rwait, name, got, found>>

\* Unlock lets every blocked reader in; unlocking a mutex nobody locked is
\* the runtime's fatal error.
Unlock(p) == /\ At(p, "wfound")
             /\ wmu' = [wmu EXCEPT ![found[p]] = {}]
             /\ rmu' = [rmu EXCEPT ![found[p]] = @ \cup rwait[found[p]]]
             /\ rwait' = [rwait EXCEPT ![found[p]] = {}]
             /\ Goto(p, IF wmu[found[p]] = {} THEN "panic" ELSE "release")
             /\ UNCHANGED <<mapVars, name, got, found>>

RUnlock(p) == /\ At(p, "rfound")
              /\ rmu' = [rmu EXCEPT ![found[p]] = @ \ {p}]
              /\ Goto(p, IF p \in rmu[found[p]] THEN "release" ELSE "panic")
              /\ UNCHANGED <<mapVars, wmu, rwait, name, got, found>>

-----------------------------------------------------------------------------
\* What a goroutine does once it has called one of the operations; the
\* holder of a lock always unlocks (every caller in the store defers it).
Step(p) == \/ Announce(p) \/ Drained(p)
           \/ RLock(p) \/ RBlock(p) \/ RWake(p)
           \/ TryLock(p) \/ TryRLock(p)
           \/ Lookup(p) \/ Unlock(p) \/ RUnlock(p)
           \/ Decrease(p)

Next == \E p \in Procs :
          \/ \E n \in Names, entry \in Entry :
               IncreaseOld(p, n, entry) \/ IncreaseNew(p, n, entry)
          \/ Step(p)

Spec == Init /\ [][Next]_vars

\* Goroutines keep running, and the inner sync.Mutex hands over in FIFO order
\* after 1ms of waiting, so a goroutine is not overtaken forever.
Fairness == \A p \in Procs : WF_vars(Step(p)) /\ SF_vars(Announce(p))

FairSpec == Spec /\ Fairness
-----------------------------------------------------------------------------
(* Properties.                                                              *)

InWrite(p) == pc[p] \in {"wheld", "wfound"}
InRead(p)  == pc[p] \in {"rheld", "rfound"}

\* The promise is per NAME although a name's holder comes and goes: while one
\* goroutine is between Lock and Unlock of a name, no other is between
\* Lock/RLock and Unlock/RUnlock of that name, on whichever holder.
MutualExclusion ==
  \A p, q \in Procs : p # q /\ name[p] = name[q] /\ InWrite(p)
                         => ~InWrite(q) /\ ~InRead(q)

\* Unlock and RUnlock find the very holder their caller locked, so neither
\* the panics of lines 94 and 124 nor the runtime's "unlock of unlocked
\* RWMutex" is reachable.
NoPanic == \A p \in Procs : pc[p] # "panic" /\ found[p] \in {NoHolder, got[p]}

\* The table does not grow with the names ever used: a name is in the map
\* exactly while some goroutine uses it, and its count is their number.
Users(h) == {p \in Procs : got[p] = h}
MapIsExact == \A n \in Names :
                /\ holders[n] # NoHolder => /\ Users(holders[n]) # {}
                                            /\ count[holders[n]] = Cardinality(Users(holders[n]))
                /\ \A p \in Procs : got[p] # NoHolder /\ name[p] = n => got[p] = holders[n]

\* Every Lock and every RLock returns, although readers keep coming and the
\* holder may be dropped and made again in between.
LockReturns == \A p \in Procs : /\ pc[p] = "lock1" ~> pc[p] = "wheld"
                                /\ pc[p] = "rlock1" ~> pc[p] = "rheld"

\* The inductive invariant behind the three: whoever has a holder has the one
\* the map has, a holder's count is the number of its users, and the mutex of
\* a holder is occupied by users of that holder, where their pc says so.
ProcInv(p) ==
  /\ pc[p] # "panic"
  /\ pc[p] = "idle" <=> got[p] = NoHolder
  /\ got[p] # NoHolder => holders[name[p]] = got[p] /\ hname[got[p]] = name[p]
  /\ found[p] = IF pc[p] \in {"wfound", "rfound", "release"} THEN got[p] ELSE NoHolder
  /\ pc[p] \in {"lock2", "wheld", "wfound"} => wmu[got[p]] = {p}
  /\ pc[p] \in {"wheld", "wfound"} => rmu[got[p]] = {}
  /\ pc[p] \in {"rheld", "rfound"} => p \in rmu[got[p]]

NameInv(n) == holders[n] # NoHolder => hname[holders[n]] = n /\ Users(holders[n]) # {}

HolderInv(h) ==
  /\ Users(h) # {} => count[h] = Cardinality(Users(h))
  /\ \A q \in wmu[h] : got[q] = h /\ pc[q] \in {"lock2", "wheld", "wfound"}
  /\ \A q \in rmu[h] : got[q] = h /\ pc[q] \in {"rlock2", "rheld", "rfound"}
  /\ \A q \in rwait[h] : got[q] = h /\ pc[q] = "rlock2" /\ q \notin rmu[h]

IInv == /\ TypeOK
        /\ \A p \in Procs : ProcInv(p)
        /\ \A n \in Names : NameInv(n)
        /\ \A h \in Holders : HolderInv(h)

\* Refinement: seen by name, the table is the abstract lock of NamedRWLock.
Writing(n) == {p \in Procs : name[p] = n /\ got[p] # NoHolder /\ p \in wmu[got[p]]}
Reading(n) == {p \in Procs : name[p] = n /\ got[p] # NoHolder /\ p \in rmu[got[p]]}

RW == INSTANCE NamedRWLock WITH writers <- [n \in Names |-> Writing(n)],
                                readers <- [n \in Names |-> Reading(n)]

\* namedlock.go implements one reader/writer lock per name.
ImplementsRWLock == RW!Spec
=============================================================================
