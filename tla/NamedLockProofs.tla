-------------------------- MODULE NamedLockProofs --------------------------
(***************************************************************************)
(* The invariants of NamedLock hold for any set of goroutines, names and   *)
(* holders.  IInv is inductive: every step of Next preserves it, and it    *)
(* implies the invariants TLC checks on MCNamedLock.  Under it every step  *)
(* is one of NamedRWLock or a stutter, so the table implements one         *)
(* reader/writer lock per name.                                            *)
(***************************************************************************)
EXTENDS NamedLock, FiniteSetTheorems, TLAPS

\* The users of a holder are finitely many, and the count of a non-empty set
\* of them is at least one.
LEMMA UsersFinite == ASSUME NEW h PROVE /\ IsFiniteSet(Users(h))
                                        /\ Cardinality(Users(h)) \in Nat
                                        /\ Users(h) # {} => Cardinality(Users(h)) >= 1
<1>1. Users(h) \subseteq Procs
  BY DEF Users
<1>2. IsFiniteSet(Users(h)) /\ Cardinality(Users(h)) \in Nat
  BY <1>1, ProcsAssumption, FS_Subset, FS_CardinalityType
<1>3. Users(h) # {} => Cardinality(Users(h)) # 0
  BY <1>2, FS_EmptySet
<1> QED
  BY <1>2, <1>3

\* A goroutine that was given holder h makes one user more.
LEMMA UsersGrow ==
  ASSUME NEW p \in Procs, NEW h \in Holders, TypeOK, got[p] = NoHolder,
         got' = [got EXCEPT ![p] = h]
  PROVE  /\ Users(h)' = Users(h) \cup {p}
         /\ Cardinality(Users(h)') = Cardinality(Users(h)) + 1
         /\ \A g \in Holders \ {h} : Users(g)' = Users(g)
<1>1. p \notin Users(h)
  BY HoldersAssumption DEF Users
<1>2. Users(h)' = Users(h) \cup {p}
  BY DEF Users, TypeOK
<1>3. \A g \in Holders \ {h} : Users(g)' = Users(g)
  BY HoldersAssumption DEF Users, TypeOK
<1>4. Cardinality(Users(h) \cup {p}) = Cardinality(Users(h)) + 1
  BY <1>1, UsersFinite, FS_AddElement
<1> QED
  BY <1>2, <1>3, <1>4

\* A goroutine that lets go of holder h makes one user less.
LEMMA UsersShrink ==
  ASSUME NEW p \in Procs, NEW h \in Holders, TypeOK, got[p] = h,
         got' = [got EXCEPT ![p] = NoHolder]
  PROVE  /\ Users(h)' = Users(h) \ {p}
         /\ Cardinality(Users(h)') = Cardinality(Users(h)) - 1
         /\ \A g \in Holders \ {h} : Users(g)' = Users(g)
<1>1. p \in Users(h)
  BY DEF Users
<1>2. Users(h)' = Users(h) \ {p}
  BY HoldersAssumption DEF Users, TypeOK
<1>3. \A g \in Holders \ {h} : Users(g)' = Users(g)
  BY HoldersAssumption DEF Users, TypeOK
<1>4. Cardinality(Users(h) \ {p}) = Cardinality(Users(h)) - 1
  BY <1>1, UsersFinite, FS_RemoveElement
<1> QED
  BY <1>2, <1>3, <1>4

\* IInv holds at first.
LEMMA InitIInv == Init => IInv
<1> SUFFICES ASSUME Init PROVE IInv
  OBVIOUS
<1>1. \A h \in Holders : Users(h) = {}
  BY HoldersAssumption DEF Init, Users
<1>2. TypeOK
  BY NamesAssumption DEF Init, TypeOK, PCs
<1> QED
  BY <1>1, <1>2, HoldersAssumption DEF Init, IInv, ProcInv, NameInv, HolderInv

-----------------------------------------------------------------------------
\* increase on a name that has a holder.
LEMMA IncreaseOldIInv ==
  ASSUME IInv, NEW p \in Procs, NEW n \in Names, NEW entry \in Entry, IncreaseOld(p, n, entry)
  PROVE  IInv'
<1>1. PICK h \in Holders : /\ holders[n] = h
                           /\ got[p] = NoHolder /\ hname[h] = n /\ Users(h) # {}
  BY DEF IInv, TypeOK, ProcInv, NameInv, IncreaseOld
<1>2. /\ Users(h)' = Users(h) \cup {p}
      /\ Cardinality(Users(h)') = Cardinality(Users(h)) + 1
      /\ \A g \in Holders \ {h} : Users(g)' = Users(g)
  <2>1. TypeOK /\ got' = [got EXCEPT ![p] = h]
    BY <1>1 DEF IInv, IncreaseOld
  <2> QED
    BY <1>1, <2>1, UsersGrow
<1>3. TypeOK'
  BY <1>1 DEF IInv, TypeOK, IncreaseOld, Counted, Entry, PCs, muVars
<1>4. \A q \in Procs : ProcInv(q)'
  <2> SUFFICES ASSUME NEW q \in Procs PROVE ProcInv(q)'
    OBVIOUS
  <2>1. CASE q = p
    BY <1>1, <2>1, HoldersAssumption DEF IInv, TypeOK, ProcInv, IncreaseOld, Entry, muVars
  <2>2. CASE q # p
    BY <2>2 DEF IInv, TypeOK, ProcInv, IncreaseOld, Entry, muVars
  <2> QED
    BY <2>1, <2>2
<1>5. \A m \in Names : NameInv(m)'
  BY <1>1, <1>2 DEF IInv, TypeOK, NameInv, IncreaseOld
<1>6. \A g \in Holders : HolderInv(g)'
  <2> SUFFICES ASSUME NEW g \in Holders PROVE HolderInv(g)'
    OBVIOUS
  <2>1. Users(g)' # {} => count'[g] = Cardinality(Users(g)')
    <3>1. CASE g = h
      BY <1>1, <1>2, <3>1 DEF IInv, TypeOK, HolderInv, IncreaseOld, Counted
    <3>2. CASE g # h
      <4>1. Users(g)' = Users(g) /\ count'[g] = count[g]
        BY <1>1, <1>2, <3>2 DEF IInv, TypeOK, IncreaseOld, Counted
      <4>2. Users(g) # {} => count[g] = Cardinality(Users(g))
        BY DEF IInv, HolderInv
      <4> QED
        BY <4>1, <4>2
    <3> QED
      BY <3>1, <3>2
  <2>2. p \notin wmu[g] /\ p \notin rmu[g] /\ p \notin rwait[g]
    BY <1>1, HoldersAssumption DEF IInv, HolderInv
  <2>3. /\ \A q \in wmu'[g] : got'[q] = g /\ pc'[q] \in {"lock2", "wheld", "wfound"}
        /\ \A q \in rmu'[g] : got'[q] = g /\ pc'[q] \in {"rlock2", "rheld", "rfound"}
        /\ \A q \in rwait'[g] : got'[q] = g /\ pc'[q] = "rlock2" /\ q \notin rmu'[g]
    BY <2>2 DEF IInv, TypeOK, HolderInv, IncreaseOld, muVars
  <2> QED
    BY <2>1, <2>3 DEF HolderInv
<1> QED
  BY <1>3, <1>4, <1>5, <1>6 DEF IInv

\* increase on a name that has no holder: a new one is made.
LEMMA IncreaseNewIInv ==
  ASSUME IInv, NEW p \in Procs, NEW n \in Names, NEW entry \in Entry, IncreaseNew(p, n, entry)
  PROVE  IInv'
<1>1. PICK h \in Holders :
        /\ Collected(h)
        /\ holders' = [holders EXCEPT ![n] = h]
        /\ count' = [count EXCEPT ![h] = 1]
        /\ hname' = [hname EXCEPT ![h] = n]
        /\ wmu' = [wmu EXCEPT ![h] = {}]
        /\ rmu' = [rmu EXCEPT ![h] = {}]
        /\ rwait' = [rwait EXCEPT ![h] = {}]
        /\ got' = [got EXCEPT ![p] = h]
  BY DEF IncreaseNew
<1>2. /\ pc[p] = "idle" /\ got[p] = NoHolder /\ holders[n] = NoHolder
      /\ name' = [name EXCEPT ![p] = n]
      /\ pc' = [pc EXCEPT ![p] = entry]
      /\ found' = found
      /\ Users(h) = {}
  BY <1>1 DEF IInv, ProcInv, IncreaseNew, Collected, Users
<1>3. /\ Users(h)' = Users(h) \cup {p}
      /\ Cardinality(Users(h)') = Cardinality(Users(h)) + 1
      /\ \A g \in Holders \ {h} : Users(g)' = Users(g)
  <2>1. TypeOK
    BY DEF IInv
  <2> QED
    BY <1>1, <1>2, <2>1, UsersGrow
<1>4. Cardinality(Users(h)') = 1
  BY <1>2, <1>3, FS_EmptySet
<1>5. TypeOK'
  BY <1>1, <1>2 DEF IInv, TypeOK, Entry, PCs
<1>6. \A q \in Procs : ProcInv(q)'
  <2> SUFFICES ASSUME NEW q \in Procs PROVE ProcInv(q)'
    OBVIOUS
  <2>1. CASE q = p
    BY <1>1, <1>2, <2>1, HoldersAssumption DEF IInv, TypeOK, ProcInv, Entry
  <2>2. CASE q # p
    <3>1. /\ pc'[q] = pc[q] /\ got'[q] = got[q] /\ name'[q] = name[q] /\ found'[q] = found[q]
          /\ got[q] # h
      BY <1>1, <1>2, <2>2 DEF IInv, TypeOK, Collected
    <3>2. got[q] # NoHolder => /\ hname'[got[q]] = hname[got[q]]
                               /\ wmu'[got[q]] = wmu[got[q]]
                               /\ rmu'[got[q]] = rmu[got[q]]
                               /\ holders'[name[q]] = holders[name[q]]
      BY <1>1, <1>2, <3>1 DEF IInv, TypeOK, ProcInv
    <3> QED
      BY <3>1, <3>2 DEF IInv, ProcInv
  <2> QED
    BY <2>1, <2>2
<1>7. \A m \in Names : NameInv(m)'
  <2> SUFFICES ASSUME NEW m \in Names PROVE NameInv(m)'
    OBVIOUS
  <2>1. CASE m = n
    BY <1>1, <1>3, <2>1 DEF IInv, TypeOK, NameInv
  <2>2. CASE m # n
    BY <1>1, <1>3, <2>2 DEF IInv, TypeOK, NameInv, Collected
  <2> QED
    BY <2>1, <2>2
<1>8. \A g \in Holders : HolderInv(g)'
  <2> SUFFICES ASSUME NEW g \in Holders PROVE HolderInv(g)'
    OBVIOUS
  <2>1. CASE g = h
    BY <1>1, <1>4, <2>1 DEF IInv, TypeOK, HolderInv
  <2>2. CASE g # h
    <3>1. /\ Users(g)' = Users(g) /\ count'[g] = count[g]
          /\ wmu'[g] = wmu[g] /\ rmu'[g] = rmu[g] /\ rwait'[g] = rwait[g]
      BY <1>1, <1>3, <2>2 DEF IInv, TypeOK
    <3>2. p \notin wmu[g] /\ p \notin rmu[g] /\ p \notin rwait[g]
      BY <1>2, HoldersAssumption DEF IInv, HolderInv
    <3>3. \A q \in Procs \ {p} : got'[q] = got[q] /\ pc'[q] = pc[q]
      BY <1>1, <1>2 DEF IInv, TypeOK
    <3>4. wmu[g] \subseteq Procs /\ rmu[g] \subseteq Procs /\ rwait[g] \subseteq Procs
      BY DEF IInv, TypeOK
    <3>5. Users(g)' # {} => count'[g] = Cardinality(Users(g)')
      <4>1. Users(g) # {} => count[g] = Cardinality(Users(g))
        BY DEF IInv, HolderInv
      <4> QED
        BY <3>1, <4>1
    <3> QED
      BY <3>1, <3>2, <3>3, <3>4, <3>5 DEF IInv, HolderInv
  <2> QED
    BY <2>1, <2>2
<1> QED
  BY <1>5, <1>6, <1>7, <1>8 DEF IInv

\* decrease: the last user of a holder drops it from the map.
LEMMA DecreaseIInv ==
  ASSUME IInv, NEW p \in Procs, Decrease(p)
  PROVE  IInv'
<1>1. PICK h \in Holders :
        /\ got[p] = h /\ holders[name[p]] = h /\ hname[h] = name[p]
        /\ count' = [count EXCEPT ![h] = @ - 1]
        /\ holders' = Dropped(h)
        /\ got' = [got EXCEPT ![p] = NoHolder]
        /\ found' = [found EXCEPT ![p] = NoHolder]
        /\ pc' = [pc EXCEPT ![p] = "idle"]
        /\ pc[p] \in {"giveup", "release"}
        /\ UNCHANGED <<hname, wmu, rmu, rwait, name>>
  BY DEF IInv, TypeOK, ProcInv, Decrease, muVars
<1>2. /\ Users(h)' = Users(h) \ {p}
      /\ Cardinality(Users(h)') = Cardinality(Users(h)) - 1
      /\ \A g \in Holders \ {h} : Users(g)' = Users(g)
  <2>1. TypeOK
    BY DEF IInv
  <2> QED
    BY <1>1, <2>1, UsersShrink
<1>3. p \in Users(h) /\ count[h] = Cardinality(Users(h)) /\ count[h] \in Nat /\ count[h] >= 1
  <2>1. p \in Users(h)
    BY <1>1 DEF Users
  <2>2. count[h] = Cardinality(Users(h)) /\ count[h] \in Nat
    BY <2>1 DEF IInv, TypeOK, HolderInv
  <2> QED
    BY <2>1, <2>2, UsersFinite
<1>4. count'[h] = Cardinality(Users(h)') /\ count'[h] \in Nat
  BY <1>1, <1>2, <1>3 DEF IInv, TypeOK
<1>5. IF Users(h)' = {} THEN holders' = [holders EXCEPT ![name[p]] = NoHolder]
                        ELSE holders' = holders
  <2>1. Users(h)' = {} <=> count'[h] = 0
    <3>1. IsFiniteSet(Users(h)')
      BY <1>2, UsersFinite, FS_RemoveElement
    <3> QED
      BY <1>4, <3>1, FS_EmptySet
  <2>2. count'[h] = count[h] - 1
    BY <1>1 DEF IInv, TypeOK
  <2> QED
    BY <1>1, <1>3, <2>1, <2>2 DEF Dropped
<1>6. TypeOK'
  BY <1>1, <1>4, <1>5 DEF IInv, TypeOK, PCs
<1>7. \A q \in Procs : ProcInv(q)'
  <2> SUFFICES ASSUME NEW q \in Procs PROVE ProcInv(q)'
    OBVIOUS
  <2>1. CASE q = p
    BY <1>1, <2>1, HoldersAssumption DEF IInv, TypeOK, ProcInv
  <2>2. CASE q # p
    <3>1. pc'[q] = pc[q] /\ got'[q] = got[q] /\ name'[q] = name[q] /\ found'[q] = found[q]
      BY <1>1, <2>2 DEF IInv, TypeOK
    <3>2. got[q] # NoHolder => holders'[name[q]] = got[q]
      <4>1. CASE got[q] = h
        BY <1>2, <1>5, <2>2, <4>1 DEF IInv, TypeOK, ProcInv, Users
      <4>2. CASE got[q] # h
        BY <1>1, <1>5, <4>2 DEF IInv, TypeOK, ProcInv
      <4> QED
        BY <4>1, <4>2
    <3> QED
      BY <1>1, <3>1, <3>2 DEF IInv, ProcInv
  <2> QED
    BY <2>1, <2>2
<1>8. \A n \in Names : NameInv(n)'
  <2> SUFFICES ASSUME NEW n \in Names, holders'[n] # NoHolder
               PROVE  hname'[holders'[n]] = n /\ Users(holders[n])' # {}
    BY DEF NameInv
  <2>1. holders'[n] = holders[n] /\ hname[holders[n]] = n /\ holders[n] \in Holders
    BY <1>5 DEF IInv, TypeOK, NameInv
  <2>2. PICK g \in Holders : g = holders[n]
    BY <2>1
  <2>3. Users(g)' # {}
    <3>1. CASE g = h
      BY <1>1, <1>5, <2>1, <2>2, <3>1, HoldersAssumption DEF IInv, TypeOK
    <3>2. CASE g # h
      BY <1>2, <2>1, <2>2, <3>2, HoldersAssumption DEF IInv, NameInv
    <3> QED
      BY <3>1, <3>2
  <2> QED
    BY <1>1, <2>1, <2>2, <2>3
<1>9. \A g \in Holders : HolderInv(g)'
  <2> SUFFICES ASSUME NEW g \in Holders PROVE HolderInv(g)'
    OBVIOUS
  <2>1. Users(g)' # {} => count'[g] = Cardinality(Users(g)')
    <3>1. CASE g = h
      BY <1>4, <3>1
    <3>2. CASE g # h
      <4>1. Users(g)' = Users(g) /\ count'[g] = count[g]
        BY <1>1, <1>2, <3>2 DEF IInv, TypeOK
      <4>2. Users(g) # {} => count[g] = Cardinality(Users(g))
        BY DEF IInv, HolderInv
      <4> QED
        BY <4>1, <4>2
    <3> QED
      BY <3>1, <3>2
  <2>2. p \notin wmu[g] /\ p \notin rmu[g] /\ p \notin rwait[g]
    BY <1>1 DEF IInv, HolderInv
  <2>3. \A q \in Procs \ {p} : got'[q] = got[q] /\ pc'[q] = pc[q]
    BY <1>1 DEF IInv, TypeOK
  <2>4. wmu[g] \subseteq Procs /\ rmu[g] \subseteq Procs /\ rwait[g] \subseteq Procs
    BY DEF IInv, TypeOK
  <2> QED
    BY <1>1, <2>1, <2>2, <2>3, <2>4 DEF IInv, HolderInv
<1> QED
  BY <1>6, <1>7, <1>8, <1>9 DEF IInv

-----------------------------------------------------------------------------
\* The steps below change neither the map nor who uses which holder.
LEMMA SameUsers == ASSUME got' = got PROVE \A h : Users(h)' = Users(h)
  BY DEF Users

\* What such a step leaves to prove: types, the goroutines and the mutexes.
LEMMA MutexStep ==
  ASSUME IInv, UNCHANGED <<mapVars, got>>, TypeOK', \A p \in Procs : ProcInv(p)',
         \A h \in Holders :
           /\ \A q \in wmu'[h] : got[q] = h /\ pc'[q] \in {"lock2", "wheld", "wfound"}
           /\ \A q \in rmu'[h] : got[q] = h /\ pc'[q] \in {"rlock2", "rheld", "rfound"}
           /\ \A q \in rwait'[h] : got[q] = h /\ pc'[q] = "rlock2" /\ q \notin rmu'[h]
  PROVE  IInv'
<1>1. holders' = holders /\ count' = count /\ hname' = hname /\ got' = got
  BY DEF mapVars
<1>2. \A h : Users(h)' = Users(h)
  BY <1>1, SameUsers
<1>3. \A n \in Names : NameInv(n)'
  <2> SUFFICES ASSUME NEW n \in Names, holders[n] # NoHolder
               PROVE  hname[holders[n]] = n /\ Users(holders[n])' # {}
    BY <1>1 DEF NameInv
  <2> QED
    BY <1>1 DEF IInv, NameInv, Users
<1>4. \A h \in Holders : HolderInv(h)'
  <2> SUFFICES ASSUME NEW h \in Holders PROVE HolderInv(h)'
    OBVIOUS
  <2>1. Users(h)' # {} => count'[h] = Cardinality(Users(h)')
    <3>1. Users(h) # {} => count[h] = Cardinality(Users(h))
      BY DEF IInv, HolderInv
    <3>2. Users(h)' = Users(h)
      BY <1>2
    <3> QED
      BY <1>1, <3>1, <3>2
  <2> QED
    BY <1>1, <2>1 DEF HolderInv
<1> QED
  BY <1>3, <1>4 DEF IInv

\* Unlock and RUnlock find the holder their caller locked: it is in the map.
LEMMA LookupIInv == ASSUME IInv, NEW p \in Procs, Lookup(p) PROVE IInv'
<1>1. UNCHANGED <<mapVars, got>>
  BY DEF Lookup
<1>2. TypeOK'
  BY DEF IInv, TypeOK, ProcInv, Lookup, PCs, At, Goto, MayRead, mapVars, muVars
<1>3. \A q \in Procs : ProcInv(q)'
  <2> SUFFICES ASSUME NEW q \in Procs PROVE ProcInv(q)'
    OBVIOUS
  <2>1. TypeOK /\ got[p] \in Holders /\ ProcInv(p) /\ ProcInv(q) /\ HolderInv(got[p])
    BY DEF IInv, TypeOK, ProcInv, Lookup, At
  <2>2. CASE q = p
    BY <2>1, <2>2, HoldersAssumption
    DEF TypeOK, ProcInv, HolderInv, Lookup, At, Goto, MayRead, mapVars, muVars
  <2>3. CASE q # p
    BY <2>1, <2>3, HoldersAssumption
    DEF TypeOK, ProcInv, HolderInv, Lookup, At, Goto, MayRead, mapVars, muVars
  <2> QED
    BY <2>2, <2>3
<1>4. \A h \in Holders :
        /\ \A q \in wmu'[h] : got[q] = h /\ pc'[q] \in {"lock2", "wheld", "wfound"}
        /\ \A q \in rmu'[h] : got[q] = h /\ pc'[q] \in {"rlock2", "rheld", "rfound"}
        /\ \A q \in rwait'[h] : got[q] = h /\ pc'[q] = "rlock2" /\ q \notin rmu'[h]
  <2> SUFFICES ASSUME NEW h \in Holders
               PROVE  /\ \A q \in wmu[h] : got[q] = h /\ pc'[q] \in {"lock2", "wheld", "wfound"}
                      /\ \A q \in rmu[h] : got[q] = h /\ pc'[q] \in {"rlock2", "rheld", "rfound"}
                      /\ \A q \in rwait[h] : got[q] = h /\ pc'[q] = "rlock2" /\ q \notin rmu[h]
    BY DEF Lookup, muVars
  <2>1. HolderInv(h) /\ wmu[h] \subseteq Procs /\ rmu[h] \subseteq Procs /\ rwait[h] \subseteq Procs
    BY DEF IInv, TypeOK
  <2>2. /\ pc[p] = "wheld" => pc'[p] = "wfound"
        /\ pc[p] = "rheld" => pc'[p] = "rfound"
        /\ pc[p] \in {"wheld", "rheld"}
        /\ \A q \in Procs : q # p => pc'[q] = pc[q]
    BY HoldersAssumption DEF IInv, TypeOK, ProcInv, Lookup
  <2> QED
    BY <2>1, <2>2 DEF HolderInv
<1> QED
  BY <1>1, <1>2, <1>3, <1>4, MutexStep

\* A writer announces itself on a mutex nobody has announced on.
LEMMA AnnounceIInv == ASSUME IInv, NEW p \in Procs, Announce(p) PROVE IInv'
<1>1. UNCHANGED <<mapVars, got>>
  BY DEF Announce
<1>2. TypeOK'
  BY DEF IInv, TypeOK, ProcInv, Announce, PCs, At, Goto, MayRead, mapVars, muVars
<1>3. \A q \in Procs : ProcInv(q)'
  <2> SUFFICES ASSUME NEW q \in Procs PROVE ProcInv(q)'
    OBVIOUS
  <2>1. TypeOK /\ got[p] \in Holders /\ ProcInv(p) /\ ProcInv(q) /\ HolderInv(got[p])
    BY DEF IInv, TypeOK, ProcInv, Announce, At
  <2>2. CASE q = p
    BY <2>1, <2>2, HoldersAssumption
    DEF TypeOK, ProcInv, HolderInv, Announce, At, Goto, MayRead, mapVars, muVars
  <2>3. CASE q # p
    BY <2>1, <2>3, HoldersAssumption
    DEF TypeOK, ProcInv, HolderInv, Announce, At, Goto, MayRead, mapVars, muVars
  <2> QED
    BY <2>2, <2>3
<1>4. \A h \in Holders :
        /\ \A q \in wmu'[h] : got[q] = h /\ pc'[q] \in {"lock2", "wheld", "wfound"}
        /\ \A q \in rmu'[h] : got[q] = h /\ pc'[q] \in {"rlock2", "rheld", "rfound"}
        /\ \A q \in rwait'[h] : got[q] = h /\ pc'[q] = "rlock2" /\ q \notin rmu'[h]
  BY HoldersAssumption
  DEF IInv, TypeOK, ProcInv, HolderInv, Announce, At, Goto, MayRead, mapVars, muVars
<1> QED
  BY <1>1, <1>2, <1>3, <1>4, MutexStep

\* The readers before the writer have left.
LEMMA DrainedIInv == ASSUME IInv, NEW p \in Procs, Drained(p) PROVE IInv'
<1>1. UNCHANGED <<mapVars, got>>
  BY DEF Drained
<1>2. TypeOK'
  BY DEF IInv, TypeOK, ProcInv, Drained, PCs, At, Goto, MayRead, mapVars, muVars
<1>3. \A q \in Procs : ProcInv(q)'
  <2> SUFFICES ASSUME NEW q \in Procs PROVE ProcInv(q)'
    OBVIOUS
  <2>1. TypeOK /\ got[p] \in Holders /\ ProcInv(p) /\ ProcInv(q) /\ HolderInv(got[p])
    BY DEF IInv, TypeOK, ProcInv, Drained, At
  <2>2. CASE q = p
    BY <2>1, <2>2, HoldersAssumption
    DEF TypeOK, ProcInv, HolderInv, Drained, At, Goto, MayRead, mapVars, muVars
  <2>3. CASE q # p
    BY <2>1, <2>3, HoldersAssumption
    DEF TypeOK, ProcInv, HolderInv, Drained, At, Goto, MayRead, mapVars, muVars
  <2> QED
    BY <2>2, <2>3
<1>4. \A h \in Holders :
        /\ \A q \in wmu'[h] : got[q] = h /\ pc'[q] \in {"lock2", "wheld", "wfound"}
        /\ \A q \in rmu'[h] : got[q] = h /\ pc'[q] \in {"rlock2", "rheld", "rfound"}
        /\ \A q \in rwait'[h] : got[q] = h /\ pc'[q] = "rlock2" /\ q \notin rmu'[h]
  BY HoldersAssumption
  DEF IInv, TypeOK, ProcInv, HolderInv, Drained, At, Goto, MayRead, mapVars, muVars
<1> QED
  BY <1>1, <1>2, <1>3, <1>4, MutexStep

\* A reader enters: no writer is announced, so none holds.
LEMMA RLockIInv == ASSUME IInv, NEW p \in Procs, RLock(p) PROVE IInv'
<1>1. UNCHANGED <<mapVars, got>>
  BY DEF RLock
<1>2. TypeOK'
  BY DEF IInv, TypeOK, ProcInv, RLock, PCs, At, Goto, MayRead, mapVars, muVars
<1>3. \A q \in Procs : ProcInv(q)'
  <2> SUFFICES ASSUME NEW q \in Procs PROVE ProcInv(q)'
    OBVIOUS
  <2>1. TypeOK /\ got[p] \in Holders /\ ProcInv(p) /\ ProcInv(q) /\ HolderInv(got[p])
    BY DEF IInv, TypeOK, ProcInv, RLock, At
  <2>2. CASE q = p
    BY <2>1, <2>2, HoldersAssumption
    DEF TypeOK, ProcInv, HolderInv, RLock, At, Goto, MayRead, mapVars, muVars
  <2>3. CASE q # p
    BY <2>1, <2>3, HoldersAssumption
    DEF TypeOK, ProcInv, HolderInv, RLock, At, Goto, MayRead, mapVars, muVars
  <2> QED
    BY <2>2, <2>3
<1>4. \A h \in Holders :
        /\ \A q \in wmu'[h] : got[q] = h /\ pc'[q] \in {"lock2", "wheld", "wfound"}
        /\ \A q \in rmu'[h] : got[q] = h /\ pc'[q] \in {"rlock2", "rheld", "rfound"}
        /\ \A q \in rwait'[h] : got[q] = h /\ pc'[q] = "rlock2" /\ q \notin rmu'[h]
  BY HoldersAssumption
  DEF IInv, TypeOK, ProcInv, HolderInv, RLock, At, Goto, MayRead, mapVars, muVars
<1> QED
  BY <1>1, <1>2, <1>3, <1>4, MutexStep

\* A reader blocks behind a writer.
LEMMA RBlockIInv == ASSUME IInv, NEW p \in Procs, RBlock(p) PROVE IInv'
<1>1. UNCHANGED <<mapVars, got>>
  BY DEF RBlock
<1>2. TypeOK'
  BY DEF IInv, TypeOK, ProcInv, RBlock, PCs, At, Goto, MayRead, mapVars, muVars
<1>3. \A q \in Procs : ProcInv(q)'
  <2> SUFFICES ASSUME NEW q \in Procs PROVE ProcInv(q)'
    OBVIOUS
  <2>1. TypeOK /\ got[p] \in Holders /\ ProcInv(p) /\ ProcInv(q) /\ HolderInv(got[p])
    BY DEF IInv, TypeOK, ProcInv, RBlock, At
  <2>2. CASE q = p
    BY <2>1, <2>2, HoldersAssumption
    DEF TypeOK, ProcInv, HolderInv, RBlock, At, Goto, MayRead, mapVars, muVars
  <2>3. CASE q # p
    BY <2>1, <2>3, HoldersAssumption
    DEF TypeOK, ProcInv, HolderInv, RBlock, At, Goto, MayRead, mapVars, muVars
  <2> QED
    BY <2>2, <2>3
<1>4. \A h \in Holders :
        /\ \A q \in wmu'[h] : got[q] = h /\ pc'[q] \in {"lock2", "wheld", "wfound"}
        /\ \A q \in rmu'[h] : got[q] = h /\ pc'[q] \in {"rlock2", "rheld", "rfound"}
        /\ \A q \in rwait'[h] : got[q] = h /\ pc'[q] = "rlock2" /\ q \notin rmu'[h]
  BY HoldersAssumption
  DEF IInv, TypeOK, ProcInv, HolderInv, RBlock, At, Goto, MayRead, mapVars, muVars
<1> QED
  BY <1>1, <1>2, <1>3, <1>4, MutexStep

\* A reader that was let in goes on.
LEMMA RWakeIInv == ASSUME IInv, NEW p \in Procs, RWake(p) PROVE IInv'
<1>1. UNCHANGED <<mapVars, got>>
  BY DEF RWake
<1>2. TypeOK'
  BY DEF IInv, TypeOK, ProcInv, RWake, PCs, At, Goto, MayRead, mapVars, muVars
<1>3. \A q \in Procs : ProcInv(q)'
  <2> SUFFICES ASSUME NEW q \in Procs PROVE ProcInv(q)'
    OBVIOUS
  <2>1. TypeOK /\ got[p] \in Holders /\ ProcInv(p) /\ ProcInv(q) /\ HolderInv(got[p])
    BY DEF IInv, TypeOK, ProcInv, RWake, At
  <2>2. CASE q = p
    BY <2>1, <2>2, HoldersAssumption
    DEF TypeOK, ProcInv, HolderInv, RWake, At, Goto, MayRead, mapVars, muVars
  <2>3. CASE q # p
    BY <2>1, <2>3, HoldersAssumption
    DEF TypeOK, ProcInv, HolderInv, RWake, At, Goto, MayRead, mapVars, muVars
  <2> QED
    BY <2>2, <2>3
<1>4. \A h \in Holders :
        /\ \A q \in wmu'[h] : got[q] = h /\ pc'[q] \in {"lock2", "wheld", "wfound"}
        /\ \A q \in rmu'[h] : got[q] = h /\ pc'[q] \in {"rlock2", "rheld", "rfound"}
        /\ \A q \in rwait'[h] : got[q] = h /\ pc'[q] = "rlock2" /\ q \notin rmu'[h]
  <2>1. /\ wmu' = wmu /\ rmu' = rmu /\ rwait' = rwait
        /\ pc[p] = "rlock2" /\ pc' = [pc EXCEPT ![p] = "rheld"] /\ p \in rmu[got[p]]
    BY DEF RWake, At, Goto, muVars
  <2>2. got[p] \in Holders /\ \A h \in Holders : p \notin wmu[h] /\ p \notin rwait[h]
    BY <2>1 DEF IInv, TypeOK, ProcInv, HolderInv
  <2> QED
    BY <2>1, <2>2 DEF IInv, TypeOK, HolderInv
<1> QED
  BY <1>1, <1>2, <1>3, <1>4, MutexStep

\* TryLock and TryRLock take the mutex or give the holder back.
LEMMA TryLockIInv == ASSUME IInv, NEW p \in Procs, TryLock(p) PROVE IInv'
<1>1. UNCHANGED <<mapVars, got>>
  BY DEF TryLock
<1>2. TypeOK'
  <2>1. got[p] \in Holders
    BY DEF IInv, TypeOK, ProcInv, TryLock, At
  <2>2. /\ wmu' \in [Holders -> SUBSET Procs]
        /\ pc' \in [Procs -> PCs]
    BY <2>1 DEF IInv, TypeOK, TryLock, PCs, Goto
  <2> QED
    BY <2>2 DEF IInv, TypeOK, TryLock, mapVars
<1>3. \A q \in Procs : ProcInv(q)'
  <2> SUFFICES ASSUME NEW q \in Procs PROVE ProcInv(q)'
    OBVIOUS
  <2>1. TypeOK /\ got[p] \in Holders /\ ProcInv(p) /\ ProcInv(q) /\ HolderInv(got[p])
    BY DEF IInv, TypeOK, ProcInv, TryLock, At
  <2>2. CASE q = p
    BY <2>1, <2>2, HoldersAssumption
    DEF TypeOK, ProcInv, HolderInv, TryLock, At, Goto, MayRead, mapVars, muVars
  <2>3. CASE q # p
    BY <2>1, <2>3, HoldersAssumption
    DEF TypeOK, ProcInv, HolderInv, TryLock, At, Goto, MayRead, mapVars, muVars
  <2> QED
    BY <2>2, <2>3
<1>4. \A h \in Holders :
        /\ \A q \in wmu'[h] : got[q] = h /\ pc'[q] \in {"lock2", "wheld", "wfound"}
        /\ \A q \in rmu'[h] : got[q] = h /\ pc'[q] \in {"rlock2", "rheld", "rfound"}
        /\ \A q \in rwait'[h] : got[q] = h /\ pc'[q] = "rlock2" /\ q \notin rmu'[h]
  BY HoldersAssumption
  DEF IInv, TypeOK, ProcInv, HolderInv, TryLock, At, Goto, MayRead, mapVars, muVars
<1> QED
  BY <1>1, <1>2, <1>3, <1>4, MutexStep

\* The same for a reader.
LEMMA TryRLockIInv == ASSUME IInv, NEW p \in Procs, TryRLock(p) PROVE IInv'
<1>1. UNCHANGED <<mapVars, got>>
  BY DEF TryRLock
<1>2. TypeOK'
  BY DEF IInv, TypeOK, ProcInv, TryRLock, PCs, At, Goto, MayRead, mapVars, muVars
<1>3. \A q \in Procs : ProcInv(q)'
  <2> SUFFICES ASSUME NEW q \in Procs PROVE ProcInv(q)'
    OBVIOUS
  <2>1. TypeOK /\ got[p] \in Holders /\ ProcInv(p) /\ ProcInv(q) /\ HolderInv(got[p])
    BY DEF IInv, TypeOK, ProcInv, TryRLock, At
  <2>2. CASE q = p
    BY <2>1, <2>2, HoldersAssumption
    DEF TypeOK, ProcInv, HolderInv, TryRLock, At, Goto, MayRead, mapVars, muVars
  <2>3. CASE q # p
    BY <2>1, <2>3, HoldersAssumption
    DEF TypeOK, ProcInv, HolderInv, TryRLock, At, Goto, MayRead, mapVars, muVars
  <2> QED
    BY <2>2, <2>3
<1>4. \A h \in Holders :
        /\ \A q \in wmu'[h] : got[q] = h /\ pc'[q] \in {"lock2", "wheld", "wfound"}
        /\ \A q \in rmu'[h] : got[q] = h /\ pc'[q] \in {"rlock2", "rheld", "rfound"}
        /\ \A q \in rwait'[h] : got[q] = h /\ pc'[q] = "rlock2" /\ q \notin rmu'[h]
  BY HoldersAssumption
  DEF IInv, TypeOK, ProcInv, HolderInv, TryRLock, At, Goto, MayRead, mapVars, muVars
<1> QED
  BY <1>1, <1>2, <1>3, <1>4, MutexStep

\* Unlock lets the blocked readers in.
LEMMA UnlockIInv == ASSUME IInv, NEW p \in Procs, Unlock(p) PROVE IInv'
<1>1. UNCHANGED <<mapVars, got>>
  BY DEF Unlock
<1>2. TypeOK'
  BY DEF IInv, TypeOK, ProcInv, Unlock, PCs, At, Goto, MayRead, mapVars, muVars
<1>3. \A q \in Procs : ProcInv(q)'
  <2> SUFFICES ASSUME NEW q \in Procs PROVE ProcInv(q)'
    OBVIOUS
  <2>1. TypeOK /\ got[p] \in Holders /\ ProcInv(p) /\ ProcInv(q) /\ HolderInv(got[p])
    BY DEF IInv, TypeOK, ProcInv, Unlock, At
  <2>2. CASE q = p
    BY <2>1, <2>2, HoldersAssumption
    DEF TypeOK, ProcInv, HolderInv, Unlock, At, Goto, MayRead, mapVars, muVars
  <2>3. CASE q # p
    BY <2>1, <2>3, HoldersAssumption
    DEF TypeOK, ProcInv, HolderInv, Unlock, At, Goto, MayRead, mapVars, muVars
  <2> QED
    BY <2>2, <2>3
<1>4. \A h \in Holders :
        /\ \A q \in wmu'[h] : got[q] = h /\ pc'[q] \in {"lock2", "wheld", "wfound"}
        /\ \A q \in rmu'[h] : got[q] = h /\ pc'[q] \in {"rlock2", "rheld", "rfound"}
        /\ \A q \in rwait'[h] : got[q] = h /\ pc'[q] = "rlock2" /\ q \notin rmu'[h]
  BY HoldersAssumption
  DEF IInv, TypeOK, ProcInv, HolderInv, Unlock, At, Goto, MayRead, mapVars, muVars
<1> QED
  BY <1>1, <1>2, <1>3, <1>4, MutexStep

\* A reader leaves; its holder stays with its other users.
LEMMA RUnlockIInv == ASSUME IInv, NEW p \in Procs, RUnlock(p) PROVE IInv'
<1>1. UNCHANGED <<mapVars, got>>
  BY DEF RUnlock
<1>2. TypeOK'
  BY DEF IInv, TypeOK, ProcInv, RUnlock, PCs, At, Goto, MayRead, mapVars, muVars
<1>3. \A q \in Procs : ProcInv(q)'
  <2> SUFFICES ASSUME NEW q \in Procs PROVE ProcInv(q)'
    OBVIOUS
  <2>1. TypeOK /\ got[p] \in Holders /\ ProcInv(p) /\ ProcInv(q) /\ HolderInv(got[p])
    BY DEF IInv, TypeOK, ProcInv, RUnlock, At
  <2>2. CASE q = p
    BY <2>1, <2>2, HoldersAssumption
    DEF TypeOK, ProcInv, HolderInv, RUnlock, At, Goto, MayRead, mapVars, muVars
  <2>3. CASE q # p
    BY <2>1, <2>3, HoldersAssumption
    DEF TypeOK, ProcInv, HolderInv, RUnlock, At, Goto, MayRead, mapVars, muVars
  <2> QED
    BY <2>2, <2>3
<1>4. \A h \in Holders :
        /\ \A q \in wmu'[h] : got[q] = h /\ pc'[q] \in {"lock2", "wheld", "wfound"}
        /\ \A q \in rmu'[h] : got[q] = h /\ pc'[q] \in {"rlock2", "rheld", "rfound"}
        /\ \A q \in rwait'[h] : got[q] = h /\ pc'[q] = "rlock2" /\ q \notin rmu'[h]
  BY HoldersAssumption
  DEF IInv, TypeOK, ProcInv, HolderInv, RUnlock, At, Goto, MayRead, mapVars, muVars
<1> QED
  BY <1>1, <1>2, <1>3, <1>4, MutexStep

-----------------------------------------------------------------------------
\* Every step preserves IInv.
LEMMA NextIInv == IInv /\ [Next]_vars => IInv'
<1> SUFFICES ASSUME IInv, [Next]_vars PROVE IInv'
  OBVIOUS
<1>1. CASE UNCHANGED vars
  <2>1. UNCHANGED <<mapVars, got>> /\ TypeOK' /\ \A p \in Procs : ProcInv(p)'
    BY <1>1 DEF vars, mapVars, muVars, IInv, TypeOK, ProcInv
  <2>2. \A h \in Holders :
          /\ \A q \in wmu'[h] : got[q] = h /\ pc'[q] \in {"lock2", "wheld", "wfound"}
          /\ \A q \in rmu'[h] : got[q] = h /\ pc'[q] \in {"rlock2", "rheld", "rfound"}
          /\ \A q \in rwait'[h] : got[q] = h /\ pc'[q] = "rlock2" /\ q \notin rmu'[h]
    BY <1>1 DEF vars, mapVars, muVars, IInv, HolderInv
  <2> QED
    BY <2>1, <2>2, MutexStep
<1>2. ASSUME NEW p \in Procs, NEW n \in Names, NEW entry \in Entry,
             IncreaseOld(p, n, entry) \/ IncreaseNew(p, n, entry)
      PROVE  IInv'
  BY <1>2, IncreaseOldIInv, IncreaseNewIInv
<1>3. ASSUME NEW p \in Procs, Step(p) PROVE IInv'
  BY <1>3, LookupIInv, AnnounceIInv, DrainedIInv, RLockIInv, RBlockIInv, RWakeIInv, TryLockIInv,
     TryRLockIInv, UnlockIInv, RUnlockIInv, DecreaseIInv DEF Step
<1> QED
  BY <1>1, <1>2, <1>3 DEF Next

\* IInv is inductive.
THEOREM Inductive == Spec => []IInv
BY InitIInv, NextIInv, PTL DEF Spec

-----------------------------------------------------------------------------
\* Types are correct.
THEOREM TypeCorrect == Spec => []TypeOK
BY Inductive, PTL DEF IInv

\* While a goroutine is between Lock and Unlock of a name, no other is inside
\* that name.
THEOREM Exclusive == Spec => []MutualExclusion
<1>1. IInv => MutualExclusion
  <2> SUFFICES ASSUME IInv, NEW p \in Procs, NEW q \in Procs, p # q, name[p] = name[q], InWrite(p)
               PROVE  ~InWrite(q) /\ ~InRead(q)
    BY DEF MutualExclusion
  <2>1. got[p] = holders[name[p]] /\ wmu[got[p]] = {p} /\ rmu[got[p]] = {}
    BY DEF IInv, ProcInv, InWrite
  <2>2. InWrite(q) \/ InRead(q) => got[q] = holders[name[q]]
    BY DEF IInv, ProcInv, InWrite, InRead
  <2>3. InWrite(q) => wmu[got[q]] = {q}
    BY DEF IInv, ProcInv, InWrite
  <2>4. InRead(q) => q \in rmu[got[q]]
    BY DEF IInv, ProcInv, InRead
  <2> QED
    BY <2>1, <2>2, <2>3, <2>4
<1> QED
  BY Inductive, <1>1, PTL

\* Neither the panics of Unlock and RUnlock nor the runtime's fatal error for
\* unlocking an unlocked mutex is reachable.
THEOREM NeverPanics == Spec => []NoPanic
<1>1. IInv => NoPanic
  BY DEF IInv, ProcInv, NoPanic
<1> QED
  BY Inductive, <1>1, PTL

\* The table holds exactly the names in use, with the number of their users.
THEOREM ExactMap == Spec => []MapIsExact
<1>1. IInv => MapIsExact
  <2> SUFFICES ASSUME IInv, NEW n \in Names
               PROVE  /\ holders[n] # NoHolder =>
                           /\ Users(holders[n]) # {}
                           /\ count[holders[n]] = Cardinality(Users(holders[n]))
                      /\ \A p \in Procs : got[p] # NoHolder /\ name[p] = n => got[p] = holders[n]
    BY DEF MapIsExact
  <2>1. ASSUME holders[n] # NoHolder
        PROVE  /\ Users(holders[n]) # {}
               /\ count[holders[n]] = Cardinality(Users(holders[n]))
    <3>1. holders[n] \in Holders /\ Users(holders[n]) # {}
      BY <2>1 DEF IInv, TypeOK, NameInv
    <3> QED
      BY <3>1 DEF IInv, HolderInv
  <2>2. \A p \in Procs : got[p] # NoHolder /\ name[p] = n => got[p] = holders[n]
    BY DEF IInv, ProcInv
  <2> QED
    BY <2>1, <2>2
<1> QED
  BY Inductive, <1>1, PTL

-----------------------------------------------------------------------------
(* Refinement: one reader/writer lock per name.                             *)

\* The state of the abstract locks.
Writers == [n \in Names |-> Writing(n)]
Readers == [n \in Names |-> Reading(n)]

\* Who has the lock of a name has the mutex of the holder that the map has for it.
MutexOf(mu) == [n \in Names |-> IF holders[n] = NoHolder THEN {} ELSE mu[holders[n]]]

Seen == Writers = MutexOf(wmu) /\ Readers = MutexOf(rmu)

\* It is so in every state that the table gets to.
LEMMA SeenByName == IInv => Seen
<1> SUFFICES ASSUME IInv, NEW n \in Names
             PROVE  /\ Writing(n) = IF holders[n] = NoHolder THEN {} ELSE wmu[holders[n]]
                    /\ Reading(n) = IF holders[n] = NoHolder THEN {} ELSE rmu[holders[n]]
  BY DEF Seen, Writers, Readers, MutexOf
<1> DEFINE h == holders[n]
<1>1. \A q \in Procs : name[q] = n /\ got[q] # NoHolder => got[q] = h
  BY DEF IInv, ProcInv
<1>2. CASE h = NoHolder
  BY <1>1, <1>2 DEF Writing, Reading
<1>3. CASE h # NoHolder
  <2>1. h \in Holders /\ hname[h] = n /\ wmu[h] \subseteq Procs /\ rmu[h] \subseteq Procs
    BY <1>3 DEF IInv, TypeOK, NameInv
  <2>2. \A q \in Procs : got[q] = h => name[q] = n /\ got[q] # NoHolder
    BY <2>1, HoldersAssumption DEF IInv, ProcInv
  <2>3. (\A q \in wmu[h] : got[q] = h) /\ (\A q \in rmu[h] : got[q] = h)
    BY <2>1 DEF IInv, HolderInv
  <2> HIDE DEF h
  <2>4. Writing(n) = wmu[h] /\ Reading(n) = rmu[h]
    BY <1>1, <2>1, <2>2, <2>3 DEF Writing, Reading
  <2> QED
    BY <1>3, <2>4 DEF h
<1> QED
  BY <1>2, <1>3

\* So it is after every step.
LEMMA SeenNext == IInv' => Seen'
BY SeenByName, PTL

\* A step on the mutex of one's holder is one on the lock of one's name.
LEMMA SeenStep ==
  ASSUME IInv, IInv', NEW p \in Procs, got[p] # NoHolder, UNCHANGED <<holders, name, got>>,
         NEW W, wmu' = [wmu EXCEPT ![got[p]] = W],
         NEW R, rmu' = [rmu EXCEPT ![got[p]] = R]
  PROVE  /\ Writers' = [Writers EXCEPT ![name[p]] = W]
         /\ Readers' = [Readers EXCEPT ![name[p]] = R]
         /\ name[p] \in Names
         /\ Writers[name[p]] = wmu[got[p]] /\ Readers[name[p]] = rmu[got[p]]
<1> DEFINE n == name[p]
           h == got[p]
<1>1. /\ n \in Names /\ h \in Holders /\ holders[n] = h /\ hname[h] = n
      /\ wmu \in [Holders -> SUBSET Procs] /\ rmu \in [Holders -> SUBSET Procs]
      /\ holders \in [Names -> Holders \cup {NoHolder}]
  BY DEF IInv, TypeOK, ProcInv
<1>2. \A m \in Names : holders[m] = h => m = n
  BY <1>1, HoldersAssumption DEF IInv, NameInv
<1>3. Seen /\ Seen'
  BY SeenByName, SeenNext
<1> HIDE DEF n, h
<1>4. Writers = MutexOf(wmu) /\ Readers = MutexOf(rmu) /\ h # NoHolder
  BY <1>1, <1>3, HoldersAssumption DEF Seen
<1>5. Writers' = MutexOf(wmu') /\ Readers' = MutexOf(rmu')
  BY <1>3 DEF Seen, MutexOf
<1>6. wmu' = [wmu EXCEPT ![h] = W] /\ rmu' = [rmu EXCEPT ![h] = R]
  BY DEF h
<1>7. MutexOf(wmu') = [MutexOf(wmu) EXCEPT ![n] = W]
  BY <1>1, <1>2, <1>4, <1>6 DEF MutexOf
<1>8. MutexOf(rmu') = [MutexOf(rmu) EXCEPT ![n] = R]
  BY <1>1, <1>2, <1>4, <1>6 DEF MutexOf
<1>9. MutexOf(wmu)[n] = wmu[h] /\ MutexOf(rmu)[n] = rmu[h]
  BY <1>1, <1>4 DEF MutexOf
<1> QED
  BY <1>1, <1>4, <1>5, <1>7, <1>8, <1>9 DEF n, h

\* Where map and mutexes stay, nothing is seen.
LEMMA SeenStays ==
  ASSUME IInv, IInv', UNCHANGED <<holders, wmu, rmu>>
  PROVE  UNCHANGED <<Writers, Readers>>
<1>1. Seen /\ Seen'
  BY SeenByName, SeenNext
<1> QED
  BY <1>1 DEF Seen, MutexOf

\* A holder that is new, or dropped, nobody has locked.
LEMMA SeenNew ==
  ASSUME IInv, IInv', NEW p \in Procs, NEW n \in Names, NEW entry \in Entry,
         IncreaseNew(p, n, entry)
  PROVE  UNCHANGED <<Writers, Readers>>
<1>1. PICK h \in Holders : /\ Collected(h)
                           /\ holders' = [holders EXCEPT ![n] = h]
                           /\ wmu' = [wmu EXCEPT ![h] = {}]
                           /\ rmu' = [rmu EXCEPT ![h] = {}]
  BY DEF IncreaseNew
<1>2. /\ holders[n] = NoHolder /\ h # NoHolder /\ \A m \in Names : holders[m] # h
      /\ wmu \in [Holders -> SUBSET Procs] /\ rmu \in [Holders -> SUBSET Procs]
      /\ holders \in [Names -> Holders \cup {NoHolder}]
  BY <1>1, HoldersAssumption DEF IncreaseNew, Collected, IInv, TypeOK
<1>3. Seen /\ Seen'
  BY SeenByName, SeenNext
<1>4. \A m \in Names : MutexOf(wmu)'[m] = MutexOf(wmu)[m]
  BY <1>1, <1>2 DEF MutexOf
<1>5. \A m \in Names : MutexOf(rmu)'[m] = MutexOf(rmu)[m]
  BY <1>1, <1>2 DEF MutexOf
<1>6. MutexOf(wmu)' = MutexOf(wmu) /\ MutexOf(rmu)' = MutexOf(rmu)
  BY <1>4, <1>5 DEF MutexOf
<1> QED
  BY <1>3, <1>6 DEF Seen

\* The last user of a holder has let go of its mutex.
LEMMA SeenDropped ==
  ASSUME IInv, IInv', NEW p \in Procs, Decrease(p)
  PROVE  UNCHANGED <<Writers, Readers>>
<1> DEFINE h == IF pc[p] = "giveup" THEN got[p] ELSE found[p]
<1>1. h \in Holders /\ hname[h] \in Names
  BY DEF IInv, TypeOK, ProcInv, Decrease
<1>2. holders' = Dropped(h) /\ UNCHANGED <<hname, wmu, rmu, name>>
  BY DEF Decrease, muVars
<1>3. Seen /\ Seen'
  BY SeenByName, SeenNext
<1> HIDE DEF h
<1>4. CASE holders' = holders
  BY <1>2, <1>4, SeenStays
<1>5. CASE holders' = [holders EXCEPT ![hname[h]] = NoHolder]
  <2> DEFINE n == hname[h]
  <2>1. \A q \in Procs : got'[q] # h
    <3>1. holders'[n] = NoHolder
      BY <1>1, <1>5 DEF IInv, TypeOK
    <3>2. \A q \in Procs : got'[q] = h => hname'[h] = name'[q] /\ holders'[name'[q]] = h
      BY <1>1, HoldersAssumption DEF IInv, ProcInv
    <3> QED
      BY <1>1, <1>2, <3>1, <3>2, HoldersAssumption
  <2>2. wmu[h] = {} /\ rmu[h] = {}
    <3>1. wmu'[h] \subseteq Procs /\ rmu'[h] \subseteq Procs
      BY <1>1 DEF IInv, TypeOK
    <3>2. (\A q \in wmu'[h] : got'[q] = h) /\ (\A q \in rmu'[h] : got'[q] = h)
      BY <1>1 DEF IInv, HolderInv
    <3> QED
      BY <1>2, <2>1, <3>1, <3>2
  <2>3. holders[n] # NoHolder => holders[n] = h
    <3>1. PICK q \in Procs : q = p /\ got[q] = h
      BY DEF IInv, ProcInv, Decrease, h
    <3> QED
      BY <1>1, <3>1, HoldersAssumption DEF IInv, ProcInv
  <2>4. holders \in [Names -> Holders \cup {NoHolder}] /\ n \in Names
    BY <1>1 DEF IInv, TypeOK
  <2> HIDE DEF n
  <2>5. holders' = [holders EXCEPT ![n] = NoHolder]
    BY <1>5 DEF n
  <2>6. \A m \in Names : MutexOf(wmu)'[m] = MutexOf(wmu)[m]
    BY <1>2, <2>2, <2>3, <2>4, <2>5 DEF MutexOf
  <2>7. \A m \in Names : MutexOf(rmu)'[m] = MutexOf(rmu)[m]
    BY <1>2, <2>2, <2>3, <2>4, <2>5 DEF MutexOf
  <2>8. MutexOf(wmu)' = MutexOf(wmu) /\ MutexOf(rmu)' = MutexOf(rmu)
    BY <2>6, <2>7 DEF MutexOf
  <2> QED
    BY <1>3, <2>8 DEF Seen
<1> QED
  BY <1>2, <1>4, <1>5 DEF Dropped

-----------------------------------------------------------------------------
\* What a step is on the abstract locks.
LockStep == RW!Next \/ UNCHANGED RW!lockVars

\* A step that leaves the locks of all names alone is a stutter.
LEMMA Stutter == ASSUME UNCHANGED <<Writers, Readers>> PROVE LockStep
BY DEF LockStep, RW!lockVars, Writers, Readers

\* Lock announces the writer.
LEMMA AnnounceRefines ==
  ASSUME IInv, IInv', NEW p \in Procs, Announce(p)
  PROVE  LockStep
<1> DEFINE W == {p}
           R == rmu[got[p]]
<1>1. got[p] # NoHolder /\ wmu[got[p]] = {} /\ UNCHANGED <<holders, name, got>>
  BY DEF Announce, At, mapVars, IInv, TypeOK, ProcInv
<1>2. wmu' = [wmu EXCEPT ![got[p]] = W] /\ rmu' = [rmu EXCEPT ![got[p]] = R]
  BY DEF Announce, IInv, TypeOK
<1> HIDE DEF W, R
<1>3. /\ Writers' = [Writers EXCEPT ![name[p]] = W]
      /\ Readers' = [Readers EXCEPT ![name[p]] = R]
      /\ name[p] \in Names /\ Writers[name[p]] = {} /\ Readers[name[p]] = R
  BY <1>1, <1>2, SeenStep DEF R
<1>4. Readers' = Readers
  BY <1>3 DEF Readers
<1>5. RW!Announce(p, name[p])
  BY <1>3, <1>4 DEF RW!Announce, Writers, Readers, W
<1> QED
  BY <1>3, <1>5 DEF LockStep, RW!Next

\* A reader enters, by RLock or by a TryRLock that succeeds.
ReaderEnters(p) == /\ got[p] # NoHolder /\ wmu[got[p]] = {}
                   /\ rmu' = [rmu EXCEPT ![got[p]] = @ \cup {p}]
                   /\ UNCHANGED <<holders, wmu, name, got>>

\* It enters the lock of the name.
LEMMA ReaderRefines ==
  ASSUME IInv, IInv', NEW p \in Procs, ReaderEnters(p)
  PROVE  LockStep
<1> DEFINE W == {}
           R == rmu[got[p]] \cup {p}
<1>1. got[p] # NoHolder /\ wmu[got[p]] = {} /\ UNCHANGED <<holders, name, got>>
  BY DEF ReaderEnters
<1>2. wmu' = [wmu EXCEPT ![got[p]] = W] /\ rmu' = [rmu EXCEPT ![got[p]] = R]
  BY DEF ReaderEnters, IInv, TypeOK
<1> HIDE DEF W, R
<1>3. /\ Writers' = [Writers EXCEPT ![name[p]] = W]
      /\ Readers' = [Readers EXCEPT ![name[p]] = R]
      /\ name[p] \in Names /\ Writers[name[p]] = {} /\ Readers[name[p]] = rmu[got[p]]
  BY <1>1, <1>2, SeenStep
<1>4. Writers' = Writers
  BY <1>3 DEF Writers, W
<1>5. RW!RLock(p, name[p])
  BY <1>3, <1>4 DEF RW!RLock, Writers, Readers, R
<1> QED
  BY <1>3, <1>5 DEF LockStep, RW!Next

\* TryLock takes the lock, or does nothing to it.
LEMMA TryLockRefines ==
  ASSUME IInv, IInv', NEW p \in Procs, TryLock(p)
  PROVE  LockStep
<1> DEFINE W == {p}
           R == {}
<1>1. got[p] # NoHolder /\ UNCHANGED <<holders, name, got>>
  BY DEF TryLock, At, mapVars, IInv, TypeOK, ProcInv
<1>2. CASE wmu[got[p]] = {} /\ rmu[got[p]] = {}
  <2>1. wmu' = [wmu EXCEPT ![got[p]] = W]
    BY <1>2 DEF TryLock
  <2>2. rmu' = [rmu EXCEPT ![got[p]] = R]
    BY <1>2 DEF TryLock, IInv, TypeOK
  <2> HIDE DEF W, R
  <2>3. /\ Writers' = [Writers EXCEPT ![name[p]] = W]
        /\ Readers' = [Readers EXCEPT ![name[p]] = R]
        /\ name[p] \in Names /\ Writers[name[p]] = {} /\ Readers[name[p]] = {}
    BY <1>1, <1>2, <2>1, <2>2, SeenStep
  <2>4. Readers' = Readers
    BY <2>3 DEF Readers, R
  <2>5. RW!TryLock(p, name[p])
    BY <2>3, <2>4 DEF RW!TryLock, RW!Announce, Writers, Readers, W
  <2> QED
    BY <2>3, <2>5 DEF LockStep, RW!Next
<1>3. CASE ~(wmu[got[p]] = {} /\ rmu[got[p]] = {})
  BY <1>1, <1>3, SeenStays, Stutter DEF TryLock
<1> QED
  BY <1>2, <1>3

\* The same for a reader.
LEMMA TryRLockRefines ==
  ASSUME IInv, IInv', NEW p \in Procs, TryRLock(p)
  PROVE  LockStep
<1>1. got[p] # NoHolder /\ UNCHANGED <<holders, wmu, name, got>>
  BY DEF TryRLock, At, mapVars, IInv, ProcInv
<1>2. CASE wmu[got[p]] = {}
  <2>1. ReaderEnters(p)
    BY <1>1, <1>2 DEF TryRLock, MayRead, ReaderEnters
  <2> QED
    BY <2>1, ReaderRefines
<1>3. CASE wmu[got[p]] # {}
  BY <1>1, <1>3, SeenStays, Stutter DEF TryRLock, MayRead
<1> QED
  BY <1>2, <1>3

\* Unlock lets in the readers that blocked behind the writer.
LEMMA UnlockRefines ==
  ASSUME IInv, IInv', NEW p \in Procs, Unlock(p)
  PROVE  LockStep
<1> DEFINE R == rwait[got[p]]
<1>1. /\ got[p] # NoHolder /\ got[p] \in Holders /\ found[p] = got[p]
      /\ wmu[got[p]] = {p} /\ rmu[got[p]] = {}
      /\ UNCHANGED <<holders, name, got>>
      /\ R \in SUBSET Procs
  BY DEF Unlock, At, mapVars, IInv, TypeOK, ProcInv
<1>2. /\ wmu' = [wmu EXCEPT ![got[p]] = {}]
      /\ rmu' = [rmu EXCEPT ![got[p]] = R]
  BY <1>1 DEF Unlock
<1> HIDE DEF R
<1>3. /\ Writers' = [Writers EXCEPT ![name[p]] = {}]
      /\ Readers' = [Readers EXCEPT ![name[p]] = R]
      /\ name[p] \in Names /\ Writers[name[p]] = {p} /\ Readers[name[p]] = {}
  BY <1>1, <1>2, SeenStep
<1>4. RW!Unlock(p, name[p], R)
  BY <1>3 DEF RW!Unlock, RW!HoldsW, Writers, Readers
<1> QED
  BY <1>1, <1>3, <1>4 DEF LockStep, RW!Next

\* A reader leaves.
LEMMA RUnlockRefines ==
  ASSUME IInv, IInv', NEW p \in Procs, RUnlock(p)
  PROVE  LockStep
<1>1. /\ got[p] # NoHolder /\ got[p] \in Holders /\ found[p] = got[p]
      /\ p \in rmu[got[p]]
      /\ wmu' = wmu /\ wmu \in [Holders -> SUBSET Procs]
      /\ UNCHANGED <<holders, name, got>>
  BY DEF RUnlock, At, mapVars, IInv, TypeOK, ProcInv
<1>2. /\ wmu' = [wmu EXCEPT ![got[p]] = wmu[got[p]]]
      /\ rmu' = [rmu EXCEPT ![got[p]] = rmu[got[p]] \ {p}]
  BY <1>1 DEF RUnlock
<1>3. /\ Writers' = [Writers EXCEPT ![name[p]] = wmu[got[p]]]
      /\ Readers' = [Readers EXCEPT ![name[p]] = rmu[got[p]] \ {p}]
      /\ name[p] \in Names
      /\ Writers[name[p]] = wmu[got[p]] /\ Readers[name[p]] = rmu[got[p]]
  BY <1>1, <1>2, SeenStep
<1>4. Writers' = Writers
  BY <1>3 DEF Writers
<1>5. RW!RUnlock(p, name[p])
  BY <1>1, <1>3, <1>4 DEF RW!RUnlock, RW!HoldsR, Writers, Readers
<1> QED
  BY <1>3, <1>5 DEF LockStep, RW!Next

\* Every step of the table is a step of the abstract locks or a stutter.
LEMMA NextRefines == IInv /\ IInv' /\ [Next]_vars => LockStep
<1> SUFFICES ASSUME IInv, IInv', [Next]_vars PROVE LockStep
  OBVIOUS
<1>1. CASE UNCHANGED vars
  BY <1>1, SeenStays, Stutter DEF vars
<1>2. ASSUME NEW p \in Procs, NEW n \in Names, NEW entry \in Entry, IncreaseOld(p, n, entry)
      PROVE  LockStep
  BY <1>2, SeenStays, Stutter DEF IncreaseOld, muVars
<1>3. ASSUME NEW p \in Procs, NEW n \in Names, NEW entry \in Entry, IncreaseNew(p, n, entry)
      PROVE  LockStep
  BY <1>3, SeenNew, Stutter
<1>4. ASSUME NEW p \in Procs, Step(p) PROVE LockStep
  <2>1. CASE Drained(p) \/ RWake(p) \/ Lookup(p) \/ RBlock(p)
    BY <2>1, SeenStays, Stutter DEF Drained, RWake, Lookup, RBlock, mapVars, muVars
  <2>2. CASE RLock(p)
    <3>1. ReaderEnters(p)
      BY <2>2 DEF RLock, At, MayRead, mapVars, IInv, ProcInv, ReaderEnters
    <3> QED
      BY <3>1, ReaderRefines
  <2>3. CASE Decrease(p)
    BY <2>3, SeenDropped, Stutter
  <2> QED
    BY <1>4, <2>1, <2>2, <2>3, AnnounceRefines, TryLockRefines, TryRLockRefines,
       UnlockRefines, RUnlockRefines DEF Step
<1> QED
  BY <1>1, <1>2, <1>3, <1>4 DEF Next

\* namedlock.go implements one reader/writer lock per name, although the
\* holders that carry the mutexes come and go.
THEOREM LocksByName == Spec => ImplementsRWLock
<1>1. Init => RW!Init
  BY DEF Init, RW!Init, Writing, Reading
<1>2. IInv /\ IInv' /\ [Next]_vars => [RW!Next]_RW!lockVars
  BY NextRefines DEF LockStep
<1> QED
  BY <1>1, <1>2, InitIInv, NextIInv, PTL DEF Spec, ImplementsRWLock, RW!Spec
=============================================================================
