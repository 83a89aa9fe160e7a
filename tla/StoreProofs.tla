---------------------------- MODULE StoreProofs ----------------------------
(***************************************************************************)
(* What the locks of the store protect, and what purges leave behind, for  *)
(* any number of clients, data directories, paths and hosts, and under     *)
(* every fault.                                                            *)
(***************************************************************************)
EXTENDS Mgmt, TLAPS

\* While contentCleaner is at an entry of the walk, the walk is not over.
Walking == pc[Cleaner] \in {"host", "data", "stat", "open", "rename"} => at \in DOMAIN Walk

Typed == TypeOK /\ Walking

USE KindAssumption, PathAssumption, IdAssumption

-----------------------------------------------------------------------------
(* Types.                                                                   *)

\* The labels and the results by name, so that the two sets stay folded.
LEMMA LabelFacts ==
  /\ "idle" \in Labels /\ "host" \in Labels /\ "data" \in Labels /\ "unlock" \in Labels
  /\ "stream" \in Labels /\ "fatal" \in Labels /\ "lookup" \in Labels /\ "exists" \in Labels
  /\ "request" \in Labels /\ "mkdir" \in Labels /\ "create" \in Labels /\ "info" \in Labels
  /\ "register" \in Labels /\ "open" \in Labels /\ "stat" \in Labels /\ "rename" \in Labels
  /\ "announce" \in Labels /\ "drain" \in Labels /\ "hostrename" \in Labels
  /\ "hostunlock" \in Labels /\ "return" \in Labels /\ "copy" \in Labels /\ "finish" \in Labels
  /\ "none" \in Results /\ "dynamic" \in Results /\ "toolarge" \in Results
  /\ "requesterror" \in Results /\ "error" \in Results /\ "panic" \in Results
  /\ "ok" \in Results /\ "notexists" \in Results /\ "hit" \in Results
  /\ "updating" \in Results /\ "miss" \in Results /\ "expired" \in Results
  BY DEF Labels, Results, Served

\* What startDownload returns but a download is a result of Get.
LEMMA ReplyFacts == \A r \in Replies \ {"cacheable"} : r \in Results
  BY DEF Results

\* A goroutine that goes on to one of the labels moves no other.
LEMMA GotoMoves ==
  ASSUME TypeOK, NEW q \in Procs, NEW l \in Labels, Goto(q, l)
  PROVE  /\ pc' \in [Procs -> Labels]
         /\ pc'[q] = l
         /\ \A r \in Procs : r # q => pc'[r] = pc[r]
  BY DEF TypeOK, Goto

\* The same of a client, with the result it leaves with.
LEMMA ClientMoves ==
  ASSUME TypeOK, NEW c \in Clients, NEW l \in Labels, Goto(c, l)
  PROVE  /\ pc' \in [Procs -> Labels]
         /\ pc'[c] = l
         /\ pc'[Cleaner] = pc[Cleaner]
         /\ \A r \in Procs : r # c => pc'[r] = pc[r]
  BY DEF TypeOK, Goto, Procs

\* A call that leaves goes on to its unlocks, with its result.
LEMMA LeaveMoves ==
  ASSUME TypeOK, NEW c \in Clients, NEW r \in Results, Leave(c, r)
  PROVE  /\ pc' \in [Procs -> Labels]
         /\ res' \in [Clients -> Results]
         /\ pc'[c] = "unlock"
         /\ res'[c] = r
         /\ pc'[Cleaner] = pc[Cleaner]
         /\ \A q \in Procs : q # c => pc'[q] = pc[q]
         /\ \A d \in Clients : d # c => res'[d] = res[d]
  <1>1. Goto(c, "unlock") /\ res' = [res EXCEPT ![c] = r]
    BY DEF Leave
  <1> QED
    BY <1>1, ClientMoves, LabelFacts DEF TypeOK

\* The initial states are well typed.
LEMMA TypedInit == Init => Typed
  <1> SUFFICES ASSUME Init PROVE Typed
    OBVIOUS
  <1>1. AnyPath \in Paths
    BY DEF AnyPath
  <1>2. Len(Walk) \in Nat
    OBVIOUS
  <1> QED
    BY <1>1, <1>2, LabelFacts DEF Init, Typed, TypeOK, Walking, NObjs, Procs

\* Data that goes to trash.
LEMMA TrashedTypes ==
  ASSUME TypeOK, NEW p \in Paths, Trashed(p)
  PROVE  dir' \in [Paths -> NObjs] /\ trash' \subseteq Objs
  BY DEF TypeOK, NObjs, Trashed

\* Every step keeps the types.
LEMMA TypedStep == Typed /\ [Next]_vars => Typed'
  <1> SUFFICES ASSUME Typed PROVE [Next]_vars => Typed'
    OBVIOUS
  <1>0. /\ AnyPath \in Paths /\ Cleaner \in Procs /\ Cleaner \notin Clients \cup Objs
        /\ Clients \subseteq Procs /\ Objs \subseteq Procs
    BY DEF AnyPath, Procs
  <1> USE <1>0 DEF Typed, TypeOK, Walking, NObjs, disk, locks, jobs, callers, walking
  <1>1. ASSUME NEW q \in Procs, RLockHost(q) PROVE Typed'
    BY <1>1, LabelFacts, GotoMoves DEF RLockHost, hostLock!RLock, HostName
  <1>2. ASSUME NEW q \in Procs, LockData(q) PROVE Typed'
    BY <1>2, LabelFacts, GotoMoves DEF LockData, dataLock!Announce, Section
  <1>3. ASSUME NEW q \in Procs, Unlock(q) PROVE Typed'
    BY <1>3, LabelFacts, GotoMoves DEF Unlock, dataLock!Unlock, hostLock!RUnlock, HostName, Outside,
           AnyPath
  <1>4. ASSUME NEW c \in Clients, NEW o \in {"get", "purge"}, NEW p \in Paths, Call(c, o, p)
        PROVE  Typed'
    BY <1>4, LabelFacts, ClientMoves DEF Call
  <1>5. ASSUME NEW q \in Procs, Lookup(q) PROVE Typed'
    BY <1>5, LabelFacts, GotoMoves DEF Lookup, Key
  <1>6. ASSUME NEW c \in Clients, GetUpdating(c) PROVE Typed'
    <2>1. opened' \in [Clients -> NObjs] /\ await' \in [Clients -> NObjs]
      <3>1. dir[path[c]] \in NObjs /\ found[c] \in NObjs
        BY LabelFacts DEF Typed, TypeOK
      <3>2. /\ opened' = opened \/ opened' = [opened EXCEPT ![c] = dir[path[c]]]
            /\ await' = await \/ await' = [await EXCEPT ![c] = found[c]]
        BY <1>6 DEF GetUpdating
      <3> QED
        BY <3>1, <3>2 DEF Typed, TypeOK
    <2>2. pc' \in [Procs -> Labels] /\ pc'[Cleaner] = pc[Cleaner] /\ res' \in [Clients -> Results]
      BY <1>6, LabelFacts, LeaveMoves DEF GetUpdating
    <2> QED
      BY <1>6, <2>1, <2>2 DEF GetUpdating
  <1>7. ASSUME NEW c \in Clients, GetForgets(c) PROVE Typed'
    BY <1>7, LabelFacts, ClientMoves DEF GetForgets, Key
  <1>8. ASSUME NEW c \in Clients, GetHit(c) PROVE Typed'
    BY <1>8, LabelFacts, LeaveMoves DEF GetHit
  <1>9. ASSUME NEW c \in Clients, GetUnreadable(c) PROVE Typed'
    BY <1>9, LabelFacts, LeaveMoves DEF GetUnreadable
  <1>10. ASSUME NEW c \in Clients, GetMissing(c) PROVE Typed'
    BY <1>10, LabelFacts, ClientMoves DEF GetMissing
  <1>11. ASSUME NEW c \in Clients, GetRequestError(c) PROVE Typed'
    BY <1>11, LabelFacts, LeaveMoves DEF GetRequestError
  <1>12. ASSUME NEW c \in Clients, GetReply(c) PROVE Typed'
    <2>1. dir' \in [Paths -> NObjs] /\ trash' \subseteq Objs
      BY <1>12, TrashedTypes DEF GetReply
    <2>2. pc' \in [Procs -> Labels] /\ pc'[Cleaner] = pc[Cleaner] /\ res' \in [Clients -> Results]
      BY <1>12, LabelFacts, ReplyFacts, LeaveMoves, ClientMoves DEF GetReply, Trashed
    <2> QED
      BY <1>12, <2>1, <2>2 DEF GetReply, Trashed
  <1>13. ASSUME NEW c \in Clients, GetReplyStuck(c) PROVE Typed'
    BY <1>13, LabelFacts, LeaveMoves DEF GetReplyStuck
  <1>14. ASSUME NEW c \in Clients, GetMkdir(c) PROVE Typed'
    BY <1>14, LabelFacts, ClientMoves DEF GetMkdir
  <1>15. ASSUME NEW c \in Clients, GetCreate(c) PROVE Typed'
    <2>1. PICK o \in Objs : /\ dir' = [dir EXCEPT ![path[c]] = o]
                            /\ readable' = [readable EXCEPT ![o] = FALSE]
                            /\ whole' = [whole EXCEPT ![o] = FALSE]
                            /\ expired' = [expired EXCEPT ![o] = FALSE]
                            /\ await' = [await EXCEPT ![c] = o]
                            /\ before' = [b \in Clients |-> before[b] \ {o}]
      BY <1>15 DEF GetCreate
    <2>2. /\ dir' \in [Paths -> NObjs]
          /\ await' \in [Clients -> NObjs]
          /\ readable' \in [Objs -> BOOLEAN]
          /\ whole' \in [Objs -> BOOLEAN]
          /\ expired' \in [Objs -> BOOLEAN]
          /\ before' \in [Clients -> SUBSET Objs]
      BY <2>1
    <2> QED
      BY <1>15, <2>2, LabelFacts, ClientMoves DEF GetCreate
  <1>16. ASSUME NEW c \in Clients, GetCreateFails(c) PROVE Typed'
    BY <1>16, LabelFacts, LeaveMoves DEF GetCreateFails
  <1>17. ASSUME NEW c \in Clients, GetInfo(c) PROVE Typed'
    BY <1>17, LabelFacts, ClientMoves DEF GetInfo
  <1>18. ASSUME NEW c \in Clients, GetInfoFails(c) PROVE Typed'
    BY <1>18, LabelFacts, LeaveMoves DEF GetInfoFails
  <1>19. ASSUME NEW c \in Clients, GetRegister(c) PROVE Typed'
    <2>1. /\ downloads' \in [Keys -> NObjs]
          /\ path' \in [Procs -> Paths]
          /\ failed' \in [Objs -> BOOLEAN]
      BY <1>19 DEF GetRegister, Key, Procs
    <2>2. pc' \in [Procs -> Labels] /\ pc'[Cleaner] \in {pc[Cleaner], "copy"}
      BY <1>19, LabelFacts DEF GetRegister
    <2> QED
      BY <1>19, <2>1, <2>2 DEF GetRegister, Key
  <1>20. ASSUME NEW c \in Clients, GetOpen(c) PROVE Typed'
    <2>1. opened' \in [Clients -> NObjs]
      <3>1. dir[path[c]] \in NObjs
        BY LabelFacts DEF Typed, TypeOK
      <3>2. opened' = opened \/ opened' = [opened EXCEPT ![c] = dir[path[c]]]
        BY <1>20 DEF GetOpen
      <3> QED
        BY <3>1, <3>2 DEF Typed, TypeOK
    <2>2. pc' \in [Procs -> Labels] /\ pc'[Cleaner] = pc[Cleaner] /\ res' \in [Clients -> Results]
      BY <1>20, LabelFacts, LeaveMoves DEF GetOpen
    <2> QED
      BY <1>20, <2>1, <2>2 DEF GetOpen
  <1>21. ASSUME NEW c \in Clients, Return(c) PROVE Typed'
    BY <1>21, LabelFacts, ClientMoves DEF Return
  <1>22. ASSUME NEW o \in Objs, CopyDone(o) PROVE Typed'
    BY <1>22, LabelFacts, GotoMoves DEF CopyDone
  <1>23. ASSUME NEW o \in Objs, Finish(o) PROVE Typed'
    <2>1. downloads' \in [Keys -> NObjs] /\ found' \in [Procs -> NObjs]
      BY <1>23 DEF Finish, Unregistered, Trashed, Key, Procs
    <2>2. dir' \in [Paths -> NObjs] /\ trash' \subseteq Objs
      BY <1>23, TrashedTypes DEF Finish, Unregistered, Key, Procs
    <2>3. pc' \in [Procs -> Labels] /\ pc'[Cleaner] = pc[Cleaner]
      BY <1>23, LabelFacts, GotoMoves DEF Finish
    <2> QED
      BY <1>23, <2>1, <2>2, <2>3 DEF Finish, Unregistered, Trashed, Key
  <1>24. ASSUME NEW c \in Clients, Purge(c) PROVE Typed'
    BY <1>24, LabelFacts, LeaveMoves, ClientMoves DEF Purge
  <1>25. ASSUME NEW c \in Clients, PurgeRename(c) PROVE Typed'
    <2>1. dir' \in [Paths -> NObjs] /\ trash' \subseteq Objs
      BY <1>25, TrashedTypes DEF PurgeRename
    <2>2. pc' \in [Procs -> Labels] /\ pc'[Cleaner] = pc[Cleaner] /\ res' \in [Clients -> Results]
      BY <1>25, LabelFacts, LeaveMoves DEF PurgeRename, Trashed
    <2> QED
      BY <1>25, <2>1, <2>2 DEF PurgeRename, Trashed
  <1>26. ASSUME NEW c \in Clients, NEW h \in Hosts, CallPurgeHost(c, h) PROVE Typed'
    BY <1>26, LabelFacts, ClientMoves DEF CallPurgeHost
  <1>27. ASSUME NEW c \in Clients, CallPurgeAll(c) PROVE Typed'
    BY <1>27, LabelFacts, ClientMoves DEF CallPurgeAll, Present
  <1>28. ASSUME NEW c \in Clients, Announce(c) PROVE Typed'
    <2>1. hostW' \in [Hosts \cup {NoHost} -> SUBSET Procs]
      <3>1. hostW' = [hostW EXCEPT ![Target(c)] = {c}] /\ {c} \in SUBSET Procs
        BY <1>28 DEF Announce, hostLock!Announce
      <3> QED
        BY <3>1
    <2>2. pc' \in [Procs -> Labels] /\ pc'[Cleaner] = pc[Cleaner]
      BY <1>28, LabelFacts, ClientMoves DEF Announce, hostLock!Announce, Procs
    <2> QED
      BY <1>28, <2>1, <2>2 DEF Announce, hostLock!Announce
  <1>29. ASSUME NEW c \in Clients, HostStat(c) PROVE Typed'
    <2>1. /\ Goto(c, "hostrename") \/ Goto(c, "hostunlock")
          /\ res' = res \/ res' = [res EXCEPT ![c] = "notexists"]
      BY <1>29 DEF HostStat
    <2>2. pc' \in [Procs -> Labels] /\ pc'[Cleaner] = pc[Cleaner]
      BY <2>1, LabelFacts, ClientMoves
    <2>3. res' \in [Clients -> Results]
      <3>1. res \in [Clients -> Results]
        OBVIOUS
      <3> HIDE DEF Typed
      <3> QED
        BY <2>1, <3>1, LabelFacts
    <2> QED
      BY <1>29, <2>2, <2>3 DEF HostStat
  <1>30. ASSUME NEW c \in Clients, HostRename(c) PROVE Typed'
    <2>1. hostDirs' \subseteq Hosts /\ dir' \in [Paths -> NObjs] /\ trash' \subseteq Objs
      BY <1>30 DEF HostRename
    <2>2. /\ Goto(c, "hostunlock")
          /\ res' = [res EXCEPT ![c] = "ok"] \/ res' = [res EXCEPT ![c] = "error"]
      BY <1>30 DEF HostRename
    <2>3. pc' \in [Procs -> Labels] /\ pc'[Cleaner] = pc[Cleaner]
      BY <2>2, LabelFacts, ClientMoves
    <2>4. res' \in [Clients -> Results]
      <3>1. res \in [Clients -> Results]
        OBVIOUS
      <3> HIDE DEF Typed
      <3> QED
        BY <2>2, <3>1, LabelFacts
    <2> QED
      BY <1>30, <2>1, <2>3, <2>4 DEF HostRename
  <1>31. ASSUME NEW c \in Clients, HostUnlock(c) PROVE Typed'
    BY <1>31, LabelFacts, ClientMoves DEF HostUnlock, hostLock!Unlock, Left
  <1>32. ASSUME NEW c \in Clients, PurgeAllCanceled(c) PROVE Typed'
    BY <1>32, LabelFacts, ClientMoves DEF PurgeAllCanceled
  <1>33. ASSUME WalkStart PROVE Typed'
    BY <1>33 DEF WalkStart, FirstEntry
  <1>34. ASSUME WalkHost PROVE Typed'
    BY <1>34 DEF WalkHost, Onward, Abort
  <1>35. ASSUME WalkData PROVE Typed'
    <2>1. at' \in 1 .. Len(Walk) + 1 /\ Walking'
      BY <1>35, LabelFacts, GotoMoves DEF WalkData, Onward
    <2>2. pc' \in [Procs -> Labels] /\ path' \in [Procs -> Paths]
      BY <1>35, LabelFacts, GotoMoves DEF WalkData, Onward
    <2> QED
      BY <1>35, <2>1, <2>2 DEF WalkData, Onward
  <1>36. ASSUME CleanStat PROVE Typed'
    BY <1>36, LabelFacts, GotoMoves DEF CleanStat, Onward
  <1>37. ASSUME CleanOpen PROVE Typed'
    BY <1>37, LabelFacts, GotoMoves DEF CleanOpen, Onward, Abort
  <1>38. ASSUME CleanRename PROVE Typed'
    <2>1. dir' \in [Paths -> NObjs] /\ trash' \subseteq Objs
      BY <1>38, TrashedTypes DEF CleanRename, Onward, Abort
    <2>2. at' \in 1 .. Len(Walk) + 1 /\ Walking'
      BY <1>38, LabelFacts, GotoMoves DEF CleanRename, Trashed, Onward, Abort
    <2>3. pc' \in [Procs -> Labels]
      BY <1>38, LabelFacts, GotoMoves DEF CleanRename, Trashed, Onward, Abort
    <2> QED
      BY <1>38, <2>1, <2>2, <2>3 DEF CleanRename, Trashed, Onward, Abort
  <1>39. ASSUME NEW o \in Objs, TrashRemove(o) PROVE Typed'
    BY <1>39 DEF TrashRemove
  <1>40. ASSUME NEW o \in Objs, Expire(o) PROVE Typed'
    BY <1>40 DEF Expire
  <1>41. ASSUME Restart PROVE Typed'
    BY <1>41, LabelFacts, GotoMoves DEF Restart, AnyPath
  <1>42. CASE UNCHANGED vars
    BY <1>42 DEF vars
  <1> HIDE DEF Typed, TypeOK, Walking, NObjs, disk, locks, jobs, callers, walking
  <1> QED
    BY <1>1, <1>2, <1>3, <1>4, <1>5, <1>6, <1>7, <1>8, <1>9, <1>10, <1>11, <1>12, <1>13,
       <1>14, <1>15, <1>16, <1>17, <1>18, <1>19, <1>20, <1>21, <1>22, <1>23, <1>24, <1>25, <1>26,
       <1>27, <1>28, <1>29, <1>30, <1>31, <1>32, <1>33, <1>34, <1>35, <1>36, <1>37, <1>38, <1>39,
       <1>40, <1>41, <1>42
    DEF Next, Locking, ClientNext, Calling, GetStep, PurgeStep, DownloadNext, CleanerNext, Crash,
        Fatal, Procs

\* Store is type correct.
THEOREM TypeCorrect == Spec => []TypeOK
  <1>1. Typed => TypeOK
    BY DEF Typed
  <1> QED
    BY <1>1, TypedInit, TypedStep, PTL DEF Spec

-----------------------------------------------------------------------------
(* The locks, and what they protect.                                        *)

\* The labels at which a goroutine holds both its locks, and those at which
\* PurgeHost has announced itself or holds its lock.
Critical == {"unlock", "lookup", "exists", "request", "mkdir", "create", "info", "register", "open",
             "stat", "rename", "finish"}
Writing  == {"drain", "hostrename", "hostunlock"}

\* The host that PurgeHost works on is one of its hosts.
LEMMA TargetFacts ==
  ASSUME Typed, NEW c \in Clients, todo[c] # {}
  PROVE  Target(c) \in todo[c] /\ Target(c) \in Hosts
  BY DEF Target, Typed, TypeOK

\* Inside its critical section a goroutine is the only one to hold the lock of
\* its data path.
DataLocked == \A q \in Procs : pc[q] \in Critical => dataW[path[q]] = {q}

\* It also holds its host for reading; PurgeHost holds its host for writing,
\* and once it goes on no reader is left.
Reads(q)   == pc[q] \in Critical \cup {"data"} => q \in hostR[HostName(q)]
Writes(c)  == /\ pc[c] \in Writing \cup {"announce"} => todo[c] # {}
              /\ pc[c] \in Writing => hostW[Target(c)] = {c}
              /\ pc[c] \in {"hostrename", "hostunlock"} => hostR[Target(c)] = {}
HostLocked == (\A q \in Procs : Reads(q)) /\ (\A c \in Clients : Writes(c))

\* A data directory has one path.
OnePath == \A p, r \in Paths : dir[p] = dir[r] /\ dir[p] # None => p = r

\* What c has seen or made at its path is still there; its goroutine has not
\* been started before it is registered.
Settled(c) == /\ pc[c] \in {"info", "register", "open"} => dir[path[c]] = await[c]
              /\ pc[c] = "rename" => dir[path[c]] # None
              /\ existed[c] /\ pc[c] = "request" => dir[path[c]] # None
Creates(c) == /\ pc[c] \in {"info", "register"} => await[c] \in Objs /\ pc[await[c]] = "idle"
              /\ pc[c] \in {"idle", "host", "data", "lookup", "exists"} => ~existed[c]

Undisturbed == /\ DataLocked /\ HostLocked /\ OnePath
               /\ \A c \in Clients : Settled(c) /\ Creates(c)

\* A step q makes under its locks: it stays there, and disturbs only what is
\* its own.
Works(q) == /\ pc[q] \in Critical /\ pc'[q] \in Critical
            /\ \A r \in Procs : r # q => pc'[r] = pc[r]
            /\ \A d \in Clients : d # q => await'[d] = await[d] /\ existed'[d] = existed[d]
            /\ \A p \in Paths : p # path[q] => dir'[p] = dir[p]
            /\ dir'[path[q]] \in {dir[path[q]], None} \/ dir'[path[q]] \notin Present
            /\ UNCHANGED <<path, hostW, hostR, dataW, todo>>

\* The steps of Get and Purge, but for GetRegister, are such steps.
LEMMA ClientWorks ==
  ASSUME Typed, NEW c \in Clients, GetStep(c) \/ Purge(c) \/ PurgeRename(c), ~GetRegister(c)
  PROVE  Works(c)
  <1> USE LabelFacts, ClientMoves, LeaveMoves
      DEF Typed, TypeOK, Works, Critical, disk, locks, jobs, callers
  <1>1. CASE Lookup(c)
    BY <1>1 DEF Lookup
  <1>2. CASE GetUpdating(c)
    BY <1>2 DEF GetUpdating
  <1>3. CASE GetForgets(c)
    BY <1>3 DEF GetForgets
  <1>4. CASE GetHit(c) \/ GetUnreadable(c)
    BY <1>4 DEF GetHit, GetUnreadable
  <1>5. CASE GetMissing(c)
    BY <1>5 DEF GetMissing
  <1>6. CASE GetRequestError(c) \/ GetReplyStuck(c)
    BY <1>6 DEF GetRequestError, GetReplyStuck
  <1>7. CASE GetReply(c)
    BY <1>7, ReplyFacts DEF GetReply, Trashed
  <1>8. CASE GetMkdir(c)
    BY <1>8 DEF GetMkdir
  <1>9. CASE GetCreate(c)
    BY <1>9 DEF GetCreate, Free
  <1>10. CASE GetCreateFails(c)
    BY <1>10 DEF GetCreateFails
  <1>11. CASE GetInfo(c)
    BY <1>11 DEF GetInfo
  <1>12. CASE GetInfoFails(c)
    BY <1>12 DEF GetInfoFails
  <1>13. CASE GetOpen(c)
    BY <1>13 DEF GetOpen
  <1>14. CASE Purge(c)
    BY <1>14 DEF Purge
  <1>15. CASE PurgeRename(c)
    BY <1>15 DEF PurgeRename, Trashed
  <1> QED
    BY <1>1, <1>2, <1>3, <1>4, <1>5, <1>6, <1>7, <1>8, <1>9, <1>10, <1>11, <1>12, <1>13, <1>14,
       <1>15
    DEF GetStep

\* So are the last steps of a download goroutine.
LEMMA DownloadWorks ==
  ASSUME Typed, NEW o \in Objs, Lookup(o) \/ Finish(o)
  PROVE  Works(o)
  <1>1. o \in Procs
    BY DEF Procs
  <1> USE <1>1, LabelFacts, GotoMoves DEF Typed, TypeOK, Works, Critical, disk, locks, jobs, callers
  <1>2. CASE Lookup(o)
    BY <1>2 DEF Lookup
  <1>3. CASE Finish(o)
    BY <1>3 DEF Finish, Trashed
  <1> QED
    BY <1>2, <1>3

\* And those of contentCleaner at a data directory.
LEMMA CleanerWorks ==
  ASSUME Typed, CleanStat \/ CleanOpen \/ CleanRename
  PROVE  Works(Cleaner)
  <1>1. Cleaner \in Procs
    BY DEF Procs
  <1> USE <1>1, LabelFacts, GotoMoves DEF Typed, TypeOK, Works, Critical, disk, locks, jobs, callers
  <1>2. CASE CleanStat
    BY <1>2 DEF CleanStat
  <1>3. CASE CleanOpen
    BY <1>3 DEF CleanOpen
  <1>4. CASE CleanRename
    BY <1>4 DEF CleanRename, Trashed
  <1> QED
    BY <1>2, <1>3, <1>4

\* Such a step leaves the locks as they are.
LEMMA WorksLocked ==
  ASSUME Typed, Typed', DataLocked, HostLocked, NEW q \in Procs, Works(q)
  PROVE  DataLocked' /\ HostLocked'
  <1>1. DataLocked'
    BY DEF DataLocked, Works
  <1>2. ASSUME NEW r \in Procs PROVE Reads(r)'
    BY <1>2 DEF HostLocked, Reads, Works, HostName
  <1>3. ASSUME NEW c \in Clients PROVE Writes(c)'
    <2>1. Target(c)' = Target(c)
      BY DEF Works, Target
    <2> QED
      BY <2>1 DEF HostLocked, Writes, Works, Critical, Writing, Procs
  <1> QED
    BY <1>1, <1>2, <1>3 DEF HostLocked

\* It disturbs no other client and gives no data directory a second path.
LEMMA WorksApart ==
  ASSUME Typed, Typed', Undisturbed, NEW q \in Procs, Works(q)
  PROVE  OnePath' /\ \A d \in Clients : d # q => Settled(d)' /\ Creates(d)'
  <1>1. path[q] \in Paths /\ dir' \in [Paths -> NObjs]
    BY DEF Typed, TypeOK
  <1>2. OnePath'
    BY <1>1 DEF Undisturbed, OnePath, Works, Present
  <1>3. ASSUME NEW d \in Clients, d # q PROVE Settled(d)' /\ Creates(d)'
    <2>1. d \in Procs /\ Settled(d) /\ Creates(d)
      BY DEF Procs, Undisturbed
    <2>2. pc'[d] = pc[d] /\ await'[d] = await[d] /\ existed'[d] = existed[d] /\ path'[d] = path[d]
      BY <1>3, <2>1 DEF Works
    <2>3. pc[d] \in Critical => path[d] # path[q]
      <3>1. pc[d] \in Critical => dataW[path[d]] = {d}
        BY <2>1 DEF Undisturbed, DataLocked
      <3>2. dataW[path[q]] = {q}
        BY DEF Undisturbed, DataLocked, Works
      <3> QED
        BY <1>3, <3>1, <3>2
    <2>4. path[d] \in Paths
      BY <2>1 DEF Typed, TypeOK
    <2>5. pc[d] \in Critical => dir'[path[d]] = dir[path[d]]
      BY <2>3, <2>4 DEF Works
    <2>6. Settled(d)'
      BY <2>1, <2>2, <2>5 DEF Settled, Critical
    <2>7. ASSUME NEW o \in Objs, pc[o] = "idle" PROVE pc'[o] = "idle"
      BY <2>7 DEF Works, Critical, Procs
    <2>8. Creates(d)'
      BY <2>1, <2>2, <2>7 DEF Creates
    <2> QED
      BY <2>6, <2>8
  <1> QED
    BY <1>2, <1>3

\* The steps of Get and Purge settle what their own client relies on.
LEMMA ClientSettles ==
  ASSUME Typed, Undisturbed, NEW c \in Clients,
         GetStep(c) \/ Purge(c) \/ PurgeRename(c), ~GetRegister(c)
  PROVE  Settled(c)' /\ Creates(c)'
  <1>1. c \in Procs /\ path[c] \in Paths /\ Settled(c) /\ Creates(c)
    BY DEF Procs, Undisturbed, Typed, TypeOK
  <1> USE <1>1, LabelFacts, ClientMoves, LeaveMoves
      DEF Typed, TypeOK, Settled, Creates, disk, locks, jobs, callers
  <1>2. CASE Lookup(c)
    BY <1>2 DEF Lookup
  <1>3. CASE GetUpdating(c)
    BY <1>3 DEF GetUpdating
  <1>4. CASE GetForgets(c)
    BY <1>4 DEF GetForgets
  <1>5. CASE GetHit(c) \/ GetUnreadable(c)
    BY <1>5 DEF GetHit, GetUnreadable
  <1>6. CASE GetMissing(c)
    BY <1>6 DEF GetMissing
  <1>7. CASE GetRequestError(c) \/ GetReplyStuck(c)
    BY <1>7 DEF GetRequestError, GetReplyStuck
  <1>8. CASE GetReply(c)
    BY <1>8, ReplyFacts DEF GetReply
  <1>9. CASE GetMkdir(c)
    BY <1>9 DEF GetMkdir
  <1>10. CASE GetCreate(c)
    <2>1. PICK o \in Objs : Free(o) /\ dir'[path[c]] = o /\ await'[c] = o
      BY <1>10 DEF GetCreate
    <2>2. pc[o] = "idle" /\ o # c
      BY <2>1 DEF Free, InUse
    <2> QED
      BY <1>10, <2>1, <2>2 DEF GetCreate, Procs
  <1>11. CASE GetCreateFails(c)
    BY <1>11 DEF GetCreateFails
  <1>12. CASE GetInfo(c)
    <2>1. await[c] \in Procs /\ await[c] # c
      BY <1>12 DEF GetInfo, Procs
    <2> QED
      BY <1>12, <2>1 DEF GetInfo
  <1>13. CASE GetInfoFails(c)
    BY <1>13 DEF GetInfoFails
  <1>14. CASE GetOpen(c)
    BY <1>14 DEF GetOpen
  <1>15. CASE Purge(c)
    BY <1>15 DEF Purge
  <1>16. CASE PurgeRename(c)
    BY <1>16 DEF PurgeRename
  <1> QED
    BY <1>2, <1>3, <1>4, <1>5, <1>6, <1>7, <1>8, <1>9, <1>10, <1>11, <1>12, <1>13, <1>14, <1>15,
       <1>16
    DEF GetStep

\* A step of q that leaves content/ alone, and the places of all others,
\* disturbs no other client.
LEMMA OthersSettled ==
  ASSUME Typed, Undisturbed, NEW q \in Procs, dir' = dir,
         \A r \in Procs : r # q => pc'[r] = pc[r] /\ path'[r] = path[r],
         \A d \in Clients : d # q => await'[d] = await[d] /\ existed'[d] = existed[d],
         q \in Objs => pc[q] # "idle"
  PROVE  OnePath' /\ \A d \in Clients : d # q => Settled(d)' /\ Creates(d)'
  <1>1. OnePath'
    BY DEF Undisturbed, OnePath
  <1>2. ASSUME NEW d \in Clients, d # q PROVE Settled(d)' /\ Creates(d)'
    <2>1. d \in Procs /\ Settled(d) /\ Creates(d)
      BY DEF Procs, Undisturbed
    <2>2. pc'[d] = pc[d] /\ path'[d] = path[d] /\ await'[d] = await[d] /\ existed'[d] = existed[d]
      BY <1>2, <2>1
    <2>3. ASSUME NEW o \in Objs, pc[o] = "idle" PROVE pc'[o] = "idle"
      BY <2>3 DEF Procs
    <2> QED
      BY <2>1, <2>2, <2>3 DEF Settled, Creates
  <1> QED
    BY <1>1, <1>2

\* Locking and unlocking.
LEMMA RLockHostUndisturbed ==
  ASSUME Typed, Undisturbed, NEW q \in Procs, RLockHost(q)
  PROVE  Undisturbed'
  <1>1. /\ pc[q] = "host" /\ pc'[q] = "data"
        /\ \A r \in Procs : r # q => pc'[r] = pc[r]
        /\ UNCHANGED <<dir, path, await, existed, dataW, hostW, todo>>
    BY LabelFacts, GotoMoves DEF RLockHost, hostLock!RLock, Typed, TypeOK, disk, jobs, callers
  <1>2. HostName(q) \in Hosts \cup {NoHost}
    BY DEF HostName, Typed, TypeOK
  <1>3. /\ hostW[HostName(q)] = {}
        /\ hostR' = [hostR EXCEPT ![HostName(q)] = @ \cup {q}]
    BY DEF RLockHost, hostLock!RLock
  <1>4. DataLocked'
    BY <1>1 DEF Undisturbed, DataLocked, Critical
  <1>5. ASSUME NEW r \in Procs PROVE Reads(r)'
    <2>1. HostName(r)' = HostName(r)
      BY <1>1 DEF HostName
    <2> QED
      BY <1>1, <1>2, <1>3, <2>1 DEF Undisturbed, HostLocked, Reads, Typed, TypeOK
  <1>6. ASSUME NEW c \in Clients PROVE Writes(c)'
    <2>1. Target(c)' = Target(c)
      BY <1>1 DEF Target
    <2>2. Writes(c) /\ c \in Procs
      BY DEF Undisturbed, HostLocked, Procs
    <2>3. pc[c] \in Writing => hostR'[Target(c)] = hostR[Target(c)]
      BY <1>3, <2>2, TargetFacts DEF Writes, Typed, TypeOK
    <2> QED
      BY <1>1, <2>1, <2>2, <2>3 DEF Writes, Writing
  <1>7. OnePath' /\ \A d \in Clients : d # q => Settled(d)' /\ Creates(d)'
    BY <1>1, OthersSettled
  <1>8. q \in Clients => Settled(q)' /\ Creates(q)'
    BY <1>1 DEF Undisturbed, Settled, Creates
  <1> QED
    BY <1>4, <1>5, <1>6, <1>7, <1>8 DEF Undisturbed, HostLocked

\* The data lock is free, so it is nobody's but q's now.
LEMMA LockDataUndisturbed ==
  ASSUME Typed, Undisturbed, NEW q \in Procs, LockData(q)
  PROVE  Undisturbed'
  <1>1. Section(q) \in Labels /\ Section(q) \in {"lookup", "stat"}
    BY LabelFacts DEF Section
  <1>2. /\ pc[q] = "data" /\ pc'[q] = Section(q)
        /\ \A r \in Procs : r # q => pc'[r] = pc[r]
        /\ UNCHANGED <<dir, path, await, existed, hostW, hostR, todo>>
    BY <1>1, GotoMoves DEF LockData, Typed, TypeOK, disk, jobs, callers
  <1>3. path[q] \in Paths /\ dataW[path[q]] = {} /\ dataW' = [dataW EXCEPT ![path[q]] = {q}]
    BY DEF LockData, dataLock!Announce, Typed, TypeOK
  <1>4. DataLocked'
    <2> SUFFICES ASSUME NEW r \in Procs, pc'[r] \in Critical
                 PROVE  dataW'[path'[r]] = {r}
      BY DEF DataLocked
    <2>1. CASE r = q
      <3>1. [dataW EXCEPT ![path[q]] = {q}][path[q]] = {q}
        BY <1>3 DEF Typed, TypeOK
      <3> QED
        BY <1>2, <1>3, <2>1, <3>1
    <2>2. CASE r # q
      <3>1. path[r] \in Paths /\ dataW[path[r]] = {r}
        BY <1>2, <2>2 DEF Undisturbed, DataLocked, Typed, TypeOK
      <3>2. path[r] # path[q]
        BY <1>3, <3>1
      <3>3. [dataW EXCEPT ![path[q]] = {q}][path[r]] = dataW[path[r]]
        BY <3>1, <3>2 DEF Typed, TypeOK
      <3> QED
        BY <1>2, <1>3, <3>1, <3>3
    <2> QED
      BY <2>1, <2>2
  <1>5. ASSUME NEW r \in Procs PROVE Reads(r)'
    <2>1. HostName(r)' = HostName(r)
      BY <1>2 DEF HostName
    <2> QED
      BY <1>2, <2>1 DEF Undisturbed, HostLocked, Reads
  <1>6. ASSUME NEW c \in Clients PROVE Writes(c)'
    <2>1. Target(c)' = Target(c)
      BY <1>2 DEF Target
    <2> QED
      BY <1>1, <1>2, <2>1 DEF Undisturbed, HostLocked, Writes, Writing, Procs
  <1>7. OnePath' /\ \A d \in Clients : d # q => Settled(d)' /\ Creates(d)'
    BY <1>2, OthersSettled
  <1>8. q \in Clients => Settled(q)' /\ Creates(q)'
    BY <1>1, <1>2 DEF Undisturbed, Settled, Creates
  <1> QED
    BY <1>4, <1>5, <1>6, <1>7, <1>8 DEF Undisturbed, HostLocked

\* Both locks go back; nobody else's do.
LEMMA UnlockUndisturbed ==
  ASSUME Typed, Undisturbed, NEW q \in Procs, Unlock(q)
  PROVE  Undisturbed'
  <1>1. /\ Outside(q) \in Labels
        /\ Outside(q) \in {"idle", "stream", "fatal", "return"}
        /\ q \in Clients => Outside(q) # "idle"
    BY LabelFacts DEF Outside
  <1>2. /\ pc[q] = "unlock" /\ pc'[q] = Outside(q)
        /\ \A r \in Procs : r # q => pc'[r] = pc[r] /\ path'[r] = path[r]
        /\ UNCHANGED <<dir, await, existed, hostW, todo>>
    BY <1>1, GotoMoves DEF Unlock, hostLock!RUnlock, Typed, TypeOK, disk, callers
  <1>3. path[q] \in Paths /\ dataW' = [dataW EXCEPT ![path[q]] = {}]
    BY DEF Unlock, dataLock!Unlock, Typed, TypeOK
  <1>4. hostR' = [hostR EXCEPT ![HostName(q)] = @ \ {q}]
    BY DEF Unlock, hostLock!RUnlock
  <1>5. DataLocked'
    <2> SUFFICES ASSUME NEW r \in Procs, pc'[r] \in Critical
                 PROVE  dataW'[path'[r]] = {r}
      BY DEF DataLocked
    <2>1. r # q /\ pc'[r] = pc[r] /\ path'[r] = path[r]
      BY <1>1, <1>2 DEF Critical
    <2>2. path[r] \in Paths /\ dataW[path[r]] = {r} /\ dataW[path[q]] = {q}
      BY <1>2, <2>1 DEF Undisturbed, DataLocked, Critical, Typed, TypeOK
    <2> QED
      BY <1>3, <2>1, <2>2 DEF Typed, TypeOK
  <1>6. ASSUME NEW r \in Procs PROVE Reads(r)'
    <2>1. r # q => HostName(r)' = HostName(r)
      BY <1>2 DEF HostName
    <2>2. HostName(r) \in Hosts \cup {NoHost}
      BY DEF HostName, Typed, TypeOK
    <2> QED
      BY <1>1, <1>2, <1>4, <2>1, <2>2 DEF Undisturbed, HostLocked, Reads, Critical, Typed, TypeOK
  <1>7. ASSUME NEW c \in Clients PROVE Writes(c)'
    <2>1. Target(c)' = Target(c)
      BY <1>2 DEF Target
    <2>2. Writes(c) /\ c \in Procs
      BY DEF Undisturbed, HostLocked, Procs
    <2>3. hostR[Target(c)] = {} => hostR'[Target(c)] = {}
      BY <1>4 DEF Typed, TypeOK
    <2> QED
      BY <1>1, <1>2, <2>1, <2>2, <2>3 DEF Writes, Writing
  <1>8. OnePath' /\ \A d \in Clients : d # q => Settled(d)' /\ Creates(d)'
    BY <1>2, OthersSettled
  <1>9. q \in Clients => Settled(q)' /\ Creates(q)'
    BY <1>1, <1>2 DEF Undisturbed, Settled, Creates
  <1> QED
    BY <1>5, <1>6, <1>7, <1>8, <1>9 DEF Undisturbed, HostLocked

\* A step of q that neither takes nor leaves a lock and ends outside.
Stays(q) == /\ pc'[q] \notin Critical \cup Writing \cup {"data"}
            /\ \A r \in Procs : r # q => pc'[r] = pc[r] /\ path'[r] = path[r]
            /\ \A d \in Clients : d # q => /\ await'[d] = await[d] /\ existed'[d] = existed[d]
                                           /\ todo'[d] = todo[d]
            /\ UNCHANGED <<dir, dataW, hostW, hostR>>
            /\ q \in Objs => pc[q] # "idle"
            /\ q \in Clients => /\ pc'[q] = "announce" => todo'[q] # {}
                                /\ pc'[q] \in {"idle", "host"} => ~existed'[q]

\* Such a step touches nothing that is locked.
LEMMA StaysUndisturbed ==
  ASSUME Typed, Undisturbed, NEW q \in Procs, Stays(q)
  PROVE  Undisturbed'
  <1>1. DataLocked'
    BY DEF Undisturbed, DataLocked, Stays
  <1>2. ASSUME NEW r \in Procs PROVE Reads(r)'
    <2>1. r # q => HostName(r)' = HostName(r)
      BY DEF HostName, Stays
    <2> QED
      BY <2>1 DEF Undisturbed, HostLocked, Reads, Stays
  <1>3. ASSUME NEW c \in Clients PROVE Writes(c)'
    <2>1. Writes(c) /\ c \in Procs
      BY DEF Undisturbed, HostLocked, Procs
    <2>2. CASE c = q
      BY <2>2 DEF Writes, Stays, Writing
    <2>3. CASE c # q
      <3>1. Target(c)' = Target(c) /\ pc'[c] = pc[c] /\ todo'[c] = todo[c]
        BY <2>1, <2>3 DEF Target, Stays
      <3> QED
        BY <2>1, <3>1 DEF Writes, Stays
    <2> QED
      BY <2>2, <2>3
  <1>4. OnePath' /\ \A d \in Clients : d # q => Settled(d)' /\ Creates(d)'
    BY OthersSettled DEF Stays
  <1>5. q \in Clients => Settled(q)' /\ Creates(q)'
    BY DEF Settled, Creates, Critical, Stays
  <1> QED
    BY <1>1, <1>2, <1>3, <1>4, <1>5 DEF Undisturbed, HostLocked

\* A step that changes nothing of what Undisturbed speaks about.
LEMMA AsideUndisturbed ==
  ASSUME Undisturbed, UNCHANGED <<dir, pc, path, await, existed, dataW, hostW, hostR, todo>>
  PROVE  Undisturbed'
  <1>1. /\ \A q \in Procs : HostName(q)' = HostName(q)
        /\ \A c \in Clients : Target(c)' = Target(c)
    BY DEF HostName, Target
  <1>2. HostLocked'
    BY <1>1 DEF Undisturbed, HostLocked, Reads, Writes
  <1> QED
    BY <1>2 DEF Undisturbed, DataLocked, OnePath, Settled, Creates

\* Calling and returning.
LEMMA CallUndisturbed ==
  ASSUME Typed, Undisturbed, NEW c \in Clients,
         Calling(c) \/ PurgeAllCanceled(c) \/ Return(c)
  PROVE  Undisturbed'
  <1>1. c \in Procs /\ c \notin Objs /\ Creates(c)
    BY DEF Procs, Undisturbed
  <1> SUFFICES Stays(c)
    BY <1>1, StaysUndisturbed
  <1> USE <1>1, LabelFacts, ClientMoves
      DEF Stays, Typed, TypeOK, disk, locks, jobs, callers, Critical, Writing
  <1>2. ASSUME NEW o \in {"get", "purge"}, NEW p \in Paths, Call(c, o, p) PROVE Stays(c)
    BY <1>2 DEF Call, Creates
  <1>3. ASSUME NEW h \in Hosts, CallPurgeHost(c, h) PROVE Stays(c)
    BY <1>3 DEF CallPurgeHost
  <1>4. CASE CallPurgeAll(c)
    BY <1>4 DEF CallPurgeAll
  <1>5. CASE PurgeAllCanceled(c)
    BY <1>5 DEF PurgeAllCanceled
  <1>6. CASE Return(c)
    BY <1>6 DEF Return
  <1> QED
    BY <1>2, <1>3, <1>4, <1>5, <1>6 DEF Calling

\* A body has been copied, or contentCleaner has come to an entry.
LEMMA EnterUndisturbed ==
  ASSUME Typed, Undisturbed, WalkData \/ \E o \in Objs : CopyDone(o)
  PROVE  Undisturbed'
  <1> USE LabelFacts, GotoMoves
      DEF Stays, Typed, TypeOK, disk, locks, jobs, callers, Critical, Writing
  <1>1. ASSUME NEW o \in Objs, CopyDone(o) PROVE Undisturbed'
    <2>1. o \in Procs /\ o \notin Clients
      BY DEF Procs
    <2>2. Stays(o)
      BY <1>1, <2>1 DEF CopyDone
    <2> QED
      BY <2>1, <2>2, StaysUndisturbed
  <1>2. CASE WalkData
    <2>1. Cleaner \in Procs /\ Cleaner \notin Clients \cup Objs
      BY DEF Procs
    <2>2. CASE dir[Walk[at]] = None
      BY <1>2, <2>2, AsideUndisturbed DEF WalkData
    <2>3. CASE dir[Walk[at]] # None
      <3>1. Stays(Cleaner)
        BY <1>2, <2>1, <2>3 DEF WalkData
      <3> QED
        BY <2>1, <3>1, StaysUndisturbed
    <2> QED
      BY <2>2, <2>3
  <1> QED
    BY <1>1, <1>2

\* The process starts over: nobody holds a lock.
LEMMA RestartUndisturbed ==
  ASSUME Undisturbed, Restart
  PROVE  Undisturbed'
  <1>1. DataLocked' /\ HostLocked'
    BY DEF Restart, DataLocked, HostLocked, Reads, Writes, Critical, Writing, Procs
  <1>2. OnePath' /\ \A c \in Clients : Settled(c)' /\ Creates(c)'
    BY DEF Restart, disk, Undisturbed, OnePath, Settled, Creates, Procs
  <1> QED
    BY <1>1, <1>2 DEF Undisturbed

\* PurgeHost announces itself: no other writer is announced on the host.
LEMMA AnnounceUndisturbed ==
  ASSUME Typed, Undisturbed, NEW c \in Clients, Announce(c)
  PROVE  Undisturbed'
  <1>1. c \in Procs /\ c \notin Objs /\ Writes(c)
    BY DEF Procs, Undisturbed, HostLocked
  <1>2. /\ pc[c] = "announce" /\ pc'[c] = "drain"
        /\ \A r \in Procs : r # c => pc'[r] = pc[r]
        /\ UNCHANGED <<dir, path, await, existed, dataW, hostR, todo>>
    BY LabelFacts, ClientMoves DEF Announce, hostLock!Announce, Typed, TypeOK, disk, jobs, callers
  <1>3. hostW[Target(c)] = {} /\ hostW' = [hostW EXCEPT ![Target(c)] = {c}]
    BY DEF Announce, hostLock!Announce
  <1>4. \A d \in Clients : Target(d)' = Target(d)
    BY <1>2 DEF Target
  <1>5. DataLocked'
    BY <1>2 DEF Undisturbed, DataLocked, Critical
  <1>6. ASSUME NEW r \in Procs PROVE Reads(r)'
    <2>1. HostName(r)' = HostName(r)
      BY <1>2 DEF HostName
    <2> QED
      BY <1>2, <2>1 DEF Undisturbed, HostLocked, Reads, Critical
  <1>7. ASSUME NEW d \in Clients PROVE Writes(d)'
    <2>1. Writes(d) /\ d \in Procs
      BY DEF Undisturbed, HostLocked, Procs
    <2>2. CASE d = c
      <3>1. todo[c] # {} /\ Target(c) \in Hosts
        BY <1>1, <1>2, TargetFacts DEF Writes
      <3> QED
        BY <1>2, <1>3, <1>4, <2>2, <3>1 DEF Writes, Typed, TypeOK
    <2>3. CASE d # c
      <3>1. pc[d] \in Writing => Target(d) # Target(c)
        BY <1>3, <2>1 DEF Writes
      <3> QED
        BY <1>2, <1>3, <1>4, <2>1, <2>3, <3>1 DEF Writes, Typed, TypeOK
    <2> QED
      BY <2>2, <2>3
  <1>8. OnePath' /\ \A d \in Clients : d # c => Settled(d)' /\ Creates(d)'
    BY <1>1, <1>2, OthersSettled
  <1>9. Settled(c)' /\ Creates(c)'
    BY <1>2 DEF Settled, Creates
  <1> QED
    BY <1>5, <1>6, <1>7, <1>8, <1>9 DEF Undisturbed, HostLocked

\* The readers before it have left: it goes on alone.
LEMMA HostStatUndisturbed ==
  ASSUME Typed, Undisturbed, NEW c \in Clients, HostStat(c)
  PROVE  Undisturbed'
  <1>1. c \in Procs /\ c \notin Objs /\ Writes(c)
    BY DEF Procs, Undisturbed, HostLocked
  <1>2. /\ pc[c] = "drain" /\ pc'[c] \in {"hostrename", "hostunlock"}
        /\ \A r \in Procs : r # c => pc'[r] = pc[r]
        /\ UNCHANGED <<dir, path, await, existed, dataW, hostW, hostR, todo>>
    BY LabelFacts, ClientMoves DEF HostStat, Typed, TypeOK, disk, locks, jobs, callers
  <1>3. hostR[Target(c)] = {}
    BY DEF HostStat, HasHost, hostLock!HoldsW
  <1>4. \A d \in Clients : Target(d)' = Target(d)
    BY <1>2 DEF Target
  <1>5. DataLocked'
    BY <1>2 DEF Undisturbed, DataLocked, Critical
  <1>6. ASSUME NEW r \in Procs PROVE Reads(r)'
    <2>1. HostName(r)' = HostName(r)
      BY <1>2 DEF HostName
    <2> QED
      BY <1>2, <2>1 DEF Undisturbed, HostLocked, Reads, Critical
  <1>7. ASSUME NEW d \in Clients PROVE Writes(d)'
    <2>1. Writes(d) /\ d \in Procs
      BY DEF Undisturbed, HostLocked, Procs
    <2> QED
      BY <1>2, <1>3, <1>4, <2>1 DEF Writes, Writing
  <1>8. OnePath' /\ \A d \in Clients : d # c => Settled(d)' /\ Creates(d)'
    BY <1>1, <1>2, OthersSettled
  <1>9. Settled(c)' /\ Creates(c)'
    BY <1>2 DEF Settled, Creates
  <1> QED
    BY <1>5, <1>6, <1>7, <1>8, <1>9 DEF Undisturbed, HostLocked

\* It moves the host's directory away: whoever relies on data there would hold
\* the host for reading.
LEMMA HostRenameUndisturbed ==
  ASSUME Typed, Undisturbed, NEW c \in Clients, HostRename(c)
  PROVE  Undisturbed'
  <1>1. c \in Procs /\ c \notin Objs /\ Writes(c)
    BY DEF Procs, Undisturbed, HostLocked
  <1>2. /\ pc[c] = "hostrename" /\ pc'[c] = "hostunlock"
        /\ \A r \in Procs : r # c => pc'[r] = pc[r]
        /\ UNCHANGED <<path, await, existed, dataW, hostW, hostR, todo>>
    BY LabelFacts, ClientMoves DEF HostRename, Typed, TypeOK, locks, jobs
  <1>3. \A p \in Paths : dir'[p] \in {dir[p], None} /\ (HostOf[p] # Target(c) => dir'[p] = dir[p])
    BY DEF HostRename, Typed, TypeOK
  <1>4. \A d \in Clients : Target(d)' = Target(d)
    BY <1>2 DEF Target
  <1>5. DataLocked'
    BY <1>2 DEF Undisturbed, DataLocked, Critical
  <1>6. ASSUME NEW r \in Procs PROVE Reads(r)'
    <2>1. HostName(r)' = HostName(r)
      BY <1>2 DEF HostName
    <2> QED
      BY <1>2, <2>1 DEF Undisturbed, HostLocked, Reads, Critical
  <1>7. ASSUME NEW d \in Clients PROVE Writes(d)'
    <2>1. Writes(d) /\ d \in Procs
      BY DEF Undisturbed, HostLocked, Procs
    <2> QED
      BY <1>1, <1>2, <1>4, <2>1 DEF Writes, Writing
  <1>8. OnePath'
    BY <1>3 DEF Undisturbed, OnePath
  <1>9. ASSUME NEW d \in Clients PROVE Settled(d)' /\ Creates(d)'
    <2>1. d \in Procs /\ path[d] \in Paths /\ Settled(d) /\ Creates(d)
      BY DEF Procs, Undisturbed, Typed, TypeOK
    <2>2. CASE d = c
      BY <1>2, <2>2 DEF Settled, Creates
    <2>3. CASE d # c
      <3>1. pc[d] \in Critical => d \in hostR[HostOf[path[d]]]
        BY <2>1 DEF Undisturbed, HostLocked, Reads, HostName
      <3>2. pc[d] \in Critical => HostOf[path[d]] # Target(c)
        BY <1>1, <1>2, <3>1 DEF Writes
      <3>3. Settled(d)'
        BY <1>2, <1>3, <2>1, <2>3, <3>2 DEF Settled, Critical
      <3>4. ASSUME NEW o \in Objs, pc[o] = "idle" PROVE pc'[o] = "idle"
        BY <1>1, <1>2, <3>4 DEF Procs
      <3> QED
        BY <1>2, <2>1, <2>3, <3>3, <3>4 DEF Creates
    <2> QED
      BY <2>2, <2>3
  <1> QED
    BY <1>5, <1>6, <1>7, <1>8, <1>9 DEF Undisturbed, HostLocked

\* PurgeHost gives its host back; PurgeAll goes on to the next one.
LEMMA HostUnlockUndisturbed ==
  ASSUME Typed, Undisturbed, NEW c \in Clients, HostUnlock(c)
  PROVE  Undisturbed'
  <1>1. c \in Procs /\ c \notin Objs /\ Writes(c)
    BY DEF Procs, Undisturbed, HostLocked
  <1>2. /\ pc[c] = "hostunlock" /\ pc'[c] \in {"announce", "return"}
        /\ pc'[c] = "announce" => todo'[c] # {}
        /\ \A r \in Procs : r # c => pc'[r] = pc[r]
        /\ \A d \in Clients : d # c => todo'[d] = todo[d]
        /\ UNCHANGED <<dir, path, await, existed, dataW>>
    BY LabelFacts, ClientMoves DEF HostUnlock, Typed, TypeOK, disk, jobs
  <1>3. /\ hostR[Target(c)] = {}
        /\ hostW' = [hostW EXCEPT ![Target(c)] = {}]
        /\ hostR' = [hostR EXCEPT ![Target(c)] = {}]
    BY DEF HostUnlock, hostLock!Unlock, hostLock!HoldsW
  <1>4. hostR' = hostR
    BY <1>3 DEF Typed, TypeOK
  <1>5. DataLocked'
    BY <1>2 DEF Undisturbed, DataLocked, Critical
  <1>6. ASSUME NEW r \in Procs PROVE Reads(r)'
    <2>1. HostName(r)' = HostName(r)
      BY <1>2 DEF HostName
    <2> QED
      BY <1>2, <1>4, <2>1 DEF Undisturbed, HostLocked, Reads, Critical
  <1>7. ASSUME NEW d \in Clients PROVE Writes(d)'
    <2>1. Writes(d) /\ d \in Procs
      BY DEF Undisturbed, HostLocked, Procs
    <2>2. CASE d = c
      BY <1>2, <2>2 DEF Writes, Writing
    <2>3. CASE d # c
      <3>1. Target(d)' = Target(d) /\ pc'[d] = pc[d] /\ todo'[d] = todo[d]
        BY <1>2, <2>1, <2>3 DEF Target
      <3>2. hostW[Target(c)] = {c}
        BY <1>1, <1>2 DEF Writes, Writing
      <3>3. pc[d] \in Writing => hostW'[Target(d)] = hostW[Target(d)]
        BY <1>3, <2>1, <2>3, <3>2, TargetFacts DEF Writes, Typed, TypeOK
      <3> QED
        BY <1>4, <2>1, <3>1, <3>3 DEF Writes
    <2> QED
      BY <2>2, <2>3
  <1>8. OnePath' /\ \A d \in Clients : d # c => Settled(d)' /\ Creates(d)'
    BY <1>1, <1>2, OthersSettled
  <1>9. Settled(c)' /\ Creates(c)'
    BY <1>2 DEF Settled, Creates
  <1> QED
    BY <1>5, <1>6, <1>7, <1>8, <1>9 DEF Undisturbed, HostLocked

\* The download is registered and its goroutine started: no other call has
\* created the same object, since it is at one path, which is locked.
LEMMA RegisterUndisturbed ==
  ASSUME Typed, Undisturbed, NEW c \in Clients, GetRegister(c)
  PROVE  Undisturbed'
  <1>1. c \in Procs /\ path[c] \in Paths /\ Settled(c) /\ Creates(c)
    BY DEF Procs, Undisturbed, Typed, TypeOK
  <1>2. pc[c] = "register"
    BY DEF GetRegister
  <1>3. /\ await[c] \in Objs /\ await[c] \in Procs /\ await[c] \notin Clients \cup {Cleaner, None}
        /\ pc[await[c]] = "idle" /\ dir[path[c]] = await[c]
    BY <1>1, <1>2 DEF Settled, Creates, Procs
  <1>4. /\ pc'[c] = "open" /\ pc'[await[c]] = "copy"
        /\ \A r \in Procs : r # c /\ r # await[c] => pc'[r] = pc[r] /\ path'[r] = path[r]
        /\ path'[c] = path[c]
        /\ UNCHANGED <<dir, await, existed, dataW, hostW, hostR, todo>>
    BY <1>1, <1>3 DEF GetRegister, Typed, TypeOK, disk, locks, callers
  <1>5. \A d \in Clients : Target(d)' = Target(d)
    BY <1>4 DEF Target
  <1>6. DataLocked'
    BY <1>1, <1>2, <1>4 DEF Undisturbed, DataLocked, Critical
  <1>7. ASSUME NEW r \in Procs PROVE Reads(r)'
    <2>1. r # await[c] => HostName(r)' = HostName(r)
      BY <1>4 DEF HostName
    <2> QED
      BY <1>2, <1>4, <2>1 DEF Undisturbed, HostLocked, Reads, Critical
  <1>8. ASSUME NEW d \in Clients PROVE Writes(d)'
    BY <1>3, <1>4, <1>5 DEF Undisturbed, HostLocked, Writes, Writing, Procs
  <1>9. OnePath'
    BY <1>4 DEF Undisturbed, OnePath
  <1>10. ASSUME NEW d \in Clients PROVE Settled(d)' /\ Creates(d)'
    <2>1. d \in Procs /\ path[d] \in Paths /\ Settled(d) /\ Creates(d)
      BY DEF Procs, Undisturbed, Typed, TypeOK
    <2>2. CASE d = c
      BY <1>1, <1>2, <1>4, <2>2 DEF Settled, Creates
    <2>3. CASE d # c
      <3>1. pc'[d] = pc[d] /\ path'[d] = path[d] /\ await'[d] = await[d] /\ existed'[d] = existed[d]
        BY <1>3, <1>4, <2>1, <2>3
      <3>2. pc[d] \in {"info", "register"} => await[d] # await[c]
        <4> SUFFICES ASSUME pc[d] \in {"info", "register"}, await[d] = await[c] PROVE FALSE
          OBVIOUS
        <4>1. path[d] = path[c]
          BY <1>1, <1>3, <2>1 DEF Undisturbed, OnePath, Settled
        <4>2. dataW[path[c]] = {c}
          BY <1>1, <1>2 DEF Undisturbed, DataLocked, Critical
        <4>3. dataW[path[d]] = {d}
          BY <2>1 DEF Undisturbed, DataLocked, Critical
        <4> QED
          BY <2>3, <4>1, <4>2, <4>3
      <3>3. Settled(d)'
        BY <1>4, <2>1, <3>1 DEF Settled
      <3>4. Creates(d)'
        <4>1. ASSUME pc[d] \in {"info", "register"} PROVE await[d] \in Procs /\ await[d] # c
          BY <2>1, <4>1 DEF Creates, Procs
        <4> QED
          BY <1>4, <2>1, <3>1, <3>2, <4>1 DEF Creates
      <3> QED
        BY <3>3, <3>4
    <2> QED
      BY <2>2, <2>3
  <1> QED
    BY <1>6, <1>7, <1>8, <1>9, <1>10 DEF Undisturbed, HostLocked

\* Undisturbed holds at first, and every step keeps it.
LEMMA UndisturbedInit == Init => Undisturbed
  BY DEF Init, Undisturbed, DataLocked, HostLocked, Reads, Writes, OnePath, Settled, Creates,
         Critical, Writing, Procs

\* The steps together.
LEMMA UndisturbedStep == Typed /\ Typed' /\ Undisturbed /\ [Next]_vars => Undisturbed'
  <1> SUFFICES ASSUME Typed, Typed', Undisturbed PROVE [Next]_vars => Undisturbed'
    OBVIOUS
  <1>1. ASSUME NEW q \in Procs, Locking(q) \/ Unlock(q) PROVE Undisturbed'
    BY <1>1, RLockHostUndisturbed, LockDataUndisturbed, UnlockUndisturbed DEF Locking
  <1>2. ASSUME NEW c \in Clients, ClientNext(c) PROVE Undisturbed'
    <2>1. CASE (GetStep(c) \/ Purge(c) \/ PurgeRename(c)) /\ ~GetRegister(c)
      <3>1. c \in Procs /\ Works(c)
        BY <2>1, ClientWorks DEF Procs
      <3>2. DataLocked' /\ HostLocked'
        BY <3>1, WorksLocked DEF Undisturbed
      <3>3. OnePath' /\ \A d \in Clients : d # c => Settled(d)' /\ Creates(d)'
        BY <3>1, WorksApart
      <3>4. Settled(c)' /\ Creates(c)'
        BY <2>1, ClientSettles
      <3> QED
        BY <3>2, <3>3, <3>4 DEF Undisturbed
    <2>2. CASE GetRegister(c)
      BY <2>2, RegisterUndisturbed
    <2>3. CASE Calling(c) \/ PurgeAllCanceled(c) \/ Return(c)
      BY <2>3, CallUndisturbed
    <2>4. CASE Announce(c) \/ HostStat(c) \/ HostRename(c) \/ HostUnlock(c)
      BY <2>4, AnnounceUndisturbed, HostStatUndisturbed, HostRenameUndisturbed,
         HostUnlockUndisturbed
    <2>5. CASE Fatal(c)
      BY <2>5, RestartUndisturbed DEF Fatal
    <2> QED
      BY <1>2, <2>1, <2>2, <2>3, <2>4, <2>5 DEF ClientNext, PurgeStep
  <1>3. ASSUME NEW q \in Procs \ Clients, Works(q) PROVE Undisturbed'
    <2>1. DataLocked' /\ HostLocked'
      BY <1>3, WorksLocked DEF Undisturbed
    <2>2. OnePath' /\ \A d \in Clients : Settled(d)' /\ Creates(d)'
      BY <1>3, WorksApart
    <2> QED
      BY <2>1, <2>2 DEF Undisturbed
  <1>4. ASSUME NEW o \in Objs, DownloadNext(o) PROVE Undisturbed'
    <2>1. o \in Procs \ Clients
      BY DEF Procs
    <2> QED
      BY <1>3, <1>4, <2>1, DownloadWorks, EnterUndisturbed DEF DownloadNext
  <1>5. ASSUME NEW o \in Objs, TrashRemove(o) \/ Expire(o) PROVE Undisturbed'
    BY <1>5, AsideUndisturbed DEF TrashRemove, Expire, locks, jobs, callers
  <1>6. CASE CleanerNext
    <2>1. Cleaner \in Procs \ Clients
      BY DEF Procs
    <2>2. CASE CleanStat \/ CleanOpen \/ CleanRename
      BY <1>3, <2>1, <2>2, CleanerWorks
    <2>3. CASE WalkStart \/ WalkHost
      BY <2>3, AsideUndisturbed DEF WalkStart, WalkHost, disk, locks, jobs, callers
    <2>4. CASE WalkData
      BY <2>4, EnterUndisturbed
    <2> QED
      BY <1>6, <2>2, <2>3, <2>4 DEF CleanerNext
  <1>7. CASE Crash
    BY <1>7, RestartUndisturbed DEF Crash
  <1>8. CASE UNCHANGED vars
    BY <1>8, AsideUndisturbed DEF vars, disk, locks, jobs, callers
  <1> QED
    BY <1>1, <1>2, <1>4, <1>5, <1>6, <1>7, <1>8 DEF Next

\* No purge, cleaner or download gets between two steps of a call that relies
\* on what it has seen or made on the disk.
THEOREM NotDisturbed == Spec => []UndisturbedUnderLocks
  <1>1. Undisturbed => UndisturbedUnderLocks
    BY DEF Undisturbed, UndisturbedUnderLocks, Settled
  <1> QED
    BY <1>1, TypedInit, TypedStep, UndisturbedInit, UndisturbedStep, PTL DEF Spec

-----------------------------------------------------------------------------
(* Purges.                                                                  *)

\* Data lies below the directory of its host.
Grounded == \A p \in Paths : dir[p] # None => HostOf[p] \in hostDirs

\* Where data that c's purge is to throw away still is.
Rest(c) == {p \in Paths : dir[p] \in before[c]}

\* Purge: it is at the path of the call, and nowhere once the call reports so.
PurgesPath(c) ==
  op[c] = "purge" =>
    /\ pc[c] \in {"host", "data", "stat", "rename", "unlock", "return", "stream", "fatal"}
    /\ pc[c] \in {"host", "data", "stat", "rename", "unlock"} => Rest(c) \subseteq {path[c]}
    /\ pc[c] \in {"unlock", "return"} /\ GoesOn(c) => Rest(c) = {}

\* PurgeHost and PurgeAll: it is below the hosts still to go to.
PurgesHosts(c) ==
  op[c] \in {"purgehost", "purgeall"} =>
    /\ pc[c] \in Writing \cup {"announce", "return"}
    /\ pc[c] \in {"announce", "drain", "hostrename"} => \A p \in Rest(c) : HostOf[p] \in todo[c]
    /\ pc[c] = "hostunlock" /\ GoesOn(c) => \A p \in Rest(c) : HostOf[p] \in Left(c)
    /\ pc[c] = "return" /\ GoesOn(c) => Rest(c) = {}

Swept == Grounded /\ \A c \in Clients : PurgesPath(c) /\ PurgesHosts(c)

-----------------------------------------------------------------------------
\* A step that is not c's: no data gets within reach of its purge.
Spares(c) ==
  /\ op'[c] = op[c] /\ pc'[c] = pc[c] /\ res'[c] = res[c]
  /\ todo'[c] = todo[c] /\ path'[c] = path[c]
  /\ \A p \in Paths : dir'[p] \in before'[c] => dir'[p] = dir[p] /\ dir[p] \in before[c]

\* Such a step leaves c's purge where it is.
LEMMA SparesPurges ==
  ASSUME NEW c \in Clients, PurgesPath(c), PurgesHosts(c), Spares(c)
  PROVE  PurgesPath(c)' /\ PurgesHosts(c)'
  <1>1. Rest(c)' \subseteq Rest(c) /\ GoesOn(c)' = GoesOn(c) /\ Left(c)' = Left(c)
    BY DEF Spares, Rest, GoesOn, Left, Target
  <1>2. PurgesPath(c)'
    BY <1>1 DEF PurgesPath, Spares
  <1>3. PurgesHosts(c)'
    BY <1>1 DEF PurgesHosts, Spares
  <1> QED
    BY <1>2, <1>3

\* A step of q that spares all others, with data below its host.
Apart(q) == Grounded' /\ \A d \in Clients : d # q => Spares(d)

\* A step that takes data away at most, and no host that has data, is apart.
LEMMA TakesApart ==
  ASSUME Typed, Grounded, NEW q,
         \A d \in Clients : d # q =>
           /\ op'[d] = op[d] /\ pc'[d] = pc[d] /\ res'[d] = res[d]
           /\ todo'[d] = todo[d] /\ path'[d] = path[d] /\ before'[d] = before[d],
         \A p \in Paths : dir'[p] \in {dir[p], None},
         \A p \in Paths : dir'[p] # None /\ HostOf[p] \in hostDirs => HostOf[p] \in hostDirs'
  PROVE  Apart(q)
  <1>1. \A d \in Clients : before[d] \subseteq Objs
    BY DEF Typed, TypeOK
  <1>2. Grounded'
    BY DEF Grounded
  <1>3. \A d \in Clients : d # q => Spares(d)
    BY <1>1 DEF Spares
  <1> QED
    BY <1>2, <1>3 DEF Apart

\* The steps of Get and Purge.
LEMMA GetApart ==
  ASSUME Typed, Undisturbed, Grounded, NEW c \in Clients, GetStep(c) \/ Purge(c) \/ PurgeRename(c)
  PROVE  Apart(c)
  <1>1. c \in Procs /\ path[c] \in Paths /\ \A d \in Clients : d \in Procs /\ d \notin Objs
    BY DEF Procs, Typed, TypeOK
  <1> USE <1>1, LabelFacts DEF Typed, TypeOK, disk, locks, jobs, callers
  <1>2. CASE Lookup(c)
    BY <1>2, ClientMoves, TakesApart DEF Lookup
  <1>3. CASE GetUpdating(c)
    BY <1>3, LeaveMoves, TakesApart DEF GetUpdating
  <1>4. CASE GetForgets(c)
    BY <1>4, ClientMoves, TakesApart DEF GetForgets
  <1>5. CASE GetHit(c) \/ GetUnreadable(c)
    <2>1. CASE GetHit(c)
      BY <2>1, LeaveMoves, TakesApart DEF GetHit
    <2>2. CASE GetUnreadable(c)
      BY <2>2, LeaveMoves, TakesApart DEF GetUnreadable
    <2> QED
      BY <1>5, <2>1, <2>2
  <1>6. CASE GetMissing(c)
    BY <1>6, ClientMoves, TakesApart DEF GetMissing
  <1>7. CASE GetRequestError(c) \/ GetReplyStuck(c)
    <2>1. CASE GetRequestError(c)
      BY <2>1, LeaveMoves, TakesApart DEF GetRequestError
    <2>2. CASE GetReplyStuck(c)
      BY <2>2, LeaveMoves, TakesApart DEF GetReplyStuck
    <2> QED
      BY <1>7, <2>1, <2>2
  <1>8. CASE GetReply(c)
    BY <1>8, ReplyFacts, ClientMoves, LeaveMoves, TakesApart DEF GetReply, Trashed
  <1>9. CASE GetMkdir(c)
    BY <1>9, ClientMoves, TakesApart DEF GetMkdir
  <1>10. CASE GetCreate(c)
    <2>1. PICK o \in Objs : /\ dir' = [dir EXCEPT ![path[c]] = o]
                            /\ before' = [b \in Clients |-> before[b] \ {o}]
      BY <1>10 DEF GetCreate
    <2>2. \A d \in Clients : d # c => pc'[d] = pc[d]
      BY <1>10, ClientMoves DEF GetCreate
    <2>3. ASSUME NEW d \in Clients, NEW p \in Paths, dir'[p] \in before'[d]
          PROVE  dir'[p] = dir[p] /\ dir[p] \in before[d]
      <3>1. dir'[p] # o /\ dir'[p] \in before[d]
        BY <2>1, <2>3
      <3> QED
        BY <2>1, <3>1
    <2>4. \A d \in Clients : d # c => Spares(d)
      BY <1>10, <2>2, <2>3 DEF Spares, GetCreate
    <2>5. Grounded'
      BY <1>10, <2>1 DEF Grounded, GetCreate
    <2> QED
      BY <2>4, <2>5 DEF Apart
  <1>11. CASE GetCreateFails(c)
    BY <1>11, LeaveMoves, TakesApart DEF GetCreateFails
  <1>12. CASE GetInfo(c)
    BY <1>12, ClientMoves, TakesApart DEF GetInfo
  <1>13. CASE GetInfoFails(c)
    BY <1>13, LeaveMoves, TakesApart DEF GetInfoFails
  <1>14. CASE GetRegister(c)
    <2>1. await[c] \in Objs
      BY <1>14 DEF GetRegister, Undisturbed, Creates
    <2>2. \A d \in Clients : d # c => pc'[d] = pc[d] /\ path'[d] = path[d]
      BY <1>14, <2>1 DEF GetRegister
    <2> QED
      BY <1>14, <2>2, TakesApart DEF GetRegister
  <1>15. CASE GetOpen(c)
    BY <1>15, LeaveMoves, TakesApart DEF GetOpen
  <1>16. CASE Purge(c)
    BY <1>16, ClientMoves, LeaveMoves, TakesApart DEF Purge
  <1>17. CASE PurgeRename(c)
    <2>1. \A p \in Paths : dir'[p] \in {dir[p], None}
      BY <1>17 DEF PurgeRename, Trashed
    <2>2. \A d \in Clients : d # c => pc'[d] = pc[d] /\ res'[d] = res[d]
      BY <1>17, LeaveMoves DEF PurgeRename
    <2> QED
      BY <1>17, <2>1, <2>2, TakesApart DEF PurgeRename
  <1> QED
    BY <1>2, <1>3, <1>4, <1>5, <1>6, <1>7, <1>8, <1>9, <1>10, <1>11, <1>12, <1>13, <1>14, <1>15,
       <1>16, <1>17
    DEF GetStep

\* Locking and unlocking.
LEMMA LockApart ==
  ASSUME Typed, Grounded, NEW q \in Procs, Locking(q) \/ Unlock(q)
  PROVE  Apart(q)
  <1> USE LabelFacts, GotoMoves, TakesApart DEF Typed, TypeOK, disk, jobs, callers, Procs
  <1>1. CASE RLockHost(q)
    BY <1>1 DEF RLockHost
  <1>2. CASE LockData(q)
    BY <1>2 DEF LockData, Section
  <1>3. CASE Unlock(q)
    BY <1>3 DEF Unlock, Outside
  <1> QED
    BY <1>1, <1>2, <1>3 DEF Locking

\* Calling, returning and the steps of PurgeHost and PurgeAll.
LEMMA CallApart ==
  ASSUME Typed, Grounded, NEW c \in Clients,
         \/ Calling(c) \/ Announce(c) \/ HostStat(c) \/ HostRename(c) \/ HostUnlock(c)
         \/ PurgeAllCanceled(c) \/ Return(c)
  PROVE  Apart(c)
  <1>1. \A d \in Clients : d \in Procs
    BY DEF Procs
  <1> USE <1>1, LabelFacts, ClientMoves, TakesApart
      DEF Typed, TypeOK, disk, locks, jobs, callers
  <1>2. ASSUME NEW o \in {"get", "purge"}, NEW p \in Paths, Call(c, o, p) PROVE Apart(c)
    BY <1>2 DEF Call
  <1>3. ASSUME NEW h \in Hosts, CallPurgeHost(c, h) PROVE Apart(c)
    BY <1>3 DEF CallPurgeHost
  <1>4. CASE CallPurgeAll(c)
    BY <1>4 DEF CallPurgeAll
  <1>5. CASE Announce(c)
    BY <1>5 DEF Announce
  <1>6. CASE HostStat(c)
    BY <1>6 DEF HostStat
  <1>7. CASE HostRename(c)
    <2>1. \A p \in Paths : /\ dir'[p] \in {dir[p], None}
                           /\ dir'[p] # None /\ HostOf[p] \in hostDirs => HostOf[p] \in hostDirs'
      BY <1>7 DEF HostRename
    <2>2. \A d \in Clients : d # c => pc'[d] = pc[d] /\ res'[d] = res[d]
      <3>1. Goto(c, "hostunlock") /\ \E r \in Results : res' = [res EXCEPT ![c] = r]
        BY <1>7 DEF HostRename
      <3> QED
        BY <3>1
    <2> QED
      BY <1>7, <2>1, <2>2 DEF HostRename
  <1>8. CASE HostUnlock(c)
    BY <1>8 DEF HostUnlock
  <1>9. CASE PurgeAllCanceled(c)
    BY <1>9 DEF PurgeAllCanceled
  <1>10. CASE Return(c)
    BY <1>10 DEF Return
  <1> QED
    BY <1>2, <1>3, <1>4, <1>5, <1>6, <1>7, <1>8, <1>9, <1>10 DEF Calling

\* The download goroutines, the cleaners and the passing of time.
LEMMA OtherApart ==
  ASSUME Typed, Grounded,
         \/ CleanerNext \/ UNCHANGED vars
         \/ \E o \in Objs : DownloadNext(o) \/ TrashRemove(o) \/ Expire(o)
  PROVE  Grounded' /\ \A d \in Clients : Spares(d)
  <1>1. /\ Cleaner \in Procs /\ Cleaner \notin Clients /\ Clients \subseteq Procs
        /\ \A o \in Objs : o \in Procs /\ o \notin Clients
    BY DEF Procs
  <1>2. ASSUME NEW q, q \notin Clients, Apart(q) PROVE Grounded' /\ \A d \in Clients : Spares(d)
    BY <1>2 DEF Apart
  <1> USE <1>1, LabelFacts, GotoMoves, TakesApart
      DEF Typed, TypeOK, disk, locks, jobs, callers, walking
  <1>3. ASSUME NEW o \in Objs, Lookup(o) PROVE Apart(o)
    BY <1>3 DEF Lookup
  <1>4. ASSUME NEW o \in Objs, CopyDone(o) PROVE Apart(o)
    BY <1>4 DEF CopyDone
  <1>5. ASSUME NEW o \in Objs, Finish(o) PROVE Apart(o)
    <2>1. \A p \in Paths : dir'[p] \in {dir[p], None}
      BY <1>5 DEF Finish, Trashed
    <2>2. \A d \in Clients : pc'[d] = pc[d] /\ path'[d] = path[d]
      BY <1>5 DEF Finish
    <2> QED
      BY <1>5, <2>1, <2>2 DEF Finish
  <1>6. ASSUME NEW o \in Objs, TrashRemove(o) \/ Expire(o) PROVE Apart(o)
    BY <1>6 DEF TrashRemove, Expire
  <1>7. ASSUME CleanerNext PROVE Apart(Cleaner)
    <2>1. CASE WalkStart
      BY <2>1 DEF WalkStart
    <2>2. CASE WalkHost
      BY <2>2 DEF WalkHost
    <2>3. CASE WalkData
      <3>1. \A d \in Clients : pc'[d] = pc[d] /\ path'[d] = path[d]
        BY <2>3 DEF WalkData
      <3> QED
        BY <2>3, <3>1 DEF WalkData
    <2>4. CASE CleanStat
      BY <2>4 DEF CleanStat
    <2>5. CASE CleanOpen
      BY <2>5 DEF CleanOpen
    <2>6. CASE CleanRename
      <3>1. \A p \in Paths : dir'[p] \in {dir[p], None}
        BY <2>6 DEF CleanRename, Trashed
      <3>2. \A d \in Clients : pc'[d] = pc[d]
        BY <2>6 DEF CleanRename
      <3> QED
        BY <2>6, <3>1, <3>2 DEF CleanRename
    <2> QED
      BY <1>7, <2>1, <2>2, <2>3, <2>4, <2>5, <2>6 DEF CleanerNext
  <1>8. ASSUME UNCHANGED vars PROVE Apart(Cleaner)
    BY <1>8 DEF vars
  <1> QED
    BY <1>2, <1>3, <1>4, <1>5, <1>6, <1>7, <1>8 DEF DownloadNext

-----------------------------------------------------------------------------
\* Get does not purge: its labels are none of a purge's.
LEMMA GetPurges ==
  ASSUME Typed, NEW c \in Clients, PurgesPath(c), PurgesHosts(c), GetStep(c)
  PROVE  PurgesPath(c)' /\ PurgesHosts(c)'
  <1>1. pc[c] \in {"lookup", "exists", "request", "mkdir", "create", "info", "register", "open"}
    BY DEF GetStep, Lookup, GetUpdating, GetForgets, GetHit, GetUnreadable, GetMissing,
           GetRequestError, GetReply, GetReplyStuck, GetMkdir, GetCreate, GetCreateFails, GetInfo,
           GetInfoFails, GetRegister, GetOpen
  <1>2. op[c] \notin {"purge", "purgehost", "purgeall"}
    BY <1>1 DEF PurgesPath, PurgesHosts, Writing
  <1>3. op' = op
    BY DEF GetStep, Lookup, GetUpdating, GetForgets, GetHit, GetUnreadable, GetMissing,
           GetRequestError, GetReply, GetReplyStuck, GetMkdir, GetCreate, GetCreateFails, GetInfo,
           GetInfoFails, GetRegister, GetOpen, callers
  <1> QED
    BY <1>2, <1>3 DEF PurgesPath, PurgesHosts

\* Purge: what is not at the path once the locks are held has gone before, and
\* what is there goes with the rename.
LEMMA PathPurges ==
  ASSUME Typed, NEW c \in Clients, PurgesPath(c), PurgesHosts(c),
         Locking(c) \/ Unlock(c) \/ Purge(c) \/ PurgeRename(c)
  PROVE  PurgesPath(c)' /\ PurgesHosts(c)'
  <1>1. c \in Procs /\ c \notin Objs /\ c # Cleaner /\ path[c] \in Paths
    BY DEF Procs, Typed, TypeOK
  <1>2. before[c] \subseteq Objs /\ None \notin before[c]
    BY DEF Typed, TypeOK
  <1>3. pc[c] \in {"host", "data", "unlock", "stat", "rename"} /\ op' = op /\ before' = before
    BY DEF Locking, RLockHost, LockData, Unlock, Purge, PurgeRename, callers
  <1>4. op[c] \notin {"purgehost", "purgeall"}
    BY <1>3 DEF PurgesHosts, Writing
  <1>5. PurgesHosts(c)'
    BY <1>3, <1>4 DEF PurgesHosts
  <1>6. ASSUME op[c] = "purge" PROVE PurgesPath(c)'
    <2>1. /\ pc[c] \in {"host", "data", "stat", "rename", "unlock"} /\ Rest(c) \subseteq {path[c]}
          /\ pc[c] = "unlock" /\ GoesOn(c) => Rest(c) = {}
      BY <1>3, <1>6 DEF PurgesPath
    <2>2. CASE Locking(c)
      <3>1. /\ pc'[c] \in {"data", "stat"}
            /\ UNCHANGED <<dir, path>>
        BY <1>1, <1>6, <2>2, LabelFacts, ClientMoves
        DEF Locking, RLockHost, LockData, Section, disk, jobs, Typed
      <3> QED
        BY <1>3, <2>1, <3>1 DEF PurgesPath, Rest
    <2>3. CASE Unlock(c)
      <3>1. pc[c] = "unlock" /\ UNCHANGED <<dir, res>>
        BY <2>3 DEF Unlock, disk, callers
      <3>2. pc'[c] \in {"return", "stream", "fatal"}
        BY <1>1, <2>3, LabelFacts, ClientMoves DEF Unlock, Outside, Typed
      <3> QED
        BY <1>3, <2>1, <3>1, <3>2 DEF PurgesPath, Rest, GoesOn
    <2>4. CASE Purge(c)
      <3>1. UNCHANGED <<dir, path>> /\ Rest(c)' = Rest(c)
        BY <1>3, <2>4 DEF Purge, disk, jobs, Rest
      <3>2. \/ dir[path[c]] = None /\ pc'[c] = "unlock"
            \/ pc'[c] = "rename"
        BY <2>4, LabelFacts, ClientMoves, LeaveMoves DEF Purge, Typed
      <3>3. dir[path[c]] = None => Rest(c) = {}
        BY <1>2, <2>1 DEF Rest
      <3> QED
        BY <2>1, <3>1, <3>2, <3>3 DEF PurgesPath
    <2>5. CASE PurgeRename(c)
      <3>1. path' = path /\ pc'[c] = "unlock"
        BY <2>5, LabelFacts, LeaveMoves DEF PurgeRename, jobs, Typed
      <3>2. CASE Trashed(path[c])
        <4>1. dir' = [dir EXCEPT ![path[c]] = None]
          BY <3>2 DEF Trashed
        <4>2. Rest(c)' = {}
          BY <1>2, <1>3, <2>1, <4>1 DEF Rest, Typed, TypeOK
        <4> QED
          BY <3>1, <4>2 DEF PurgesPath
      <3>3. CASE ~Trashed(path[c])
        <4>1. Leave(c, "error") /\ dir' = dir
          BY <2>5, <3>3 DEF PurgeRename
        <4>2. res'[c] = "error"
          BY <4>1, LabelFacts, LeaveMoves DEF Typed
        <4>3. Rest(c)' = Rest(c) /\ ~GoesOn(c)'
          BY <1>3, <4>1, <4>2 DEF Rest, GoesOn
        <4> QED
          BY <2>1, <3>1, <4>3 DEF PurgesPath
      <3> QED
        BY <3>2, <3>3
    <2> QED
      BY <2>2, <2>3, <2>4, <2>5
  <1>7. op[c] # "purge" => PurgesPath(c)'
    BY <1>3 DEF PurgesPath
  <1> QED
    BY <1>5, <1>6, <1>7

\* PurgeHost and PurgeAll: a host that is not there has no data left, and one
\* that is renamed takes its data with it.
LEMMA HostPurges ==
  ASSUME Typed, Grounded, NEW c \in Clients, PurgesPath(c), PurgesHosts(c),
         Announce(c) \/ HostStat(c) \/ HostRename(c) \/ HostUnlock(c) \/ PurgeAllCanceled(c)
  PROVE  PurgesPath(c)' /\ PurgesHosts(c)'
  <1>1. before[c] \subseteq Objs /\ None \notin before[c] /\ c \in Procs
    BY DEF Typed, TypeOK, Procs
  <1>2. /\ pc[c] \in {"announce", "drain", "hostrename", "hostunlock"}
        /\ op' = op /\ before' = before
    BY DEF Announce, HostStat, HostRename, HostUnlock, PurgeAllCanceled, callers
  <1>3. op[c] # "purge"
    BY <1>2 DEF PurgesPath
  <1>4. PurgesPath(c)'
    BY <1>2, <1>3 DEF PurgesPath
  <1>5. ASSUME op[c] \in {"purgehost", "purgeall"} PROVE PurgesHosts(c)'
    <2>1. /\ pc[c] \in {"announce", "drain", "hostrename"}
               => \A p \in Rest(c) : HostOf[p] \in todo[c]
          /\ pc[c] = "hostunlock" /\ GoesOn(c) => \A p \in Rest(c) : HostOf[p] \in Left(c)
      BY <1>5 DEF PurgesHosts
    <2>2. CASE Announce(c)
      <3>1. pc[c] = "announce" /\ pc'[c] = "drain" /\ UNCHANGED <<dir, todo>>
        BY <2>2, LabelFacts, ClientMoves DEF Announce, disk, callers, Typed
      <3> QED
        BY <1>2, <2>1, <3>1 DEF PurgesHosts, Writing, Rest
    <2>3. CASE HostStat(c)
      <3>1. pc[c] = "drain" /\ UNCHANGED <<dir, todo>> /\ Rest(c)' = Rest(c) /\ Left(c)' = Left(c)
        BY <1>2, <2>3 DEF HostStat, disk, Rest, Left, Target
      <3>2. CASE Target(c) \in hostDirs
        <4>1. pc'[c] = "hostrename"
          BY <2>3, <3>2, LabelFacts, ClientMoves DEF HostStat, Typed
        <4> QED
          BY <2>1, <3>1, <4>1 DEF PurgesHosts, Writing
      <3>3. CASE Target(c) \notin hostDirs
        <4>1. pc'[c] = "hostunlock"
          BY <2>3, <3>3, LabelFacts, ClientMoves DEF HostStat, Typed
        <4>2. \A p \in Rest(c) : HostOf[p] \in Left(c)
          BY <1>1, <2>1, <3>1, <3>3 DEF Grounded, Rest, Left
        <4> QED
          BY <3>1, <4>1, <4>2 DEF PurgesHosts, Writing
      <3> QED
        BY <3>2, <3>3
    <2>4. CASE HostRename(c)
      <3>1. /\ pc[c] = "hostrename" /\ pc'[c] = "hostunlock"
            /\ todo' = todo /\ Left(c)' = Left(c)
        BY <2>4, LabelFacts, ClientMoves DEF HostRename, Left, Target, Typed
      <3>2. CASE dir' = [p \in Paths |-> IF HostOf[p] = Target(c) THEN None ELSE dir[p]]
        <4>1. \A p \in Rest(c)' : p \in Rest(c) /\ HostOf[p] # Target(c)
          BY <1>1, <1>2, <3>2 DEF Rest
        <4>2. \A p \in Rest(c)' : HostOf[p] \in Left(c)
          BY <2>1, <3>1, <4>1 DEF Left
        <4> QED
          BY <3>1, <4>2 DEF PurgesHosts, Writing
      <3>3. CASE res' = [res EXCEPT ![c] = "error"]
        <4>1. ~GoesOn(c)'
          BY <3>3 DEF GoesOn, Typed, TypeOK
        <4> QED
          BY <3>1, <4>1 DEF PurgesHosts, Writing
      <3> QED
        BY <2>4, <3>2, <3>3 DEF HostRename
    <2>5. CASE HostUnlock(c)
      <3>1. pc[c] = "hostunlock" /\ UNCHANGED <<dir, res>>
        BY <2>5 DEF HostUnlock, disk
      <3>2. Rest(c)' = Rest(c) /\ GoesOn(c)' = GoesOn(c)
        BY <1>2, <3>1 DEF Rest, GoesOn
      <3>3. CASE Left(c) # {} /\ GoesOn(c)
        <4>1. pc'[c] = "announce" /\ todo'[c] = Left(c)
          BY <2>5, <3>3, LabelFacts, ClientMoves DEF HostUnlock, Typed, TypeOK
        <4> QED
          BY <2>1, <3>1, <3>2, <3>3, <4>1 DEF PurgesHosts, Writing
      <3>4. CASE ~(Left(c) # {} /\ GoesOn(c))
        <4>1. pc'[c] = "return"
          BY <2>5, <3>4, LabelFacts, ClientMoves DEF HostUnlock, Typed
        <4>2. GoesOn(c) => Rest(c) = {}
          BY <2>1, <3>1, <3>4
        <4> QED
          BY <3>2, <4>1, <4>2 DEF PurgesHosts, Writing
      <3> QED
        BY <3>3, <3>4
    <2>6. CASE PurgeAllCanceled(c)
      <3>1. pc'[c] = "return" /\ res'[c] = "error"
        BY <2>6, LabelFacts, ClientMoves DEF PurgeAllCanceled, Typed, TypeOK
      <3> QED
        BY <3>1 DEF PurgesHosts, Writing, GoesOn
    <2> QED
      BY <2>2, <2>3, <2>4, <2>5, <2>6
  <1>6. op[c] \notin {"purgehost", "purgeall"} => PurgesHosts(c)'
    BY <1>2 DEF PurgesHosts
  <1> QED
    BY <1>4, <1>5, <1>6

\* What a call is to throw away is where it will go; a call that is over, or
\* that the process did not outlive, has nothing to throw away.
LEMMA CallPurges ==
  ASSUME Typed, Undisturbed, Grounded, NEW c \in Clients, Calling(c) \/ Return(c) \/ Restart
  PROVE  PurgesPath(c)' /\ PurgesHosts(c)'
  <1>1. c \in Procs
    BY DEF Procs
  <1>2. ASSUME NEW o \in {"get", "purge"}, NEW p \in Paths, Call(c, o, p)
        PROVE  PurgesPath(c)' /\ PurgesHosts(c)'
    <2>1. op'[c] = o /\ pc'[c] = "host" /\ path'[c] = p /\ dir' = dir
      BY <1>1, <1>2, LabelFacts, ClientMoves DEF Call, Typed, TypeOK, disk
    <2>2. o = "purge" => before'[c] = {dir[p]} \ {None}
      BY <1>2 DEF Call, Typed, TypeOK
    <2>3. o = "purge" => Rest(c)' \subseteq {p}
      BY <2>1, <2>2 DEF Rest, Undisturbed, OnePath
    <2> QED
      BY <2>1, <2>3 DEF PurgesPath, PurgesHosts
  <1>3. ASSUME NEW h \in Hosts, CallPurgeHost(c, h) PROVE PurgesPath(c)' /\ PurgesHosts(c)'
    <2>1. op'[c] = "purgehost" /\ pc'[c] = "announce" /\ todo'[c] = {h}
      BY <1>1, <1>3, LabelFacts, ClientMoves DEF CallPurgeHost, Typed, TypeOK
    <2>2. /\ before'[c] = {dir[p] : p \in {x \in Paths : HostOf[x] = h}} \ {None}
          /\ dir' = dir
      BY <1>3 DEF CallPurgeHost, Typed, TypeOK, disk
    <2>3. \A p \in Rest(c)' : HostOf[p] = h
      BY <2>2 DEF Rest, Undisturbed, OnePath
    <2> QED
      BY <2>1, <2>3 DEF PurgesPath, PurgesHosts, Writing
  <1>4. CASE CallPurgeAll(c)
    <2>1. /\ op'[c] = "purgeall" /\ todo'[c] = hostDirs
          /\ pc'[c] = IF hostDirs = {} THEN "return" ELSE "announce"
      BY <1>1, <1>4, LabelFacts, ClientMoves DEF CallPurgeAll, Typed, TypeOK
    <2>2. before'[c] = Present /\ dir' = dir
      BY <1>4 DEF CallPurgeAll, Typed, TypeOK, disk
    <2>3. \A p \in Rest(c)' : HostOf[p] \in hostDirs
      BY <2>2 DEF Rest, Present, Grounded
    <2>4. hostDirs = {} => Rest(c)' = {}
      BY <2>3
    <2> QED
      BY <2>1, <2>3, <2>4 DEF PurgesPath, PurgesHosts, Writing
  <1>5. CASE Return(c) \/ Restart
    <2>1. op'[c] = "get"
      BY <1>5 DEF Return, Restart, Typed, TypeOK
    <2> QED
      BY <2>1 DEF PurgesPath, PurgesHosts
  <1> QED
    BY <1>2, <1>3, <1>4, <1>5 DEF Calling

-----------------------------------------------------------------------------
\* Nothing is there in the initial states.
LEMMA SweptInit == Init => Swept
  BY DEF Init, Swept, Grounded, PurgesPath, PurgesHosts

\* The steps together: each is apart from all clients but the one that takes it.
LEMMA SweptStep == Typed /\ Undisturbed /\ Swept /\ [Next]_vars => Swept'
  <1> SUFFICES ASSUME Typed, Undisturbed, Swept PROVE [Next]_vars => Swept'
    OBVIOUS
  <1>1. Grounded /\ \A c \in Clients : PurgesPath(c) /\ PurgesHosts(c)
    BY DEF Swept
  <1>2. ASSUME NEW q, Apart(q), q \in Clients => PurgesPath(q)' /\ PurgesHosts(q)'
        PROVE  Swept'
    <2>1. \A d \in Clients : PurgesPath(d)' /\ PurgesHosts(d)'
      BY <1>1, <1>2, SparesPurges DEF Apart
    <2> QED
      BY <1>2, <2>1 DEF Apart, Swept
  <1>3. ASSUME NEW q \in Procs, Locking(q) \/ Unlock(q) PROVE Swept'
    BY <1>1, <1>2, <1>3, LockApart, PathPurges
  <1>4. ASSUME Restart PROVE Swept'
    <2>1. Grounded'
      BY <1>1, <1>4 DEF Grounded, Restart, disk
    <2> QED
      BY <1>1, <1>4, <2>1, CallPurges DEF Swept
  <1>5. ASSUME NEW c \in Clients, ClientNext(c) PROVE Swept'
    <2>1. CASE GetStep(c)
      BY <1>1, <1>2, <2>1, GetApart, GetPurges
    <2>2. CASE Purge(c) \/ PurgeRename(c)
      BY <1>1, <1>2, <2>2, GetApart, PathPurges
    <2>3. CASE Announce(c) \/ HostStat(c) \/ HostRename(c) \/ HostUnlock(c) \/ PurgeAllCanceled(c)
      BY <1>1, <1>2, <2>3, CallApart, HostPurges
    <2>4. CASE Calling(c) \/ Return(c)
      BY <1>1, <1>2, <2>4, CallApart, CallPurges
    <2>5. CASE Fatal(c)
      BY <1>4, <2>5 DEF Fatal
    <2> QED
      BY <1>5, <2>1, <2>2, <2>3, <2>4, <2>5 DEF ClientNext, PurgeStep
  <1>6. ASSUME \/ CleanerNext \/ UNCHANGED vars
               \/ \E o \in Objs : DownloadNext(o) \/ TrashRemove(o) \/ Expire(o)
        PROVE  Swept'
    BY <1>1, <1>6, OtherApart, SparesPurges DEF Swept
  <1> QED
    BY <1>3, <1>4, <1>5, <1>6 DEF Next, Crash

\* When PurgeAll reports no error but ErrNotExists, nothing is left of what was
\* in content/ when it was called, for any number of hosts and calls.
THEOREM PurgeAllDone == Spec => []PurgeAllComplete
  <1>1. Typed /\ Swept => PurgeAllComplete
    BY DEF Swept, PurgesHosts, Rest, GoesOn, Present, PurgeAllComplete
  <1> QED
    BY <1>1, TypedInit, TypedStep, UndisturbedInit, UndisturbedStep, SweptInit, SweptStep, PTL
    DEF Spec

\* A purge that is answered "purged" or "not exists" has left nothing of what it
\* was asked for and was there when it was called.
THEOREM AnsweredIsGone == Spec => []PurgedIsGone
  <1>1. Typed /\ Swept => PurgedIsGone
    <2> SUFFICES ASSUME Swept, NEW c \in Clients, pc[c] = "return", op[c] \in Purges,
                        Status(c) \in {200, 404}
                 PROVE  before[c] \cap Present = {}
      BY DEF PurgedIsGone
    <2>1. GoesOn(c)
      BY DEF Status, GoesOn
    <2>2. Rest(c) = {}
      BY <2>1 DEF Swept, PurgesPath, PurgesHosts, Purges
    <2> QED
      BY <2>2 DEF Rest, Present
  <1> QED
    BY <1>1, TypedInit, TypedStep, UndisturbedInit, UndisturbedStep, SweptInit, SweptStep, PTL
    DEF Spec
=============================================================================
