------------------------ MODULE StoreDownloadProofs ------------------------
(***************************************************************************)
(* The downloads of the store, the map they are registered in and the      *)
(* bodies they fill, for any number of clients, data directories, paths    *)
(* and hosts.  Two URLs with the same key have the same data path:         *)
(* KeysApart.  For the bodies, moreover, the process does not die (by      *)
(* itself or in the panic after a request error) and data can be moved to  *)
(* trash: Unharmed.  Under the same two hypotheses the store is, for those *)
(* who call it, the cache of module Cache.                                 *)
(***************************************************************************)
EXTENDS StoreProofs

USE KindAssumption, PathAssumption, IdAssumption

\* The hypothesis that key URLs tell data paths apart.
KeysApart == \A p, r \in Paths : KeyOf[p] = KeyOf[r] => p = r

\* Where the goroutine of a registered download is.
Live == {"copy", "host", "data", "lookup", "finish"}

\* What a goroutine has read from downloads under its locks is still there.
Fresh(q) == pc[q] \in {"exists", "finish"} => found[q] = downloads[Key(q)]

\* A call that creates data has no registration for it; it has no result to
\* serve before it leaves, and then it waits for the download it reads.
Tracks(c) ==
  /\ pc[c] \in {"request", "mkdir", "create", "info", "register"} => downloads[Key(c)] = None
  /\ res[c] \in Served => pc[c] \in {"unlock", "stream"}
  /\ res[c] \in {"updating", "miss", "expired"} => await[c] = opened[c]

\* Data at the path of a registered download is the data it fills.
Matches(p) == dir[p] # None /\ downloads[KeyOf[p]] # None => downloads[KeyOf[p]] = dir[p]

Registered == /\ \A q \in Procs : Fresh(q)
              /\ \A c \in Clients : Tracks(c)
              /\ \A p \in Paths : Matches(p)
              /\ RegistrationSettles

-----------------------------------------------------------------------------
\* A step of q that adds no registration, removes at most the one of the path
\* q has locked, and puts data in content/ only where nothing is registered.
Keeps(q) ==
  /\ \A r \in Procs : r # q => pc'[r] = pc[r] /\ path'[r] = path[r] /\ found'[r] = found[r]
  /\ \A d \in Clients : d # q => /\ res'[d] = res[d] /\ await'[d] = await[d]
                                 /\ opened'[d] = opened[d]
  /\ \A k \in Keys : \/ downloads'[k] = downloads[k]
                     \/ downloads'[k] = None /\ k = Key(q) /\ pc[q] \in Critical
  /\ \A p \in Paths : dir'[p] \in {dir[p], None} \/ downloads'[KeyOf[p]] = None
  /\ q \in Objs => \A k \in Keys : downloads'[k] = q => pc'[q] \in Live /\ path'[q] = path[q]

\* Such a step keeps Registered if it keeps what q itself relies on.
LEMMA KeepsRegistered ==
  ASSUME KeysApart, Typed, Typed', Undisturbed, Registered, NEW q \in Procs, Keeps(q), Fresh(q)',
         q \in Clients => Tracks(q)'
  PROVE  Registered'
  <1>1. ASSUME NEW r \in Procs, r # q, pc[r] \in Critical
        PROVE  downloads'[Key(r)] = downloads[Key(r)] /\ Key(r)' = Key(r)
    <2>1. path[r] \in Paths /\ path[q] \in Paths /\ Key(r) \in Keys
      BY DEF Typed, TypeOK, Key
    <2>2. dataW[path[r]] = {r} /\ (pc[q] \in Critical => dataW[path[q]] = {q})
      BY <1>1 DEF Undisturbed, DataLocked
    <2>3. pc[q] \in Critical => Key(r) # Key(q)
      BY <1>1, <2>1, <2>2 DEF KeysApart, Key
    <2>4. Key(r)' = Key(r)
      BY <1>1 DEF Keeps, Key
    <2> QED
      BY <2>1, <2>3, <2>4 DEF Keeps
  <1>2. ASSUME NEW r \in Procs PROVE Fresh(r)'
    <2>1. CASE r # q
      <3>1. Fresh(r) /\ pc'[r] = pc[r] /\ found'[r] = found[r]
        BY <2>1 DEF Registered, Keeps
      <3> QED
        BY <1>1, <2>1, <3>1 DEF Fresh, Critical
    <2> QED
      BY <2>1
  <1>3. ASSUME NEW d \in Clients PROVE Tracks(d)'
    <2>1. CASE d # q
      <3>1. d \in Procs
        BY DEF Procs
      <3>2. /\ Tracks(d) /\ pc'[d] = pc[d] /\ res'[d] = res[d]
            /\ await'[d] = await[d] /\ opened'[d] = opened[d]
        BY <2>1, <3>1 DEF Registered, Keeps
      <3> QED
        BY <1>1, <2>1, <3>1, <3>2 DEF Tracks, Critical
    <2> QED
      BY <2>1
  <1>4. ASSUME NEW p \in Paths PROVE Matches(p)'
    <2>1. KeyOf[p] \in Keys
      OBVIOUS
    <2> QED
      BY <2>1 DEF Registered, Matches, Keeps
  <1>5. ASSUME NEW k \in Keys, downloads'[k] # None
        PROVE  /\ pc'[downloads'[k]] \in Live
               /\ KeyOf[path'[downloads'[k]]] = k
    <2>1. downloads'[k] = downloads[k]
      BY <1>5 DEF Keeps
    <2>2. downloads[k] \in Objs /\ downloads[k] \in Procs
      BY <1>5, <2>1 DEF Typed, TypeOK, NObjs, Procs
    <2>3. pc[downloads[k]] \in Live /\ KeyOf[path[downloads[k]]] = k
      BY <1>5, <2>1 DEF Registered, RegistrationSettles, Live
    <2> QED
      BY <2>1, <2>2, <2>3 DEF Keeps
  <1> QED
    BY <1>2, <1>3, <1>4, <1>5 DEF Registered, RegistrationSettles, Live

\* The steps of Get, but for GetRegister, and of Purge.
LEMMA ClientKeeps ==
  ASSUME Typed, Undisturbed, Registered, NEW c \in Clients,
         GetStep(c) \/ Purge(c) \/ PurgeRename(c), ~GetRegister(c)
  PROVE  Keeps(c) /\ Fresh(c)' /\ Tracks(c)'
  <1>1. /\ c \in Procs /\ c \notin Objs /\ path[c] \in Paths /\ Key(c) \in Keys
        /\ Fresh(c) /\ Tracks(c) /\ Settled(c) /\ Matches(path[c])
    BY DEF Procs, Registered, Undisturbed, Typed, TypeOK, Key
  <1> USE <1>1, LabelFacts
      DEF Typed, TypeOK, Keeps, Fresh, Tracks, Key, Critical, Served, disk, locks, jobs, callers
  <1>2. CASE Lookup(c)
    BY <1>2, ClientMoves DEF Lookup
  <1>3. CASE GetUpdating(c)
    BY <1>3, LeaveMoves DEF GetUpdating, Matches
  <1>4. CASE GetForgets(c)
    BY <1>4, ClientMoves DEF GetForgets
  <1>5. CASE GetHit(c) \/ GetUnreadable(c)
    BY <1>5, LeaveMoves DEF GetHit, GetUnreadable
  <1>6. CASE GetMissing(c)
    BY <1>6, ClientMoves DEF GetMissing
  <1>7. CASE GetRequestError(c) \/ GetReplyStuck(c)
    BY <1>7, LeaveMoves DEF GetRequestError, GetReplyStuck
  <1>8. CASE GetReply(c)
    BY <1>8, ReplyFacts, ClientMoves, LeaveMoves DEF GetReply, Trashed
  <1>9. CASE GetMkdir(c)
    BY <1>9, ClientMoves DEF GetMkdir
  <1>10. CASE GetCreate(c)
    BY <1>10, ClientMoves DEF GetCreate
  <1>11. CASE GetCreateFails(c)
    BY <1>11, LeaveMoves DEF GetCreateFails
  <1>12. CASE GetInfo(c)
    BY <1>12, ClientMoves DEF GetInfo
  <1>13. CASE GetInfoFails(c)
    BY <1>13, LeaveMoves DEF GetInfoFails
  <1>14. CASE GetOpen(c)
    BY <1>14, LeaveMoves DEF GetOpen, Settled
  <1>15. CASE Purge(c)
    BY <1>15, ClientMoves, LeaveMoves DEF Purge
  <1>16. CASE PurgeRename(c)
    BY <1>16, LeaveMoves DEF PurgeRename, Trashed
  <1> QED
    BY <1>2, <1>3, <1>4, <1>5, <1>6, <1>7, <1>8, <1>9, <1>10, <1>11, <1>12, <1>13, <1>14, <1>15,
       <1>16
    DEF GetStep

\* Locking and unlocking.  A goroutine that lets its locks go is not that of a
\* registered download any more.
LEMMA LockKeeps ==
  ASSUME Typed, Undisturbed, Registered, NEW q \in Procs, Locking(q) \/ Unlock(q)
  PROVE  Keeps(q) /\ Fresh(q)' /\ (q \in Clients => Tracks(q)')
  <1>1. path[q] \in Paths /\ Key(q) \in Keys /\ (q \in Clients => Tracks(q))
    BY DEF Registered, Typed, TypeOK, Key
  <1>2. \A k \in Keys : q \in Objs /\ downloads[k] = q => pc[q] \in Live
    BY DEF Registered, RegistrationSettles, Live
  <1> USE <1>1, <1>2, LabelFacts, GotoMoves
      DEF Typed, TypeOK, Keeps, Fresh, Tracks, Key, Live, Served, disk, jobs, callers
  <1>3. CASE RLockHost(q)
    BY <1>3 DEF RLockHost
  <1>4. CASE LockData(q)
    BY <1>4 DEF LockData, Section
  <1>5. CASE Unlock(q)
    BY <1>5 DEF Unlock, Outside
  <1> QED
    BY <1>3, <1>4, <1>5 DEF Locking

\* Calling, returning and the steps of PurgeHost and PurgeAll.
LEMMA CallKeeps ==
  ASSUME Typed, Registered, NEW c \in Clients,
         \/ Calling(c) \/ Announce(c) \/ HostStat(c) \/ HostRename(c) \/ HostUnlock(c)
         \/ PurgeAllCanceled(c) \/ Return(c)
  PROVE  Keeps(c) /\ Fresh(c)' /\ Tracks(c)'
  <1>1. c \in Procs /\ c \notin Objs /\ Tracks(c)
    BY DEF Procs, Registered
  <1> USE <1>1, LabelFacts, ClientMoves
      DEF Typed, TypeOK, Keeps, Fresh, Tracks, Served, disk, locks, jobs, callers
  <1>2. ASSUME NEW o \in {"get", "purge"}, NEW p \in Paths, Call(c, o, p)
        PROVE  Keeps(c) /\ Fresh(c)' /\ Tracks(c)'
    BY <1>2 DEF Call
  <1>3. ASSUME NEW h \in Hosts, CallPurgeHost(c, h) PROVE Keeps(c) /\ Fresh(c)' /\ Tracks(c)'
    BY <1>3 DEF CallPurgeHost
  <1>4. CASE CallPurgeAll(c)
    BY <1>4 DEF CallPurgeAll
  <1>5. CASE Announce(c)
    BY <1>5 DEF Announce
  <1>6. CASE HostStat(c)
    BY <1>6 DEF HostStat
  <1>7. CASE HostRename(c)
    BY <1>7 DEF HostRename
  <1>8. CASE HostUnlock(c)
    BY <1>8 DEF HostUnlock
  <1>9. CASE PurgeAllCanceled(c)
    BY <1>9 DEF PurgeAllCanceled
  <1>10. CASE Return(c)
    BY <1>10 DEF Return
  <1> QED
    BY <1>2, <1>3, <1>4, <1>5, <1>6, <1>7, <1>8, <1>9, <1>10 DEF Calling

\* The download goroutine: what is registered as its own it removes.
LEMMA DownloadKeeps ==
  ASSUME Typed, Registered, NEW o \in Objs, DownloadNext(o)
  PROVE  Keeps(o) /\ Fresh(o)'
  <1>1. o \in Procs /\ path[o] \in Paths /\ Key(o) \in Keys /\ Fresh(o)
    BY DEF Procs, Registered, Typed, TypeOK, Key
  <1>2. \A k \in Keys : downloads[k] = o => k = Key(o)
    BY DEF Registered, RegistrationSettles, Key
  <1> USE <1>1, LabelFacts, GotoMoves
      DEF Typed, TypeOK, Keeps, Fresh, Live, Key, Critical, disk, locks, jobs, callers
  <1>3. CASE CopyDone(o)
    BY <1>3 DEF CopyDone
  <1>4. CASE Lookup(o)
    BY <1>4 DEF Lookup
  <1>5. CASE Finish(o)
    <2>1. /\ dir' = dir \/ dir' = [dir EXCEPT ![path[o]] = None]
          /\ downloads' = Unregistered(o)
          /\ pc[o] = "finish"
      BY <1>5 DEF Finish, Trashed
    <2>2. \A k \in Keys : /\ downloads'[k] # o
                          /\ downloads'[k] = downloads[k] \/ (downloads'[k] = None /\ k = Key(o))
      BY <1>2, <2>1 DEF Unregistered, Mine
    <2> QED
      BY <1>5, <2>1, <2>2 DEF Finish
  <1> QED
    BY <1>3, <1>4, <1>5 DEF DownloadNext

\* contentCleaner.
LEMMA CleanerKeeps ==
  ASSUME Typed, CleanerNext
  PROVE  Keeps(Cleaner) /\ Fresh(Cleaner)'
  <1>1. Cleaner \in Procs /\ Cleaner \notin Clients \cup Objs
    BY DEF Procs
  <1> USE <1>1, LabelFacts, GotoMoves
      DEF Typed, TypeOK, Keeps, Fresh, disk, locks, jobs, callers
  <1>2. CASE WalkStart \/ WalkHost
    BY <1>2 DEF WalkStart, WalkHost
  <1>3. CASE WalkData
    BY <1>3 DEF WalkData
  <1>4. CASE CleanStat
    BY <1>4 DEF CleanStat
  <1>5. CASE CleanOpen
    BY <1>5 DEF CleanOpen
  <1>6. CASE CleanRename
    BY <1>6 DEF CleanRename, Trashed
  <1> QED
    BY <1>2, <1>3, <1>4, <1>5, <1>6 DEF CleanerNext

\* The registration: its data is at the path of the call, which holds its lock,
\* and its goroutine has not been running.
LEMMA RegisterRegistered ==
  ASSUME KeysApart, Typed, Typed', Undisturbed, Registered, NEW c \in Clients, GetRegister(c)
  PROVE  Registered'
  <1>1. /\ c \in Procs /\ path[c] \in Paths /\ Key(c) \in Keys /\ pc[c] = "register"
        /\ Tracks(c) /\ Settled(c) /\ Creates(c)
    BY DEF Procs, Registered, Undisturbed, Typed, TypeOK, Key, GetRegister
  <1>2. /\ await[c] \in Objs /\ await[c] \in Procs /\ await[c] \notin Clients \cup {Cleaner, None}
        /\ pc[await[c]] = "idle" /\ dir[path[c]] = await[c]
    BY <1>1 DEF Settled, Creates, Procs
  <1>3. /\ pc'[c] = "open" /\ pc'[await[c]] = "copy" /\ path'[await[c]] = path[c]
        /\ downloads'[Key(c)] = await[c]
        /\ \A k \in Keys : k # Key(c) => downloads'[k] = downloads[k]
        /\ \A r \in Procs : r # c /\ r # await[c] => pc'[r] = pc[r]
        /\ \A r \in Procs : r # await[c] => path'[r] = path[r]
        /\ UNCHANGED <<dir, found, res, await, opened>>
    BY <1>1, <1>2 DEF GetRegister, Typed, TypeOK, disk, callers
  <1>4. ASSUME NEW r \in Procs, r # c, pc[r] \in Critical
        PROVE  downloads'[Key(r)] = downloads[Key(r)] /\ Key(r)' = Key(r)
    <2>1. path[r] \in Paths /\ Key(r) \in Keys /\ r # await[c]
      BY <1>2, <1>4 DEF Typed, TypeOK, Key, Critical
    <2>2. dataW[path[r]] = {r}
      BY <1>4 DEF Undisturbed, DataLocked
    <2>3. dataW[path[c]] = {c}
      BY <1>1 DEF Undisturbed, DataLocked, Critical
    <2>4. Key(r) # Key(c)
      BY <1>1, <1>4, <2>1, <2>2, <2>3 DEF KeysApart, Key
    <2> QED
      BY <1>3, <2>1, <2>4 DEF Key
  <1>5. ASSUME NEW r \in Procs PROVE Fresh(r)'
    <2>1. CASE r \in {c, await[c]}
      BY <1>3, <2>1 DEF Fresh
    <2>2. CASE r \notin {c, await[c]}
      <3>1. Fresh(r) /\ pc'[r] = pc[r] /\ found'[r] = found[r]
        BY <1>3, <2>2 DEF Registered
      <3> QED
        BY <1>4, <2>2, <3>1 DEF Fresh, Critical
    <2> QED
      BY <2>1, <2>2
  <1>6. ASSUME NEW d \in Clients PROVE Tracks(d)'
    <2>1. Tracks(d) /\ d \in Procs /\ d # await[c]
      BY <1>2 DEF Registered, Procs
    <2>2. CASE d = c
      BY <1>1, <1>3, <2>1, <2>2 DEF Tracks
    <2>3. CASE d # c
      BY <1>3, <1>4, <2>1, <2>3 DEF Tracks, Critical
    <2> QED
      BY <2>2, <2>3
  <1>7. ASSUME NEW p \in Paths PROVE Matches(p)'
    <2>1. CASE p = path[c]
      BY <1>2, <1>3, <2>1 DEF Matches, Key
    <2>2. CASE p # path[c]
      <3>1. KeyOf[p] \in Keys /\ KeyOf[p] # Key(c)
        BY <1>1, <2>2 DEF KeysApart, Key
      <3> QED
        BY <1>3, <3>1 DEF Registered, Matches
    <2> QED
      BY <2>1, <2>2
  <1>8. ASSUME NEW k \in Keys, downloads'[k] # None
        PROVE  /\ pc'[downloads'[k]] \in Live
               /\ KeyOf[path'[downloads'[k]]] = k
    <2>1. CASE k = Key(c)
      BY <1>3, <2>1 DEF Live, Key
    <2>2. CASE k # Key(c)
      <3>1. /\ downloads'[k] = downloads[k]
            /\ downloads[k] \in Objs /\ downloads[k] \in Procs /\ downloads[k] # c
        BY <1>3, <1>8, <2>2 DEF Typed, TypeOK, NObjs, Procs
      <3>2. pc[downloads[k]] \in Live /\ KeyOf[path[downloads[k]]] = k
        BY <1>8, <3>1 DEF Registered, RegistrationSettles, Live
      <3>3. downloads[k] # await[c]
        BY <1>2, <3>2 DEF Live
      <3> QED
        BY <1>3, <3>1, <3>2, <3>3
    <2> QED
      BY <2>1, <2>2
  <1> QED
    BY <1>5, <1>6, <1>7, <1>8 DEF Registered, RegistrationSettles, Live

\* The process starts over: nothing is registered, nobody is served.
LEMMA RestartRegistered ==
  ASSUME Typed, Restart
  PROVE  Registered'
  BY DEF Restart, Registered, Fresh, Tracks, Matches, RegistrationSettles, Served, Procs

\* A step that changes nothing of what Registered speaks about.
LEMMA AsideRegistered ==
  ASSUME Registered, UNCHANGED <<dir, downloads, pc, path, found, res, await, opened>>
  PROVE  Registered'
  BY DEF Registered, Fresh, Tracks, Matches, RegistrationSettles, Key

\* Registered holds at first, and every step keeps it.
LEMMA RegisteredInit == Init => Registered
  BY DEF Init, Registered, Fresh, Tracks, Matches, RegistrationSettles, Served, Procs

\* The steps together.
LEMMA RegisteredStep ==
  ASSUME KeysApart
  PROVE  Typed /\ Typed' /\ Undisturbed /\ Registered /\ [Next]_vars => Registered'
  <1> SUFFICES ASSUME Typed, Typed', Undisturbed, Registered PROVE [Next]_vars => Registered'
    OBVIOUS
  <1>1. ASSUME NEW q \in Procs, Locking(q) \/ Unlock(q) PROVE Registered'
    BY <1>1, LockKeeps, KeepsRegistered
  <1>2. ASSUME NEW c \in Clients, ClientNext(c) PROVE Registered'
    <2>1. c \in Procs
      BY DEF Procs
    <2>2. CASE (GetStep(c) \/ Purge(c) \/ PurgeRename(c)) /\ ~GetRegister(c)
      BY <2>1, <2>2, ClientKeeps, KeepsRegistered
    <2>3. CASE GetRegister(c)
      BY <2>3, RegisterRegistered
    <2>4. CASE \/ Calling(c) \/ Announce(c) \/ HostStat(c) \/ HostRename(c) \/ HostUnlock(c)
               \/ PurgeAllCanceled(c) \/ Return(c)
      BY <2>1, <2>4, CallKeeps, KeepsRegistered
    <2>5. CASE Fatal(c)
      BY <2>5, RestartRegistered DEF Fatal
    <2> QED
      BY <1>2, <2>2, <2>3, <2>4, <2>5 DEF ClientNext, PurgeStep
  <1>3. ASSUME NEW o \in Objs, DownloadNext(o) PROVE Registered'
    <2>1. o \in Procs /\ o \notin Clients
      BY DEF Procs
    <2> QED
      BY <1>3, <2>1, DownloadKeeps, KeepsRegistered
  <1>4. ASSUME NEW o \in Objs, TrashRemove(o) \/ Expire(o) PROVE Registered'
    BY <1>4, AsideRegistered DEF TrashRemove, Expire, jobs, callers
  <1>5. CASE CleanerNext
    <2>1. Cleaner \in Procs /\ Cleaner \notin Clients
      BY DEF Procs
    <2> QED
      BY <1>5, <2>1, CleanerKeeps, KeepsRegistered
  <1>6. CASE Crash
    BY <1>6, RestartRegistered DEF Crash
  <1>7. CASE UNCHANGED vars
    BY <1>7, AsideRegistered DEF vars, disk, jobs, callers
  <1> QED
    BY <1>1, <1>2, <1>3, <1>4, <1>5, <1>6, <1>7 DEF Next

\* Where key URLs tell data paths apart, a registration is that of a running
\* download goroutine for its key, through purges, expiry and crashes.
THEOREM Settles == ASSUME KeysApart PROVE Spec => []RegistrationSettles
  <1>1. Registered => RegistrationSettles
    BY DEF Registered
  <1> QED
    BY <1>1, TypedInit, TypedStep, UndisturbedInit, UndisturbedStep, RegisteredInit,
       RegisteredStep, PTL
    DEF Spec

\* A response that follows a download waits for the download that fills the
\* file it reads.
THEOREM AwaitsOwn == ASSUME KeysApart PROVE Spec => []AwaitsOwnDownload
  <1>1. Registered => AwaitsOwnDownload
    BY DEF Registered, Tracks, AwaitsOwnDownload
  <1> QED
    BY <1>1, TypedInit, TypedStep, UndisturbedInit, UndisturbedStep, RegisteredInit,
       RegisteredStep, PTL
    DEF Spec

-----------------------------------------------------------------------------
(* A download that ends late.                                               *)

\* Nothing but Finish takes a download goroutine from finish to unlock.
LEMMA OnlyFinish ==
  ASSUME Typed, Undisturbed, Registered, NEW o \in Objs, pc[o] = "finish", pc'[o] = "unlock"
  PROVE  [Next]_vars => Finish(o)
  <1>1. o \in Procs /\ o \notin Clients \cup {Cleaner}
    BY DEF Procs
  <1>2. ASSUME NEW q \in Procs, q # o PROVE ~Keeps(q)
    BY <1>1, <1>2 DEF Keeps
  <1>3. ASSUME NEW q \in Procs, Locking(q) \/ Unlock(q) PROVE Finish(o)
    <2>1. q = o
      BY <1>2, <1>3, LockKeeps
    <2> QED
      BY <1>3, <2>1 DEF Locking, RLockHost, LockData, Unlock
  <1>4. ~Restart
    BY <1>1 DEF Restart
  <1>5. ASSUME NEW c \in Clients, ClientNext(c) PROVE Finish(o)
    <2>1. c \in Procs /\ c # o
      BY <1>1 DEF Procs
    <2>2. CASE GetRegister(c)
      BY <1>1, <2>1, <2>2 DEF GetRegister, Typed, TypeOK
    <2> QED
      BY <1>2, <1>4, <1>5, <2>1, <2>2, ClientKeeps, CallKeeps DEF ClientNext, PurgeStep, Fatal
  <1>6. ASSUME NEW r \in Objs, DownloadNext(r) PROVE Finish(o)
    <2>1. r = o
      BY <1>2, <1>6, DownloadKeeps DEF Procs
    <2> QED
      BY <1>6, <2>1 DEF DownloadNext, CopyDone, Lookup
  <1>7. ~CleanerNext
    BY <1>1, <1>2, CleanerKeeps DEF Procs
  <1>8. ASSUME NEW r \in Objs, TrashRemove(r) \/ Expire(r) PROVE FALSE
    BY <1>8 DEF TrashRemove, Expire
  <1>9. pc' # pc
    OBVIOUS
  <1> QED
    BY <1>3, <1>4, <1>5, <1>6, <1>7, <1>8, <1>9 DEF Next, Crash, vars

\* Where dir[path[o]] is not o it is nothing, if o is still registered.
LEMMA FinishHarmless ==
  ASSUME Typed, Registered, NEW o \in Objs, Finish(o), dir[path[o]] # o
  PROVE  dir' = dir /\ (downloads[Key(o)] # o => downloads' = downloads)
  <1>1. /\ o \in Procs /\ path[o] \in Paths /\ o # None
        /\ found[o] = downloads[Key(o)] /\ Matches(path[o])
    BY DEF Procs, Registered, Typed, TypeOK, Fresh, Finish
  <1>2. Mine(o) => dir[path[o]] = None
    BY <1>1 DEF Mine, Matches, Key
  <1>3. dir' = dir
    BY <1>1, <1>2 DEF Finish, Discards, Trashed, Typed, TypeOK
  <1> QED
    BY <1>1, <1>3 DEF Finish, Unregistered, Mine

\* A download that ends after its data was purged or replaced touches neither
\* the data nor the registration that came after it.
THEOREM LateFinish == ASSUME KeysApart PROVE Spec => LateFinishHarmless
  <1>1. Typed /\ Undisturbed /\ Registered /\ [Next]_vars =>
          [\A o \in Objs : pc[o] = "finish" /\ pc'[o] = "unlock" /\ dir[path[o]] # o
             => dir' = dir /\ (downloads[Key(o)] # o => downloads' = downloads)]_vars
    BY OnlyFinish, FinishHarmless
  <1> QED
    BY <1>1, TypedInit, TypedStep, UndisturbedInit, UndisturbedStep, RegisteredInit,
       RegisteredStep, PTL
    DEF Spec, LateFinishHarmless

-----------------------------------------------------------------------------
(* Bodies: what is in content/ and not registered is complete and sound.    *)

\* The hypothesis on the environment.
Unharmed == Faults \cap {"crash", "request", "rename"} = {}

\* A body is incomplete while it is copied, and complete or failed after that.
Fills(o) == /\ pc[o] = "copy" => ~whole[o]
            /\ pc[o] \in {"host", "data", "lookup", "finish"} => whole[o] \/ failed[o]

\* A call creates an empty body, serves as a hit a sound one, and does not panic.
Begins(c) == Creating(c) => ~whole[await[c]]
Hits(c)   == res[c] = "hit" => opened[c] \in Objs /\ Sound(opened[c])
Lasts(c)  == pc[c] # "fatal" /\ res[c] # "panic"

\* A body in content/ that is not sound is registered or about to be.
Traced(p) == dir[p] # None /\ ~Sound(dir[p]) =>
               \/ downloads[KeyOf[p]] = dir[p]
               \/ \E c \in Clients : Creating(c) /\ path[c] = p /\ await[c] = dir[p]

Complete == /\ \A o \in Objs : Fills(o)
            /\ \A c \in Clients : Begins(c) /\ Hits(c) /\ Lasts(c)
            /\ \A p \in Paths : Traced(p)

-----------------------------------------------------------------------------
\* A step of q that changes no body and under which no data in content/ loses
\* its registration, nor its creator.
Retains(q) ==
  /\ \A r \in Procs : r # q => pc'[r] = pc[r] /\ path'[r] = path[r]
  /\ \A d \in Clients : d # q => /\ res'[d] = res[d] /\ await'[d] = await[d]
                                 /\ opened'[d] = opened[d]
  /\ whole' = whole /\ failed' = failed
  /\ \A p \in Paths : dir'[p] \in {dir[p], None}
  /\ \A p \in Paths : dir'[p] # None /\ downloads[KeyOf[p]] = dir[p]
                        => downloads'[KeyOf[p]] = dir[p]
  /\ q \in Clients /\ Creating(q) /\ dir'[path[q]] # None
       => Creating(q)' /\ path'[q] = path[q] /\ await'[q] = await[q]

\* Such a step keeps Complete if it keeps what is said of q itself.
LEMMA RetainsComplete ==
  ASSUME Typed, Undisturbed, Complete, NEW q \in Procs, Retains(q), q \in Objs => Fills(q)',
         q \in Clients => Begins(q)' /\ Hits(q)' /\ Lasts(q)'
  PROVE  Complete'
  <1>1. ASSUME NEW o \in Objs PROVE Fills(o)'
    BY DEF Complete, Fills, Retains, Procs
  <1>2. ASSUME NEW d \in Clients PROVE Begins(d)' /\ Hits(d)' /\ Lasts(d)'
    <2>1. CASE d # q
      <3>1. d \in Procs
        BY DEF Procs
      <3> QED
        BY <2>1, <3>1 DEF Complete, Begins, Hits, Lasts, Creating, Sound, Retains
    <2> QED
      BY <2>1
  <1>3. ASSUME NEW p \in Paths, dir'[p] # None, ~Sound(dir[p])',
               downloads'[KeyOf[p]] # dir'[p]
        PROVE  \E c \in Clients : Creating(c)' /\ path'[c] = p /\ await'[c] = dir'[p]
    <2>1. dir'[p] = dir[p] /\ ~Sound(dir[p])
      BY <1>3 DEF Retains, Sound
    <2>2. downloads[KeyOf[p]] # dir[p]
      BY <1>3, <2>1 DEF Retains
    <2>3. PICK c \in Clients : Creating(c) /\ path[c] = p /\ await[c] = dir[p]
      BY <1>3, <2>1, <2>2 DEF Complete, Traced
    <2>4. Creating(c)' /\ path'[c] = p /\ await'[c] = dir'[p]
      <3>1. CASE c = q
        BY <1>3, <2>1, <2>3, <3>1 DEF Retains
      <3>2. CASE c # q
        BY <2>1, <2>3, <3>2 DEF Retains, Creating, Procs
      <3> QED
        BY <3>1, <3>2
    <2> QED
      BY <2>4
  <1> QED
    BY <1>1, <1>2, <1>3 DEF Complete, Traced

\* Get serves as a hit what is at a path without registration, and nobody
\* creates it while Get has its lock.
LEMMA HitComplete ==
  ASSUME Typed, Undisturbed, Registered, Complete, NEW c \in Clients, GetHit(c)
  PROVE  dir[path[c]] \in Objs /\ Sound(dir[path[c]])
  <1>1. /\ c \in Procs /\ path[c] \in Paths /\ pc[c] = "exists" /\ dir[path[c]] # None
        /\ downloads[KeyOf[path[c]]] = None /\ dir[path[c]] \in Objs
    BY DEF GetHit, Procs, Typed, TypeOK, NObjs, Registered, Fresh, Key
  <1>2. ASSUME NEW d \in Clients, Creating(d), path[d] = path[c] PROVE FALSE
    <2>1. dataW[path[d]] = {d} /\ d # c
      BY <1>1, <1>2 DEF Undisturbed, DataLocked, Creating, Critical, Procs
    <2>2. dataW[path[c]] = {c}
      BY <1>1 DEF Undisturbed, DataLocked, Critical
    <2> QED
      BY <1>2, <2>1, <2>2
  <1> QED
    BY <1>1, <1>2 DEF Complete, Traced

\* The steps of Get and Purge but for the creation and the registration.
LEMMA ClientRetains ==
  ASSUME KeysApart, Unharmed, Typed, Undisturbed, Registered, Complete, NEW c \in Clients,
         GetStep(c) \/ Purge(c) \/ PurgeRename(c), ~GetRegister(c), ~GetCreate(c)
  PROVE  Retains(c) /\ Begins(c)' /\ Hits(c)' /\ Lasts(c)'
  <1>1. /\ c \in Procs /\ path[c] \in Paths /\ Key(c) \in Keys
        /\ Tracks(c) /\ Begins(c) /\ Hits(c) /\ Lasts(c)
    BY DEF Procs, Registered, Complete, Typed, TypeOK, Key
  <1> USE <1>1, LabelFacts
      DEF Typed, TypeOK, Retains, Begins, Hits, Lasts, Creating, Sound, disk, locks, jobs,
          callers
  <1>2. CASE Lookup(c)
    BY <1>2, ClientMoves DEF Lookup
  <1>3. CASE GetUpdating(c)
    BY <1>3, LeaveMoves DEF GetUpdating
  <1>4. CASE GetForgets(c)
    <2>1. \A p \in Paths : p # path[c] => KeyOf[p] \in Keys /\ KeyOf[p] # Key(c)
      BY DEF KeysApart, Key
    <2> QED
      BY <1>4, <2>1, ClientMoves DEF GetForgets
  <1>5. CASE GetHit(c)
    <2>1. dir[path[c]] \in Objs /\ Sound(dir[path[c]])
      BY <1>5, HitComplete
    <2>2. opened'[c] = dir[path[c]] /\ whole' = whole /\ failed' = failed
      BY <1>5 DEF GetHit
    <2> QED
      BY <1>5, <2>1, <2>2, LeaveMoves DEF GetHit
  <1>6. CASE GetUnreadable(c)
    BY <1>6, LeaveMoves DEF GetUnreadable
  <1>7. CASE GetMissing(c)
    BY <1>7, ClientMoves DEF GetMissing
  <1>8. CASE GetRequestError(c)
    BY <1>8 DEF GetRequestError, Unharmed
  <1>9. CASE GetReply(c)
    <2>1. PICK r \in {"none", "toolarge", "dynamic"} :
            \/ r = "none" /\ Goto(c, "mkdir") /\ res' = res
            \/ r # "none" /\ Leave(c, r)
      BY <1>9 DEF GetReply
    <2>2. /\ pc'[c] \in {"mkdir", "unlock"} /\ res'[c] \in {res[c], "toolarge", "dynamic"}
          /\ \A q \in Procs : q # c => pc'[q] = pc[q]
          /\ \A d \in Clients : d # c => res'[d] = res[d]
      BY <2>1, ClientMoves, LeaveMoves
    <2> QED
      BY <1>9, <2>2 DEF GetReply, Trashed
  <1>10. CASE GetReplyStuck(c)
    BY <1>10, LeaveMoves DEF GetReplyStuck
  <1>11. CASE GetMkdir(c)
    BY <1>11, ClientMoves DEF GetMkdir
  <1>12. CASE GetCreateFails(c)
    BY <1>12, LeaveMoves DEF GetCreateFails
  <1>13. CASE GetInfo(c)
    BY <1>13, ClientMoves DEF GetInfo
  <1>14. CASE GetInfoFails(c)
    BY <1>14, LeaveMoves DEF GetInfoFails
  <1>15. CASE GetOpen(c)
    BY <1>15, LeaveMoves DEF GetOpen
  <1>16. CASE Purge(c)
    BY <1>16, ClientMoves, LeaveMoves DEF Purge
  <1>17. CASE PurgeRename(c)
    BY <1>17, LeaveMoves DEF PurgeRename, Trashed
  <1> QED
    BY <1>2, <1>3, <1>4, <1>5, <1>6, <1>7, <1>8, <1>9, <1>10, <1>11, <1>12, <1>13, <1>14, <1>15,
       <1>16, <1>17
    DEF GetStep

\* Locking and unlocking; no call leaves with a panic.
LEMMA LockRetains ==
  ASSUME Typed, Complete, NEW q \in Procs, Locking(q) \/ Unlock(q)
  PROVE  /\ Retains(q)
         /\ q \in Objs => Fills(q)'
         /\ q \in Clients => Begins(q)' /\ Hits(q)' /\ Lasts(q)'
  <1>1. /\ path[q] \in Paths /\ (q \in Objs => Fills(q))
        /\ q \in Clients => Begins(q) /\ Hits(q) /\ Lasts(q)
    BY DEF Complete, Typed, TypeOK
  <1> USE <1>1, LabelFacts, GotoMoves
      DEF Typed, TypeOK, Retains, Fills, Begins, Hits, Lasts, Creating, Sound, disk, jobs,
          callers
  <1>2. CASE RLockHost(q)
    BY <1>2 DEF RLockHost
  <1>3. CASE LockData(q)
    BY <1>3 DEF LockData, Section
  <1>4. CASE Unlock(q)
    BY <1>4 DEF Unlock, Outside
  <1> QED
    BY <1>2, <1>3, <1>4 DEF Locking

\* Calling, returning and the steps of PurgeHost and PurgeAll.
LEMMA CallRetains ==
  ASSUME Typed, Complete, NEW c \in Clients,
         \/ Calling(c) \/ Announce(c) \/ HostStat(c) \/ HostRename(c) \/ HostUnlock(c)
         \/ PurgeAllCanceled(c) \/ Return(c)
  PROVE  Retains(c) /\ Begins(c)' /\ Hits(c)' /\ Lasts(c)'
  <1>1. c \in Procs /\ Begins(c) /\ Hits(c) /\ Lasts(c)
    BY DEF Procs, Complete
  <1> USE <1>1, LabelFacts, ClientMoves
      DEF Typed, TypeOK, Retains, Begins, Hits, Lasts, Creating, Sound, disk, locks, jobs,
          callers
  <1>2. ASSUME NEW o \in {"get", "purge"}, NEW p \in Paths, Call(c, o, p)
        PROVE  Retains(c) /\ Begins(c)' /\ Hits(c)' /\ Lasts(c)'
    BY <1>2 DEF Call
  <1>3. ASSUME NEW h \in Hosts, CallPurgeHost(c, h)
        PROVE  Retains(c) /\ Begins(c)' /\ Hits(c)' /\ Lasts(c)'
    BY <1>3 DEF CallPurgeHost
  <1>4. CASE CallPurgeAll(c)
    BY <1>4 DEF CallPurgeAll
  <1>5. CASE Announce(c)
    BY <1>5 DEF Announce
  <1>6. CASE HostStat(c)
    BY <1>6 DEF HostStat
  <1>7. CASE HostRename(c)
    BY <1>7 DEF HostRename
  <1>8. CASE HostUnlock(c)
    BY <1>8 DEF HostUnlock
  <1>9. CASE PurgeAllCanceled(c)
    BY <1>9 DEF PurgeAllCanceled
  <1>10. CASE Return(c)
    BY <1>10 DEF Return
  <1> QED
    BY <1>2, <1>3, <1>4, <1>5, <1>6, <1>7, <1>8, <1>9, <1>10 DEF Calling

\* contentCleaner.
LEMMA CleanerRetains ==
  ASSUME Typed, CleanerNext
  PROVE  Retains(Cleaner)
  <1>1. Cleaner \in Procs /\ Cleaner \notin Clients \cup Objs
    BY DEF Procs
  <1> USE <1>1, LabelFacts, GotoMoves DEF Typed, TypeOK, Retains, disk, locks, jobs, callers
  <1>2. CASE WalkStart \/ WalkHost
    BY <1>2 DEF WalkStart, WalkHost
  <1>3. CASE WalkData
    BY <1>3 DEF WalkData
  <1>4. CASE CleanStat
    BY <1>4 DEF CleanStat
  <1>5. CASE CleanOpen
    BY <1>5 DEF CleanOpen
  <1>6. CASE CleanRename
    BY <1>6 DEF CleanRename, Trashed
  <1> QED
    BY <1>2, <1>3, <1>4, <1>5, <1>6 DEF CleanerNext

\* A download goroutine unregisters what is sound, or what it has moved to trash.
LEMMA FinishRetains ==
  ASSUME KeysApart, Unharmed, Typed, Registered, Complete, NEW o \in Objs, Finish(o)
  PROVE  /\ \A r \in Procs : r # o => pc'[r] = pc[r] /\ path'[r] = path[r]
         /\ pc'[o] = "unlock"
         /\ UNCHANGED <<whole, failed, res, await, opened>>
         /\ \A p \in Paths : dir'[p] \in {dir[p], None}
         /\ \A p \in Paths : dir'[p] # None /\ ~Sound(dir[p]) /\ downloads[KeyOf[p]] = dir[p]
                               => downloads'[KeyOf[p]] = dir[p]
  <1>1. /\ o \in Procs /\ path[o] \in Paths /\ pc[o] = "finish" /\ o # None
        /\ found[o] = downloads[Key(o)] /\ (whole[o] \/ failed[o])
    BY DEF Finish, Procs, Typed, TypeOK, Registered, Fresh, Complete, Fills
  <1>2. /\ \A r \in Procs : r # o => pc'[r] = pc[r] /\ path'[r] = path[r]
        /\ pc'[o] = "unlock"
        /\ UNCHANGED <<whole, failed, res, await, opened>>
        /\ \A p \in Paths : dir'[p] \in {dir[p], None}
    BY <1>1, LabelFacts, GotoMoves DEF Finish, Trashed, Typed, TypeOK, callers
  <1>3. ASSUME NEW p \in Paths, dir'[p] # None, ~Sound(dir[p]), downloads[KeyOf[p]] = dir[p]
        PROVE  downloads'[KeyOf[p]] = dir[p]
    <2>1. KeyOf[p] \in Keys /\ downloads \in [Keys -> NObjs]
      BY DEF Typed, TypeOK
    <2>2. CASE ~Mine(o)
      BY <1>3, <2>2 DEF Finish, Unregistered
    <2>3. CASE Mine(o) /\ p # path[o]
      <3>1. KeyOf[p] # Key(o)
        BY <1>1, <2>3 DEF KeysApart, Key
      <3>2. downloads' = [downloads EXCEPT ![Key(o)] = None]
        BY <2>3 DEF Finish, Unregistered
      <3> QED
        BY <1>3, <2>1, <3>1, <3>2
    <2>4. CASE Mine(o) /\ p = path[o]
      <3>1. dir[p] = o
        BY <1>1, <1>3, <2>4 DEF Mine, Key
      <3>2. failed[o] /\ Discards(o)
        BY <1>1, <1>3, <2>4, <3>1 DEF Discards, Sound
      <3>3. dir' = [dir EXCEPT ![path[o]] = None]
        BY <3>2 DEF Finish, Unharmed, Trashed
      <3> QED
        BY <1>1, <1>3, <2>4, <3>3 DEF Typed, TypeOK
    <2> QED
      BY <2>2, <2>3, <2>4
  <1> QED
    BY <1>2, <1>3

\* The last steps of a download.
LEMMA DownloadComplete ==
  ASSUME KeysApart, Unharmed, Typed, Undisturbed, Registered, Complete,
         NEW o \in Objs, DownloadNext(o)
  PROVE  Complete'
  <1>1. o \in Procs /\ o \notin Clients /\ Fills(o)
    BY DEF Procs, Complete
  <1>2. CASE Lookup(o)
    <2>1. Retains(o) /\ Fills(o)'
      BY <1>1, <1>2, LabelFacts, GotoMoves
      DEF Lookup, Typed, TypeOK, Retains, Fills, disk, callers
    <2> QED
      BY <1>1, <2>1, RetainsComplete
  <1>3. CASE CopyDone(o)
    <2>1. /\ pc[o] = "copy" /\ ~whole[o] /\ pc'[o] = "host"
          /\ whole'[o] \/ failed'[o]
          /\ \A r \in Objs : r # o => whole'[r] = whole[r] /\ failed'[r] = failed[r]
          /\ \A r \in Procs : r # o => pc'[r] = pc[r]
          /\ UNCHANGED <<dir, downloads, path, res, await, opened>>
      <3>1. PICK all \in BOOLEAN, ok \in BOOLEAN : /\ all \/ ~ok
                                                 /\ whole' = [whole EXCEPT ![o] = all]
                                                 /\ failed' = [failed EXCEPT ![o] = ~ok]
        BY <1>3 DEF CopyDone
      <3>2. /\ whole'[o] = all /\ failed'[o] = ~ok
            /\ \A r \in Objs : r # o => whole'[r] = whole[r] /\ failed'[r] = failed[r]
        BY <3>1 DEF Typed, TypeOK
      <3>3. pc'[o] = "host" /\ \A r \in Procs : r # o => pc'[r] = pc[r]
        BY <1>1, <1>3, LabelFacts, GotoMoves DEF CopyDone, Typed
      <3> QED
        BY <1>1, <1>3, <3>1, <3>2, <3>3 DEF CopyDone, Fills, callers
    <2>2. ASSUME NEW r \in Objs PROVE Fills(r)'
      <3>1. CASE r = o
        BY <2>1, <3>1 DEF Fills
      <3>2. CASE r # o
        BY <2>1, <3>2 DEF Fills, Complete, Procs
      <3> QED
        BY <3>1, <3>2
    <2>3. ASSUME NEW d \in Clients PROVE Begins(d)' /\ Hits(d)' /\ Lasts(d)'
      <3>1. /\ d \in Procs /\ d # o /\ pc'[d] = pc[d]
            /\ Begins(d) /\ Hits(d) /\ Lasts(d) /\ Creates(d)
        BY <1>1, <2>1 DEF Procs, Complete, Undisturbed
      <3> QED
        BY <2>1, <3>1 DEF Begins, Hits, Lasts, Creates, Creating, Sound
    <2>4. ASSUME NEW p \in Paths PROVE Traced(p)'
      <3>1. Traced(p) /\ dir[p] \in NObjs
        BY DEF Complete, Typed, TypeOK
      <3>2. \A d \in Clients : pc'[d] = pc[d]
        BY <1>1, <2>1 DEF Procs
      <3> QED
        BY <2>1, <3>1, <3>2 DEF Traced, Creating, Sound, NObjs
    <2> QED
      BY <2>2, <2>3, <2>4 DEF Complete
  <1>4. CASE Finish(o)
    <2>1. ASSUME NEW r \in Objs PROVE Fills(r)'
      BY <1>1, <1>4, FinishRetains DEF Fills, Complete, Procs
    <2>2. ASSUME NEW d \in Clients PROVE Begins(d)' /\ Hits(d)' /\ Lasts(d)'
      <3>1. d \in Procs /\ d # o
        BY <1>1 DEF Procs
      <3> QED
        BY <1>4, <3>1, FinishRetains DEF Complete, Begins, Hits, Lasts, Creating, Sound
    <2>3. ASSUME NEW p \in Paths PROVE Traced(p)'
      <3>1. \A d \in Clients : pc'[d] = pc[d] /\ path'[d] = path[d]
        BY <1>1, <1>4, FinishRetains DEF Procs
      <3> QED
        BY <1>4, <3>1, FinishRetains DEF Complete, Traced, Creating, Sound
    <2> QED
      BY <2>1, <2>2, <2>3 DEF Complete
  <1> QED
    BY <1>2, <1>3, <1>4 DEF DownloadNext

\* The body of a new data directory is empty, and nobody has it open.
LEMMA CreateComplete ==
  ASSUME Typed, Undisturbed, Complete, NEW c \in Clients, GetCreate(c)
  PROVE  Complete'
  <1>1. c \in Procs /\ c \notin Objs /\ path[c] \in Paths
    BY DEF Procs, Typed, TypeOK
  <1>2. PICK o \in Objs : /\ Free(o)
                          /\ dir' = [dir EXCEPT ![path[c]] = o]
                          /\ whole' = [whole EXCEPT ![o] = FALSE]
                          /\ await' = [await EXCEPT ![c] = o]
    BY DEF GetCreate
  <1>3. /\ pc'[c] = "info" /\ pc[c] = "create"
        /\ \A r \in Procs : r # c => pc'[r] = pc[r]
        /\ UNCHANGED <<downloads, path, failed, res, opened>>
    BY LabelFacts, ClientMoves DEF GetCreate, Typed, jobs
  <1>4. /\ pc[o] = "idle" /\ o \notin Present
        /\ \A d \in Clients : opened[d] # o /\ await[d] # o
    BY <1>2 DEF Free, InUse
  <1>5. /\ dir'[path[c]] = o /\ await'[c] = o /\ ~whole'[o]
        /\ \A p \in Paths : p # path[c] => dir'[p] = dir[p]
        /\ \A r \in Objs : r # o => whole'[r] = whole[r]
        /\ \A d \in Clients : d # c => await'[d] = await[d]
    BY <1>1, <1>2 DEF Typed, TypeOK
  <1>6. ASSUME NEW r \in Objs PROVE Fills(r)'
    <2>1. pc'[r] = pc[r]
      BY <1>1, <1>3 DEF Procs
    <2> QED
      BY <1>3, <1>4, <1>5, <2>1 DEF Complete, Fills
  <1>7. ASSUME NEW d \in Clients PROVE Begins(d)' /\ Hits(d)' /\ Lasts(d)'
    <2>1. d \in Procs /\ Begins(d) /\ Hits(d) /\ Lasts(d) /\ Creates(d)
      BY DEF Procs, Complete, Undisturbed
    <2>2. CASE d = c
      BY <1>3, <1>4, <1>5, <2>1, <2>2 DEF Begins, Hits, Lasts, Sound
    <2>3. CASE d # c
      BY <1>3, <1>4, <1>5, <2>1, <2>3 DEF Begins, Hits, Lasts, Creates, Creating, Sound
    <2> QED
      BY <2>2, <2>3
  <1>8. ASSUME NEW p \in Paths PROVE Traced(p)'
    <2>1. CASE p = path[c]
      BY <1>3, <1>5, <2>1 DEF Traced, Creating
    <2>2. CASE p # path[c]
      <3>1. /\ dir'[p] = dir[p] /\ dir[p] # o
            /\ dir[p] # None => dir[p] \in Objs /\ whole'[dir[p]] = whole[dir[p]]
        <4>1. dir[p] \in Objs \cup {None} /\ (dir[p] # None => dir[p] \in Present)
          BY DEF Present, Typed, TypeOK, NObjs
        <4>2. dir[p] # o
          BY <1>4, <4>1
        <4> QED
          BY <1>5, <2>2, <4>1, <4>2
      <3>2. \A d \in Clients : Creating(d) /\ path[d] = p
                                 => Creating(d)' /\ path'[d] = p /\ await'[d] = await[d]
        BY <1>3, <1>5, <2>2 DEF Creating, Procs
      <3> QED
        BY <1>3, <3>1, <3>2 DEF Complete, Traced, Sound
    <2> QED
      BY <2>1, <2>2
  <1> QED
    BY <1>6, <1>7, <1>8 DEF Complete

\* The creator of the data hands it over to its download.
LEMMA RegisterComplete ==
  ASSUME KeysApart, Typed, Undisturbed, Complete, NEW c \in Clients, GetRegister(c)
  PROVE  Complete'
  <1>1. /\ c \in Procs /\ path[c] \in Paths /\ Key(c) \in Keys /\ pc[c] = "register"
        /\ Settled(c) /\ Creates(c) /\ Begins(c)
    BY DEF Procs, Complete, Undisturbed, Typed, TypeOK, Key, GetRegister
  <1>2. /\ await[c] \in Objs /\ await[c] \in Procs /\ await[c] \notin Clients
        /\ dir[path[c]] = await[c] /\ ~whole[await[c]]
    BY <1>1 DEF Settled, Creates, Begins, Creating, Procs
  <1>3. /\ pc'[c] = "open" /\ pc'[await[c]] = "copy"
        /\ downloads'[Key(c)] = await[c]
        /\ \A k \in Keys : k # Key(c) => downloads'[k] = downloads[k]
        /\ \A r \in Procs : r # c /\ r # await[c] => pc'[r] = pc[r] /\ path'[r] = path[r]
        /\ \A o \in Objs : o # await[c] => failed'[o] = failed[o]
        /\ UNCHANGED <<dir, whole, res, await, opened>>
    BY <1>1, <1>2 DEF GetRegister, Typed, TypeOK, disk, callers
  <1>4. ASSUME NEW r \in Objs PROVE Fills(r)'
    <2>1. CASE r = await[c]
      BY <1>2, <1>3, <2>1 DEF Fills
    <2>2. CASE r # await[c]
      <3>1. r \in Procs /\ r # c
        BY DEF Procs
      <3> QED
        BY <1>3, <2>2, <3>1 DEF Complete, Fills
    <2> QED
      BY <2>1, <2>2
  <1>5. ASSUME NEW d \in Clients PROVE Begins(d)' /\ Hits(d)' /\ Lasts(d)'
    <2>1. d \in Procs /\ d # await[c] /\ Begins(d) /\ Hits(d) /\ Lasts(d)
      BY <1>2 DEF Procs, Complete
    <2>2. res[d] = "hit" => opened[d] # await[c]
      BY <1>2, <2>1 DEF Hits, Sound
    <2> QED
      BY <1>3, <2>1, <2>2 DEF Begins, Hits, Lasts, Creating, Sound
  <1>6. ASSUME NEW p \in Paths PROVE Traced(p)'
    <2>1. CASE p = path[c]
      BY <1>2, <1>3, <2>1 DEF Traced, Key
    <2>2. CASE p # path[c]
      <3>1. KeyOf[p] \in Keys /\ KeyOf[p] # Key(c)
        BY <1>1, <2>2 DEF KeysApart, Key
      <3>2. \A d \in Clients : Creating(d) /\ path[d] = p => Creating(d)' /\ path'[d] = p
        BY <1>2, <1>3, <2>2 DEF Creating, Procs
      <3>3. dir[p] # None /\ ~Sound(dir[p])' => ~Sound(dir[p])
        <4>1. dir[p] # None => dir[p] \in Objs
          BY DEF Typed, TypeOK, NObjs
        <4> QED
          BY <1>2, <1>3, <4>1 DEF Sound
      <3> QED
        BY <1>3, <3>1, <3>2, <3>3 DEF Complete, Traced, Sound
    <2> QED
      BY <2>1, <2>2
  <1> QED
    BY <1>4, <1>5, <1>6 DEF Complete

\* A step that changes nothing of what Complete speaks about.
LEMMA AsideComplete ==
  ASSUME Complete, UNCHANGED <<dir, whole, downloads, pc, path, failed, res, await, opened>>
  PROVE  Complete'
  BY DEF Complete, Fills, Begins, Hits, Lasts, Traced, Creating, Sound

\* Complete holds at first, and every step keeps it.
LEMMA CompleteInit == Init => Complete
  BY DEF Init, Complete, Fills, Begins, Hits, Lasts, Traced, Creating, Sound, Procs

\* The steps together.
LEMMA CompleteStep ==
  ASSUME KeysApart, Unharmed
  PROVE  Typed /\ Undisturbed /\ Registered /\ Complete /\ [Next]_vars => Complete'
  <1> SUFFICES ASSUME Typed, Undisturbed, Registered, Complete PROVE [Next]_vars => Complete'
    OBVIOUS
  <1>1. ASSUME NEW q \in Procs, Locking(q) \/ Unlock(q) PROVE Complete'
    BY <1>1, LockRetains, RetainsComplete
  <1>2. ASSUME NEW c \in Clients, ClientNext(c) PROVE Complete'
    <2>1. c \in Procs /\ c \notin Objs
      BY DEF Procs
    <2>2. CASE (GetStep(c) \/ Purge(c) \/ PurgeRename(c)) /\ ~GetRegister(c) /\ ~GetCreate(c)
      BY <2>1, <2>2, ClientRetains, RetainsComplete
    <2>3. CASE GetRegister(c)
      BY <2>3, RegisterComplete
    <2>4. CASE GetCreate(c)
      BY <2>4, CreateComplete
    <2>5. CASE \/ Calling(c) \/ Announce(c) \/ HostStat(c) \/ HostRename(c) \/ HostUnlock(c)
               \/ PurgeAllCanceled(c) \/ Return(c)
      BY <2>1, <2>5, CallRetains, RetainsComplete
    <2>6. ~Fatal(c)
      BY DEF Fatal, Complete, Lasts
    <2> QED
      BY <1>2, <2>2, <2>3, <2>4, <2>5, <2>6 DEF ClientNext, PurgeStep
  <1>3. ASSUME NEW o \in Objs, DownloadNext(o) PROVE Complete'
    BY <1>3, DownloadComplete
  <1>4. ASSUME NEW o \in Objs, TrashRemove(o) \/ Expire(o) PROVE Complete'
    BY <1>4, AsideComplete DEF TrashRemove, Expire, jobs, callers
  <1>5. CASE CleanerNext
    <2>1. Cleaner \in Procs /\ Cleaner \notin Clients \cup Objs
      BY DEF Procs
    <2> QED
      BY <1>5, <2>1, CleanerRetains, RetainsComplete
  <1>6. ~Crash
    BY DEF Crash, Unharmed
  <1>7. CASE UNCHANGED vars
    BY <1>7, AsideComplete DEF vars, disk, jobs, callers
  <1> QED
    BY <1>1, <1>2, <1>3, <1>4, <1>5, <1>6, <1>7 DEF Next

\* Data whose download has not ended well is registered as long as it is in content/:
\* on this rests that Get takes data without registration for complete.
THEOREM Incomplete == ASSUME KeysApart, Unharmed PROVE Spec => []IncompleteIsRegistered
  <1>1. Complete => IncompleteIsRegistered
    BY DEF Complete, Traced, IncompleteIsRegistered
  <1> QED
    BY <1>1, TypedInit, TypedStep, UndisturbedInit, UndisturbedStep, RegisteredInit,
       RegisteredStep, CompleteInit, CompleteStep, PTL
    DEF Spec

\* A response with status HIT reads the whole body of a download that went well.
THEOREM HitsWhole == ASSUME KeysApart, Unharmed PROVE Spec => []HitIsWhole
  <1>1. Complete => HitIsWhole
    BY DEF Complete, Hits, HitIsWhole
  <1> QED
    BY <1>1, TypedInit, TypedStep, UndisturbedInit, UndisturbedStep, RegisteredInit,
       RegisteredStep, CompleteInit, CompleteStep, PTL
    DEF Spec

-----------------------------------------------------------------------------
(* Refinement: what callers see of the store is the cache of module Cache.  *)

\* A purge serves nothing; its hosts are those PurgeHost and PurgeAll have
\* still to go to, and the other two methods have their own labels.
Plain(c) ==
  /\ op[c] # "get" => res[c] \notin Served /\ pc[c] # "stream"
  /\ todo[c] # {} => pc[c] \in Writing \cup {"announce"}
  /\ pc[c] \in {"stat", "rename"} => op[c] # "get"
  /\ pc[c] \in Writing \cup {"announce"} => op[c] \in {"purgehost", "purgeall"}

\* Get and contentCleaner throw away only what has expired, and Get creates
\* data only where none is.
Clears(q) ==
  /\ pc[q] = "request" \/ (q = Cleaner /\ pc[q] = "rename")
       => dir[path[q]] = None \/ expired[dir[path[q]]]
  /\ pc[q] \in {"mkdir", "create"} => dir[path[q]] = None

Orderly == /\ \A c \in Clients : Plain(c)
           /\ \A q \in Procs : Clears(q)

\* A step that retains the bodies, and spares the purges of others, keeps it if
\* it keeps what is said of q itself.
LEMMA RetainsOrderly ==
  ASSUME Typed, Orderly, NEW q \in Procs, Retains(q), Apart(q), expired' = expired,
         Clears(q)', q \in Clients => Plain(q)'
  PROVE  Orderly'
  <1>1. ASSUME NEW d \in Clients PROVE Plain(d)'
    <2>1. CASE d # q
      <3>1. Plain(d) /\ Spares(d)
        BY <2>1 DEF Orderly, Apart
      <3> QED
        BY <3>1 DEF Plain, Spares
    <2> QED
      BY <2>1
  <1>2. ASSUME NEW r \in Procs PROVE Clears(r)'
    <2>1. CASE r # q
      <3>1. Clears(r) /\ pc'[r] = pc[r] /\ path'[r] = path[r] /\ path[r] \in Paths
        BY <2>1 DEF Orderly, Retains, Typed, TypeOK
      <3>2. dir'[path[r]] \in {dir[path[r]], None}
        BY <3>1 DEF Retains
      <3> QED
        BY <3>1, <3>2 DEF Clears
    <2> QED
      BY <2>1
  <1> QED
    BY <1>1, <1>2 DEF Orderly

\* Get is no purge.
LEMMA GetIsGet ==
  ASSUME Typed, Swept, NEW c \in Clients, GetStep(c)
  PROVE  op[c] = "get" /\ op' = op /\ todo' = todo
  <1>1. pc[c] \in {"lookup", "exists", "request", "mkdir", "create", "info", "register", "open"}
    BY DEF GetStep, Lookup, GetUpdating, GetForgets, GetHit, GetUnreadable, GetMissing,
           GetRequestError, GetReply, GetReplyStuck, GetMkdir, GetCreate, GetCreateFails, GetInfo,
           GetInfoFails, GetRegister, GetOpen
  <1>2. op[c] \notin {"purge", "purgehost", "purgeall"}
    BY <1>1 DEF Swept, PurgesPath, PurgesHosts, Writing
  <1>3. op' = op /\ todo' = todo
    BY DEF GetStep, Lookup, GetUpdating, GetForgets, GetHit, GetUnreadable, GetMissing,
           GetRequestError, GetReply, GetReplyStuck, GetMkdir, GetCreate, GetCreateFails, GetInfo,
           GetInfoFails, GetRegister, GetOpen, callers
  <1> QED
    BY <1>2, <1>3 DEF Typed, TypeOK

\* The steps of Get but for the creation.
LEMMA GetOrderly ==
  ASSUME Typed, Swept, Orderly, NEW c \in Clients, GetStep(c), ~GetCreate(c)
  PROVE  Plain(c)' /\ Clears(c)'
  <1>1. /\ c \in Procs /\ c # Cleaner /\ path[c] \in Paths /\ op[c] = "get" /\ op' = op
        /\ todo' = todo /\ Plain(c) /\ Clears(c)
    BY GetIsGet DEF Procs, Typed, TypeOK, Orderly
  <1>2. CASE pc'[c] \in {"exists", "info", "register", "open", "unlock"} /\ todo[c] = {}
    BY <1>1, <1>2 DEF Plain, Clears, Writing
  <1> USE <1>1, <1>2, LabelFacts DEF Typed, TypeOK, Plain, Writing, disk, callers
  <1>3. CASE Lookup(c)
    BY <1>3, ClientMoves DEF Lookup
  <1>4. CASE GetUpdating(c) \/ GetHit(c) \/ GetUnreadable(c)
    BY <1>4, LeaveMoves DEF GetUpdating, GetHit, GetUnreadable
  <1>5. CASE GetForgets(c)
    BY <1>5, ClientMoves DEF GetForgets, Clears, jobs
  <1>6. CASE GetMissing(c)
    BY <1>6, ClientMoves DEF GetMissing, Clears, jobs
  <1>7. CASE GetRequestError(c) \/ GetReplyStuck(c)
    BY <1>7, LeaveMoves DEF GetRequestError, GetReplyStuck
  <1>8. CASE GetReply(c)
    <2>1. pc'[c] \in {"mkdir", "unlock"} /\ pc[c] = "request" /\ path' = path
      BY <1>8, ReplyFacts, ClientMoves, LeaveMoves DEF GetReply, jobs
    <2>2. dir'[path[c]] = None
      BY <1>8 DEF GetReply, Trashed
    <2> QED
      BY <2>1, <2>2 DEF Clears
  <1>9. CASE GetMkdir(c)
    BY <1>9, ClientMoves DEF GetMkdir, Clears, jobs
  <1>10. CASE GetCreateFails(c)
    BY <1>10, LeaveMoves DEF GetCreateFails
  <1>11. CASE GetInfo(c)
    BY <1>11, ClientMoves DEF GetInfo
  <1>12. CASE GetInfoFails(c) \/ GetOpen(c)
    BY <1>12, LeaveMoves DEF GetInfoFails, GetOpen
  <1>13. CASE GetRegister(c)
    BY <1>13 DEF GetRegister
  <1> QED
    BY <1>3, <1>4, <1>5, <1>6, <1>7, <1>8, <1>9, <1>10, <1>11, <1>12, <1>13 DEF GetStep

\* Purge, under its locks.
LEMMA PurgeOrderly ==
  ASSUME Typed, Registered, Orderly, NEW c \in Clients, Purge(c) \/ PurgeRename(c)
  PROVE  Plain(c)' /\ Clears(c)'
  <1>1. c \in Procs /\ c # Cleaner /\ Plain(c)
    BY DEF Procs, Orderly
  <1>2. /\ pc[c] \in {"stat", "rename"} /\ pc'[c] \in {"rename", "unlock"}
        /\ res'[c] \notin Served \/ res' = res
        /\ UNCHANGED <<op, todo>>
    <2>1. CASE Purge(c)
      BY <1>1, <2>1, LabelFacts, ClientMoves, LeaveMoves DEF Purge, Typed, TypeOK, Served
    <2>2. CASE PurgeRename(c)
      BY <1>1, <2>2, LabelFacts, LeaveMoves DEF PurgeRename, Typed, TypeOK, Served
    <2> QED
      BY <2>1, <2>2
  <1> QED
    BY <1>1, <1>2 DEF Plain, Clears, Writing

\* Locking and unlocking: a purge has no body to stream.
LEMMA LockOrderly ==
  ASSUME Typed, Orderly, NEW q \in Procs, Locking(q) \/ Unlock(q)
  PROVE  /\ expired' = expired /\ Clears(q)'
         /\ q \in Clients => Plain(q)'
  <1>1. /\ q \in Objs => q \notin Clients /\ q # Cleaner
        /\ q \in Clients => Plain(q) /\ q # Cleaner
    BY DEF Orderly
  <1>2. UNCHANGED <<expired, op, res, todo>>
    BY DEF Locking, RLockHost, LockData, Unlock, disk, jobs, callers
  <1>3. CASE RLockHost(q)
    <2>1. pc[q] = "host" /\ pc'[q] = "data"
      BY <1>3, LabelFacts, GotoMoves DEF RLockHost, Typed
    <2> QED
      BY <1>1, <1>2, <2>1 DEF Clears, Plain, Writing
  <1>4. CASE LockData(q)
    <2>1. pc[q] = "data" /\ pc'[q] = Section(q)
      BY <1>4, LabelFacts, GotoMoves DEF LockData, Section, Typed
    <2> QED
      BY <1>1, <1>2, <2>1 DEF Clears, Plain, Writing, Section
  <1>5. CASE Unlock(q)
    <2>1. pc[q] = "unlock" /\ pc'[q] = Outside(q)
      BY <1>5, LabelFacts, GotoMoves DEF Unlock, Outside, Typed
    <2> QED
      BY <1>1, <1>2, <2>1 DEF Clears, Plain, Writing, Outside, Served
  <1> QED
    BY <1>2, <1>3, <1>4, <1>5 DEF Locking

\* Calling, returning and the steps of PurgeHost and PurgeAll.
LEMMA CallOrderly ==
  ASSUME Typed, Registered, Undisturbed, Orderly, NEW c \in Clients,
         \/ Calling(c) \/ Announce(c) \/ HostStat(c) \/ HostRename(c) \/ HostUnlock(c)
         \/ PurgeAllCanceled(c) \/ Return(c)
  PROVE  expired' = expired /\ Plain(c)' /\ Clears(c)'
  <1>1. /\ c \in Procs /\ c # Cleaner /\ Plain(c)
        /\ res[c] \in Served => pc[c] \in {"unlock", "stream"}
    BY DEF Procs, Orderly, Registered, Tracks
  <1>2. /\ expired' = expired
        /\ pc'[c] \in {"idle", "host", "announce", "drain", "hostrename", "hostunlock", "return"}
    BY LabelFacts, ClientMoves
    DEF Calling, Call, CallPurgeHost, CallPurgeAll, Announce, HostStat, HostRename, HostUnlock,
        PurgeAllCanceled, Return, Typed, TypeOK, disk
  <1>3. Clears(c)'
    BY <1>1, <1>2 DEF Clears
  <1> USE <1>1, LabelFacts, ClientMoves DEF Typed, TypeOK, Plain, Writing, Served, callers
  <1>4. ASSUME NEW o \in {"get", "purge"}, NEW p \in Paths, Call(c, o, p) PROVE Plain(c)'
    BY <1>4 DEF Call
  <1>5. ASSUME NEW h \in Hosts, CallPurgeHost(c, h) PROVE Plain(c)'
    BY <1>5 DEF CallPurgeHost
  <1>6. ASSUME CallPurgeAll(c) PROVE Plain(c)'
    BY <1>6 DEF CallPurgeAll
  <1>7. ASSUME Announce(c) PROVE Plain(c)'
    BY <1>7 DEF Announce
  <1>8. ASSUME HostStat(c) PROVE Plain(c)'
    BY <1>8 DEF HostStat
  <1>9. ASSUME HostRename(c) PROVE Plain(c)'
    BY <1>9 DEF HostRename
  <1>10. ASSUME HostUnlock(c) PROVE Plain(c)'
    BY <1>10 DEF HostUnlock
  <1>11. ASSUME PurgeAllCanceled(c) PROVE Plain(c)'
    BY <1>11 DEF PurgeAllCanceled
  <1>12. ASSUME Return(c) PROVE Plain(c)'
    BY <1>12 DEF Return
  <1> QED
    BY <1>2, <1>3, <1>4, <1>5, <1>6, <1>7, <1>8, <1>9, <1>10, <1>11, <1>12 DEF Calling

\* contentCleaner moves to trash what it has found expired.
LEMMA CleanerOrderly ==
  ASSUME Typed, Orderly, CleanerNext
  PROVE  expired' = expired /\ Clears(Cleaner)'
  <1>1. Cleaner \in Procs /\ Clears(Cleaner)
    BY DEF Procs, Orderly
  <1> USE <1>1, LabelFacts, GotoMoves DEF Typed, TypeOK, Clears, disk, jobs
  <1>2. CASE WalkStart \/ WalkHost
    BY <1>2 DEF WalkStart, WalkHost
  <1>3. CASE WalkData
    BY <1>3 DEF WalkData
  <1>4. CASE CleanStat
    BY <1>4 DEF CleanStat
  <1>5. CASE CleanOpen
    BY <1>5 DEF CleanOpen
  <1>6. CASE CleanRename
    BY <1>6 DEF CleanRename
  <1> QED
    BY <1>2, <1>3, <1>4, <1>5, <1>6 DEF CleanerNext

\* The download goroutine throws away only data of its own path.
LEMMA DownloadOrderly ==
  ASSUME Typed, Orderly, NEW o \in Objs, DownloadNext(o)
  PROVE  Orderly'
  <1>1. o \in Procs /\ o \notin Clients /\ o # Cleaner /\ Clients \subseteq Procs
    BY DEF Procs
  <1>2. /\ \A r \in Procs : r # o => pc'[r] = pc[r]
        /\ pc'[o] \in {"host", "finish", "unlock"}
        /\ UNCHANGED <<expired, path, op, res, todo>>
        /\ \A p \in Paths : dir'[p] \in {dir[p], None}
    BY <1>1, LabelFacts, GotoMoves
    DEF DownloadNext, CopyDone, Lookup, Finish, Trashed, Typed, TypeOK, disk, jobs, callers
  <1>4. ASSUME NEW r \in Procs PROVE Clears(r)'
    BY <1>1, <1>2, <1>4 DEF Orderly, Clears, Typed, TypeOK
  <1>5. ASSUME NEW d \in Clients PROVE Plain(d)'
    BY <1>1, <1>2, <1>5 DEF Orderly, Plain
  <1> QED
    BY <1>4, <1>5 DEF Orderly

\* The data that is created is nobody's and not expired.
LEMMA CreateOrderly ==
  ASSUME Typed, Undisturbed, Swept, Orderly, NEW c \in Clients, GetCreate(c)
  PROVE  Orderly'
  <1>1. /\ c \in Procs /\ c \notin Objs /\ path[c] \in Paths /\ dataW[path[c]] = {c}
        /\ op[c] = "get" /\ Plain(c)
    BY GetIsGet
    DEF GetStep, GetCreate, Procs, Typed, TypeOK, Undisturbed, DataLocked, Critical, Orderly
  <1>2. PICK o \in Objs : /\ Free(o)
                          /\ dir' = [dir EXCEPT ![path[c]] = o]
                          /\ whole' = [whole EXCEPT ![o] = FALSE]
                          /\ expired' = [expired EXCEPT ![o] = FALSE]
    BY DEF GetCreate
  <1>3. /\ pc'[c] = "info" /\ pc[c] = "create"
        /\ \A r \in Procs : r # c => pc'[r] = pc[r]
        /\ UNCHANGED <<path, failed, op, res, todo>>
    BY LabelFacts, ClientMoves DEF GetCreate, Typed, jobs
  <1>4. ASSUME NEW d \in Clients PROVE Plain(d)'
    <2>1. d \in Procs /\ Plain(d)
      BY DEF Procs, Orderly
    <2>2. CASE d = c
      BY <1>1, <1>3, <2>1, <2>2 DEF Plain, Writing
    <2>3. CASE d # c
      BY <1>3, <2>1, <2>3 DEF Plain
    <2> QED
      BY <2>2, <2>3
  <1>5. ASSUME NEW r \in Procs PROVE Clears(r)'
    <2>1. CASE r = c
      BY <1>3, <2>1 DEF Clears
    <2>2. CASE r # c
      <3>1. pc[r] \in {"request", "rename", "mkdir", "create"} => path[r] # path[c]
        BY <1>1, <2>2 DEF Undisturbed, DataLocked, Critical
      <3>2. path[r] \in Paths /\ dir[path[r]] # o /\ Clears(r)
        BY <1>2 DEF Typed, TypeOK, Free, Present, Orderly
      <3>3. path[r] # path[c] => dir'[path[r]] = dir[path[r]]
        BY <1>2, <3>2 DEF Typed, TypeOK
      <3>4. dir[path[r]] # None => expired'[dir[path[r]]] = expired[dir[path[r]]]
        BY <1>2, <3>2 DEF Typed, TypeOK, NObjs
      <3> QED
        BY <1>3, <2>2, <3>1, <3>2, <3>3, <3>4 DEF Clears
    <2> QED
      BY <2>1, <2>2
  <1> QED
    BY <1>4, <1>5 DEF Orderly

\* The registration changes no data.
LEMMA RegisterOrderly ==
  ASSUME Typed, Undisturbed, Swept, Orderly, NEW c \in Clients, GetRegister(c)
  PROVE  Orderly'
  <1>1. /\ c \in Procs /\ pc[c] = "register" /\ await[c] \in Objs
        /\ await[c] \in Procs /\ await[c] \notin Clients
    BY DEF Procs, Undisturbed, Creates, GetRegister
  <1>2. /\ pc'[await[c]] = "copy"
        /\ \A r \in Procs : r # c /\ r # await[c] => pc'[r] = pc[r] /\ path'[r] = path[r]
        /\ \A o \in Objs : o # await[c] => failed'[o] = failed[o]
        /\ UNCHANGED <<dir, whole, expired, res, op, todo>>
    BY <1>1 DEF GetRegister, Typed, TypeOK, disk, callers
  <1>3. Plain(c)' /\ Clears(c)'
    BY GetOrderly DEF GetStep, GetRegister, GetCreate
  <1>4. ASSUME NEW d \in Clients PROVE Plain(d)'
    <2>1. CASE d # c
      <3>1. d \in Procs /\ d # await[c] /\ Plain(d)
        BY <1>1 DEF Procs, Orderly
      <3> QED
        BY <1>2, <2>1, <3>1 DEF Plain
    <2> QED
      BY <1>3, <2>1
  <1>5. ASSUME NEW r \in Procs PROVE Clears(r)'
    <2>1. CASE r = await[c]
      BY <1>2, <2>1 DEF Clears
    <2>2. CASE r # await[c] /\ r # c
      BY <1>2, <2>2 DEF Orderly, Clears
    <2> QED
      BY <1>3, <2>1, <2>2
  <1> QED
    BY <1>4, <1>5 DEF Orderly

\* A step that changes nothing of what Orderly speaks about, but that time passes.
LEMMA AsideOrderly ==
  ASSUME Typed, Orderly, UNCHANGED <<dir, whole, pc, path, failed, res, op, todo>>,
         \A o \in Objs : expired[o] => expired'[o]
  PROVE  Orderly'
  <1>1. \A c \in Clients : Plain(c)'
    BY DEF Orderly, Plain
  <1>2. ASSUME NEW q \in Procs PROVE Clears(q)'
    <2>1. Clears(q) /\ dir[path[q]] \in Objs \cup {None}
      BY DEF Orderly, Typed, TypeOK, NObjs
    <2> QED
      BY <2>1 DEF Clears
  <1> QED
    BY <1>1, <1>2 DEF Orderly

\* What the refinement rests on: the invariants of the store, together.
StoreInv == Typed /\ Undisturbed /\ Registered /\ Complete /\ Swept /\ Orderly

\* It holds at first.
LEMMA StoreInvInit == Init => StoreInv
  <1>1. Init => Orderly
    BY DEF Init, Orderly, Plain, Clears, Procs, Writing
  <1> QED
    BY <1>1, TypedInit, UndisturbedInit, RegisteredInit, CompleteInit, SweptInit DEF StoreInv

\* Every step keeps Orderly.
LEMMA OrderlyStep ==
  ASSUME KeysApart, Unharmed
  PROVE  StoreInv /\ [Next]_vars => Orderly'
  <1> SUFFICES ASSUME Typed, Undisturbed, Registered, Complete, Swept, Orderly
               PROVE  [Next]_vars => Orderly'
    BY DEF StoreInv
  <1>1. Grounded
    BY DEF Swept
  <1>2. ASSUME NEW q \in Procs, Locking(q) \/ Unlock(q) PROVE Orderly'
    BY <1>1, <1>2, LockRetains, LockApart, LockOrderly, RetainsOrderly
  <1>3. ASSUME NEW c \in Clients, ClientNext(c) PROVE Orderly'
    <2>1. c \in Procs /\ c \notin Objs
      BY DEF Procs
    <2>2. CASE GetStep(c) /\ ~GetRegister(c) /\ ~GetCreate(c)
      <3>1. Retains(c) /\ Apart(c) /\ Plain(c)' /\ Clears(c)'
        BY <1>1, <2>2, ClientRetains, GetApart, GetOrderly
      <3>2. expired' = expired
        BY <2>2 DEF GetStep, Lookup, GetUpdating, GetForgets, GetHit, GetUnreadable, GetMissing,
                    GetRequestError, GetReply, GetReplyStuck, GetMkdir, GetCreateFails, GetInfo,
                    GetInfoFails, GetOpen, disk
      <3> QED
        BY <2>1, <3>1, <3>2, RetainsOrderly
    <2>3. CASE Purge(c) \/ PurgeRename(c)
      <3>1. ~GetRegister(c) /\ ~GetCreate(c) /\ expired' = expired
        BY <2>3 DEF Purge, PurgeRename, GetRegister, GetCreate, disk
      <3>2. Retains(c) /\ Apart(c) /\ Plain(c)' /\ Clears(c)'
        BY <1>1, <2>3, <3>1, ClientRetains, GetApart, PurgeOrderly
      <3> QED
        BY <2>1, <3>1, <3>2, RetainsOrderly
    <2>4. CASE GetRegister(c)
      BY <2>4, RegisterOrderly
    <2>5. CASE GetCreate(c)
      BY <2>5, CreateOrderly
    <2>6. CASE \/ Calling(c) \/ Announce(c) \/ HostStat(c) \/ HostRename(c) \/ HostUnlock(c)
               \/ PurgeAllCanceled(c) \/ Return(c)
      <3>1. Retains(c) /\ Apart(c) /\ expired' = expired /\ Plain(c)' /\ Clears(c)'
        BY <1>1, <2>6, CallRetains, CallApart, CallOrderly
      <3> QED
        BY <2>1, <3>1, RetainsOrderly
    <2>7. ~Fatal(c)
      BY DEF Fatal, Complete, Lasts
    <2> QED
      BY <1>3, <2>2, <2>3, <2>4, <2>5, <2>6, <2>7 DEF ClientNext, PurgeStep
  <1>4. ASSUME NEW o \in Objs, DownloadNext(o) PROVE Orderly'
    BY <1>4, DownloadOrderly
  <1>5. ASSUME NEW o \in Objs, TrashRemove(o) \/ Expire(o) PROVE Orderly'
    <2>1. UNCHANGED <<dir, whole, pc, path, failed, res, op, todo>>
      BY <1>5 DEF TrashRemove, Expire, jobs, callers
    <2>2. \A r \in Objs : expired[r] => expired'[r]
      BY <1>5 DEF TrashRemove, Expire, Typed, TypeOK
    <2> QED
      BY <2>1, <2>2, AsideOrderly
  <1>6. CASE CleanerNext
    <2>1. Cleaner \in Procs /\ Cleaner \notin Clients \cup Objs
      BY DEF Procs
    <2>2. Apart(Cleaner)
      <3>1. Grounded' /\ \A d \in Clients : Spares(d)
        BY <1>1, <1>6, OtherApart
      <3> QED
        BY <3>1 DEF Apart
    <2> QED
      BY <1>6, <2>1, <2>2, CleanerRetains, CleanerOrderly, RetainsOrderly
  <1>7. ~Crash
    BY DEF Crash, Unharmed
  <1>8. CASE UNCHANGED vars
    BY <1>8, AsideOrderly DEF vars, disk, jobs, callers
  <1> QED
    BY <1>2, <1>3, <1>4, <1>5, <1>6, <1>7, <1>8 DEF Next

\* Every step keeps them all.
LEMMA StoreInvStep ==
  ASSUME KeysApart, Unharmed
  PROVE  StoreInv /\ [Next]_vars => StoreInv'
  BY TypedStep, UndisturbedStep, RegisteredStep, CompleteStep, SweptStep, OrderlyStep DEF StoreInv

-----------------------------------------------------------------------------
\* The state of the cache, beside dir and expired.
Sounds    == [o \in Objs |-> Sound(o)]
Reaches   == [c \in Clients |-> Reach(c)]
HitsOf    == [c \in Clients |-> IF res[c] = "hit" THEN opened[c] ELSE None]
FollowsOf == [c \in Clients |-> IF res[c] \in Served \ {"hit"} THEN opened[c] ELSE None]

\* What a step is on the cache.
CacheStep == cache!Next \/ UNCHANGED cache!cvars

\* The bodies are what they were.
LEMMA SameSounds ==
  ASSUME whole' = whole, failed' = failed
  PROVE  Sounds' = Sounds
  BY DEF Sounds, Sound

\* A step that callers do not see is a stutter.
LEMMA Unseen ==
  ASSUME UNCHANGED <<dir, Sounds, expired, Reaches, HitsOf, FollowsOf>>
  PROVE  CacheStep
  BY DEF CacheStep, cache!cvars, cache!answers, Sounds, Reaches, HitsOf, FollowsOf

\* A purge begins, or has fewer paths to go to.
LEMMA SeenReach ==
  ASSUME NEW c \in Clients, NEW S \in SUBSET Paths, Reaches[c] = {} \/ S \subseteq Reaches[c],
         Reaches' = [Reaches EXCEPT ![c] = S],
         UNCHANGED <<dir, Sounds, expired, HitsOf, FollowsOf>>
  PROVE  CacheStep
  <1>1. cache!BeginPurge(c, S) \/ cache!Narrow(c, S)
    BY DEF cache!BeginPurge, cache!Narrow, cache!answers, Sounds, Reaches, HitsOf, FollowsOf
  <1> QED
    BY <1>1 DEF CacheStep, cache!Next

\* What is expired or not sound goes.
LEMMA SeenDrop ==
  ASSUME NEW p \in Paths, dir[p] # None, expired[dir[p]] \/ ~Sounds[dir[p]],
         dir' = [dir EXCEPT ![p] = None],
         UNCHANGED <<Sounds, expired, Reaches, HitsOf, FollowsOf>>
  PROVE  CacheStep
  <1>1. cache!Drop(p)
    BY DEF cache!Drop, cache!answers, Sounds, Reaches, HitsOf, FollowsOf
  <1> QED
    BY <1>1 DEF CacheStep, cache!Next

\* A purge drops what it finds where it goes.
LEMMA SeenPurge ==
  ASSUME NEW c \in Clients, NEW S \in SUBSET Paths, S \subseteq Reaches[c],
         dir' = [p \in Paths |-> IF p \in S THEN None ELSE dir[p]],
         UNCHANGED <<Sounds, expired, Reaches, HitsOf, FollowsOf>>
  PROVE  CacheStep
  <1>1. cache!Purge(c, S)
    BY DEF cache!Purge, cache!answers, Sounds, Reaches, HitsOf, FollowsOf
  <1> QED
    BY <1>1 DEF CacheStep, cache!Next

\* An answer is served from what is at a path.
LEMMA SeenAnswer ==
  ASSUME NEW c \in Clients, NEW p \in Paths, dir[p] # None,
         \/ /\ HitsOf' = [HitsOf EXCEPT ![c] = dir[p]] /\ FollowsOf' = FollowsOf
            /\ Sounds[dir[p]]
         \/ HitsOf' = HitsOf /\ FollowsOf' = [FollowsOf EXCEPT ![c] = dir[p]],
         UNCHANGED <<dir, Sounds, expired, Reaches>>
  PROVE  CacheStep
  <1>1. cache!Hit(c, p) \/ cache!Follow(c, p)
    BY DEF cache!Hit, cache!Follow, Sounds, Reaches, HitsOf, FollowsOf
  <1> QED
    BY <1>1 DEF CacheStep, cache!Next

\* An answer is over.
LEMMA SeenEnd ==
  ASSUME NEW c \in Clients,
         HitsOf' = [HitsOf EXCEPT ![c] = None], FollowsOf' = [FollowsOf EXCEPT ![c] = None],
         UNCHANGED <<dir, Sounds, expired, Reaches>>
  PROVE  CacheStep
  <1>1. cache!End(c)
    BY DEF cache!End, Sounds, Reaches, HitsOf, FollowsOf
  <1> QED
    BY <1>1 DEF CacheStep, cache!Next

\* A path without data gets data that is nobody's.
LEMMA SeenFill ==
  ASSUME NEW p \in Paths, NEW o \in Objs, dir[p] = None, \A q \in Paths : dir[q] # o,
         \A c \in Clients : HitsOf[c] # o /\ FollowsOf[c] # o,
         dir' = [dir EXCEPT ![p] = o],
         Sounds' = [Sounds EXCEPT ![o] = FALSE], expired' = [expired EXCEPT ![o] = FALSE],
         UNCHANGED <<Reaches, HitsOf, FollowsOf>>
  PROVE  CacheStep
  <1>1. cache!Fill(p, o)
    BY DEF cache!Fill, cache!answers, Sounds, Reaches, HitsOf, FollowsOf
  <1> QED
    BY <1>1 DEF CacheStep, cache!Next

\* A body is completed, or time passes.
LEMMA SeenBody ==
  ASSUME NEW o \in Objs,
         \/ Sounds' = [Sounds EXCEPT ![o] = TRUE] /\ expired' = expired
         \/ expired' = [expired EXCEPT ![o] = TRUE] /\ Sounds' = Sounds,
         UNCHANGED <<dir, Reaches, HitsOf, FollowsOf>>
  PROVE  CacheStep
  <1>1. cache!Complete(o) \/ cache!Expire(o)
    BY DEF cache!Complete, cache!Expire, cache!answers, Sounds, Reaches, HitsOf, FollowsOf
  <1> QED
    BY <1>1 DEF CacheStep, cache!Next

-----------------------------------------------------------------------------
\* The paths in reach of a call, by the method it is in.
LEMMA ReachIs ==
  ASSUME Typed, NEW c \in Clients
  PROVE  /\ op[c] = "get" => Reach(c) = {}
         /\ op[c] = "purge" => Reach(c) = IF pc[c] = "return" THEN {} ELSE {path[c]}
         /\ op[c] \in {"purgehost", "purgeall"} =>
              Reach(c) = {p \in Paths : HostOf[p] \in todo[c]}
         /\ op[c] \in {"get", "purge", "purgehost", "purgeall"} /\ Reach(c) \subseteq Paths
  <1>1. op[c] \in {"get", "purge", "purgehost", "purgeall"} /\ path[c] \in Paths
    BY DEF Typed, TypeOK, Procs
  <1> QED
    BY <1>1 DEF Reach

\* So it is after a step.
LEMMA ReachNext ==
  ASSUME Typed', NEW c \in Clients
  PROVE  /\ op'[c] = "get" => Reach(c)' = {}
         /\ op'[c] = "purge" => Reach(c)' = IF pc'[c] = "return" THEN {} ELSE {path'[c]}
         /\ op'[c] \in {"purgehost", "purgeall"} =>
              Reach(c)' = {p \in Paths : HostOf[p] \in todo'[c]}
         /\ Reach(c)' \subseteq Paths
  <1>1. op'[c] \in {"get", "purge", "purgehost", "purgeall"} /\ path'[c] \in Paths
    BY DEF Typed, TypeOK, Procs
  <1> QED
    BY <1>1 DEF Reach

\* A step of q whose answers and purges are q's alone.
Sees(q) == Apart(q) /\ \A d \in Clients : d # q => opened'[d] = opened[d]

\* It is seen by q only.
LEMMA SeenByOne ==
  ASSUME NEW c \in Clients, Sees(c)
  PROVE  /\ Reaches' = [Reaches EXCEPT ![c] = Reach(c)']
         /\ HitsOf' = [HitsOf EXCEPT ![c] = IF res'[c] = "hit" THEN opened'[c] ELSE None]
         /\ FollowsOf' = [FollowsOf EXCEPT ![c] =
                            IF res'[c] \in Served \ {"hit"} THEN opened'[c] ELSE None]
  <1>1. ASSUME NEW d \in Clients, d # c
        PROVE  Reach(d)' = Reach(d) /\ res'[d] = res[d] /\ opened'[d] = opened[d]
    <2>1. Spares(d) /\ opened'[d] = opened[d]
      BY <1>1 DEF Sees, Apart
    <2> QED
      BY <2>1 DEF Spares, Reach
  <1>2. Reaches' = [Reaches EXCEPT ![c] = Reach(c)']
    BY <1>1 DEF Reaches
  <1>3. HitsOf' = [HitsOf EXCEPT ![c] = IF res'[c] = "hit" THEN opened'[c] ELSE None]
    BY <1>1 DEF HitsOf
  <1>4. FollowsOf' = [FollowsOf EXCEPT ![c] =
                        IF res'[c] \in Served \ {"hit"} THEN opened'[c] ELSE None]
    BY <1>1 DEF FollowsOf
  <1> QED
    BY <1>2, <1>3, <1>4

\* The step of a goroutine that is no client is seen by none.
LEMMA SeenByNone ==
  ASSUME NEW q, q \notin Clients, Sees(q)
  PROVE  UNCHANGED <<Reaches, HitsOf, FollowsOf>>
  <1>1. ASSUME NEW d \in Clients
        PROVE  Reach(d)' = Reach(d) /\ res'[d] = res[d] /\ opened'[d] = opened[d]
    <2>1. Spares(d) /\ opened'[d] = opened[d]
      BY <1>1 DEF Sees, Apart
    <2> QED
      BY <2>1 DEF Spares, Reach
  <1> QED
    BY <1>1 DEF Reaches, HitsOf, FollowsOf

\* A step before the call has an answer leaves all answers as they are.
LEMMA NotAnswered ==
  ASSUME NEW c \in Clients, Sees(c), res[c] \notin Served, res'[c] \notin Served
  PROVE  UNCHANGED <<HitsOf, FollowsOf>> /\ Reaches' = [Reaches EXCEPT ![c] = Reach(c)']
  <1>1. /\ Reaches' = [Reaches EXCEPT ![c] = Reach(c)']
        /\ HitsOf' = [HitsOf EXCEPT ![c] = None]
        /\ FollowsOf' = [FollowsOf EXCEPT ![c] = None]
    BY SeenByOne DEF Served
  <1>2. HitsOf[c] = None /\ FollowsOf[c] = None
    BY DEF HitsOf, FollowsOf, Served
  <1>3. [HitsOf EXCEPT ![c] = None] = HitsOf
    BY <1>2 DEF HitsOf
  <1>4. [FollowsOf EXCEPT ![c] = None] = FollowsOf
    BY <1>2 DEF FollowsOf
  <1> QED
    BY <1>1, <1>3, <1>4

\* If its purge has the same paths to go to, nothing but the disk changes.
LEMMA NothingSeen ==
  ASSUME NEW c \in Clients, Sees(c), res[c] \notin Served, res'[c] \notin Served,
         Reach(c)' = Reach(c)
  PROVE  UNCHANGED <<Reaches, HitsOf, FollowsOf>>
  BY NotAnswered DEF Reaches

-----------------------------------------------------------------------------
\* A call of Get purges nothing and has no answer before it leaves.
LEMMA GetSees ==
  ASSUME Typed, Typed', Undisturbed, Registered, Swept, NEW c \in Clients, GetStep(c)
  PROVE  Sees(c) /\ Reach(c)' = Reach(c) /\ res[c] \notin Served
  <1>1. opened' = opened \/ opened' = [opened EXCEPT ![c] = dir[path[c]]]
    BY DEF GetStep, Lookup, GetUpdating, GetForgets, GetHit, GetUnreadable, GetMissing,
           GetRequestError, GetReply, GetReplyStuck, GetMkdir, GetCreate, GetCreateFails, GetInfo,
           GetInfoFails, GetRegister, GetOpen, callers
  <1>2. Sees(c)
    BY <1>1, GetApart DEF Sees, Swept, Typed, TypeOK
  <1>3. Reach(c)' = Reach(c)
    BY GetIsGet, ReachIs, ReachNext
  <1>4. pc[c] \in {"lookup", "exists", "request", "mkdir", "create", "info", "register", "open"}
    BY DEF GetStep, Lookup, GetUpdating, GetForgets, GetHit, GetUnreadable, GetMissing,
           GetRequestError, GetReply, GetReplyStuck, GetMkdir, GetCreate, GetCreateFails, GetInfo,
           GetInfoFails, GetRegister, GetOpen
  <1> QED
    BY <1>2, <1>3, <1>4 DEF Registered, Tracks

\* The answer of Get is what is at the path, and a HIT is sound.
LEMMA GetAnswers ==
  ASSUME Typed, Typed', Undisturbed, Registered, Complete, Swept, NEW c \in Clients,
         GetUpdating(c) \/ GetHit(c) \/ GetOpen(c)
  PROVE  CacheStep
  <1>1. GetStep(c) /\ path[c] \in Paths
    BY DEF GetStep, Typed, TypeOK, Procs
  <1>2. Sees(c) /\ Reach(c)' = Reach(c) /\ res[c] \notin Served
    BY <1>1, GetSees
  <1>3. UNCHANGED <<dir, Sounds, expired>>
    BY SameSounds DEF GetUpdating, GetHit, GetOpen, disk, jobs
  <1>4. CASE res'[c] \notin Served
    BY <1>2, <1>3, <1>4, NothingSeen, Unseen
  <1>5. CASE res'[c] \in Served
    <2>1. Reaches' = Reaches
      BY <1>2, SeenByOne DEF Reaches
    <2>2. /\ HitsOf' = [HitsOf EXCEPT ![c] = IF res'[c] = "hit" THEN opened'[c] ELSE None]
          /\ FollowsOf' = [FollowsOf EXCEPT ![c] =
                             IF res'[c] \in Served \ {"hit"} THEN opened'[c] ELSE None]
          /\ HitsOf[c] = None /\ FollowsOf[c] = None
      BY <1>2, SeenByOne DEF HitsOf, FollowsOf, Served
    <2>3. opened'[c] = dir[path[c]] /\ dir[path[c]] # None /\ (res'[c] = "hit" => GetHit(c))
      BY <1>5, LeaveMoves, LabelFacts
      DEF GetUpdating, GetHit, GetOpen, Leave, Opens, Typed, TypeOK, Served
    <2>4. CASE res'[c] = "hit"
      <3>1. Sounds[dir[path[c]]]
        BY <2>3, <2>4, HitComplete DEF Sounds
      <3>2. [FollowsOf EXCEPT ![c] = None] = FollowsOf
        BY <2>2 DEF FollowsOf
      <3>3. res'[c] \notin Served \ {"hit"}
        BY <2>4
      <3>4. HitsOf' = [HitsOf EXCEPT ![c] = dir[path[c]]] /\ FollowsOf' = FollowsOf
        BY <2>2, <2>3, <2>4, <3>2, <3>3
      <3> QED
        BY <1>1, <1>3, <2>1, <2>3, <3>1, <3>4, SeenAnswer
    <2>5. CASE res'[c] # "hit"
      <3>1. HitsOf' = HitsOf /\ FollowsOf' = [FollowsOf EXCEPT ![c] = dir[path[c]]]
        BY <1>5, <2>2, <2>3, <2>5 DEF HitsOf
      <3> QED
        BY <1>1, <1>3, <2>1, <2>3, <3>1, SeenAnswer
    <2> QED
      BY <2>4, <2>5
  <1> QED
    BY <1>4, <1>5

\* Get throws away what has expired, or what it could not create.
LEMMA GetDrops ==
  ASSUME Typed, Typed', Undisturbed, Registered, Complete, Swept, Orderly, NEW c \in Clients,
         GetReply(c) \/ GetInfoFails(c)
  PROVE  CacheStep
  <1>1. GetStep(c) /\ path[c] \in Paths /\ c \in Procs
    BY DEF GetStep, Typed, TypeOK, Procs
  <1>2. Sees(c) /\ Reach(c)' = Reach(c) /\ res[c] \notin Served
    BY <1>1, GetSees
  <1>3. res'[c] \notin Served
    BY <1>2 DEF GetReply, GetInfoFails, Leave, Typed, TypeOK, Served
  <1>4. UNCHANGED <<Reaches, HitsOf, FollowsOf>>
    BY <1>2, <1>3, NothingSeen
  <1>5. UNCHANGED <<Sounds, expired>> /\ dir' = [dir EXCEPT ![path[c]] = None]
    BY SameSounds DEF GetReply, GetInfoFails, Trashed, jobs
  <1>6. dir[path[c]] # None => expired[dir[path[c]]] \/ ~Sounds[dir[path[c]]]
    <2>1. CASE GetReply(c)
      BY <1>1, <2>1 DEF GetReply, Orderly, Clears
    <2>2. CASE GetInfoFails(c)
      <3>1. dir[path[c]] = await[c] /\ await[c] \in Objs /\ ~whole[await[c]]
        BY <1>1, <2>2
        DEF GetInfoFails, Undisturbed, Settled, Creates, Complete, Begins, Creating
      <3> QED
        BY <3>1 DEF Sounds, Sound
    <2> QED
      BY <2>1, <2>2
  <1>7. CASE dir[path[c]] = None
    BY <1>4, <1>5, <1>7, Unseen DEF Typed, TypeOK
  <1>8. CASE dir[path[c]] # None
    BY <1>1, <1>4, <1>5, <1>6, <1>8, SeenDrop
  <1> QED
    BY <1>7, <1>8

\* Get creates data where none is, of which nobody has an answer.
LEMMA GetFills ==
  ASSUME Typed, Typed', Undisturbed, Registered, Swept, Orderly, NEW c \in Clients, GetCreate(c)
  PROVE  CacheStep
  <1>1. GetStep(c) /\ path[c] \in Paths /\ c \in Procs /\ dir[path[c]] = None
    BY DEF GetStep, GetCreate, Typed, TypeOK, Procs, Orderly, Clears
  <1>2. Sees(c) /\ Reach(c)' = Reach(c) /\ res[c] \notin Served
    BY <1>1, GetSees
  <1>3. UNCHANGED <<Reaches, HitsOf, FollowsOf>>
    BY <1>2, NothingSeen DEF GetCreate
  <1>4. PICK o \in Objs : /\ Free(o)
                          /\ dir' = [dir EXCEPT ![path[c]] = o]
                          /\ whole' = [whole EXCEPT ![o] = FALSE]
                          /\ expired' = [expired EXCEPT ![o] = FALSE]
    BY DEF GetCreate
  <1>5. Sounds' = [Sounds EXCEPT ![o] = FALSE]
    <2>1. failed' = failed /\ ~Sound(o)' /\ \A r \in Objs : r # o => Sound(r)' = Sound(r)
      BY <1>4 DEF GetCreate, Sound, Typed, TypeOK, jobs
    <2>2. Sounds' = [r \in Objs |-> IF r = o THEN FALSE ELSE Sound(r)]
      BY <2>1 DEF Sounds, Sound
    <2>3. [Sounds EXCEPT ![o] = FALSE] = [r \in Objs |-> IF r = o THEN FALSE ELSE Sound(r)]
      BY DEF Sounds, Sound
    <2> QED
      BY <2>2, <2>3
  <1>6. \A q \in Paths : dir[q] # o
    BY <1>4 DEF Free, Present
  <1>7. \A d \in Clients : HitsOf[d] # o /\ FollowsOf[d] # o
    BY <1>4 DEF Free, InUse, HitsOf, FollowsOf
  <1> QED
    BY <1>1, <1>3, <1>4, <1>5, <1>6, <1>7, SeenFill

\* The steps of Get.
LEMMA GetCache ==
  ASSUME Typed, Typed', Undisturbed, Registered, Complete, Swept, Orderly, NEW c \in Clients,
         GetStep(c)
  PROVE  CacheStep
  <1>1. CASE GetUpdating(c) \/ GetHit(c) \/ GetOpen(c)
    BY <1>1, GetAnswers
  <1>2. CASE GetReply(c) \/ GetInfoFails(c)
    BY <1>2, GetDrops
  <1>3. CASE GetCreate(c)
    BY <1>3, GetFills
  <1>4. CASE \/ Lookup(c) \/ GetForgets(c) \/ GetUnreadable(c) \/ GetMissing(c)
             \/ GetRequestError(c) \/ GetReplyStuck(c) \/ GetMkdir(c) \/ GetCreateFails(c)
             \/ GetInfo(c) \/ GetRegister(c)
    <2>1. Sees(c) /\ Reach(c)' = Reach(c) /\ res[c] \notin Served
      BY GetSees
    <2>2. res'[c] = res[c] \/ res'[c] \in {"error", "panic", "requesterror"}
      BY <1>4 DEF Lookup, GetForgets, GetUnreadable, GetMissing, GetRequestError, GetReplyStuck,
                  GetMkdir, GetCreateFails, GetInfo, GetRegister, Leave, Typed, TypeOK, callers
    <2>3. UNCHANGED <<dir, whole, expired>>
      BY <1>4 DEF Lookup, GetForgets, GetUnreadable, GetMissing, GetRequestError, GetReplyStuck,
                  GetMkdir, GetCreateFails, GetInfo, GetRegister, disk
    <2>4. Sounds' = Sounds
      <3>1. CASE GetRegister(c)
        <4>1. await[c] \in Objs /\ ~whole[await[c]] /\ whole' = whole
          BY <2>3, <3>1 DEF GetRegister, Undisturbed, Creates, Complete, Begins, Creating
        <4>2. \A r \in Objs : r # await[c] => failed'[r] = failed[r]
          BY <3>1 DEF GetRegister, Typed, TypeOK
        <4>3. \A r \in Objs : Sound(r)' = Sound(r)
          BY <4>1, <4>2 DEF Sound
        <4> QED
          BY <4>3 DEF Sounds
      <3>2. CASE ~GetRegister(c)
        <4>1. failed' = failed
          BY <1>4, <3>2 DEF Lookup, GetForgets, GetUnreadable, GetMissing, GetRequestError,
                            GetReplyStuck, GetMkdir, GetCreateFails, GetInfo, jobs
        <4> QED
          BY <2>3, <4>1, SameSounds
      <3> QED
        BY <3>1, <3>2
    <2> QED
      BY <2>1, <2>2, <2>3, <2>4, NothingSeen, Unseen DEF Served
  <1> QED
    BY <1>1, <1>2, <1>3, <1>4 DEF GetStep

-----------------------------------------------------------------------------
\* Locking is not seen, but that a purge which lets its locks go has been to
\* its path.
LEMMA LockCache ==
  ASSUME Typed, Typed', Complete, Swept, Orderly, NEW q \in Procs, Locking(q) \/ Unlock(q)
  PROVE  CacheStep
  <1>1. UNCHANGED <<dir, Sounds, expired, res, opened, op, todo>>
    BY SameSounds DEF Locking, RLockHost, LockData, Unlock, disk, jobs, callers
  <1>2. Sees(q)
    BY <1>1, LockApart DEF Sees, Swept
  <1>3. CASE q \notin Clients
    BY <1>1, <1>2, <1>3, SeenByNone, Unseen
  <1>4. CASE q \in Clients
    <2>1. UNCHANGED <<HitsOf, FollowsOf>>
      BY <1>1 DEF HitsOf, FollowsOf
    <2>2. Reaches' = [Reaches EXCEPT ![q] = Reach(q)'] /\ Reaches[q] = Reach(q)
      BY <1>2, <1>4, SeenByOne DEF Reaches
    <2>3. Reach(q)' \subseteq Reach(q) /\ Reach(q)' \in SUBSET Paths
      <3>1. CASE Locking(q)
        <4>1. pc[q] # "return" /\ pc'[q] # "return" /\ path' = path
          BY <3>1 DEF Locking, RLockHost, LockData, Section, Goto, jobs, Typed, TypeOK
        <4> QED
          BY <1>1, <1>4, <4>1, ReachIs, ReachNext
      <3>2. CASE Unlock(q)
        <4>1. pc'[q] = Outside(q) /\ (op[q] # "get" => res[q] \notin Served) /\ res[q] # "panic"
          BY <1>4, <3>2 DEF Unlock, Goto, Typed, TypeOK, Orderly, Plain, Complete, Lasts
        <4>2. op[q] = "purge" => pc'[q] = "return"
          BY <1>4, <4>1 DEF Outside
        <4> QED
          BY <1>1, <1>4, <4>2, ReachIs, ReachNext
      <3> QED
        BY <3>1, <3>2
    <2>4. PICK S \in SUBSET Paths : S = Reach(q)'
      BY <2>3
    <2>5. S \subseteq Reaches[q] /\ Reaches' = [Reaches EXCEPT ![q] = S]
      BY <2>2, <2>3, <2>4
    <2> QED
      BY <1>1, <1>4, <2>1, <2>5, SeenReach
  <1> QED
    BY <1>3, <1>4

\* Purge moves away what is at its path.
LEMMA PurgeCache ==
  ASSUME Typed, Typed', Undisturbed, Registered, Swept, Orderly, NEW c \in Clients,
         Purge(c) \/ PurgeRename(c)
  PROVE  CacheStep
  <1>1. /\ c \in Procs /\ path[c] \in Paths /\ pc[c] \in {"stat", "rename"}
        /\ UNCHANGED <<Sounds, expired, path, opened, op, todo>>
    BY SameSounds DEF Purge, PurgeRename, Procs, Typed, TypeOK, disk, jobs
  <1>2. pc'[c] \in {"rename", "unlock"} /\ (res' = res \/ res'[c] \notin Served)
    BY LabelFacts, ClientMoves, LeaveMoves DEF Purge, PurgeRename, Typed, TypeOK, Served
  <1>3. Sees(c) /\ res[c] \notin Served
    BY <1>1, GetApart DEF Sees, Swept, Registered, Tracks
  <1>4. Reach(c)' = Reach(c)
    <2>1. pc[c] # "return" /\ pc'[c] # "return" /\ op'[c] = op[c] /\ todo'[c] = todo[c]
          /\ path'[c] = path[c]
      BY <1>1, <1>2
    <2>2. CASE op[c] = "get"
      BY <2>1, <2>2, ReachIs, ReachNext
    <2>3. CASE op[c] = "purge"
      BY <2>1, <2>3, ReachIs, ReachNext
    <2>4. CASE op[c] \in {"purgehost", "purgeall"}
      <3>1. Reach(c) = {p \in Paths : HostOf[p] \in todo[c]}
        BY <2>4, ReachIs
      <3>2. Reach(c)' = {p \in Paths : HostOf[p] \in todo'[c]}
        BY <2>1, <2>4, ReachNext
      <3> QED
        BY <2>1, <3>1, <3>2
    <2> QED
      BY <2>2, <2>3, <2>4, ReachIs
  <1>5. UNCHANGED <<Reaches, HitsOf, FollowsOf>>
    <2>1. res'[c] \notin Served
      BY <1>2, <1>3
    <2> QED
      BY <1>3, <1>4, <2>1, NothingSeen
  <1>6. CASE dir' = dir
    BY <1>1, <1>5, <1>6, Unseen
  <1>7. CASE dir' # dir
    <2>1. dir' = [dir EXCEPT ![path[c]] = None]
      BY <1>7 DEF Purge, PurgeRename, Trashed, disk
    <2>2. op[c] = "purge"
      BY <1>1, ReachIs DEF Orderly, Plain, Swept, PurgesHosts, Writing
    <2>3. Reaches[c] = {path[c]}
      BY <1>1, <2>2, ReachIs DEF Reaches
    <2>4. dir' = [p \in Paths |-> IF p \in {path[c]} THEN None ELSE dir[p]]
      BY <2>1 DEF Typed, TypeOK
    <2>5. PICK S \in SUBSET Paths : S = {path[c]}
      BY <1>1
    <2> QED
      BY <1>1, <1>5, <2>3, <2>4, <2>5, SeenPurge
  <1> QED
    BY <1>6, <1>7

\* PurgeHost moves away what is below its host, which it leaves behind then.
LEMMA HostCache ==
  ASSUME Typed, Typed', Undisturbed, Registered, Swept, Orderly, NEW c \in Clients,
         Announce(c) \/ HostStat(c) \/ HostRename(c) \/ HostUnlock(c) \/ PurgeAllCanceled(c)
  PROVE  CacheStep
  <1>1. /\ pc[c] \in Writing \cup {"announce"} /\ todo[c] # {} /\ todo'[c] \subseteq todo[c]
        /\ UNCHANGED <<Sounds, expired, opened, op>>
    BY SameSounds
    DEF Announce, HostStat, HostRename, HostUnlock, PurgeAllCanceled, Left, Writing, disk, jobs,
           callers, Typed, TypeOK, Undisturbed, HostLocked, Writes
  <1>2. op[c] \in {"purgehost", "purgeall"}
    BY <1>1 DEF Orderly, Plain
  <1>3. Sees(c)
    BY <1>1, CallApart DEF Sees, Swept
  <1>4. res[c] \notin Served
    BY <1>1 DEF Registered, Tracks, Writing
  <1>5. res'[c] \notin Served
    BY <1>4 DEF Announce, HostStat, HostRename, HostUnlock, PurgeAllCanceled, callers, Served,
                Typed, TypeOK
  <1>6. /\ UNCHANGED <<HitsOf, FollowsOf>>
        /\ Reaches' = [Reaches EXCEPT ![c] = Reach(c)'] /\ Reaches[c] = Reach(c)
    BY <1>3, <1>4, <1>5, NotAnswered DEF Reaches
  <1>7. Reach(c)' \subseteq Reach(c) /\ Reach(c)' \in SUBSET Paths
    BY <1>1, <1>2, ReachIs, ReachNext
  <1>8. CASE dir' = dir
    <2>1. PICK S \in SUBSET Paths : S = Reach(c)'
      BY <1>7
    <2>2. S \subseteq Reaches[c] /\ Reaches' = [Reaches EXCEPT ![c] = S]
      BY <1>6, <1>7, <2>1
    <2> QED
      BY <1>1, <1>6, <1>8, <2>2, SeenReach
  <1>9. CASE dir' # dir
    <2>1. HostRename(c)
      BY <1>9 DEF Announce, HostStat, HostUnlock, PurgeAllCanceled, disk
    <2> DEFINE S == {p \in Paths : HostOf[p] = Target(c)}
    <2>2. /\ dir' = [p \in Paths |-> IF p \in S THEN None ELSE dir[p]]
          /\ UNCHANGED todo
      BY <1>9, <2>1 DEF HostRename
    <2>3. S \subseteq Reach(c) /\ S \in SUBSET Paths
      BY <1>1, <1>2, TargetFacts, ReachIs
    <2>4. Reach(c)' = Reach(c)
      <3>1. op'[c] = op[c] /\ todo'[c] = todo[c]
        BY <1>1, <2>2
      <3>2. Reach(c) = {p \in Paths : HostOf[p] \in todo[c]}
        BY <1>2, ReachIs
      <3>3. Reach(c)' = {p \in Paths : HostOf[p] \in todo'[c]}
        BY <1>2, <3>1, ReachNext
      <3> QED
        BY <3>1, <3>2, <3>3
    <2>5. UNCHANGED <<Reaches, HitsOf, FollowsOf>>
      BY <1>3, <1>4, <1>5, <2>4, NothingSeen
    <2> HIDE DEF S
    <2>6. S \subseteq Reaches[c]
      BY <1>6, <2>3
    <2> QED
      BY <1>1, <2>2, <2>3, <2>5, <2>6, SeenPurge
  <1> QED
    BY <1>8, <1>9

\* A call begins: it had no paths to go to before.
LEMMA CallCache ==
  ASSUME Typed, Typed', Undisturbed, Registered, Swept, NEW c \in Clients, Calling(c)
  PROVE  CacheStep
  <1>1. pc[c] = "idle" /\ UNCHANGED <<dir, Sounds, expired, opened>>
    BY SameSounds DEF Calling, Call, CallPurgeHost, CallPurgeAll, disk, jobs, callers
  <1>2. op[c] = "get"
    BY <1>1, ReachIs DEF Swept, PurgesPath, PurgesHosts, Writing
  <1>3. Sees(c)
    BY <1>1, CallApart DEF Sees, Swept
  <1>4. res[c] \notin Served
    BY <1>1 DEF Registered, Tracks
  <1>5. res'[c] \notin Served
    BY <1>4 DEF Calling, Call, CallPurgeHost, CallPurgeAll, callers, Served, Typed, TypeOK
  <1>6. /\ UNCHANGED <<HitsOf, FollowsOf>>
        /\ Reaches' = [Reaches EXCEPT ![c] = Reach(c)'] /\ Reaches[c] = {}
    BY <1>2, <1>3, <1>4, <1>5, NotAnswered, ReachIs DEF Reaches
  <1>7. PICK S \in SUBSET Paths : S = Reach(c)'
    BY ReachNext
  <1>8. Reaches' = [Reaches EXCEPT ![c] = S]
    BY <1>6, <1>7
  <1> QED
    BY <1>1, <1>6, <1>8, SeenReach

\* An answer ends; a purge that has returned has no paths to go to.
LEMMA ReturnCache ==
  ASSUME Typed, Typed', Undisturbed, Registered, Swept, Orderly, NEW c \in Clients, Return(c)
  PROVE  CacheStep
  <1>1. /\ pc[c] \in {"return", "stream"} /\ op'[c] = "get" /\ res'[c] = "none"
        /\ opened' = [opened EXCEPT ![c] = None]
        /\ UNCHANGED <<dir, Sounds, expired>>
    BY SameSounds DEF Return, disk, Typed, TypeOK
  <1>2. Sees(c)
    BY <1>1, CallApart DEF Sees, Swept, Typed, TypeOK
  <1>3. Reach(c) = {}
    <2>1. todo[c] = {} /\ (op[c] = "purge" => pc[c] = "return")
      BY <1>1 DEF Orderly, Plain, Writing
    <2> QED
      BY <2>1, ReachIs
  <1>4. Reach(c)' = Reach(c)
    BY <1>1, <1>3, ReachNext
  <1>5. /\ Reaches' = Reaches
        /\ HitsOf' = [HitsOf EXCEPT ![c] = None] /\ FollowsOf' = [FollowsOf EXCEPT ![c] = None]
    BY <1>1, <1>2, <1>4, SeenByOne DEF Reaches, Served
  <1> QED
    BY <1>1, <1>5, SeenEnd

\* A download ends well, or throws away what it has of the body.
LEMMA DownloadCache ==
  ASSUME Typed, Registered, Complete, Swept, Orderly, NEW o \in Objs, DownloadNext(o)
  PROVE  CacheStep
  <1>1. o \in Procs /\ o \notin Clients /\ path[o] \in Paths /\ o # None
    BY DEF Procs, Typed, TypeOK
  <1>2. UNCHANGED <<expired, opened>>
    BY DEF DownloadNext, CopyDone, Lookup, Finish, disk, callers
  <1>3. Sees(o)
    BY <1>2, OtherApart DEF Sees, Apart, Swept
  <1>4. UNCHANGED <<Reaches, HitsOf, FollowsOf>>
    BY <1>1, <1>3, SeenByNone
  <1>5. CASE CopyDone(o)
    <2>1. dir' = dir /\ ~Sound(o)
      BY <1>5 DEF CopyDone, Complete, Fills, Sound
    <2>2. \A r \in Objs : r # o => Sound(r)' = Sound(r)
      BY <1>5 DEF CopyDone, Sound, Typed, TypeOK
    <2>3. CASE Sound(o)'
      <3>1. Sounds' = [Sounds EXCEPT ![o] = TRUE]
        BY <2>2, <2>3 DEF Sounds, Sound
      <3> QED
        BY <1>2, <1>4, <2>1, <3>1, SeenBody
    <2>4. CASE ~Sound(o)'
      <3>1. \A r \in Objs : Sound(r)' = Sound(r)
        BY <2>1, <2>2, <2>4 DEF Sound
      <3>2. Sounds' = Sounds
        BY <3>1 DEF Sounds
      <3> QED
        BY <1>2, <1>4, <2>1, <3>2, Unseen
    <2> QED
      BY <2>3, <2>4
  <1>6. CASE Lookup(o)
    BY <1>2, <1>4, <1>6, SameSounds, Unseen DEF Lookup, disk
  <1>7. CASE Finish(o)
    <2>1. Sounds' = Sounds
      BY <1>7, SameSounds DEF Finish
    <2>2. CASE dir' = dir
      BY <1>2, <1>4, <2>1, <2>2, Unseen
    <2>3. CASE dir' # dir
      <3>1. Discards(o) /\ dir' = [dir EXCEPT ![path[o]] = None] /\ pc[o] = "finish"
        BY <1>7, <2>3 DEF Finish, Trashed
      <3>2. dir[path[o]] # None
        BY <1>1, <2>3, <3>1 DEF Typed, TypeOK
      <3>3. downloads[KeyOf[path[o]]] = o
        BY <1>1, <3>1 DEF Discards, Mine, Registered, Fresh, Key
      <3>4. dir[path[o]] = o
        BY <1>1, <3>2, <3>3 DEF Registered, Matches
      <3>5. ~Sounds[o]
        BY <3>1 DEF Discards, Sounds, Sound
      <3> QED
        BY <1>1, <1>2, <1>4, <2>1, <3>1, <3>2, <3>4, <3>5, SeenDrop
    <2> QED
      BY <2>2, <2>3
  <1> QED
    BY <1>5, <1>6, <1>7 DEF DownloadNext

\* contentCleaner throws away what has expired.
LEMMA CleanerCache ==
  ASSUME Typed, Swept, Orderly, CleanerNext
  PROVE  CacheStep
  <1>1. Cleaner \in Procs /\ Cleaner \notin Clients /\ path[Cleaner] \in Paths
    BY DEF Procs, Typed, TypeOK
  <1>2. UNCHANGED <<Sounds, expired, opened>>
    BY SameSounds
    DEF CleanerNext, WalkStart, WalkHost, WalkData, CleanStat, CleanOpen, CleanRename, disk, jobs,
        callers
  <1>3. Sees(Cleaner)
    BY <1>2, OtherApart DEF Sees, Apart, Swept
  <1>4. UNCHANGED <<Reaches, HitsOf, FollowsOf>>
    BY <1>1, <1>3, SeenByNone
  <1>5. CASE dir' = dir
    BY <1>2, <1>4, <1>5, Unseen
  <1>6. CASE dir' # dir
    <2>1. CleanRename /\ dir' = [dir EXCEPT ![path[Cleaner]] = None]
      BY <1>6 DEF CleanerNext, WalkStart, WalkHost, WalkData, CleanStat, CleanOpen, CleanRename,
                  Trashed, disk
    <2>2. dir[path[Cleaner]] # None /\ expired[dir[path[Cleaner]]]
      BY <1>1, <1>6, <2>1 DEF CleanRename, Orderly, Clears, Typed, TypeOK
    <2> QED
      BY <1>1, <1>2, <1>4, <2>1, <2>2, SeenDrop
  <1> QED
    BY <1>5, <1>6

\* trashCleaner is not seen, and time passes.
LEMMA AsideCache ==
  ASSUME Typed, Swept, UNCHANGED vars \/ \E o \in Objs : TrashRemove(o) \/ Expire(o)
  PROVE  CacheStep
  <1>1. opened' = opened /\ Cleaner \notin Clients
    BY DEF vars, TrashRemove, Expire, callers
  <1>2. Sees(Cleaner)
    BY <1>1, OtherApart DEF Sees, Apart, Swept
  <1>3. UNCHANGED <<Reaches, HitsOf, FollowsOf>>
    BY <1>1, <1>2, SeenByNone
  <1>4. CASE UNCHANGED <<dir, Sounds, expired>>
    BY <1>3, <1>4, Unseen
  <1>5. CASE \E o \in Objs : Expire(o)
    <2>1. PICK o \in Objs : Expire(o)
      BY <1>5
    <2>2. UNCHANGED <<dir, Sounds>> /\ expired' = [expired EXCEPT ![o] = TRUE]
      BY <2>1, SameSounds DEF Expire, jobs
    <2> QED
      BY <1>3, <2>2, SeenBody
  <1>6. UNCHANGED <<dir, Sounds, expired>> \/ \E o \in Objs : Expire(o)
    BY SameSounds DEF vars, disk, jobs, TrashRemove
  <1> QED
    BY <1>4, <1>5, <1>6

\* Every step of the store is a step of the cache or a stutter.
LEMMA NextCache ==
  ASSUME Unharmed
  PROVE  StoreInv /\ StoreInv' /\ [Next]_vars => CacheStep
  <1> SUFFICES ASSUME Typed, Typed', Undisturbed, Registered, Complete, Swept, Orderly
               PROVE  [Next]_vars => CacheStep
    BY DEF StoreInv
  <1>1. ASSUME NEW q \in Procs, Locking(q) \/ Unlock(q) PROVE CacheStep
    BY <1>1, LockCache
  <1>2. ASSUME NEW c \in Clients, ClientNext(c) PROVE CacheStep
    <2>1. CASE GetStep(c)
      BY <2>1, GetCache
    <2>2. CASE Purge(c) \/ PurgeRename(c)
      BY <2>2, PurgeCache
    <2>3. CASE Announce(c) \/ HostStat(c) \/ HostRename(c) \/ HostUnlock(c) \/ PurgeAllCanceled(c)
      BY <2>3, HostCache
    <2>4. CASE Calling(c)
      BY <2>4, CallCache
    <2>5. CASE Return(c)
      BY <2>5, ReturnCache
    <2>6. ~Fatal(c)
      BY DEF Fatal, Complete, Lasts
    <2> QED
      BY <1>2, <2>1, <2>2, <2>3, <2>4, <2>5, <2>6 DEF ClientNext, PurgeStep
  <1>3. ASSUME NEW o \in Objs, DownloadNext(o) PROVE CacheStep
    BY <1>3, DownloadCache
  <1>4. CASE CleanerNext
    BY <1>4, CleanerCache
  <1>5. CASE UNCHANGED vars \/ \E o \in Objs : TrashRemove(o) \/ Expire(o)
    BY <1>5, AsideCache
  <1>6. ~Crash
    BY DEF Crash, Unharmed
  <1> QED
    BY <1>1, <1>2, <1>3, <1>4, <1>5, <1>6 DEF Next

\* store.go implements the cache: whatever its locks, directories and goroutines
\* do, callers see an entry per data path that goes only when it is expired, was
\* purged, or its download has not ended well; hits that are whole and sound; and
\* answers that read one entry.
THEOREM ServesACache == ASSUME KeysApart, Unharmed PROVE Spec => ImplementsCache
  <1>1. Init => cache!Init
    BY DEF Init, cache!Init, Sound, Reach, Served
  <1>2. StoreInv /\ StoreInv' /\ [Next]_vars => [cache!Next]_cache!cvars
    BY NextCache DEF CacheStep
  <1> QED
    BY <1>1, <1>2, StoreInvInit, StoreInvStep, PTL DEF Spec, ImplementsCache, cache!Spec
=============================================================================
