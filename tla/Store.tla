------------------------------- MODULE Store -------------------------------
(***************************************************************************)
(* store/store.go: the content store.  A data directory per cached URL     *)
(* lives under content/<host>/, is filled by a download goroutine, served  *)
(* while it is being filled, replaced once expired, moved to trash by the  *)
(* purges and by contentCleaner, and deleted there by trashCleaner.        *)
(*                                                                         *)
(* A data directory, the download that fills it and the channel that       *)
(* download closes are one object of Objs; its identity is reused when     *)
(* nothing refers to it any more.  The locks are the abstract ones of      *)
(* NamedRWLock, which NamedLock implements.  Time is the action Expire.    *)
(***************************************************************************)
EXTENDS Integers, Sequences, FiniteSets

CONSTANTS Clients,    \* goroutines that call Get, Purge, PurgeHost, PurgeAll
          Objs,       \* data directories, as many as the disk holds (a bound)
          Cleaner,    \* the contentCleaner goroutine
          Paths,      \* data paths, getDataPath(baseURL, keyURL)
          Hosts,      \* base hosts: the directories below content/
          Keys,       \* key URLs
          HostOf,     \* HostOf[p]: the base host of data path p
          KeyOf,      \* KeyOf[p]: the key URL of data path p
          Walk,       \* the lexical order in which a walk meets hosts and data;
                      \* <<>> leaves contentCleaner out
          None,       \* no object
          NoHost,     \* "", the host name contentCleaner computes
          Ops,        \* Ops[c]: the store methods client c calls
          Replies,    \* what startDownload makes of the origin's answers
          Faults      \* what the environment may do: a subset of FaultKinds

FaultKinds == {"crash",     \* the process dies and is started again
               "request",   \* the origin cannot be reached (RequestError)
               "copy",      \* the copy of the origin's body ends early or with an error
               "disk",      \* a data directory cannot be filled in
               "rename"}    \* moveToTrash fails although its source exists

ASSUME KindAssumption == /\ Ops \in [Clients -> SUBSET {"get", "purge", "purgehost", "purgeall"}]
                         /\ Replies \subseteq {"cacheable", "toolarge", "dynamic"}
                         /\ Faults \subseteq FaultKinds
ASSUME PathAssumption == /\ HostOf \in [Paths -> Hosts]
                         /\ KeyOf \in [Paths -> Keys]
                         /\ Walk \in Seq(Hosts \cup Paths)
                         /\ Hosts \cap Paths = {} /\ Paths # {}
ASSUME IdAssumption   == /\ Clients \cap Objs = {}
                         /\ Cleaner \notin Clients \cup Objs
                         /\ None \notin Objs
                         /\ NoHost \notin Hosts

VARIABLES dir,        \* dir[p]: the data directory at p, or None
          hostDirs,   \* the hosts whose directory exists
          trash,      \* the data directories under trash/
          readable,   \* readable[o]: info and header are written, Data.Open works
          whole,      \* whole[o]: all of the body is there
          expired,    \* expired[o]: ExpiresAt has passed
          downloads,  \* Store.downloads: key URL -> channel
          failed,     \* failed[o]: err of the download goroutine
          hostW, hostR,   \* Store.hostLock
          dataW,          \* Store.dataLock, which nobody takes for reading
          pc,         \* where each goroutine is
          path,       \* path[q]: the data path goroutine q works on
          found,      \* found[q]: what q last read from downloads
          op,         \* op[c]: the method client c is in
          res,        \* res[c]: what the call returns: a cache status or an error
          existed,    \* existed[c]: Get's local exists
          opened,     \* opened[c]: the data the response reads
          await,      \* await[c]: the channel the response waits for, if any
          todo,       \* todo[c]: the hosts PurgeHost or PurgeAll has to purge
          before,     \* before[c]: history: what was in reach of c's purge when it began
          at,         \* the walk's position in Walk
          seen        \* the hosts the walk has read from content/

disk    == <<dir, hostDirs, trash, readable, whole, expired>>
locks   == <<hostW, hostR, dataW>>
jobs    == <<path, found, failed>>
callers == <<op, res, existed, opened, await, todo, before>>
walking == <<at, seen>>
vars    == <<disk, downloads, locks, pc, jobs, callers, walking>>

Procs == Clients \cup Objs \cup {Cleaner}
NObjs == Objs \cup {None}

hostLock == INSTANCE NamedRWLock WITH
              Names <- Hosts \cup {NoHost}, writers <- hostW, readers <- hostR
dataLock == INSTANCE NamedRWLock WITH
              Names <- Paths, writers <- dataW, readers <- [p \in Paths |-> {}]

Served  == {"hit", "updating", "miss", "expired"}
Results == Served \cup {"none", "dynamic", "toolarge", "requesterror", "error", "panic",
                        "ok", "notexists"}

Labels == {"idle", "host", "data", "unlock", "stream", "fatal",
           "lookup", "exists", "request", "mkdir", "create", "info", "register", "open",
           "stat", "rename", "announce", "drain", "hostrename",
           "hostunlock", "return", "copy", "finish"}

TypeOK == /\ dir \in [Paths -> NObjs]
          /\ hostDirs \subseteq Hosts
          /\ trash \subseteq Objs
          /\ readable \in [Objs -> BOOLEAN]
          /\ whole \in [Objs -> BOOLEAN]
          /\ expired \in [Objs -> BOOLEAN]
          /\ downloads \in [Keys -> NObjs]
          /\ failed \in [Objs -> BOOLEAN]
          /\ hostW \in [Hosts \cup {NoHost} -> SUBSET Procs]
          /\ hostR \in [Hosts \cup {NoHost} -> SUBSET Procs]
          /\ dataW \in [Paths -> SUBSET Procs]
          /\ pc \in [Procs -> Labels]
          /\ path \in [Procs -> Paths]
          /\ found \in [Procs -> NObjs]
          /\ op \in [Clients -> {"get", "purge", "purgehost", "purgeall"}]
          /\ res \in [Clients -> Results]
          /\ existed \in [Clients -> BOOLEAN]
          /\ opened \in [Clients -> NObjs]
          /\ await \in [Clients -> NObjs]
          /\ todo \in [Clients -> SUBSET Hosts]
          /\ before \in [Clients -> SUBSET Objs]
          /\ at \in 1 .. Len(Walk) + 1
          /\ seen \subseteq Hosts

AnyPath == CHOOSE p \in Paths : TRUE

Init == /\ dir = [p \in Paths |-> None]
        /\ hostDirs = {}
        /\ trash = {}
        /\ readable = [o \in Objs |-> FALSE]
        /\ whole = [o \in Objs |-> FALSE]
        /\ expired = [o \in Objs |-> FALSE]
        /\ downloads = [k \in Keys |-> None]
        /\ failed = [o \in Objs |-> FALSE]
        /\ hostW = [h \in Hosts \cup {NoHost} |-> {}]
        /\ hostR = [h \in Hosts \cup {NoHost} |-> {}]
        /\ dataW = [p \in Paths |-> {}]
        /\ pc = [q \in Procs |-> "idle"]
        /\ path = [q \in Procs |-> AnyPath]
        /\ found = [q \in Procs |-> None]
        /\ op = [c \in Clients |-> "get"]
        /\ res = [c \in Clients |-> "none"]
        /\ existed = [c \in Clients |-> FALSE]
        /\ opened = [c \in Clients |-> None]
        /\ await = [c \in Clients |-> None]
        /\ todo = [c \in Clients |-> {}]
        /\ before = [c \in Clients |-> {}]
        /\ at = Len(Walk) + 1
        /\ seen = {}

-----------------------------------------------------------------------------
(* Helpers.                                                                 *)

Goto(q, l) == pc' = [pc EXCEPT ![q] = l]
Key(q)     == KeyOf[path[q]]

\* The objects in content/.
Present == {dir[p] : p \in Paths} \ {None}

\* A goroutine or the downloads map refers to o.
InUse(o) == \/ pc[o] # "idle"
            \/ \E k \in Keys : downloads[k] = o
            \/ \E c \in Clients : \/ o \in {opened[c], await[c]}
                                  \/ pc[c] = "exists" /\ found[c] = o

\* Nothing is left of o: it can be a new data directory.
Free(o) == o \notin Present \cup trash /\ ~InUse(o)

\* Seeded fault: a rename that found nothing counts as done.
TrashedBlindly(p) == /\ dir' = [dir EXCEPT ![p] = None]
                     /\ trash' = trash \cup {dir[p]}

\* moveToTrash of the data directory at p.
Trashed(p) == /\ dir' = [dir EXCEPT ![p] = None]
              /\ trash' = trash \cup ({dir[p]} \ {None})

\* The download of o has ended, and without an error.
Sound(o) == whole[o] /\ ~failed[o]

\* Data.Open succeeds on the directory o, if there is one.
Opens(o) == o # None /\ readable[o]

\* contentCleaner cuts the host name at the first separator, which is the
\* leading one: it locks the empty name.
HostName(q) == IF q = Cleaner THEN NoHost ELSE HostOf[path[q]]

\* Where a goroutine goes on once it has the data lock.
Section(q) == IF q \in Objs THEN "lookup"
              ELSE IF q # Cleaner /\ op[q] = "get" THEN "lookup" ELSE "stat"

-----------------------------------------------------------------------------
(* The two locks around every data directory: hostLock for reading, then    *)
(* dataLock, released in the opposite order.                                *)

RLockHost(q) == /\ pc[q] = "host"
                /\ hostLock!RLock(q, HostName(q))
                /\ Goto(q, "data")
                /\ UNCHANGED <<disk, downloads, dataW, jobs, callers, walking>>

\* Seeded fault: the data lock excludes nobody.
LockDataShared(q) == /\ pc[q] = "data"
                     /\ dataW' = [dataW EXCEPT ![path[q]] = {q}]
                     /\ Goto(q, Section(q))
                     /\ UNCHANGED <<disk, downloads, hostW, hostR, jobs, callers, walking>>

LockData(q) == /\ pc[q] = "data"
               /\ dataLock!Announce(q, path[q])
               /\ Goto(q, Section(q))
               /\ UNCHANGED <<disk, downloads, hostW, hostR, jobs, callers, walking>>

\* Where a goroutine is once it holds no lock any more.  A panic in Get is
\* recovered by the HTTP handler, which ends the process.
Outside(q) == IF q \notin Clients THEN "idle"
              ELSE IF res[q] \in Served THEN "stream"
              ELSE IF res[q] = "panic" THEN "fatal" ELSE "return"

\* The deferred unlocks, one step: a goroutine does nothing in between.
Unlock(q) == /\ pc[q] = "unlock"
             /\ dataLock!Unlock(q, path[q], {})
             /\ hostLock!RUnlock(q, HostName(q))
             /\ Goto(q, Outside(q))
             /\ path' = [path EXCEPT ![q] = AnyPath]
             /\ UNCHANGED <<disk, downloads, found, failed, callers, walking>>

-----------------------------------------------------------------------------
(* Get and startDownload.                                                   *)

Call(c, o, p) == /\ pc[c] = "idle"
                 /\ o \in Ops[c]
                 /\ op' = [op EXCEPT ![c] = o]
                 /\ path' = [path EXCEPT ![c] = p]
                 /\ before' = [before EXCEPT ![c] = IF o = "purge" THEN {dir[p]} \ {None} ELSE {}]
                 /\ Goto(c, "host")
                 /\ UNCHANGED <<disk, downloads, locks, found, failed, res, existed, opened,
                                await, todo, walking>>

\* Reading downloads: Get under its locks, the download goroutine at its end.
Lookup(q) == /\ pc[q] = "lookup"
             /\ found' = [found EXCEPT ![q] = downloads[Key(q)]]
             /\ Goto(q, IF q \in Objs THEN "finish" ELSE "exists")
             /\ UNCHANGED <<disk, downloads, locks, path, failed, callers, walking>>

\* Get leaves with result r; the deferred unlocks follow.
Leave(c, r) == /\ res' = [res EXCEPT ![c] = r]
               /\ Goto(c, "unlock")

\* Get with a download registered and its data there: served while it grows.
GetUpdating(c) ==
  /\ pc[c] = "exists" /\ found[c] # None /\ dir[path[c]] # None
  /\ \/ /\ Opens(dir[path[c]])
        /\ opened' = [opened EXCEPT ![c] = dir[path[c]]]
        /\ await' = [await EXCEPT ![c] = found[c]]
        /\ Leave(c, "updating")
     \/ /\ ~Opens(dir[path[c]])
        /\ Leave(c, "error")
        /\ UNCHANGED <<opened, await>>
  /\ UNCHANGED <<disk, downloads, locks, jobs, op, existed, todo, before, walking>>

\* The data of a registered download is gone (a purge, or it expired): the
\* registration is dropped and the data is requested again.
GetForgets(c) ==
  /\ pc[c] = "exists" /\ found[c] # None /\ dir[path[c]] = None
  /\ downloads' = [downloads EXCEPT ![Key(c)] = None]
  /\ Goto(c, "request")
  /\ UNCHANGED <<disk, locks, jobs, callers, walking>>

\* No download is registered: what is there is complete.
GetHit(c) ==
  /\ pc[c] = "exists" /\ found[c] = None /\ dir[path[c]] # None
  /\ readable[dir[path[c]]] /\ ~expired[dir[path[c]]]
  /\ opened' = [opened EXCEPT ![c] = dir[path[c]]]
  /\ Leave(c, "hit")
  /\ UNCHANGED <<disk, downloads, locks, jobs, op, existed, await, todo, before, walking>>

GetUnreadable(c) ==
  /\ pc[c] = "exists" /\ found[c] = None /\ dir[path[c]] # None
  /\ ~readable[dir[path[c]]]
  /\ Leave(c, "error")
  /\ UNCHANGED <<disk, downloads, locks, jobs, op, existed, opened, await, todo, before, walking>>

\* Missing or expired data is requested from the origin.
GetMissing(c) ==
  /\ pc[c] = "exists" /\ found[c] = None
  /\ dir[path[c]] # None => readable[dir[path[c]]] /\ expired[dir[path[c]]]
  /\ existed' = [existed EXCEPT ![c] = dir[path[c]] # None]
  /\ Goto(c, "request")
  /\ UNCHANGED <<disk, downloads, locks, jobs, op, res, opened, await, todo, before, walking>>

\* RequestError.  Where expired data exists Get reopens the Data it has opened
\* and closed before, and Data.Open panics: "already initialized".
GetRequestError(c) ==
  /\ pc[c] = "request" /\ "request" \in Faults
  /\ Leave(c, IF existed[c] THEN "panic" ELSE "requesterror")
  /\ UNCHANGED <<disk, downloads, locks, jobs, op, existed, opened, await, todo, before, walking>>

\* The origin answered: expired data goes to trash first, whatever follows.
GetReply(c) ==
  /\ pc[c] = "request"
  /\ Trashed(path[c])
  /\ \/ "cacheable" \in Replies /\ Goto(c, "mkdir") /\ UNCHANGED res
     \/ \E r \in Replies \ {"cacheable"} : Leave(c, r)
  /\ UNCHANGED <<hostDirs, readable, whole, expired, downloads, locks, jobs, op, existed, opened,
                 await, todo, before, walking>>

GetReplyStuck(c) ==
  /\ pc[c] = "request" /\ "rename" \in Faults /\ dir[path[c]] # None
  /\ Leave(c, "error")
  /\ UNCHANGED <<disk, downloads, locks, jobs, op, existed, opened, await, todo, before, walking>>

\* Data.Create: os.MkdirAll makes the parents ...
GetMkdir(c) ==
  /\ pc[c] = "mkdir"
  /\ hostDirs' = hostDirs \cup {HostOf[path[c]]}
  /\ Goto(c, "create")
  /\ UNCHANGED <<dir, trash, readable, whole, expired, downloads, locks, jobs, callers, walking>>

\* ... and then the data directory, unless contentCleaner, which removes empty
\* directories without a lock, has removed a parent in between.
GetCreate(c) ==
  /\ pc[c] = "create" /\ HostOf[path[c]] \in hostDirs
  /\ \E o \in Objs :
       /\ Free(o)
       /\ dir' = [dir EXCEPT ![path[c]] = o]
       /\ readable' = [readable EXCEPT ![o] = FALSE]
       /\ whole' = [whole EXCEPT ![o] = FALSE]
       /\ expired' = [expired EXCEPT ![o] = FALSE]
       /\ await' = [await EXCEPT ![c] = o]
       /\ before' = [b \in Clients |-> before[b] \ {o}]
  /\ Goto(c, "info")
  /\ UNCHANGED <<hostDirs, trash, downloads, locks, jobs, op, res, existed, opened, todo, walking>>

\* The directory cannot be made: its parent is gone, or the disk is full, which
\* it is with all of Objs in use (files that are open count).
GetCreateFails(c) ==
  /\ pc[c] = "create"
  /\ HostOf[path[c]] \notin hostDirs \/ "disk" \in Faults \/ \A o \in Objs : ~Free(o)
  /\ Leave(c, "error")
  /\ UNCHANGED <<disk, downloads, locks, jobs, op, existed, opened, await, todo, before, walking>>

\* The rest of Data.Create: the info and header files are written and synced.
GetInfo(c) ==
  /\ pc[c] = "info"
  /\ readable' = [readable EXCEPT ![await[c]] = TRUE]
  /\ Goto(c, "register")
  /\ UNCHANGED <<dir, hostDirs, trash, whole, expired, downloads, locks, jobs, callers, walking>>

\* They cannot be written: Create removes the directory again.
GetInfoFails(c) ==
  /\ pc[c] = "info" /\ "disk" \in Faults
  /\ dir' = [dir EXCEPT ![path[c]] = None]
  /\ await' = [await EXCEPT ![c] = None]
  /\ Leave(c, "error")
  /\ UNCHANGED <<hostDirs, trash, readable, whole, expired, downloads, locks, jobs, op, existed,
                 opened, todo, before, walking>>

\* The download is registered and its goroutine started.
GetRegister(c) ==
  /\ pc[c] = "register"
  /\ downloads' = [downloads EXCEPT ![Key(c)] = await[c]]
  /\ path' = [path EXCEPT ![await[c]] = path[c]]
  /\ failed' = [failed EXCEPT ![await[c]] = FALSE]
  /\ pc' = [pc EXCEPT ![c] = "open", ![await[c]] = "copy"]
  /\ UNCHANGED <<disk, locks, found, callers, walking>>

\* Get opens what it has created and serves it while it grows.
GetOpen(c) ==
  /\ pc[c] = "open"
  /\ \/ /\ Opens(dir[path[c]])
        /\ opened' = [opened EXCEPT ![c] = dir[path[c]]]
        /\ Leave(c, IF existed[c] THEN "expired" ELSE "miss")
     \/ /\ ~Opens(dir[path[c]])
        /\ Leave(c, "error")
        /\ UNCHANGED opened
  /\ UNCHANGED <<disk, downloads, locks, jobs, op, existed, await, todo, before, walking>>

\* The call is over, or the body it returned has been read or closed.
Return(c) == /\ pc[c] \in {"return", "stream"}
             /\ Goto(c, "idle")
             /\ found' = [found EXCEPT ![c] = None]
             /\ op' = [op EXCEPT ![c] = "get"]
             /\ res' = [res EXCEPT ![c] = "none"]
             /\ existed' = [existed EXCEPT ![c] = FALSE]
             /\ opened' = [opened EXCEPT ![c] = None]
             /\ await' = [await EXCEPT ![c] = None]
             /\ before' = [before EXCEPT ![c] = {}]
             /\ UNCHANGED <<disk, downloads, locks, path, failed, todo, walking>>

-----------------------------------------------------------------------------
(* The download goroutine.                                                  *)

\* The copy ends and the channel is closed.  All of the body may be there and the
\* download have failed: CopyRate fails at the end of a body shorter than the
\* burst, and Data.Close may.
CopyDone(o) == /\ pc[o] = "copy"
               /\ \E all, ok \in BOOLEAN :
                    /\ all \/ ~ok
                    /\ (all /\ ok) \/ "copy" \in Faults
                    /\ whole' = [whole EXCEPT ![o] = all]
                    /\ failed' = [failed EXCEPT ![o] = ~ok]
               /\ Goto(o, "host")
               /\ UNCHANGED <<dir, hostDirs, trash, readable, expired, downloads, locks, path,
                              found, callers, walking>>

\* Seeded fault: the goroutine does not check whose registration it finds.
MineUnchecked(o) == TRUE

\* download == downloadNew.
Mine(o) == found[o] = o

\* Seeded fault: a registration is never removed.
UnregisteredNever(o) == downloads

\* The registrations once the goroutine of o has removed its own.
Unregistered(o) == IF Mine(o) THEN [downloads EXCEPT ![Key(o)] = None] ELSE downloads

\* Seeded fault: a failed download leaves its data.
DiscardsNever(o) == FALSE

\* Whether the goroutine moves its data to trash.
Discards(o) == failed[o] /\ Mine(o)

Finish(o) == /\ pc[o] = "finish"
             /\ downloads' = Unregistered(o)
             /\ \/ Discards(o) /\ Trashed(path[o])
                \/ (Discards(o) => "rename" \in Faults) /\ UNCHANGED <<dir, trash>>
             /\ found' = [found EXCEPT ![o] = None]
             /\ Goto(o, "unlock")
             /\ UNCHANGED <<hostDirs, readable, whole, expired, locks, path, failed, callers,
                            walking>>

-----------------------------------------------------------------------------
(* Purge, PurgeHost and PurgeAll.                                           *)

Purge(c) == /\ pc[c] = "stat" /\ c \in Clients
            /\ \/ dir[path[c]] = None /\ Leave(c, "notexists")
               \/ dir[path[c]] # None /\ Goto(c, "rename") /\ UNCHANGED res
            /\ UNCHANGED <<disk, downloads, locks, jobs, op, existed, opened, await, todo, before,
                           walking>>

\* moveToTrash; a directory that is not there any more would be an error.
PurgeRename(c) ==
  /\ pc[c] = "rename" /\ c \in Clients
  /\ \/ /\ dir[path[c]] # None
        /\ Trashed(path[c])
        /\ Leave(c, "ok")
     \/ /\ dir[path[c]] = None \/ "rename" \in Faults
        /\ Leave(c, "error")
        /\ UNCHANGED <<dir, trash>>
  /\ UNCHANGED <<hostDirs, readable, whole, expired, downloads, locks, jobs, op, existed, opened,
                 await, todo, before, walking>>

\* todo[c] holds the hosts still to purge; the current one is Target(c).
CallPurgeHost(c, h) ==
  /\ pc[c] = "idle" /\ "purgehost" \in Ops[c]
  /\ op' = [op EXCEPT ![c] = "purgehost"]
  /\ todo' = [todo EXCEPT ![c] = {h}]
  /\ before' = [before EXCEPT ![c] = {dir[p] : p \in {x \in Paths : HostOf[x] = h}} \ {None}]
  /\ Goto(c, "announce")
  /\ UNCHANGED <<disk, downloads, locks, jobs, res, existed, opened, await, walking>>

\* PurgeAll lists content/ and purges host by host.
CallPurgeAll(c) ==
  /\ pc[c] = "idle" /\ "purgeall" \in Ops[c]
  /\ op' = [op EXCEPT ![c] = "purgeall"]
  /\ todo' = [todo EXCEPT ![c] = hostDirs]
  /\ before' = [before EXCEPT ![c] = Present]
  /\ res' = [res EXCEPT ![c] = "ok"]
  /\ Goto(c, IF hostDirs = {} THEN "return" ELSE "announce")
  /\ UNCHANGED <<disk, downloads, locks, jobs, existed, opened, await, walking>>

Target(c) == CHOOSE h \in todo[c] : TRUE

Announce(c) == /\ pc[c] = "announce"
               /\ hostLock!Announce(c, Target(c))
               /\ Goto(c, "drain")
               /\ UNCHANGED <<disk, downloads, dataW, jobs, callers, walking>>

HasHost(c) == hostLock!HoldsW(c, Target(c))

HostStat(c) ==
  /\ pc[c] = "drain" /\ HasHost(c)
  /\ \/ /\ Target(c) \in hostDirs
        /\ Goto(c, "hostrename")
        /\ UNCHANGED res
     \/ /\ Target(c) \notin hostDirs
        /\ Goto(c, "hostunlock")
        /\ res' = [res EXCEPT ![c] = "notexists"]
  /\ UNCHANGED <<disk, downloads, locks, jobs, op, existed, opened, await, todo, before, walking>>

\* The host's directory is moved to trash with all that is in it, unless
\* contentCleaner has removed it, empty, in between.
HostRename(c) ==
  /\ pc[c] = "hostrename"
  /\ Goto(c, "hostunlock")
  /\ LET inHost == {p \in Paths : HostOf[p] = Target(c)} IN
       \/ /\ Target(c) \in hostDirs
          /\ hostDirs' = hostDirs \ {Target(c)}
          /\ dir' = [p \in Paths |-> IF p \in inHost THEN None ELSE dir[p]]
          /\ trash' = trash \cup ({dir[p] : p \in inHost} \ {None})
          /\ res' = [res EXCEPT ![c] = "ok"]
       \/ /\ Target(c) \notin hostDirs \/ "rename" \in Faults
          /\ res' = [res EXCEPT ![c] = "error"]
          /\ UNCHANGED <<hostDirs, dir, trash>>
  /\ UNCHANGED <<readable, whole, expired, downloads, locks, jobs, op, existed, opened, await, todo,
                 before, walking>>

\* Seeded fault: PurgeAll stops at a host that is not there any more.
GoesOnIfPurged(c) == res[c] = "ok"

\* PurgeAll goes on after ErrNotExists and stops at any other error.
GoesOn(c) == res[c] \in {"ok", "notexists"}

\* Seeded fault: PurgeAll comes back to a host it has been to.
LeftAll(c) == todo[c]

\* The hosts PurgeAll has still to go to.
Left(c) == todo[c] \ {Target(c)}

HostUnlock(c) ==
  /\ pc[c] = "hostunlock"
  /\ hostLock!Unlock(c, Target(c), {})
  /\ LET more == Left(c) # {} /\ GoesOn(c) IN
       /\ todo' = [todo EXCEPT ![c] = IF more THEN Left(c) ELSE {}]
       /\ Goto(c, IF more THEN "announce" ELSE "return")
  /\ UNCHANGED <<disk, downloads, dataW, jobs, op, res, existed, opened, await, before, walking>>

\* The caller of PurgeAll has gone away: ctx.Err() ends the loop.
PurgeAllCanceled(c) ==
  /\ pc[c] = "announce" /\ op[c] = "purgeall"
  /\ res' = [res EXCEPT ![c] = "error"]
  /\ todo' = [todo EXCEPT ![c] = {}]
  /\ Goto(c, "return")
  /\ UNCHANGED <<disk, downloads, locks, jobs, op, existed, opened, await, before, walking>>

-----------------------------------------------------------------------------
(* contentCleaner and trashCleaner.                                         *)

\* Seeded fault: a walk begins where the last one ended.
FirstEntryNever == at

\* The position a new walk begins at.
FirstEntry == 1

\* The walk after this entry, and the walk cut short by an error: the callback
\* returns false.
Onward == at' = at + 1
Abort  == at' = Len(Walk) + 1

\* A new walk begins by listing content/.
WalkStart == /\ pc[Cleaner] = "idle" /\ at > Len(Walk) /\ Walk # <<>>
             /\ at' = FirstEntry
             /\ seen' = hostDirs
             /\ UNCHANGED <<disk, downloads, locks, pc, jobs, callers>>

\* The walk meets a directory that is not a data directory: os.Remove, which
\* only an empty directory allows, without a lock.
WalkHost ==
  /\ pc[Cleaner] = "idle" /\ at \in DOMAIN Walk /\ Walk[at] \in Hosts
  /\ LET h == Walk[at] IN
       \/ /\ h \notin seen
          /\ Onward /\ UNCHANGED hostDirs
       \/ /\ h \in seen /\ h \notin hostDirs
          /\ Abort /\ UNCHANGED hostDirs
       \/ /\ h \in seen /\ h \in hostDirs
          /\ hostDirs' = IF \A p \in Paths : HostOf[p] = h => dir[p] = None
                           THEN hostDirs \ {h} ELSE hostDirs
          /\ Onward
  /\ UNCHANGED <<dir, trash, readable, whole, expired, downloads, locks, pc, jobs, callers, seen>>

\* The walk meets a data directory: it is locked and looked at.
WalkData ==
  /\ pc[Cleaner] = "idle" /\ at \in DOMAIN Walk /\ Walk[at] \in Paths
  /\ \/ /\ dir[Walk[at]] = None
        /\ Onward
        /\ UNCHANGED <<pc, path>>
     \/ /\ dir[Walk[at]] # None
        /\ path' = [path EXCEPT ![Cleaner] = Walk[at]]
        /\ Goto(Cleaner, "host")
        /\ UNCHANGED at
  /\ UNCHANGED <<disk, downloads, locks, found, failed, callers, seen>>

CleanStat ==
  /\ pc[Cleaner] = "stat"
  /\ \/ dir[path[Cleaner]] = None /\ Onward /\ Goto(Cleaner, "unlock")
     \/ dir[path[Cleaner]] # None /\ Goto(Cleaner, "open") /\ UNCHANGED at
  /\ UNCHANGED <<disk, downloads, locks, jobs, callers, seen>>

\* Data.Open fails on data that is unreadable or that PurgeHost has moved away.
CleanOpen ==
  /\ pc[Cleaner] = "open"
  /\ LET o == dir[path[Cleaner]] IN
       \/ /\ ~Opens(o)
          /\ Abort /\ Goto(Cleaner, "unlock")
       \/ /\ Opens(o) /\ expired[o]
          /\ Goto(Cleaner, "rename") /\ UNCHANGED at
       \/ /\ Opens(o) /\ ~expired[o]
          /\ Onward /\ Goto(Cleaner, "unlock")
  /\ UNCHANGED <<disk, downloads, locks, jobs, callers, seen>>

CleanRename ==
  /\ pc[Cleaner] = "rename"
  /\ \/ /\ dir[path[Cleaner]] # None
        /\ Trashed(path[Cleaner])
        /\ Onward
     \/ /\ dir[path[Cleaner]] = None \/ "rename" \in Faults
        /\ Abort
        /\ UNCHANGED <<dir, trash>>
  /\ Goto(Cleaner, "unlock")
  /\ UNCHANGED <<hostDirs, readable, whole, expired, downloads, locks, jobs, callers, seen>>

\* trashCleaner deletes what is in trash/, on which nobody has a lock.
TrashRemove(o) == /\ o \in trash
                  /\ trash' = trash \ {o}
                  /\ UNCHANGED <<dir, hostDirs, readable, whole, expired, downloads, locks, pc,
                                 jobs, callers, walking>>

-----------------------------------------------------------------------------
(* The environment.                                                         *)

Expire(o) == /\ o \in Present /\ ~expired[o]
             /\ expired' = [expired EXCEPT ![o] = TRUE]
             /\ UNCHANGED <<dir, hostDirs, trash, readable, whole, downloads, locks, pc, jobs,
                            callers, walking>>

\* The process dies and New starts over on what is on the disk; the lock, the
\* downloads and the calls are gone.
Restart == /\ downloads' = [k \in Keys |-> None]
           /\ failed' = [o \in Objs |-> FALSE]
           /\ hostW' = [h \in Hosts \cup {NoHost} |-> {}]
           /\ hostR' = [h \in Hosts \cup {NoHost} |-> {}]
           /\ dataW' = [p \in Paths |-> {}]
           /\ pc' = [q \in Procs |-> "idle"]
           /\ path' = [q \in Procs |-> AnyPath]
           /\ found' = [q \in Procs |-> None]
           /\ op' = [c \in Clients |-> "get"]
           /\ res' = [c \in Clients |-> "none"]
           /\ existed' = [c \in Clients |-> FALSE]
           /\ opened' = [c \in Clients |-> None]
           /\ await' = [c \in Clients |-> None]
           /\ todo' = [c \in Clients |-> {}]
           /\ before' = [c \in Clients |-> {}]
           /\ at' = Len(Walk) + 1
           /\ seen' = {}
           /\ UNCHANGED disk

Crash    == "crash" \in Faults /\ Restart
Fatal(c) == pc[c] = "fatal" /\ Restart

-----------------------------------------------------------------------------
Locking(q) == RLockHost(q) \/ LockData(q)

GetStep(c) == \/ Lookup(c)
              \/ GetUpdating(c) \/ GetForgets(c) \/ GetHit(c) \/ GetUnreadable(c) \/ GetMissing(c)
              \/ GetRequestError(c) \/ GetReply(c) \/ GetReplyStuck(c)
              \/ GetMkdir(c) \/ GetCreate(c) \/ GetCreateFails(c)
              \/ GetInfo(c) \/ GetInfoFails(c) \/ GetRegister(c) \/ GetOpen(c)

PurgeStep(c) == \/ Purge(c) \/ PurgeRename(c)
                \/ HostStat(c) \/ HostRename(c) \/ HostUnlock(c)

Calling(c) == \/ \E o \in {"get", "purge"}, p \in Paths : Call(c, o, p)
              \/ \E h \in Hosts : CallPurgeHost(c, h)
              \/ CallPurgeAll(c)

ClientNext(c) == \/ Calling(c) \/ GetStep(c) \/ PurgeStep(c)
                 \/ Announce(c) \/ PurgeAllCanceled(c) \/ Return(c) \/ Fatal(c)

\* What a call does by itself once it has begun.
ClientStep(c) == \/ GetStep(c) \/ PurgeStep(c) \/ Unlock(c)
                 \/ pc[c] = "return" /\ Return(c)
                 \/ Fatal(c)

DownloadStep(o) == Lookup(o) \/ Finish(o) \/ Unlock(o)

DownloadNext(o) == CopyDone(o) \/ Lookup(o) \/ Finish(o)

CleanerNext == WalkStart \/ WalkHost \/ WalkData \/ CleanStat \/ CleanOpen \/ CleanRename

Next == \/ \E q \in Procs : Locking(q) \/ Unlock(q)
        \/ \E c \in Clients : ClientNext(c)
        \/ \E o \in Objs : DownloadNext(o) \/ TrashRemove(o) \/ Expire(o)
        \/ CleanerNext
        \/ Crash

Spec == Init /\ [][Next]_vars

\* Goroutines keep running.  The wait for a lock ends (NamedLock!LockReturns)
\* and so does the wait for the headers of the origin's answer, by the timeouts
\* of the transport.  Nothing bounds the copying of a body: CopyDone is not fair.
Fairness ==
  /\ \A q \in Procs : SF_vars(Locking(q))
  /\ \A c \in Clients : WF_vars(ClientStep(c)) /\ SF_vars(Announce(c))
  /\ \A o \in Objs : WF_vars(DownloadStep(o))
  /\ WF_vars(CleanerNext \/ Unlock(Cleaner))

FairSpec == Spec /\ Fairness

-----------------------------------------------------------------------------
(* Properties.                                                              *)

\* c is between Data.Create's mkdir and the registration of the download.
Creating(c) == pc[c] \in {"info", "register"}

\* Data whose download has not ended, or has failed, is never in content/ without
\* being registered under the key of its path (or about to be, by the Get that
\* has just created it): nothing else tells it from a finished entry.
IncompleteIsRegistered ==
  \A p \in Paths : dir[p] # None /\ ~Sound(dir[p]) =>
    \/ downloads[KeyOf[p]] = dir[p]
    \/ \E c \in Clients : Creating(c) /\ path[c] = p /\ await[c] = dir[p]

\* A response with status HIT reads the whole body of a download that went well.
HitIsWhole == \A c \in Clients : res[c] = "hit" => Sound(opened[c])

\* A response that follows a download waits for the channel of the very
\* download that fills the file it reads, although it learns the channel from
\* downloads and the file from the path.
AwaitsOwnDownload ==
  \A c \in Clients : res[c] \in {"updating", "miss", "expired"} => await[c] = opened[c]

\* A registration never outlives its download's goroutine: left behind, it
\* would have the data served as UPDATING, and never expire, for good.
RegistrationSettles ==
  \A k \in Keys : downloads[k] # None =>
    /\ pc[downloads[k]] \in {"copy", "host", "data", "lookup", "finish"}
    /\ KeyOf[path[downloads[k]]] = k

\* A download that ends after its data was purged or replaced touches neither
\* the data nor the registration that came after it.
LateFinishHarmless ==
  [][\A o \in Objs : pc[o] = "finish" /\ pc'[o] = "unlock" /\ dir[path[o]] # o
       => dir' = dir /\ (downloads[Key(o)] # o => downloads' = downloads)]_vars

\* What a call has seen or made on the disk under its locks is still there
\* when it comes back to it: no purge, cleaner or download gets in between.
UndisturbedUnderLocks ==
  \A c \in Clients : /\ pc[c] \in {"info", "register", "open"} => dir[path[c]] = await[c]
                     /\ pc[c] = "rename" => dir[path[c]] # None
                     /\ existed[c] /\ pc[c] = "request" => dir[path[c]] # None

\* When PurgeAll reports no error but ErrNotExists, nothing that was there when
\* it began is left in content/, whatever ran beside it.
PurgeAllComplete ==
  \A c \in Clients : pc[c] = "return" /\ op[c] = "purgeall" /\ res[c] \in {"ok", "notexists"}
                     => before[c] \cap Present = {}

\* The paths a purge has still to go to.
Reach(c) == CASE op[c] = "purge" /\ pc[c] # "return" -> {path[c]}
              [] op[c] \in {"purgehost", "purgeall"} -> {p \in Paths : HostOf[p] \in todo[c]}
              [] OTHER -> {}

\* What callers see of the store.
cache == INSTANCE Cache WITH
           entry <- dir,
           sound <- [o \in Objs |-> Sound(o)],
           purging <- [c \in Clients |-> Reach(c)],
           hits <- [c \in Clients |-> IF res[c] = "hit" THEN opened[c] ELSE None],
           follows <- [c \in Clients |-> IF res[c] \in Served \ {"hit"} THEN opened[c] ELSE None]

\* The store is a cache in the sense of module Cache: data whose download went well
\* goes only once it has expired or by a purge that was asked for it, a HIT is such
\* data, what is served is what is at the path at that moment, and data is nobody's
\* before it is created.
ImplementsCache == cache!Spec

\* Every call returns, or the process ends; bodies that are never completed by
\* the origin do not keep calls from returning.
EveryCallReturns == \A c \in Clients : pc[c] # "idle" ~> pc[c] \in {"idle", "stream"}

\* contentCleaner gets every expired entry out of content/.
ExpiredIsCollected ==
  \A p \in Paths : \A o \in Objs : dir[p] = o /\ expired[o] ~> dir[p] # o

\* data.go:83: no Data is opened twice, the assertion of Data.Open.
NeverOpenedTwice == \A c \in Clients : res[c] # "panic"
=============================================================================
