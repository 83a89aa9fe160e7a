----------------------------- MODULE ContentTree -----------------------------
(***************************************************************************)
(* The directories between content/ and the data in it.  data.go Create    *)
(* makes them with os.MkdirAll, one at a time; store.go contentCleaner     *)
(* walks the tree, tries to remove every directory it comes to, which      *)
(* works for an empty one, and trashes expired data.  It goes about the    *)
(* directories without a lock; Get, Purge, the end of a download and the   *)
(* cleaner lock a data path.                                               *)
(* In module Store there is one level, the host's.                         *)
(***************************************************************************)
EXTENDS Naturals, Sequences

CONSTANTS Data,     \* the data directories
          Path,     \* Path[d]: the directories from the host's to d itself
          Order,    \* all of them in the order of a walk: parents first
          Named,    \* those whose name is "data"
          Crashes   \* how often the process may die and start again (a bound)

Nodes == UNION {{Path[d][i] : i \in DOMAIN Path[d]} : d \in Data}

\* The directory n is in; none for a host's, which is in content/ itself.
Parents(n) == {m \in Nodes : \E d \in Data : \E i \in DOMAIN Path[d] :
                               i > 1 /\ Path[d][i] = n /\ Path[d][i - 1] = m}

ASSUME PathAssumption ==
  \A d \in Data : /\ Path[d] \in Seq(Nodes) /\ Len(Path[d]) > 0
                  /\ Path[d][Len(Path[d])] = d
\* getDataPath: the levels of the hash and "data" below the host, so that a
\* directory is in one place, and only files are in a data directory.
ASSUME TreeAssumption ==
  \A d, e \in Data : \A i \in DOMAIN Path[d], j \in DOMAIN Path[e] :
    Path[d][i] = Path[e][j] =>
      /\ i = j /\ \A k \in 1 .. i : Path[d][k] = Path[e][k]
      /\ i = Len(Path[d]) <=> j = Len(Path[e])
ASSUME OrderAssumption ==
  /\ Order \in Seq(Nodes)
  /\ {Order[i] : i \in DOMAIN Order} = Nodes
  /\ \A i, j \in DOMAIN Order : Order[i] \in Parents(Order[j]) => i < j
ASSUME NameAssumption == Data \subseteq Named /\ Named \subseteq Nodes /\ Crashes \in Nat

VARIABLES tree,     \* the directories that exist
          ready,    \* the data whose info and header are written
          expired,  \* the data past its time
          phase,    \* phase[d]: what the Get that has d's lock is at
          depth,    \* depth[d]: where in Path[d] its MkdirAll is
          loading,  \* the data whose download is registered
          at,       \* where in Order the walk is, 0 between two walks
          step,     \* what the walk does there next
          listed,   \* the names the walk has read
          crashes,  \* how often the process has died
          broken    \* history: the data whose writing that has cut short

disk   == <<tree, ready, expired>>
makers == <<phase, depth, loading>>
walk   == <<at, step, listed>>
past   == <<crashes, broken>>
vars   == <<disk, makers, walk, past>>

Exist(S) == \A n \in S : n \in tree

TypeOK == /\ tree \subseteq Nodes /\ \A n \in tree : Exist(Parents(n))
          /\ ready \subseteq tree \cap Data
          /\ expired \subseteq ready
          /\ phase \in [Data -> {"idle", "up", "down", "files"}]
          /\ \A d \in Data : depth[d] \in 1 .. Len(Path[d])
          /\ loading \subseteq Data
          /\ at \in 0 .. Len(Order)
          /\ step \in {"visit", "open", "trash", "list"}
          /\ listed \subseteq Nodes
          /\ crashes \in 0 .. Crashes
          /\ broken \subseteq (tree \cap Data) \ ready

Init == /\ tree = {} /\ ready = {} /\ expired = {}
        /\ phase = [d \in Data |-> "idle"]
        /\ depth = [d \in Data |-> 1]
        /\ loading = {}
        /\ at = 0 /\ step = "visit" /\ listed = {}
        /\ crashes = 0 /\ broken = {}

Host(d) == Path[d][1]

\* d is gone from content/, by a rename or a removal.
Lose(S) == /\ tree' = tree \ S
           /\ ready' = ready \ S
           /\ expired' = expired \ S

Here == Order[at]

\* Who works under the lock of d: a Get, or the cleaner.
Locked(d) == \/ phase[d] # "idle"
             \/ at # 0 /\ Here = d /\ step \in {"open", "trash"}

-----------------------------------------------------------------------------
(* Get, with the locks of the host and of the data path.                    *)

At(d) == Path[d][depth[d]]

Goto(d, p, i) == /\ phase' = [phase EXCEPT ![d] = p]
                 /\ depth' = [depth EXCEPT ![d] = i]

\* There is no data, or it is expired, without a download, and goes to trash first.
\* A registration that has lost its data is dropped.
Create(d) == /\ ~Locked(d) /\ (d \in tree => d \in expired \ loading)
             /\ Lose({d})
             /\ Goto(d, "up", Len(Path[d]))
             /\ loading' = loading \ {d}
             /\ UNCHANGED <<walk, past>>

\* MkdirAll looks for a directory that exists, from the last one upwards ...
StatUp(d) == /\ phase[d] = "up"
             /\ IF At(d) \in tree
                  THEN IF At(d) = d THEN Goto(d, "files", depth[d])
                                    ELSE Goto(d, "down", depth[d] + 1)
                  ELSE IF depth[d] = 1 THEN Goto(d, "down", 1)
                                       ELSE Goto(d, "up", depth[d] - 1)
             /\ UNCHANGED <<disk, loading, walk, past>>

\* ... and makes those below it.  One that somebody has made meanwhile will do.
MkdirDown(d) == /\ phase[d] = "down" /\ Exist(Parents(At(d)))
                /\ tree' = tree \cup {At(d)}
                /\ IF At(d) = d THEN Goto(d, "files", depth[d])
                                ELSE Goto(d, "down", depth[d] + 1)
                /\ UNCHANGED <<ready, expired, loading, walk, past>>

\* The cleaner has removed the parent meanwhile: the Get fails.
MkdirFails(d) == /\ phase[d] = "down" /\ ~Exist(Parents(At(d)))
                 /\ Goto(d, "idle", 1)
                 /\ UNCHANGED <<disk, loading, walk, past>>

\* Info and header are written, and the download begins.
Written(d) == /\ phase[d] = "files"
              /\ ready' = ready \cup {d}
              /\ loading' = loading \cup {d}
              /\ Goto(d, "idle", 1)
              /\ UNCHANGED <<tree, expired, walk, past>>

\* Seeded fault: a failed Create leaves what it has made.
WriteFailsLeaving(d) == /\ phase[d] = "files"
                        /\ Goto(d, "idle", 1)
                        /\ UNCHANGED <<disk, loading, walk, past>>

\* A file cannot be written: os.RemoveAll.
WriteFails(d) == /\ phase[d] = "files"
                 /\ Lose({d})
                 /\ Goto(d, "idle", 1)
                 /\ UNCHANGED <<loading, walk, past>>

-----------------------------------------------------------------------------
(* The goroutine of the download, under the same locks.                     *)

\* The body is as announced.
Settle(d) == /\ d \in loading /\ ~Locked(d)
             /\ loading' = loading \ {d}
             /\ UNCHANGED <<disk, phase, depth, walk, past>>

\* It is not: moveToTrash, which finds nothing if the data was purged.
Discard(d) == /\ d \in loading /\ ~Locked(d)
              /\ loading' = loading \ {d}
              /\ Lose({d})
              /\ UNCHANGED <<phase, depth, walk, past>>

-----------------------------------------------------------------------------
(* contentCleaner.                                                          *)

\* The walk goes on with the next name it knows, or is over.
Next1(known) ==
  LET later == {i \in DOMAIN Order : i > at /\ Order[i] \in known} IN
  /\ listed' = known
  /\ step' = "visit"
  /\ at' = IF later = {} THEN 0 ELSE CHOOSE i \in later : \A j \in later : i <= j

Abort == at' = 0 /\ step' = "visit" /\ listed' = {}

List == step' = "list" /\ UNCHANGED <<at, listed>>

\* What is in n.
In(n) == {m \in tree : n \in Parents(m)}

WalkStart == /\ at = 0
             /\ Next1({n \in tree : Parents(n) = {}})
             /\ UNCHANGED <<disk, makers, past>>

\* Seeded fault: data directories are removed like others while they are empty.
IsDataReady(n) == n \in Named /\ (n \in Data => n \in ready)

IsData(n) == n \in Named

\* Seeded fault: os.RemoveAll.
Removable(n) == n \in tree

\* os.Remove removes an empty directory.
Empty(n) == n \in tree /\ In(n) = {}

\* Any error but ENOTEMPTY ends it: PurgeHost has moved the host away.
GoesOn(n) == n \in tree

Within(n) == {n} \cup {m \in tree : \E d \in Data : \E i, j \in DOMAIN Path[d] :
                                      i <= j /\ Path[d][i] = n /\ Path[d][j] = m}

VisitDirectory == /\ at # 0 /\ step = "visit" /\ ~IsData(Here)
                  /\ IF Empty(Here) THEN Lose(Within(Here)) ELSE UNCHANGED disk
                  /\ IF GoesOn(Here) THEN List ELSE Abort
                  /\ UNCHANGED <<makers, past>>

\* With the lock of the path: is it there?
LockData == /\ at # 0 /\ step = "visit" /\ IsData(Here)
            /\ Here \in Data => phase[Here] = "idle"
            /\ IF Here \in tree THEN step' = "open" /\ UNCHANGED <<at, listed>> ELSE List
            /\ UNCHANGED <<disk, makers, past>>

\* A directory without info ends the walk, and so does one whose host has been
\* moved away meanwhile.
OpenData == /\ at # 0 /\ step = "open"
            /\ IF Here \notin ready THEN Abort
               ELSE IF Here \in expired THEN step' = "trash" /\ UNCHANGED <<at, listed>>
               ELSE List
            /\ UNCHANGED <<disk, makers, past>>

\* moveToTrash takes what is there by now.
TrashData == /\ at # 0 /\ step = "trash"
             /\ IF Here \in tree THEN Lose({Here}) /\ List ELSE UNCHANGED disk /\ Abort
             /\ UNCHANGED <<makers, past>>

\* ReadDir after the visit; a directory that is gone has no names.
ReadDir == /\ at # 0 /\ step = "list"
           /\ Next1(listed \cup In(Here))
           /\ UNCHANGED <<disk, makers, past>>

-----------------------------------------------------------------------------
(* Others.                                                                  *)

\* One data path: Purge, and a Get whose answer is not stored: expired data goes
\* before its answer is found dynamic or too large.
Purge(d) == /\ d \in tree /\ ~Locked(d)
            /\ Lose({d})
            /\ broken' = broken \ {d}
            /\ UNCHANGED <<makers, walk, crashes>>

\* The host's write lock: no Get is at work below it.  The cleaner may be: what it
\* takes for the host begins with the separator, so that it locks the host "".
PurgeHost(h) == /\ h \in tree
                /\ \A d \in Data : Host(d) = h => phase[d] = "idle"
                /\ Lose(Within(h))
                /\ broken' = broken \ Within(h)
                /\ UNCHANGED <<makers, walk, crashes>>

Expire(d) == /\ d \in ready
             /\ expired' = expired \cup {d}
             /\ UNCHANGED <<tree, ready, makers, walk, past>>

Crash == /\ crashes < Crashes
         /\ crashes' = crashes + 1
         /\ broken' = broken \cup {d \in Data : phase[d] = "files"}
         /\ phase' = [d \in Data |-> "idle"]
         /\ depth' = [d \in Data |-> 1]
         /\ loading' = {}
         /\ Abort
         /\ UNCHANGED disk

Making(d) == StatUp(d) \/ MkdirDown(d) \/ MkdirFails(d) \/ Written(d) \/ WriteFails(d)
Cleaning  == WalkStart \/ VisitDirectory \/ LockData \/ OpenData \/ TrashData \/ ReadDir

Next == \/ Cleaning \/ Crash
        \/ \E d \in Data : \/ Create(d) \/ Making(d) \/ Settle(d) \/ Discard(d)
                          \/ Purge(d) \/ PurgeHost(Host(d)) \/ Expire(d)

Spec == Init /\ [][Next]_vars

\* The cleaner runs and time passes; a Get does not keep a lock for ever.
Fairness == WF_vars(Cleaning) /\ \A d \in Data : WF_vars(Expire(d)) /\ WF_vars(Making(d))

FairSpec == Spec /\ Fairness

-----------------------------------------------------------------------------
(* Properties.                                                              *)

\* What the cleaner does without a lock never takes the directory from under a
\* Create that has made it: its files are opened in it.
GroundHolds == \A d \in Data : phase[d] = "files" => d \in tree

\* Data that has not expired leaves content/ only because somebody wants it to: in a
\* Purge of it, in a PurgeHost of its own host, or because its own download failed.
\* The cleaner never takes it, although it removes directories without a lock and
\* lets PurgeHost come between its look at the data and the rename; nor does a Get,
\* of this path or of another.
FreshStays ==
  [][\A d \in ready \ expired :
       d \in ready' \/ Purge(d) \/ PurgeHost(Host(d)) \/ Discard(d)]_vars

\* If nobody asks for anything any more and the process stays alive,
\* content/ gets empty, whatever crashes have left there: the directories go one level a
\* walk, and no walk keeps ending at the same place.  Data without info, at
\* which every walk ends, is excepted; only a crash leaves such data.
LeftoversGo ==
  <>[]((\A d \in Data : phase[d] = "idle") /\ broken = {}) => <>[](tree = {})
=============================================================================
