# oscdn in TLA+

oscdn is a caching reverse proxy in Go. A request is routed to an origin, the
answer is kept as a *data directory* on disk, later requests for the same URL
are served from it, and two background goroutines throw away what has expired.
This directory holds TLA+ modules of its core, configurations that model-check
them with TLC and proofs checked with TLAPS. All paths below are relative to
the repository's root (`src/` in PROJECT.json).

## 1. The system

| component | files | state | operations | interacts with |
|---|---|---|---|---|
| named locks | `namedlock/namedlock.go` | `holders` (name -> counted holder), one `sync.RWMutex` per holder | `Lock`, `TryLock`, `Unlock`, `RLock`, `TryRLock`, `RUnlock`, `AcquireLock`, `AcquireRLock` | used twice by the store: `hostLock`, `dataLock` |
| store | `store/store.go` | directory tree `content/<host>/.../data`, `trash/`, `downloads` (key URL -> channel), wait group, context, lock file | `New`, `Get`, `startDownload` and its goroutine, `moveToTrash`, `Purge`, `PurgeHost`, `PurgeAll`, `contentCleaner`, `trashCleaner`, `Release` | handler and management server call it, it calls the origin |
| data directory | `store/data.go` | files `info`, `header`, `body`; `initialized`, `closeOnce` | `Create`, `Open`, `Close` | store |
| streaming | `store/store.go` `pipeData` | pipe, open body, download channel | poll, wait, end | download goroutine, client, `Release` |
| freshness | `store/utils.go`, `store/store.go` 558-590, `httputil/cachecontrol.go` | none (pure) | `httpExpires`, `timedDirective`, limits of the host config | `startDownload` |
| request handler | `cdn/*.go` | none across requests | scheme/host/origin choice, redirect, `Range`, encoder, error to status | store |
| rate-limited copy | `ioutil/ioutil.go` | none across calls | `CopyRate` | download and upload |
| servers | `apps/*.go` | `connCount`, listener, wait group | accept, limit, recover, management requests | handler, store |
| configuration, main | `internal/*`, `main.go` | read-only after start | load, wire, start, stop | all |
| helpers | `fileutil`, `httputil` | none | exists, walk, options, hosts, cache-control | all |

How they interact on a request: the handler turns host and path into a base URL
(where to ask) and a key URL (what is asked for), `Get` takes `hostLock` of the
base host for reading and `dataLock` of the data path, reads `downloads` and the
directory, and either serves what is there, or asks the origin *while holding
both locks*, creates a data directory, registers a channel under the key URL and
starts a goroutine that copies the body. The goroutine closes the channel, then
takes the same two locks, removes the registration *if it is still its own* and,
if it failed, moves the data to `trash/`. `PurgeHost` takes `hostLock` for
writing and moves the whole host directory. `contentCleaner` walks the tree,
removes empty directories without a lock and trashes expired data with locks.

What is hard: the registration in memory is the only difference between a
finished entry and one being filled; everything else (path, file, channel) is
looked up separately and has to agree. Late goroutines, purges, the lock-free
part of the cleaner, failures half way and restarts all bear on that. The list
of hazards, each at its line, is in PROJECT.json.

What makes each component correct:

* named locks: one reader/writer lock per *name* although holders come and go;
  no lock call panics; the map holds exactly the names in use; calls return.
* store: HIT is complete and its download went well; other data is registered (or
  about to be); a growing body is read together with the channel of its own
  download; late goroutines do no harm; what a call saw under its locks stays;
  registrations end; purges purge; expired data is collected; calls return.
* data: never opened twice, an entry that cannot be read is never served, the
  directories under a new entry stay while it is written.
* streaming: all bytes before the end, no clean end of a truncated body that its
  client could not tell from a whole one, no goroutine left behind by a client, a
  stalled download or `Release`.
* freshness: an entry lives as long as max-age, Expires and the configured
  limits say, also where durations wrap at 64 bits.
* handler: what a client takes for a whole answer is one; what a request is
  served is what its own origin would answer it; keys and paths determine each
  other; a purge reaches what it names.
* servers: the connection count follows the connections; after `Stop` no request
  uses the store; `Release` returns and leaves nothing running; one process at a
  time writes to the directory.

## 2. Modules

| module | what it is |
|---|---|
| `NamedRWLock` | what the lock table promises: per name one announced writer and a set of readers |
| `NamedLock` | `namedlock.go` in detail: map, counts, holders, the steps of `sync.RWMutex`; implements `NamedRWLock` |
| `Cache` | what the store promises: an entry per path that is being filled, sound or a failure, answers that read one entry, purges |
| `Store` | the store on two instances of `NamedRWLock`; implements `Cache` |
| `Mgmt` | extends `Store` by the status with which the management server answers a purge |
| `ContentTree` | the directories between `content/` and the data: `MkdirAll`, the ends of downloads and purges beside the cleaner's walk |
| `Lifecycle` | `New`, `Release`, lock file, contexts, wait group, watcher of a client |
| `Ranges` | the numbers of a Range header and their clamping (operators only) |
| `Pipe` | `pipeData`: growing file, two goroutines, reader, `Release` |
| `Download` | the goroutine of `startDownload`: `CopyRate` with its burst, and what is kept |
| `Handler` | extends `Pipe`, with an instance of `Download`: a request from its checks to what the client makes of the answer |
| `Freshness` | cache-control, Expires, limits and floor in durations that wrap; when an entry is followed, served or fetched again |
| `Routing` | from a request to origin, key, data path and limits; purges |
| `HttpApp` | a server: connections, limit, h2c, handlers, shutdown |
| `NamedLockProofs` | the inductive invariant of `NamedLock`, what follows from it, and that `NamedLock` implements `NamedRWLock` |
| `StoreProofs` | types and lock discipline of `Store`: what a call saw under its locks stays; what a purge was asked for is gone when it says so |
| `StoreDownloadProofs` | the registrations of `Store`, also through crashes, with distinct keys; if, besides, the process does not die, a HIT is complete and `Store` implements `Cache` |
| `HandlerProofs` | the inductive invariant of `Pipe`: an end that is no error is the end of everything that could be read; and that of `Handler` on top of it: what clients are told and what is kept |
| `ContentTreeProofs` | the tree of directories is closed, so the cleaner takes nothing from under a Create; fresh data goes only by a purge or its own failure |
| `EntryProofs` | `Freshness` and `Routing`: how long an entry is kept and whose it is |
| `HttpAppProofs` | the count of connections, its limit, and the quiet after `Stop` |
| `LifecycleProofs` | one process at a time writes, nothing runs after `Release` |
| `MC...` | instances for TLC |

### NamedLock

`NamedLock.mu` makes `increase`, `holder` and `decrease` atomic: they are
`IncreaseOld`/`IncreaseNew`, `Lookup` and `Decrease`. In between a goroutine is
at one of the labels `pc`: it has a holder (`got`) and works on the holder's
mutex, whose writer announces itself first (`Announce`), waits for the readers
before it (`Drained`) and on `Unlock` lets in the readers that blocked meanwhile
(`RBlock`, `RWake`). `Unlock` and `RUnlock` look the holder up again by name
(`found`), as the code does. An identity of `Holders` is reused when neither the
map nor a goroutine has it, which is what the garbage collector provides.

### Store

`dir[p]` is the data directory at path `p`, an object of `Objs`. The object is the
directory, the download that fills it and that download's channel at once:
`startDownload` makes exactly one of each together. An object in use by nobody can
become a new one. `readable` stands for info and header being written, `whole` for
the complete body, `failed` for the error of the download's goroutine, `expired` for
`ExpiresAt` in the past. A body can be whole and its download have failed, by a
burst longer than the body or by `Data.Close` (`CopyDone`); `Sound` is data of which
neither is wrong, and the goroutine throws away what is not. `pc`, `path`, `found`,
`existed`, `opened`, `await` are the locals of the goroutines.

| code | actions |
|---|---|
| locks at the head of every method, deferred unlocks | `RLockHost`, `LockData`, `Unlock` |
| `Get` | `Call`, `Lookup`, then one of `GetUpdating`, `GetForgets`, `GetHit`, `GetUnreadable`, `GetMissing` |
| `startDownload` until it returns | `GetRequestError`, `GetReply`, `GetReplyStuck`, `GetMkdir`, `GetCreate`, `GetCreateFails`, `GetInfo`, `GetInfoFails`, `GetRegister` |
| `Get` after it | `GetOpen`; the response is read or closed: `Return` |
| download goroutine | `CopyDone`, locks, `Lookup`, `Finish`, `Unlock` |
| `Purge` | `Call`, locks, `Purge`, `PurgeRename` |
| `PurgeHost`, `PurgeAll` | `CallPurgeHost`, `CallPurgeAll`, `Announce`, `HostStat`, `HostRename`, `HostUnlock`, `PurgeAllCanceled` |
| `contentCleaner` | `WalkStart`, `WalkHost`, `WalkData`, locks, `CleanStat`, `CleanOpen`, `CleanRename` |
| `trashCleaner` | `TrashRemove` |
| time, process | `Expire`, `Crash`, `Fatal` |

Granularity. A step is one access to what several goroutines share without a
common lock: the downloads map, a system call on the directory tree, a lock. A
section in which a goroutine reads only what its locks protect is one step with
the access it follows. `Create` is three steps because `MkdirAll` makes the
parents and the directory one after the other and a crash, or the cleaner,
may come between any two. The request to the origin is one step whose outcome is
one of `Replies`, or an error.

Two details of the code the model keeps on purpose. `contentCleaner` computes
its host name from a path that begins with a separator, so that it locks the
empty name (`NoHost`) and does not exclude `PurgeHost`; and its removal of empty
directories takes no lock at all.

Abstractions. Host directories are one level (the code has more between host and
`data`: module `ContentTree`). Identity of the trash names
(UUIDs) and the content of trash are a set. `Objs` bounds the disk: with all
objects in use `GetCreateFails` is the full disk. `before` is a history variable
for `PurgeAllComplete` and `PurgedIsGone`, and no guard reads it.

### Cache, Mgmt

`Cache` has neither locks nor directories nor goroutines. `Store!ImplementsCache`
maps `dir` to `entry`, `Sound` to `sound`, `expired` to itself, the paths a running
purge has still to go to to `purging`, and an opened answer to `hits` or `follows`
by whether it has a channel to wait for. A step of the store is one step of `Cache`
or none; the promise is in what `Cache` does not have: no step that drops what is
sound and fresh without a purge, and no HIT of an entry that is not sound. What has
arrived whole in a download that failed may go. It is claimed where paths differ in
key and neither the process dies nor a rename fails.

`Mgmt` adds to `Store` what the management server makes of a purge's result:
`Status` is the switch of its handler, which has no state. Requests that it
refuses itself (403, 405, 501) never reach the store.

### ContentTree

`Path[d]` is the chain of directories down to data directory `d`. `Create` with
`StatUp`, `MkdirDown`, `MkdirFails` is `Data.Create`'s `os.MkdirAll` as the
library does it: up to the deepest directory that exists, then down, one system
call a step. `Settle` and `Discard` are the ends of a download's goroutine, which
`loading` has registered; `Purge` and `PurgeHost` are those calls. `VisitDirectory`,
`ReadDir` and, for data, `LockData`, `OpenData`, `TrashData` are the callback of
`contentCleaner` and `fileutil.WalkDir` around it, which calls it before it reads
the directory. Between the look at data and its rename the cleaner has the data's
lock, which keeps out Gets, downloads and Purge (`Locked`), but the lock of the
host "" instead of the host's, so that PurgeHost may come between. Gets hold the
lock of their host for reading, which is a guard of `PurgeHost`. `crashes` bounds
how often the process dies; `broken` is history.

### Pipe, Ranges, Download, Handler

Sizes are in blocks, a block being what one turn of `io.Copy` moves. In `Pipe`,
`ReadBlock`, `ReadEnd`, `WriteFails` are the loop of `pipeData`, `WaitClosed`,
`WaitReleased`, `WaitTimer` its select and `ShutReleased`, `ShutEnded` the goroutine
that closes the pipe; where two cases of a select are ready either may be taken.
`ReadFails` is an error of Seek or of a read of the body file: it is only logged,
and the pipe ends as at the end of the file (`"failed"`). `io.Pipe` is synchronous:
`Deliver` is the reader taking the block. `Ranges` has what `setContentRange` leaves
of a header and `pipeData`'s clamping.

`Download` is the goroutine of `startDownload` from the headers to the decision
about the data: `CopyBlock`, the end of `io.CopyN` (`BurstDone`, `BurstEnds`) and
of `io.Copy` (`RestEnds`), every failure, and `Sound` for the decision. An origin
sends as much as it announced or less; its body is limited to what it announced,
which is nothing for a length of -1 (`Stored`).

`Handler` puts them together. A reader of `Pipe` is a request; `Refusal` has the
checks of `_Writer.Prepare` in their order, `AnswerFollow` and `AnswerHit` write the
headers, `CopyBlock`, `ClientGone` and `CopyEnds` are `CopyRate` towards the client.
`Downloads` is one step of both `Pipe` (the file grows) and `Download`. In
`DownloadTurns` the request of the download may be cancelled at any time, by
`Release` or by the watcher of a caller who has gone (`D!Cancelled`). `Registered`
stands for the entry in `downloads`: a body is a HIT only when its goroutine has
settled (`dpc = "over"`) and kept it. `view` is what the client makes of the answer,
by its `Content-Length` or, encoded, by the encoder's end; that is net/http, not the
repository. `UsesThePipe` says that this composition is a refinement of `Pipe`
alone.

### Freshness

`httpExpires` and `Age` are the functions of those names; `Shortened` and
`ExpiresAt` apply limit, origin and floor in the code's order, `Dynamic` and
`TooLarge` are the answers that are not kept. `Timed` multiplies in `Half`-bounded
words as `time.Duration` does. The clock is `now`; `GetHit` and `GetFetch` read
it when they happen, later than the time the entry was computed from. While a
download of the entry is registered (`downloading`, until `DownloadEnds`) Get
follows it whatever its age (`GetUpdating`); when the origin does not answer, what
has expired is served (`GetFails`, outcome `"stale"`: what the code is written for,
and where it panics instead, the first finding). `Removed` is whatever else takes
the entry away.

### Routing

A host is a name and a port, 0 if none is written, so that cutting off a default
port is what it is and not a string operation. A path is what the client wrote, and
`Rewritten` what is left of it when a `url.URL` that has only its decoded `Path` is
written again: the code copies `Path` without `RawPath` wherever it makes one.
`StoreURL`, `StoreHost` and `Location` are `ServeHTTP` and `setStoreURL`; `Base`,
`Key` and `DataPath` are `getURLs` and `getDataPath`; `LimitsOf` is `main.go`'s
lookup. `content` remembers for each path what was fetched for it, which is what the
properties compare with the request. The configuration is a variable that is chosen
at the start.

### HttpApp

A connection goes `backlog`, `new` (in the `StateNew` hook, whose two accesses to
`connCount` are `Accept` and `Check`), `open`, `ended`, or is `hijacked` by h2c. A
request is `read` before the handler has added it to the wait group (`Enter`).
net/http is taken at the word of its documentation: a connection with a request
that has been read is active, and Shutdown does not close it. Its implementation
marks the connection active only after it has read the request, so that Shutdown
can close it as idle in between and return before the handler has begun; `Read`
and `CloseIdle` exclude this, and `StoppedIsQuiet` says nothing of it.
`Shutdown`, `CloseIdle`, `ShutdownDone` and `ShutdownTimeout` are `Terminate`,
`Stop` is `wg.Wait`. The management server is the same without limit and h2c.

### Lifecycle

A call is a Get with the goroutines it leaves behind. `Ask`, `Answered`,
`CloseRequested` and `Write` are `startDownload` as far as contexts go; the
watcher (`WatchGone`, `WatchTold`) may take either case when both are ready.
`Release` is `s.cancel`, `Waited` the end of `s.wg.Wait`, `Unlock` the lock file.
Nothing orders `Release` after the handlers here, since the order in which the
applications are stopped is a library's; `late` is history, the calls that were
in Get at that moment.

## 3. What TLC checks

All properties hold in the runs below but in the last two. `Faults` switches on
what the environment may do.

| run | instance | distinct states | shows |
|---|---|---|---|
| `named_lock` | 3 goroutines, 2 names, 2 holders | 40 000 | `MutualExclusion`, `NoPanic`, `MapIsExact`, `LockReturns` and the refinement `ImplementsRWLock` |
| `store` | 2 clients (Get, Purge), 1 path, 3 objects, copies and disk fail | 617 000 | `TypeOK`, `IncompleteIsRegistered`, `HitIsWhole`, `AwaitsOwnDownload`, `RegistrationSettles`, `UndisturbedUnderLocks`, `LateFinishHarmless`, refinement `ImplementsCache` |
| `store_mgmt` | Get beside every purge, the cleaner, 2 hosts, 1 object, every fault | 1 329 000 | `PurgedIsGone`, `PurgeAllComplete` |
| `store_live` | a Get beside a PurgeAll on 1 host, the cleaners, fair | 77 000 | `EveryCallReturns`, `ExpiredIsCollected` |
| `handler` | 1 request after the other of 14 kinds, 1 download, bodies of no, 0 and 3 blocks, bursts 0, 1, 3; files that cannot be read | 538 000 | `WholeIsWhole`, `NothingBreaksIt`, `KeptExactly`, `StreamsEnd`, refinement `UsesThePipe` |
| `freshness` | 3 configurations, 40 answers, durations of 5 bits | 47 000 | `WithinMaxAge`, `AsConfigured`, `HitsAreYoung` |
| `tree` | 2 paths of 4 levels, 2 of them shared, 1 crash, fair | 31 000 | `GroundHolds`, `FreshStays`, `LeftoversGo` |
| `routing` | 4 configurations of 2 or 3 hosts, 2 paths, one of them in 2 spellings | 35 000 | `OwnAnswer`, `KeysApart`, `PurgeReaches`, `LimitsAreOwn` |
| `http_app` | 4 connections, limit 2, h2c, timeouts, fair | 30 000 | `NeverTooMany`, `CountIsExact`, `StoppedIsQuiet`, `StopReturns` |
| `lifecycle` | 2 processes, 2 calls, fair | 311 000 | `OnlyOwnerWrites`, `ReleaseReturns`, `GoneCallReturns` |
| `store_panic`, `store_crash` | the fault in question | | the first two findings of section 5 |

Bounds and why they are enough.

* Locks: three goroutines on a name are a holder, a waiter and one that comes
  between. A holder that has left the map has no user, so two names never need
  more than two holder objects.
* `store`: two calls and three objects on one path are what the download
  goroutine's check is for: one download ended but not yet settled, a second
  running, a third being created. A second path adds nothing while keys are
  distinct, since paths share only the host's read lock then; `store_mgmt` has
  it for `PurgeAll`. There one object does: a purge and the cleaner tell whether
  there is data and whether it is registered, not which; a crash may leave data
  without info there. `WalkOne` lets the cleaner get as far as the first host and
  the data in it, which makes a host disappear under a purge. What these two runs
  leave out between them, three downloads beside PurgeHost and crashes, is
  covered by the theorems of section 4, which know no bound: `ImplementsCache` and
  `UndisturbedUnderLocks` beside PurgeHost and the cleaner are checked there only.
* `store_live`: the two callers meet at both locks. The Get holds host and data
  lock over its request while PurgeAll has announced itself as the host's writer and
  the goroutine of an earlier Get and the cleaner wait behind it; the next Get waits
  behind the writer. A download that never ends is a behaviour of the run
  (`CopyDone` is not fair). PurgeAll takes the steps of PurgeHost; that a second
  reader or writer of the lock waits no longer than this is `LockReturns`.
* `handler`: one request at a time is enough because requests share nothing but
  the file, the channel and the store's context, none of which a request
  changes. Bodies have none, one and more blocks than a burst; ranges start and
  end before, at and behind the body's end. `Bursts` has 3 beside a body of 3.
* `freshness`: with five bits (`Half` 16, `Second` 4) max-age runs through what
  does not wrap, wraps to a negative, to zero and to a small positive duration.
* `tree`: two paths that part at the last level but one are one Create under
  the feet of another's cleaner at every level that is not its own.
* `routing`: each configuration has what one pair of properties can go wrong by: one
  origin with two schemes and a redirect, one origin in two spellings, two hosts that
  one origin is asked for by their own names, and a host whose name is another one's
  origin. A third host meets no entry that a second does not.
* `http_app`: two connections more than the limit, so that one is refused while
  another that should be is still unnoticed.
* `lifecycle`: one cleaner stands for both, they are alike. A second process and a
  second call are what may meet the leftovers of a first one.

Symmetry and view. In `store`, `store_panic` and `store_crash` objects, and in
`store` clients, are interchangeable; runs with liveness use neither symmetry nor
view. `View` identifies states that differ in a value nobody reads any more (the
body of data that nobody can open, a local that is dead); the comment above it
lists them.

Seeded faults. Operators whose comment begins "Seeded fault" are not used by
the specification. Each is a plausible bug in an operator that follows it (an
unconditional cleanup, a forgotten count, a shared lock); replacing the one by
the other breaks the property it is paired with in PROJECT.json.

Fairness.

* `NamedLock`: goroutines keep running, and `sync.Mutex` hands over in FIFO order
  once a waiter starves, hence strong fairness for the announcement.
* `Store`: locks return (`LockReturns`), calls in progress proceed, the answer of
  the origin comes or fails by the transport's timeouts (3 s dial and TLS, 5 s
  for the headers, `store.go` 66-93), the cleaner runs every quarter of a
  second. The copy of a body has no timeout in the code and gets no fairness:
  `EveryCallReturns` holds without it, as a call does not wait for a download's
  end. A client need not close the response it reads.
* `Handler`: the goroutines of `pipeData` run. Client, origin and `Release` owe
  nothing: of the parts of `StreamsEnd`, `ReleaseEndsAll` and `GoneReadersEnd`
  hold without them, and `FollowersSeeEnd` says in its own hypothesis that the
  client reads.
* `ContentTree`: the cleaner runs, time passes, a Get does not keep its lock for
  ever.
* `HttpApp`: goroutines run and handlers return; no timeout need happen, and a
  client need not hang up.
* `Lifecycle`: goroutines run; Do ends when its context does. The origin need
  neither answer nor send.

Deadlock is checked in every run but `handler` and `http_app`: there the system
may stop, with a client that does not read and no `Release`, and after `Stop`.

## 4. What is proved

`NamedLockProofs`, for any finite set of goroutines and any names and holders
(`ProcsAssumption`, `NamesAssumption`, `HoldersAssumption`): `Inductive` shows
`Spec => []IInv`, and `TypeCorrect`, `Exclusive`, `NeverPanics` and `ExactMap`
the properties of the same runs. Mutual exclusion by itself is not inductive: a
goroutine in the critical section could have a holder the map no longer has. The
strengthening `IInv` says, per goroutine (`ProcInv`), that the holder it got is
the one the map has for its name and that its label tells what it does with the
mutex; per holder (`HolderInv`), that the count is the number of goroutines that
got it and that only those occupy its mutex; and per name (`NameInv`), that a
holder in the map has a user. There is one lemma per action. `decrease` is where
they meet: when the count reaches zero nobody else has the holder, so that
dropping it leaves `ProcInv` true of all the others.

`LocksByName` is the refinement: `NamedLock` implements one reader/writer lock per
name. What the abstract lock of a name is held by is read off the goroutines;
`Seen` says that it is the mutex of the holder which the map has for the name, or
nobody if it has none. With it a step on a mutex is the step of that name
(`AnnounceRefines` to `RUnlockRefines`), and `increase` and `decrease` are
stutters, because a holder that comes or goes has an empty mutex.

The store's proofs are for any clients, data directories, paths, hosts and walk
(`KindAssumption`, `PathAssumption`, `IdAssumption`) and come in layers, each an
inductive invariant relative to those before it.

* `StoreProofs`: `Typed` (`TypeOK`, and that the walk is not over while the
  cleaner is at one of its entries) gives `TypeCorrect`. `Undisturbed` gives
  `NotDisturbed`. It says that a goroutine between its locks and unlocks is the
  only one to hold its data path (`DataLocked`), holds its host for reading, and
  that PurgeHost, once it has drained its host, excludes all of these
  (`HostLocked`); that a data directory has one path; and that a directory being
  created belongs to its creator, the goroutine not running. Neither half holds
  alone: what is on the disk stays because of the locks, and a goroutine is not
  started a second time because its directory has one path. Most steps are
  covered by two lemmas over a frame (`Works`: a step under one's own locks,
  `Stays`: one that touches nothing locked). No assumption on faults is needed:
  this holds through crashes and beside the lock-free cleaner.
* `StoreDownloadProofs`, if paths differ in key (`KeysApart`): `Registered` says
  that what Get or a download goroutine has read from `downloads` is still there
  when it is used (`Fresh`), that a call which creates data has no registration
  (`Tracks`), that data at the path of a registered download is its own
  (`Matches`), and `RegistrationSettles`. From it follow `Settles`, `AwaitsOwn`
  and the action property `LateFinish`: still with every fault.
* Its second half, if moreover neither the process dies nor a rename fails
  (`Unharmed`; the origin may break off a body, the disk may be full):
  `Complete` says of every download what its body is while it is filled (`Fills`) and of
  everything in `content/` that is not sound who answers for it (`Traced`). From it
  follow `Incomplete` and `HitsWhole`. The step that needs everything is
  `FinishRetains`: a goroutine that removes its registration leaves a sound
  body, or has moved another one to trash, because what it found
  registered is itself and what is at the path is its own.
* Its last part, under the same hypotheses, is the refinement of `Cache`
  (`ServesACache`). To the invariants above (`StoreInv` has them all) it adds
  `Orderly`: a purge serves nothing and what it has still to go to is told by its
  label (`Plain`); Get and cleaner throw away only what has expired, and Get creates
  only where nothing is (`Clears`). `Reaches`, `HitsOf` and `FollowsOf` are the
  state of the cache as functions of the callers. A step changes them at one caller
  at most (`SeenByOne`, `SeenByNone`), and each lemma `...Cache` shows which step of
  `Cache` a group of actions is. An entry that goes is either expired or not sound
  (`SeenDrop`), which for a late download goroutine takes `Registered`: what it
  throws away is the data of its own failure, be the body whole or not; or it is
  within reach of the purge that throws it away (`SeenPurge`).
* The second half of `StoreProofs`, with every fault and without a hypothesis:
  `Swept` says where the data that a purge is to throw away still can be. For
  `Purge` that is its path (`PurgesPath`: a data directory has one path, of
  `Undisturbed`), for the others a host they have still to go to (`PurgesHosts`).
  PurgeAll lists the hosts once and goes on after `ErrNotExists`; that a host which
  is not there has no data is `Grounded`, and it survives the cleaner, which removes
  only empty directories, and Get, which may create them again. All other steps
  bring nothing within reach of a purge (`Spares`). `PurgeAllDone` and
  `AnsweredIsGone` are the results.

The two hypotheses of `StoreDownloadProofs` are not decoration: without `KeysApart`
and without `Unharmed` the same properties fail, which are the first of the further
disagreements and the second finding below. The other proofs stand each on its own.

* `HandlerProofs`, first of `Pipe`, for any readers, lengths and ranges
  (`SizesAssumption`, `AskedAssumption`): `IInv` ties the offset in the file to the
  blocks that the reader has got (`Delivered`), keeps it at or before the end
  (`Within`), and says that a goroutine which is over, with nothing released or
  closed and no error of the file, is at the end of a file that does not grow any
  more (`ReadAll`). That last part needs the order in `pipeData`: the copy after the
  channel was seen closed. `EndsWhole` is the result: `io.EOF` without a release
  means all that was asked for, unless the file could not be read (label
  `"failed"`), which the code tells nobody.
* Its second half builds on that. `StepsOfPipe` shows that every step of handlers
  and download is one of `Pipe` or leaves it alone, so that `Pipe`'s invariant is
  inherited, and with it the refinement `Uses`. `Downloaded` says of each way in
  which `CopyRate` can end what it means for the body; `Announced` what the headers
  say of the slice in the pipe; `Due` what is in the file for the answer, and
  `Viewed` what a client has concluded. It follows that what is kept is what was
  announced (`Keeps`), that an answer taken for whole is (`TellsTheTruth`), and what
  alone can break one (`BreaksNothing`): a release, a client that leaves, a body
  that did not arrive, a file that cannot be read, or an upload burst longer than an
  encoded body. All this with the exceptions that the properties name, for any
  requests, hosts, bursts and lengths. `RangeAssumption` says that `Asked` has the
  ranges of the requests, `LongestAssumption` that bodies have a greatest length.
* `HttpAppProofs`: the limit (`Limited`) holds because no connection is ever missing
  in the count (`NeverForgotten`), although it may have some too many; `Exact` says
  when these come about, and `Quieted` that after `Shutdown` only h2c connections
  are still served.
* `LifecycleProofs`: `OwnersWrite` and `Quieted` follow from what Release waits for
  (`Awaited`) and from the lock file being the store's until it has waited
  (`Locks`). Both except the calls that were in Get when Release was called.
* `ContentTreeProofs`, for any tree in which every directory has one parent and data
  is at the ends of paths (`TreeAssumption`): `Closed` says that above a directory
  that exists everything exists. It is what makes the lock-free removals harmless:
  a directory that leads to data is never empty, so `rmdir` of it fails. That
  `MkdirAll` keeps the tree closed needs the point where its walk up met a
  directory that exists, which the cleaner may have removed since: then `mkdir`
  fails instead. `Held` says that what the cleaner has found expired under the data's
  lock is expired when it renames it, or gone with its host, since PurgeHost is the only
  one to come between. `GroundHeld` follows, and the action property `FreshStaysThere`:
  fresh data leaves `content/` in a Purge of it, in a PurgeHost of its own host, or
  because its own download failed, and by no step of the cleaner or of another path.
* `EntryProofs`, first of `Freshness`, for any configurations, answers and width of
  the integers (`WordAssumption`, `ConfigAssumption`, `AnswerAssumption`): `Wraps`
  says what 64 bits keep of a product, and that the last directive of a name
  exists is a lemma of least numbers (`Minimum`, from the well-foundedness of the
  naturals in the library). `MaxAgeObeyed`, `LivesAsMeant` and `YoungHits` follow
  from `FreshIInv`: an entry was created no later than now, and lives as
  `LivesAsConfigured` and `ObeysMaxAge` say, whatever time passes before Get
  compares its expiry with the clock. `YoungHits` is of HITs. An answer that follows a
  registered download (UPDATING) is served whatever its entry's `ExpiresAt`, so that
  nothing bounds its age but the download's end, and STALE has expired by its name.
* Its second half is of `Routing`, for any configurations that `Validate` lets pass
  (`SiteAssumption`) and any requests and purges. `RoutingIInv` says that whose
  entry it is follows from its path alone: `Kept` tells what it was fetched with and
  which limits it got, `MadeFor` which origins it can be of. `OwnLimits` and
  `PurgesReach` need no more. What a request asks for is the rewritten path
  (`PathAssumption`: writing it again changes it no more), so that two spellings of
  it meet at one entry; nothing else does. `OwnAnswers` supposes that redirects are
  to the port of the HTTPS server (`RedirectsHome`: what `httpsRedirectPort` is
  configured for), and `DataApart` that no host asked for by its own name is taken
  for another one's origin (`NamesApart`): the code checks neither, and the second
  is the first of the further disagreements below. `DataApart` is what discharges
  `KeysApart` of the store's proofs. The configurations of the run `routing` meet
  both.

All these invariants were checked with TLC before they were proved.

Only model-checked: liveness (`LockReturns`, `EveryCallReturns`,
`ExpiredIsCollected`, `StreamsEnd`, `LeftoversGo`, `StopReturns`, `ReleaseReturns`,
`GoneCallReturns`), which needs fairness and ENABLED and is beyond the prover. Every
invariant, action property and refinement of the runs is a theorem.

## 5. Findings

1. `store.go:334` opens expired data again after the origin failed; `Data.Open`
   asserts that it is not (`data.go:84`), and the HTTP handler's recover ends the
   process. Serving stale content (`CacheStatusStale`) is never reached.
   Run `store_panic`.
2. A crash during a download leaves a partial body with valid info; after the
   restart it is served as HIT. Run `store_crash`.

Further disagreements that were met while modelling. The models contain them,
and the properties say where they hold with them ("unless", "excepted"):

* `store.go:600`: `downloads` goes by key URL, paths by base host and key URL.
  With `hostOverride` on one host and an origin of that name behind another, two
  paths have one key, their downloads overwrite each other's registration and
  incomplete data is served as HIT. `HitIsWhole` needs `KeysApart`; `Routing`
  shows it for configurations in which overridden names are no other origin's.
* `data.go:50`: a crash between `MkdirAll` and info leaves a directory at which
  every Get of the URL fails and every walk of the cleaner ends, until a purge
  of its host. `LeftoversGo` excepts it (`broken`). The same is true, without a
  crash, of an origin whose name is `data` (`store.go:844`): `Named` would have
  its host's directory in it.
* `store.go:816`: PurgeAll keeps the `ErrNotExists` of a host that the cleaner has
  removed meanwhile; if it was the last one, the management server answers 500
  although everything is purged (`mgmtapp.go:163` has "all purged" for that).
  `PurgedIsGone` is about the answers 200 and 404 only.
* `store.go:464`: when `Release` cuts off a stream, loop and select of `pipeData`
  race, and the pipe may end with `io.EOF` instead of `ErrStoreReleased` (429).
  By the length a client of a plain answer notices nevertheless (`WholeIsWhole`).
* `store.go:441`, `456`, `472`: a Seek or read error of the body file is logged, and the
  pipe then ends with `io.EOF` as it does at the file's end. A client of a plain answer
  sees that it is short; an encoded one is closed and taken for whole (excepted in
  `WholeIsWhole`, and named in `NothingBreaksIt`: label `"failed"`).
* `store.go:633`: the channel closes in the same way after a download that failed;
  an encoded answer has no length, so its client takes the cut body for whole
  (excepted in `WholeIsWhole`).
* `ioutil.go:13`: `CopyRate` returns `io.EOF` of `io.CopyN` if the source is shorter
  than the burst. A download with a burst longer than the body is thrown away
  (`KeptExactly` needs `burst <= size`), an encoded answer with such an upload burst
  is not closed (excepted in `NothingBreaksIt`). The discarded body has arrived
  whole and is fresh; so it has if `Data.Close` fails (627), which is the same error
  to the goroutine (660). `Cache` lets both go, as failures.
* `store.go:618`: `io.LimitReader` with a length of -1 reads nothing, so that of a 404
  without a length an empty body is kept and served, whatever the origin sent; the size
  is not compared then (excepted in `WholeIsWhole` and `KeptExactly`).
* `store.go:506`: the watcher of a caller looks at the caller's context and at the end of
  `Do` in one select. If `Do` has returned and the client has gone before it runs, it may
  cancel the request whose body the download is about to copy: the download fails,
  and others who follow it get a short answer (`DownloadTurns`).
* `writer.go:93`, `store.go:177` and `198`: URLs are made with `Path` and without
  `RawPath`. A client that asks for `/a%2Fb` is served, and has the origin asked
  for, `/a/b`; so do purges and redirects. `OwnAnswer` and `PurgeReaches` speak of
  the rewritten path.
* `store.go:403`: the end of a Range header is taken as exclusive; `bytes=0-1` is
  answered with one block of two. `Ranges` models it as it is, so that the
  properties compare with the part that was announced.
* `store.go:531` with `main.go:104`: limits are looked up by a host from which the
  default port was cut off, in a map whose keys may have it: `LimitsAreOwn` holds
  "unless the name has the default port in it".
* `store.go:751`: PurgeHost takes the host as it is written, Get and Purge cut off
  the default port: the same exception in `PurgeReaches`.
* `httpapp.go:105`: a connection that h2c takes over is never discounted; with a
  limit each takes a place for good. `CountIsExact` names it. Those connections also
  go on after `Terminate`, and `Stop` may wait for ever if they keep asking
  (`StopReturns`).
* `store.go:136`: a Get that was past its look at the context when `Release` was
  called is in no wait group yet; it may change the directory after the lock file
  was given up. `OnlyOwnerWrites` excepts it (`late`).

## 6. What is not modelled, and the plan

Not modelled: the debug endpoints (net/http/pprof), TLS and certificates, the
compression itself, logging and metrics, flags and YAML; the parsing of URLs,
hosts and headers, of which the modules take the results; rates (a leaky bucket
changes no byte and no order); the headers an answer copies from its origin;
`AcquireLock` and `AcquireRLock`, loops of `TryLock` and `TryRLock` that nothing
calls; and the order in which `main.go` has its applications stopped, which is a
library's: `Lifecycle` releases the store at any time instead.

The plan has left: a weaker cache that the store implements through crashes, where
`Unharmed` does not hold, and that the maps on which the models rest (`Expires`
of a list of directives, the clamping in `Ranges`) agree with a reference
definition for every input, as far as this needs no induction over data.
