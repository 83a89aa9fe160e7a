------------------------------ MODULE Lifecycle ------------------------------
(***************************************************************************)
(* store.go New, Release and the goroutines in between: the lock file that *)
(* keeps a second process off the directory, s.ctx, which ends everything, *)
(* s.wg, which Release waits for, and the request to the origin, which ends*)
(* with s.ctx or, while Get waits for the answer, with its client.         *)
(* What calls do to data is in module Store, streams are in module Pipe.   *)
(***************************************************************************)
EXTENDS Naturals, FiniteSets

CONSTANTS Stores,   \* processes started one after the other on one directory
          Calls,    \* Gets with the goroutines they leave behind; reused
          Cleaners  \* contentCleaner and trashCleaner

ASSUME CallsAssumption == IsFiniteSet(Stores) /\ Stores # {} /\ IsFiniteSet(Calls)

VARIABLES phase,     \* phase[s]: what the process and its store are at
          lockFile,  \* the stores that have the lock file
          cleaners,  \* cleaners[s]: the cleaner goroutines that run
          pc,        \* pc[c]: where the call is
          home,      \* home[c]: the store it is a call of
          tasks,     \* tasks[c]: the goroutines it has left behind, counted in wg
          watcher,   \* watcher[c]: whether the goroutine beside Do is there
          gone,      \* the calls whose client is gone: ctx is done
          cancelled, \* the calls whose reqCtxCancel was called with somebody to see it
          late       \* history: the calls that were in Get when Release was called

stores == <<phase, lockFile, cleaners>>
calls  == <<pc, home, tasks, watcher, gone, cancelled, late>>
vars   == <<stores, calls>>

Phases == {"absent", "locked", "open", "cancelled", "waited", "released"}
Labels == {"idle", "inside", "asking", "answered", "told", "created", "registered", "stream",
           "return"}
Tasks  == {"download", "pipe"}

TypeOK == /\ phase \in [Stores -> Phases]
          /\ lockFile \subseteq Stores /\ Cardinality(lockFile) <= 1
          /\ cleaners \in [Stores -> SUBSET Cleaners]
          /\ pc \in [Calls -> Labels]
          /\ home \in [Calls -> Stores]
          /\ tasks \in [Calls -> SUBSET Tasks]
          /\ watcher \in [Calls -> BOOLEAN]
          /\ gone \subseteq Calls
          /\ cancelled \subseteq Calls
          /\ late \subseteq Calls

\* The home of a call that is none.
Nowhere == CHOOSE s \in Stores : TRUE

Init == /\ phase = [s \in Stores |-> "absent"]
        /\ lockFile = {}
        /\ cleaners = [s \in Stores |-> {}]
        /\ pc = [c \in Calls |-> "idle"]
        /\ home = [c \in Calls |-> Nowhere]
        /\ tasks = [c \in Calls |-> {}]
        /\ watcher = [c \in Calls |-> FALSE]
        /\ gone = {}
        /\ cancelled = {}
        /\ late = {}

Become(s, p) == phase' = [phase EXCEPT ![s] = p]
Goto(c, l)   == pc' = [pc EXCEPT ![c] = l]

\* Get is between its look at s.ctx and its return.
Within(c) == pc[c] \in {"inside", "asking", "answered", "told", "created", "registered"}

-----------------------------------------------------------------------------
(* New.                                                                     *)

\* filelock.Create succeeds.
LockFree == lockFile = {}

NewLock(s) == /\ phase[s] = "absent" /\ LockFree
              /\ Become(s, "locked")
              /\ lockFile' = lockFile \cup {s}
              /\ UNCHANGED <<cleaners, calls>>

NewReady(s) == /\ phase[s] = "locked"
               /\ Become(s, "open")
               /\ cleaners' = [cleaners EXCEPT ![s] = Cleaners]
               /\ UNCHANGED <<lockFile, calls>>

\* A directory cannot be made: the lock is given back.
NewFails(s) == /\ phase[s] = "locked"
               /\ Become(s, "absent")
               /\ lockFile' = lockFile \ {s}
               /\ UNCHANGED <<cleaners, calls>>

-----------------------------------------------------------------------------
(* Get.                                                                     *)

\* The look at s.ctx.
Get(c) == \E s \in Stores :
            /\ pc[c] = "idle" /\ phase[s] = "open"
            /\ home' = [home EXCEPT ![c] = s]
            /\ Goto(c, "inside")
            /\ UNCHANGED <<stores, tasks, watcher, gone, cancelled, late>>

Adds(c, t) == tasks' = [tasks EXCEPT ![c] = @ \cup {t}]

\* HIT and UPDATING.
GetServes(c) == /\ pc[c] = "inside"
                /\ Adds(c, "pipe")
                /\ Goto(c, "stream")
                /\ UNCHANGED <<stores, home, watcher, gone, cancelled, late>>

\* Seeded fault: the request is made in a context of its own.
RequestDoneOwn(c) == c \in cancelled

\* reqCtx, which derives from s.ctx, is done.
RequestDone(c) == c \in cancelled \/ phase[home[c]] # "open"

\* The request to the origin, and the watcher beside it; with a context that is
\* done Do does not even begin.
Ask(c) == /\ pc[c] = "inside"
          /\ Goto(c, IF phase[home[c]] = "open" THEN "asking" ELSE "return")
          /\ watcher' = [watcher EXCEPT ![c] = TRUE]
          /\ UNCHANGED <<stores, home, tasks, gone, cancelled, late>>

\* Do returns the headers; it may also when reqCtx has just ended.
Answered(c) == /\ pc[c] = "asking"
               /\ Goto(c, "answered")
               /\ UNCHANGED <<stores, home, tasks, watcher, gone, cancelled, late>>

\* Do returns an error.  It does so at last when reqCtx is done.
AskFails(c) == /\ pc[c] = "asking"
               /\ Goto(c, "return")
               /\ UNCHANGED <<stores, home, tasks, watcher, gone, cancelled, late>>

\* close(requested).
CloseRequested(c) == /\ pc[c] = "answered"
                     /\ Goto(c, "told")
                     /\ UNCHANGED <<stores, home, tasks, watcher, gone, cancelled, late>>

\* The request is under way, or its body is.
Needed(c) == Within(c) \/ "download" \in tasks[c]

\* Seeded fault: nobody watches the client.
WatchGoneNever(c) == FALSE /\ UNCHANGED vars

\* The watcher: the client is gone.  With both events there it may take either.
WatchGone(c) == /\ watcher[c] /\ c \in gone
                /\ watcher' = [watcher EXCEPT ![c] = FALSE]
                /\ cancelled' = IF Needed(c) THEN cancelled \cup {c} ELSE cancelled
                /\ UNCHANGED <<stores, pc, home, tasks, gone, late>>

WatchTold(c) == /\ watcher[c] /\ pc[c] \notin {"asking", "answered"}
                /\ watcher' = [watcher EXCEPT ![c] = FALSE]
                /\ UNCHANGED <<stores, pc, home, tasks, gone, cancelled, late>>

\* The old data goes to trash; the new directory is made, or there is none.
Write(c) == /\ pc[c] = "told"
            /\ \E l \in {"created", "return"} : Goto(c, l)
            /\ UNCHANGED <<stores, home, tasks, watcher, gone, cancelled, late>>

Register(c) == /\ pc[c] = "created"
               /\ Adds(c, "download")
               /\ Goto(c, "registered")
               /\ UNCHANGED <<stores, home, watcher, gone, cancelled, late>>

GetOpens(c) == /\ pc[c] = "registered"
               /\ \/ Adds(c, "pipe") /\ Goto(c, "stream")
                  \/ Goto(c, "return") /\ UNCHANGED tasks
               /\ UNCHANGED <<stores, home, watcher, gone, cancelled, late>>

\* The handler returns: its request's context ends.
HandlerEnds(c) == /\ pc[c] \in {"stream", "return"} /\ c \notin gone
                  /\ Goto(c, "return")
                  /\ gone' = gone \cup {c}
                  /\ UNCHANGED <<stores, home, tasks, watcher, cancelled, late>>

\* The client goes away in the middle.
ClientGone(c) == /\ Within(c) /\ c \notin gone
                 /\ gone' = gone \cup {c}
                 /\ UNCHANGED <<stores, pc, home, tasks, watcher, cancelled, late>>

\* A goroutine of the call ends: the copy with the body, or the pipe with its
\* reader or its download; both with the store's context.
TaskEnds(c, t) == /\ t \in tasks[c]
                  /\ tasks' = [tasks EXCEPT ![c] = @ \ {t}]
                  /\ UNCHANGED <<stores, pc, home, watcher, gone, cancelled, late>>

\* When it must end, whatever origin and client do.
MustEnd(c, t) == IF t = "download" THEN RequestDone(c) ELSE phase[home[c]] # "open"

\* Nothing is left of the call: c stands for another one.
Over(c) == /\ pc[c] = "return" /\ c \in gone /\ tasks[c] = {} /\ ~watcher[c]
           /\ Goto(c, "idle")
           /\ gone' = gone \ {c}
           /\ cancelled' = cancelled \ {c}
           /\ late' = late \ {c}
           /\ home' = [home EXCEPT ![c] = Nowhere]
           /\ UNCHANGED <<stores, tasks, watcher>>

-----------------------------------------------------------------------------
(* Release, and the end of a process.                                       *)

\* s.cancel.
Release(s) == /\ phase[s] = "open"
              /\ Become(s, "cancelled")
              /\ late' = late \cup {c \in Calls : home[c] = s /\ Within(c)}
              /\ UNCHANGED <<lockFile, cleaners, pc, home, tasks, watcher, gone, cancelled>>

CleanerStops(s, k) == /\ phase[s] # "open" /\ k \in cleaners[s]
                      /\ cleaners' = [cleaners EXCEPT ![s] = @ \ {k}]
                      /\ UNCHANGED <<phase, lockFile, calls>>

\* Seeded fault: only the cleaners are counted.
GroupSmall(s) == cleaners[s]

\* The goroutines s.wg counts.
Group(s) == cleaners[s] \cup UNION {tasks[c] : c \in {x \in Calls : home[x] = s}}

\* s.wg.Wait returns.
Waited(s) == /\ phase[s] = "cancelled" /\ Group(s) = {}
             /\ Become(s, "waited")
             /\ UNCHANGED <<lockFile, cleaners, calls>>

Unlock(s) == /\ phase[s] = "waited"
             /\ Become(s, "released")
             /\ lockFile' = lockFile \ {s}
             /\ UNCHANGED <<cleaners, calls>>

\* The process ends, orderly or not; the lock goes with it.
Exit(s) == LET its == {c \in Calls : home[c] = s}
               Without(f, v) == [c \in Calls |-> IF c \in its THEN v ELSE f[c]] IN
           /\ phase[s] \notin {"absent", "locked"}
           /\ Become(s, "absent")
           /\ lockFile' = lockFile \ {s}
           /\ cleaners' = [cleaners EXCEPT ![s] = {}]
           /\ pc' = Without(pc, "idle")
           /\ tasks' = Without(tasks, {})
           /\ watcher' = Without(watcher, FALSE)
           /\ gone' = gone \ its
           /\ cancelled' = cancelled \ its
           /\ late' = late \ its
           /\ home' = Without(home, Nowhere)

-----------------------------------------------------------------------------
GetNext(c) == \/ Get(c) \/ GetServes(c) \/ Ask(c) \/ Answered(c) \/ AskFails(c)
              \/ CloseRequested(c) \/ Write(c) \/ Register(c) \/ GetOpens(c)
              \/ HandlerEnds(c) \/ ClientGone(c) \/ Over(c)

\* What a call does by itself once it has its answer.
Proceeds(c) == CloseRequested(c) \/ Write(c) \/ Register(c) \/ GetOpens(c)

Watching(c) == WatchGone(c) \/ WatchTold(c)

StoreNext(s) == \/ NewLock(s) \/ NewReady(s) \/ NewFails(s) \/ Release(s) \/ Waited(s) \/ Unlock(s)
                \/ Exit(s) \/ \E k \in Cleaners : CleanerStops(s, k)

Next == \/ \E s \in Stores : StoreNext(s)
        \/ \E c \in Calls : GetNext(c) \/ Watching(c) \/ \E t \in Tasks : TaskEnds(c, t)

Spec == Init /\ [][Next]_vars

\* Goroutines run.  The origin need not answer nor send its body, the client
\* need neither read nor go away; only the contexts end these.
Fairness ==
  /\ \A c \in Calls :
       /\ WF_vars(Proceeds(c) \/ (RequestDone(c) /\ (AskFails(c) \/ Answered(c))))
       /\ WF_vars(Watching(c))
       /\ \A t \in Tasks : WF_vars(MustEnd(c, t) /\ TaskEnds(c, t))
  /\ \A s \in Stores :
       /\ WF_vars(Waited(s) \/ Unlock(s))
       /\ \A k \in Cleaners : WF_vars(CleanerStops(s, k))

FairSpec == Spec /\ Fairness

-----------------------------------------------------------------------------
(* Properties.                                                              *)

\* Once Release has waited, nothing of the store runs any more but the calls that
\* were in Get when it was called: those that have added nothing to the WaitGroup
\* yet are not waited for.
ReleasedIsQuiet ==
  \A s \in Stores : phase[s] \in {"waited", "released"} =>
    /\ cleaners[s] = {}
    /\ \A c \in Calls \ late : home[c] = s => tasks[c] = {} /\ ~Within(c)

\* c's call, or the download it has left behind, changes the directory.
Touches(c) == \/ pc[c] = "told" /\ pc'[c] # "told"
              \/ "download" \in tasks[c] \ tasks'[c]

\* store.go 102, "unable to get store lock": a store has the directory for
\* itself.  What a call of a store does there it does under the lock file, if it
\* was not in Get when Release was called.
OnlyOwnerWrites ==
  [][\A c \in Calls \ late : Touches(c) => lockFile = {home[c]}]_vars

\* Release returns, with origins that do not send and clients that do not read,
\* and also if a Get that was past its look at s.ctx goes on beside it.
ReleaseReturns == \A s \in Stores : phase[s] = "cancelled" ~> phase[s] \in {"released", "absent"}

\* A Get whose client has gone away does not wait for the origin.
GoneCallReturns == \A c \in Calls : pc[c] = "asking" /\ c \in gone ~> pc[c] # "asking"
=============================================================================
