-------------------------------- MODULE Pipe --------------------------------
(***************************************************************************)
(* store.go pipeData: the goroutine that reads a body file into an io.Pipe *)
(* while a download may still be writing the file, and the goroutine beside*)
(* it that closes the pipe.  One body with its download, any number of     *)
(* responses that read it.  A file is the number of blocks it has so far;  *)
(* a block is what one turn of io.Copy moves.                              *)
(*                                                                         *)
(* io.Pipe is synchronous: Write returns when the block has been read or   *)
(* either end is closed, and a closed pipe delivers nothing any more.      *)
(***************************************************************************)
EXTENDS Ranges

CONSTANTS Readers,   \* the responses
          Sizes,     \* the lengths origins announce, -1 for none
          Asked      \* the ranges asked for of a complete body, as in Requested

All == [Start |-> 0, End |-> -1]         \* the slice of an answer without range

ASSUME SizesAssumption == \A n \in Sizes : n \in Int /\ n >= -1
ASSUME AskedAssumption == Asked \subseteq [Start : Int, End : Int]

VARIABLES size,      \* Info.Size
          body,      \* blocks in the body file
          channel,   \* the download's channel is closed
          released,  \* s.ctx is done
          pc,        \* pc[r]: where r's goroutine is
          follows,   \* follows[r]: download # nil
          last,      \* last[r]: r is in the copy after the channel was closed
          slice,     \* slice[r]: the clamped range, or All
          pos,       \* pos[r]: the offset in r's open file
          watching,  \* watching[r]: the goroutine that closes the pipe is there
          pipe,      \* pipe[r]: "open", or what closed it
          client,    \* client[r]: what the reader of the pipe has seen of its end
          got        \* got[r]: the blocks it has read

file    == <<size, body, channel>>
readers == <<pc, follows, last, slice, pos>>
ends    == <<watching, pipe, client, got>>
vars    == <<file, released, readers, ends>>

Labels  == {"idle", "get", "copy", "write", "wait", "done", "failed"}
Ended   == {"done", "failed"}            \* failed: the file could not be read
Stored  == Higher(size, 0)               \* blocks in the file after a sound copy: none of a
                                         \* body without a length, whatever the origin sends
Slices  == {All} \cup {Clamp(a, size) : a \in Asked}

TypeOK == /\ size \in Sizes
          /\ body \in 0 .. Stored
          /\ channel \in BOOLEAN
          /\ released \in BOOLEAN
          /\ pc \in [Readers -> Labels]
          /\ follows \in [Readers -> BOOLEAN]
          /\ last \in [Readers -> BOOLEAN]
          /\ slice \in [Readers -> Slices]
          /\ pos \in [Readers -> 0 .. Stored]
          /\ watching \in [Readers -> BOOLEAN]
          /\ pipe \in [Readers -> {"open", "eof", "released", "closed"}]
          /\ client \in [Readers -> {"reading", "eof", "released", "closed"}]
          /\ got \in [Readers -> 0 .. Stored]

Init == /\ size \in Sizes
        /\ body = 0
        /\ channel = FALSE
        /\ released = FALSE
        /\ pc = [r \in Readers |-> "idle"]
        /\ follows = [r \in Readers |-> FALSE]
        /\ last = [r \in Readers |-> FALSE]
        /\ slice = [r \in Readers |-> All]
        /\ pos = [r \in Readers |-> 0]
        /\ watching = [r \in Readers |-> FALSE]
        /\ pipe = [r \in Readers |-> "closed"]
        /\ client = [r \in Readers |-> "closed"]
        /\ got = [r \in Readers |-> 0]

Goto(r, l) == pc' = [pc EXCEPT ![r] = l]

-----------------------------------------------------------------------------
(* The download: CopyRate appends to the body; at its end, whole or not, the *)
(* channel is closed.  Its request is made in s.ctx, which Release cancels.  *)

Append1 == /\ ~channel /\ body < Stored
           /\ body' = body + 1
           /\ UNCHANGED <<size, channel, released, readers, ends>>

CloseChannel == /\ ~channel
                /\ channel' = TRUE
                /\ UNCHANGED <<size, body, released, readers, ends>>

Release == /\ ~released
           /\ released' = TRUE
           /\ UNCHANGED <<file, readers, ends>>

-----------------------------------------------------------------------------
(* The beginning of a response.                                             *)

\* Get looks at s.ctx once, at its beginning.
Get(r) == /\ pc[r] = "idle" /\ ~released
          /\ Goto(r, "get")
          /\ UNCHANGED <<file, released, follows, last, slice, pos, ends>>

Pipes(r, f, s) == /\ pc[r] = "get"
                  /\ Goto(r, "copy")
                  /\ follows' = [follows EXCEPT ![r] = f]
                  /\ last' = [last EXCEPT ![r] = FALSE]
                  /\ slice' = [slice EXCEPT ![r] = s]
                  /\ pos' = [pos EXCEPT ![r] = Higher(s.Start, 0)]
                  /\ watching' = [watching EXCEPT ![r] = TRUE]
                  /\ pipe' = [pipe EXCEPT ![r] = "open"]
                  /\ client' = [client EXCEPT ![r] = "reading"]
                  /\ got' = [got EXCEPT ![r] = 0]
                  /\ UNCHANGED <<file, released>>

\* MISS, EXPIRED, UPDATING: all of a body whose download is registered.  It is
\* until its goroutine has the locks, some time after the channel was closed.
PipeFollow(r) == Pipes(r, TRUE, All)

\* HIT: a sound copy whose download is over, or a part of it.
PipeHit(r) == /\ channel /\ body = Stored
              /\ \E s \in Slices : Pipes(r, FALSE, s)

\* The call fails (the request was cancelled, or anything else).
GetFails(r) == /\ pc[r] = "get"
               /\ Goto(r, "idle")
               /\ UNCHANGED <<file, released, follows, last, slice, pos, ends>>

-----------------------------------------------------------------------------
(* The goroutine of pipeData.                                               *)

\* Where the file, or the LimitReader on it, ends at this moment.
EndOf(r) == IF slice[r].End >= 0 THEN Lower(slice[r].End, body) ELSE body

ReadBlock(r) == /\ pc[r] = "copy" /\ pos[r] < EndOf(r)
                /\ pos' = [pos EXCEPT ![r] = @ + 1]
                /\ Goto(r, "write")
                /\ UNCHANGED <<file, released, follows, last, slice, ends>>

\* io.Copy returns at the end of the file as it is now.
ReadEnd(r) == /\ pc[r] = "copy" /\ pos[r] >= EndOf(r)
              /\ Goto(r, IF follows[r] /\ ~last[r] THEN "wait" ELSE "done")
              /\ UNCHANGED <<file, released, follows, last, slice, pos, ends>>

\* Seek, before the first read of a part, or a read gives an error.  It is logged,
\* and the goroutine ends as it does at the end of the file.
ReadFails(r) == /\ pc[r] = "copy"
                /\ Goto(r, "failed")
                /\ UNCHANGED <<file, released, follows, last, slice, pos, ends>>

Deliver(r) == /\ pc[r] = "write" /\ pipe[r] = "open"
              /\ got' = [got EXCEPT ![r] = @ + 1]
              /\ Goto(r, "copy")
              /\ UNCHANGED <<file, released, follows, last, slice, pos, watching, pipe, client>>

\* io.ErrClosedPipe: the block is lost.
WriteFails(r) == /\ pc[r] = "write" /\ pipe[r] # "open"
                 /\ Goto(r, "done")
                 /\ UNCHANGED <<file, released, follows, last, slice, pos, ends>>

\* Seeded fault: the copy that follows the end of the download is left out.
WaitClosedHasty(r) == /\ pc[r] = "wait" /\ channel
                      /\ last' = [last EXCEPT ![r] = TRUE]
                      /\ Goto(r, "done")
                      /\ UNCHANGED <<file, released, follows, slice, pos, ends>>

\* Seeded fault: the select has no case for the channel.
WaitClosedNever(r) == FALSE /\ WaitClosedHasty(r)

\* The channel is closed: what has been written since is copied, and that is all.
WaitClosed(r) == /\ pc[r] = "wait" /\ channel
                 /\ last' = [last EXCEPT ![r] = TRUE]
                 /\ Goto(r, "copy")
                 /\ UNCHANGED <<file, released, follows, slice, pos, ends>>

WaitReleased(r) == /\ pc[r] = "wait" /\ released
                   /\ Goto(r, "done")
                   /\ UNCHANGED <<file, released, follows, last, slice, pos, ends>>

\* A sixteenth of a second has passed.
WaitTimer(r) == /\ pc[r] = "wait"
                /\ Goto(r, "copy")
                /\ UNCHANGED <<file, released, follows, last, slice, pos, ends>>

-----------------------------------------------------------------------------
(* The goroutine that closes the pipe: a select on s.ctx.Done and on the end *)
(* of the other goroutine.  With both ready it takes either.                 *)

Shut(r, how) == /\ watching[r]
                /\ watching' = [watching EXCEPT ![r] = FALSE]
                /\ pipe' = [pipe EXCEPT ![r] = IF @ = "open" THEN how ELSE @]
                /\ UNCHANGED <<file, released, readers, client, got>>

ShutReleased(r) == released /\ Shut(r, "released")
ShutEnded(r)    == pc[r] \in Ended /\ Shut(r, "eof")

-----------------------------------------------------------------------------
(* The reader of the pipe.                                                  *)

\* Read returns io.EOF, or ErrStoreReleased.
SeeEnd(r) == /\ client[r] = "reading" /\ pipe[r] \in {"eof", "released"}
             /\ client' = [client EXCEPT ![r] = pipe[r]]
             /\ UNCHANGED <<file, released, readers, watching, pipe, got>>

\* Close, at any time: the client has gone, or has seen the end.
Close(r) == /\ client[r] # "closed"
            /\ client' = [client EXCEPT ![r] = "closed"]
            /\ pipe' = [pipe EXCEPT ![r] = IF @ = "open" THEN "closed" ELSE @]
            /\ UNCHANGED <<file, released, readers, watching, got>>

\* Both goroutines have ended: r stands for the next response.
Over(r) == /\ pc[r] \in Ended /\ ~watching[r] /\ client[r] = "closed"
           /\ Goto(r, "idle")
           /\ follows' = [follows EXCEPT ![r] = FALSE]
           /\ last' = [last EXCEPT ![r] = FALSE]
           /\ slice' = [slice EXCEPT ![r] = All]
           /\ pos' = [pos EXCEPT ![r] = 0]
           /\ got' = [got EXCEPT ![r] = 0]
           /\ UNCHANGED <<file, released, watching, pipe, client>>

-----------------------------------------------------------------------------
Starting(r)  == Get(r) \/ PipeFollow(r) \/ PipeHit(r) \/ GetFails(r)
Pumping(r)   == ReadBlock(r) \/ ReadEnd(r) \/ ReadFails(r) \/ WriteFails(r)
Waiting(r)   == WaitClosed(r) \/ WaitReleased(r) \/ WaitTimer(r)
Shutting(r)  == ShutReleased(r) \/ ShutEnded(r)
Consuming(r) == Deliver(r) \/ SeeEnd(r)

\* What goes on in the store, whoever reads.
StoreNext == \/ Append1 \/ CloseChannel \/ Release
             \/ \E r \in Readers : \/ Starting(r) \/ Pumping(r) \/ Waiting(r)
                                   \/ Shutting(r) \/ Over(r)

Next == StoreNext \/ \E r \in Readers : Consuming(r) \/ Close(r)

Spec == Init /\ [][Next]_vars

\* The goroutines run.  In the wait no choice is made for ever against the two
\* events: once one has happened a select that finds several of its cases ready
\* takes each with equal chance.  Readers, the origin and Release owe nothing.
Fairness == \A r \in Readers : /\ WF_vars(Pumping(r)) /\ WF_vars(Shutting(r))
                               /\ WF_vars(Waiting(r)) /\ SF_vars(WaitClosed(r))
                               /\ SF_vars(WaitReleased(r))

-----------------------------------------------------------------------------
(* Properties.                                                              *)

\* After Release every goroutine of pipeData ends, although its reader neither
\* reads nor closes and its download does not end: Release waits for them.
ReleaseEndsAll == \A r \in Readers : released /\ pc[r] \notin {"idle", "get"} ~> pc[r] \in Ended

\* A reader that has gone away keeps its goroutine, and the open file, at most
\* as long as the download lasts.
GoneReadersEnd ==
  \A r \in Readers : channel /\ client[r] = "closed" ~> pc[r] \in Ended \cup {"idle", "get"}
=============================================================================
