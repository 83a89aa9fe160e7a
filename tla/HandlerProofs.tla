---------------------------- MODULE HandlerProofs ----------------------------
(***************************************************************************)
(* Of the pipe: one that ends with io.EOF has delivered everything if its  *)
(* file could be read, for any number of readers, any lengths and ranges.  *)
(* IInv is inductive; it ties the offset in the file to the blocks that    *)
(* the reader has got, and says that a goroutine which is over, if nothing *)
(* was released or closed, has read to the end of a file that does not     *)
(* grow any more.                                                          *)
(*                                                                         *)
(* Of the handlers: what clients are told and what is kept, for any        *)
(* requests, hosts, bodies and bursts and any number of responses beside   *)
(* one download.  HIInv is inductive: to that of the pipe it adds what the *)
(* download knows of the body once its copy is over, what the headers say  *)
(* of the slice that the pipe delivers, and what a client that sees the    *)
(* end can conclude.                                                       *)
(***************************************************************************)
EXTENDS Handler, TLAPS

-----------------------------------------------------------------------------
(* The pipe.                                                                *)

\* The goroutine of r has begun and knows its slice.
Active(r) == pc[r] \in {"copy", "write", "wait"} \cup Ended

\* Where the slice begins.
From(r) == Higher(slice[r].Start, 0)

\* What a reader has got is what its goroutine has read, but for the block that it
\* is writing.
Delivered(r) ==
  /\ pc[r] \in {"copy", "wait"} => pos[r] = From(r) + got[r]
  /\ pc[r] = "write" => pos[r] = From(r) + got[r] + 1
  /\ pc[r] = "done" /\ pipe[r] \in {"open", "eof"} => pos[r] = From(r) + got[r]

\* It never reads past the end.
Within(r) == Active(r) => pos[r] <= EndOf(r)

\* Who follows wants all of a body; who does not has it complete; and the last
\* copy comes after the end of the download.
Follows(r) == Active(r) => /\ IF follows[r] THEN slice[r] = All ELSE channel /\ body = Stored
                           /\ pc[r] = "wait" => follows[r]
                           /\ last[r] => channel

\* What closes a pipe.
Closed(r) == /\ pipe[r] = "released" => released
             /\ pipe[r] = "eof" => pc[r] \notin {"copy", "write", "wait"}

\* A goroutine that could read its file to the end, with nothing released or closed,
\* has read everything.
ReadAll(r) == pc[r] = "done" /\ pipe[r] \in {"open", "eof"} /\ ~released
              => pos[r] = EndOf(r) /\ channel

Streams(r) == Delivered(r) /\ Within(r) /\ Follows(r) /\ Closed(r) /\ ReadAll(r)

IInv == TypeOK /\ \A r \in Readers : Streams(r)

USE SizesAssumption, AskedAssumption DEF Goto

-----------------------------------------------------------------------------
(* Slices and the file.                                                     *)

LEMMA Sized == ASSUME size \in Sizes
               PROVE  /\ size \in Int /\ size >= -1
                      /\ Stored \in Nat
                      /\ Stored = IF size >= 0 THEN size ELSE 0
  BY DEF Stored, Higher

\* pipeData: a part lies in the body, and is not turned round.
LEMMA ClampedSlice ==
  ASSUME size \in Sizes, NEW a \in Asked
  PROVE  LET s == Clamp(a, size) IN
         /\ s.Start \in Int /\ s.End \in Int
         /\ Higher(s.Start, 0) \in Nat /\ Higher(s.Start, 0) <= Stored
         /\ s.End >= 0 => /\ s.Start >= 0 /\ s.Start <= s.End /\ s.End <= Stored
         /\ s.End < 0 => s.Start = s.End /\ Stored = 0
         /\ LengthOf(s) >= 0
<1>1. a.Start \in Int /\ a.End \in Int
  OBVIOUS
<1> QED
  BY <1>1, Sized DEF Clamp, Higher, Lower, LengthOf

LEMMA AnySlice ==
  ASSUME size \in Sizes, NEW s \in Slices
  PROVE  /\ s.Start \in Int /\ s.End \in Int
         /\ Higher(s.Start, 0) \in Nat /\ Higher(s.Start, 0) <= Stored
         /\ s.End >= 0 => /\ s.Start >= 0 /\ s.Start <= s.End /\ s.End <= Stored
<1>1. CASE s = All
  BY <1>1, Sized DEF All, Higher
<1>2. ASSUME NEW a \in Asked, s = Clamp(a, size)
      PROVE  /\ s.Start \in Int /\ s.End \in Int
             /\ Higher(s.Start, 0) \in Nat /\ Higher(s.Start, 0) <= Stored
             /\ s.End >= 0 => /\ s.Start >= 0 /\ s.Start <= s.End /\ s.End <= Stored
  BY <1>2, ClampedSlice
<1> QED
  BY <1>1, <1>2 DEF Slices

\* What is known of a reader, and of its slice.
LEMMA Typed ==
  ASSUME IInv, NEW r \in Readers
  PROVE  /\ pc[r] \in Labels /\ pos[r] \in Nat /\ got[r] \in Nat /\ body \in Nat
         /\ pos[r] <= Stored /\ got[r] <= Stored /\ body <= Stored /\ Stored \in Nat
         /\ slice[r] \in Slices /\ slice[r].End \in Int
         /\ From(r) \in Nat /\ From(r) <= Stored
         /\ slice[r].End >= 0 => slice[r].Start >= 0 /\ From(r) <= slice[r].End
                                 /\ slice[r].End <= Stored
<1>1. size \in Sizes /\ slice[r] \in Slices
  BY DEF IInv, TypeOK
<1>2. Stored \in Nat
  BY <1>1, Sized
<1>3. /\ slice[r].Start \in Int /\ slice[r].End \in Int
      /\ From(r) \in Nat /\ From(r) <= Stored
      /\ slice[r].End >= 0 => slice[r].Start >= 0 /\ slice[r].Start <= slice[r].End
                              /\ slice[r].End <= Stored
  BY <1>1, AnySlice DEF From
<1>4. slice[r].End >= 0 => From(r) = slice[r].Start
  BY <1>3 DEF From, Higher
<1> QED
  BY <1>1, <1>2, <1>3, <1>4 DEF IInv, TypeOK

-----------------------------------------------------------------------------
(* A step of one reader leaves the others alone.                            *)

\* Nothing of r changes.
Same(r) == /\ pc'[r] = pc[r] /\ follows'[r] = follows[r] /\ last'[r] = last[r]
           /\ slice'[r] = slice[r] /\ pos'[r] = pos[r]
           /\ pipe'[r] = pipe[r] /\ got'[r] = got[r]

LEMMA SameKeeps ==
  ASSUME IInv, NEW r \in Readers, Same(r), UNCHANGED <<file, released>>
  PROVE  Streams(r)'
  BY DEF IInv, Same, file, Streams, Delivered, Within, Follows, Closed, ReadAll, Active, Ended,
         From, EndOf,
         Stored

\* The step is r's and changes neither file nor release.
Own(r) == /\ UNCHANGED <<file, released>>
          /\ \A q \in Readers \ {r} : Same(q)

LEMMA OthersKeep == ASSUME IInv, NEW r \in Readers, Own(r), Streams(r)'
                    PROVE  \A q \in Readers : Streams(q)'
<1> SUFFICES ASSUME NEW q \in Readers, q # r PROVE Streams(q)'
  OBVIOUS
<1> QED
  BY SameKeeps DEF Own

-----------------------------------------------------------------------------
(* The steps of file and release.                                           *)

LEMMA FileKeeps == ASSUME IInv, Append1 \/ CloseChannel \/ Release PROVE IInv'
<1> USE DEF IInv
<1>1. UNCHANGED <<readers, ends>> /\ size' = size /\ Stored' = Stored /\ Slices' = Slices
  BY DEF Append1, CloseChannel, Release, file, Stored, Slices
<1>2. TypeOK'
  <2>1. Stored \in Nat
    BY Sized DEF TypeOK
  <2>2. body' \in 0 .. Stored /\ channel' \in BOOLEAN /\ released' \in BOOLEAN
    <3>1. body \in 0 .. Stored /\ channel \in BOOLEAN /\ released \in BOOLEAN
      BY DEF TypeOK
    <3>2. CASE Append1
      BY <2>1, <3>1, <3>2 DEF Append1
    <3>3. CASE CloseChannel
      BY <3>1, <3>3 DEF CloseChannel
    <3>4. CASE Release
      BY <3>1, <3>4 DEF Release, file
    <3> QED
      BY <3>2, <3>3, <3>4
  <2> QED
    BY <1>1, <2>2 DEF TypeOK, readers, ends
<1>3. ASSUME NEW r \in Readers PROVE Streams(r)'
  <2>1. pos[r] \in Nat /\ body \in Nat /\ slice[r].End \in Int
    BY Typed
  <2>2. From(r)' = From(r) /\ Delivered(r)' /\ Closed(r)'
    BY <1>1 DEF readers, ends, From, Streams, Delivered, Closed, Append1, CloseChannel, Release
  <2>3. CASE Append1
    <3>1. body' = body + 1 /\ ~channel /\ channel' = channel /\ released' = released
      BY <2>3 DEF Append1
    <3>2. Active(r) => pos[r] <= EndOf(r)'
      BY <1>1, <2>1, <3>1 DEF Streams, Within, EndOf, Lower, readers
    <3> QED
      BY <1>1, <2>2, <3>1, <3>2 DEF Streams, Within, Follows, ReadAll, Active, Ended, readers, ends
  <2>4. CASE CloseChannel
    BY <1>1, <2>2, <2>4 DEF CloseChannel, Streams, Within, Follows, ReadAll, Active, Ended, EndOf,
                            readers, ends
  <2>5. CASE Release
    BY <1>1, <2>2, <2>5 DEF Release, file, Streams, Within, Follows, ReadAll, Active, Ended, EndOf,
                            readers, ends
  <2> QED
    BY <2>3, <2>4, <2>5
<1> QED
  BY <1>2, <1>3

-----------------------------------------------------------------------------
(* The steps of a reader: its own part, and the types.                      *)

LEMMA GetKeeps == ASSUME IInv, NEW r \in Readers, Get(r) \/ GetFails(r)
                  PROVE  TypeOK' /\ Own(r) /\ Streams(r)'
  BY DEF IInv, TypeOK, Labels, Get, GetFails, Own, Same, file, ends, Streams, Delivered, Within,
         Follows, Closed, ReadAll, Active, Ended, Stored, Slices

LEMMA PipesKeeps ==
  ASSUME IInv, NEW r \in Readers, NEW f \in BOOLEAN, NEW s \in Slices, Pipes(r, f, s),
         IF f THEN s = All ELSE channel /\ body = Stored
  PROVE  TypeOK' /\ Own(r) /\ Streams(r)'
<1>1. size \in Sizes /\ body \in Nat /\ Stored \in Nat /\ body <= Stored
  BY Sized DEF IInv, TypeOK
<1>2. /\ s.End \in Int
      /\ Higher(s.Start, 0) \in Nat /\ Higher(s.Start, 0) <= Stored
      /\ s.End >= 0 => s.Start >= 0 /\ s.Start <= s.End /\ s.End <= Stored /\ s.Start \in Int
  BY <1>1, AnySlice
<1>3. UNCHANGED <<file, released>> /\ Stored' = Stored /\ Slices' = Slices
  BY DEF Pipes, file, Stored, Slices
<1>4. /\ pc'[r] = "copy" /\ follows'[r] = f /\ last'[r] = FALSE /\ slice'[r] = s
      /\ pos'[r] = Higher(s.Start, 0) /\ pipe'[r] = "open" /\ got'[r] = 0
  BY DEF Pipes, IInv, TypeOK
<1>5. TypeOK'
  BY <1>1, <1>2, <1>3 DEF Pipes, IInv, TypeOK, Labels, file
<1>6. Own(r)
  BY <1>3 DEF Pipes, Own, Same, IInv, TypeOK
<1>7. Higher(s.Start, 0) <= EndOf(r)'
  <2>1. CASE f
    BY <1>1, <1>3, <1>4, <2>1 DEF All, EndOf, Higher, file
  <2>2. CASE ~f /\ s.End >= 0
    BY <1>1, <1>2, <1>3, <1>4, <2>2 DEF EndOf, Lower, Higher, file
  <2>3. CASE ~f /\ ~(s.End >= 0)
    BY <1>1, <1>2, <1>3, <1>4, <2>3 DEF EndOf, file
  <2> QED
    BY <2>1, <2>2, <2>3
<1>8. From(r)' = Higher(s.Start, 0)
  BY <1>4 DEF From
<1>9. Delivered(r)' /\ Within(r)'
  BY <1>2, <1>4, <1>7, <1>8 DEF Delivered, Within
<1>10. Follows(r)' /\ Closed(r)' /\ ReadAll(r)'
  BY <1>3, <1>4 DEF Follows, Closed, ReadAll, Active, Ended, file
<1> QED
  BY <1>5, <1>6, <1>9, <1>10 DEF Streams

LEMMA ReadBlockKeeps == ASSUME IInv, NEW r \in Readers, ReadBlock(r)
                        PROVE  TypeOK' /\ Own(r) /\ Streams(r)'
<1>1. /\ pos[r] \in Nat /\ got[r] \in Nat /\ body \in Nat /\ body <= Stored /\ Stored \in Nat
      /\ slice[r].End \in Int /\ From(r) \in Nat
  BY Typed
<1>2. /\ UNCHANGED <<file, released, ends>> /\ From(r)' = From(r) /\ EndOf(r)' = EndOf(r)
      /\ Stored' = Stored /\ Slices' = Slices
  BY DEF ReadBlock, file, From, EndOf, Stored, Slices
<1>3. pc[r] = "copy" /\ pos[r] < EndOf(r) /\ pc'[r] = "write" /\ pos'[r] = pos[r] + 1
  BY DEF ReadBlock, IInv, TypeOK
<1>4. EndOf(r) \in Nat /\ EndOf(r) <= body
  BY <1>1 DEF EndOf, Lower
<1>5. TypeOK'
  BY <1>1, <1>2, <1>3, <1>4 DEF ReadBlock, IInv, TypeOK, Labels, file, ends
<1>6. Own(r)
  BY <1>2 DEF ReadBlock, Own, Same, IInv, TypeOK, ends
<1>7. Delivered(r)' /\ Within(r)'
  BY <1>1, <1>2, <1>3, <1>4 DEF Delivered, Within, IInv, Streams, ends
<1>8. Follows(r)' /\ Closed(r)' /\ ReadAll(r)'
  BY <1>2, <1>3 DEF ReadBlock, Follows, Closed, ReadAll, Active, Ended, IInv, Streams, file, ends
<1> QED
  BY <1>5, <1>6, <1>7, <1>8 DEF Streams

LEMMA ReadEndKeeps == ASSUME IInv, NEW r \in Readers, ReadEnd(r)
                      PROVE  TypeOK' /\ Own(r) /\ Streams(r)'
<1>1. /\ pos[r] \in Nat /\ got[r] \in Nat /\ body \in Nat /\ slice[r].End \in Int
      /\ From(r) \in Nat
  BY Typed
<1>2. /\ UNCHANGED <<file, released, ends, follows, last, slice, pos>> /\ From(r)' = From(r)
      /\ EndOf(r)' = EndOf(r) /\ Stored' = Stored /\ Slices' = Slices
  BY DEF ReadEnd, file, From, EndOf, Stored, Slices
<1>3. /\ pc[r] = "copy" /\ pos[r] >= EndOf(r)
      /\ pc'[r] = IF follows[r] /\ ~last[r] THEN "wait" ELSE "done"
  BY DEF ReadEnd, IInv, TypeOK
<1>4. pos[r] = EndOf(r) /\ pos[r] = From(r) + got[r]
  <2>1. pos[r] <= EndOf(r) /\ EndOf(r) \in Int
    BY <1>1, <1>3 DEF IInv, Streams, Within, Active, Ended, EndOf, Lower
  <2> QED
    BY <1>1, <1>3, <2>1 DEF IInv, Streams, Delivered
<1>5. TypeOK'
  BY <1>2 DEF ReadEnd, IInv, TypeOK, Labels, file, ends
<1>6. Own(r)
  BY <1>2 DEF ReadEnd, Own, Same, IInv, TypeOK, ends
<1>7. Delivered(r)' /\ Within(r)' /\ Closed(r)'
  BY <1>1, <1>2, <1>3, <1>4 DEF Delivered, Within, Closed, IInv, Streams, ends
<1>8. Follows(r)' /\ ReadAll(r)'
  BY <1>2, <1>3, <1>4 DEF Follows, ReadAll, Active, Ended, IInv, Streams, file, ends
<1> QED
  BY <1>5, <1>6, <1>7, <1>8 DEF Streams

LEMMA DeliverKeeps == ASSUME IInv, NEW r \in Readers, Deliver(r)
                      PROVE  TypeOK' /\ Own(r) /\ Streams(r)'
<1>1. /\ pos[r] \in Nat /\ got[r] \in Nat /\ Stored \in Nat /\ pos[r] <= Stored /\ From(r) \in Nat
  BY Typed
<1>2. /\ UNCHANGED <<file, released, follows, last, slice, pos, watching, pipe, client>>
      /\ From(r)' = From(r) /\ EndOf(r)' = EndOf(r) /\ Stored' = Stored /\ Slices' = Slices
  BY DEF Deliver, file, From, EndOf, Stored, Slices
<1>3. /\ pc[r] = "write" /\ pipe[r] = "open" /\ pc'[r] = "copy" /\ got'[r] = got[r] + 1
      /\ pos[r] = From(r) + got[r] + 1
  BY DEF Deliver, IInv, TypeOK, Streams, Delivered
<1>4. TypeOK'
  BY <1>1, <1>2, <1>3 DEF Deliver, IInv, TypeOK, Labels, file
<1>5. Own(r)
  BY <1>2 DEF Deliver, Own, Same, IInv, TypeOK
<1>6. Delivered(r)' /\ Within(r)' /\ Closed(r)'
  BY <1>1, <1>2, <1>3 DEF Delivered, Within, Closed, Active, Ended, IInv, Streams
<1>7. Follows(r)' /\ ReadAll(r)'
  BY <1>2, <1>3 DEF Follows, ReadAll, Active, Ended, IInv, Streams, file
<1> QED
  BY <1>4, <1>5, <1>6, <1>7 DEF Streams

\* The steps that neither read nor deliver.
LEMMA RestKeeps ==
  ASSUME IInv, NEW r \in Readers,
         ReadFails(r) \/ WriteFails(r) \/ Waiting(r) \/ Shutting(r) \/ SeeEnd(r) \/ Close(r)
           \/ Over(r)
  PROVE  TypeOK' /\ Own(r) /\ Streams(r)'
<1>1. UNCHANGED <<file, released>> /\ Stored' = Stored /\ Slices' = Slices
  BY DEF ReadFails, WriteFails, Waiting, WaitClosed, WaitReleased, WaitTimer, Shutting,
         ShutReleased, ShutEnded, Shut, SeeEnd, Close, Over, file, Stored, Slices
<1>2. pos[r] \in Nat /\ got[r] \in Nat /\ Stored \in Nat
  BY Typed
<1> USE DEF IInv
<1>3. TypeOK'
  <2> USE DEF TypeOK, Labels, file
  <2>1. CASE ReadFails(r) \/ WriteFails(r) \/ Waiting(r)
    BY <1>1, <2>1 DEF ReadFails, WriteFails, Waiting, WaitClosed, WaitReleased, WaitTimer, ends
  <2>2. CASE Shutting(r)
    BY <1>1, <2>2 DEF Shutting, ShutReleased, ShutEnded, Shut, readers
  <2>3. CASE SeeEnd(r) \/ Close(r)
    BY <1>1, <2>3 DEF SeeEnd, Close, readers
  <2>4. CASE Over(r)
    <3>1. All \in Slices
      BY DEF Slices
    <3>2. UNCHANGED <<size, body, channel, released, watching, pipe, client>>
      BY <2>4 DEF Over
    <3>3. /\ pc' \in [Readers -> Labels] /\ follows' \in [Readers -> BOOLEAN]
          /\ last' \in [Readers -> BOOLEAN]
      BY <2>4 DEF Over
    <3>4. slice' \in [Readers -> Slices]
      BY <2>4, <3>1 DEF Over
    <3>5. pos' \in [Readers -> 0 .. Stored] /\ got' \in [Readers -> 0 .. Stored]
      BY <1>2, <2>4 DEF Over
    <3> QED
      BY <1>1, <3>2, <3>3, <3>4, <3>5
  <2> QED
    BY <2>1, <2>2, <2>3, <2>4
<1>4. Own(r)
  BY <1>1 DEF Own, Same, TypeOK, ReadFails, WriteFails, Waiting, WaitClosed, WaitReleased,
              WaitTimer, Shutting, ShutReleased, ShutEnded, Shut, SeeEnd, Close, Over, ends, readers
<1>5. Streams(r)'
  <2> USE DEF Streams, Delivered, Within, Follows, Closed, ReadAll, Active, Ended, From, EndOf,
             TypeOK, file
  <2>1. CASE WriteFails(r)
    BY <1>1, <2>1 DEF WriteFails, ends
  <2>2. CASE WaitClosed(r)
    BY <1>1, <2>2 DEF WaitClosed, ends
  <2>3. CASE WaitReleased(r)
    BY <1>1, <2>3 DEF WaitReleased, ends
  <2>4. CASE WaitTimer(r)
    BY <1>1, <2>4 DEF WaitTimer, ends
  <2>5. CASE ShutReleased(r)
    BY <1>1, <2>5 DEF ShutReleased, Shut, readers
  <2>6. CASE ShutEnded(r)
    BY <1>1, <2>6 DEF ShutEnded, Shut, readers
  <2>7. CASE SeeEnd(r)
    BY <1>1, <2>7 DEF SeeEnd, readers
  <2>8. CASE Close(r)
    BY <1>1, <2>8 DEF Close, readers
  <2>9. CASE Over(r)
    BY <1>1, <2>9 DEF Over
  <2>10. CASE ReadFails(r)
    BY <1>1, <2>10 DEF ReadFails, ends
  <2> QED
    BY <2>10, <2>1, <2>2, <2>3, <2>4, <2>5, <2>6, <2>7, <2>8, <2>9 DEF Waiting, Shutting
<1> QED
  BY <1>3, <1>4, <1>5

-----------------------------------------------------------------------------
LEMMA InitIInv == Init => IInv
<1> SUFFICES ASSUME Init PROVE IInv
  OBVIOUS
<1>1. Stored \in Nat /\ All \in Slices
  BY Sized DEF Init, Slices
<1>2. TypeOK
  <2>1. /\ pc \in [Readers -> Labels] /\ slice \in [Readers -> Slices]
        /\ pos \in [Readers -> 0 .. Stored] /\ got \in [Readers -> 0 .. Stored]
    <3>1. "idle" \in Labels /\ 0 \in 0 .. Stored
      BY <1>1 DEF Labels
    <3>2. pc \in [Readers -> Labels]
      BY <3>1 DEF Init
    <3>3. slice \in [Readers -> Slices]
      BY <1>1 DEF Init
    <3>4. pos \in [Readers -> 0 .. Stored] /\ got \in [Readers -> 0 .. Stored]
      BY <3>1 DEF Init
    <3> QED
      BY <3>2, <3>3, <3>4
  <2>2. body = 0 /\ channel = FALSE /\ released = FALSE /\ size \in Sizes
    BY DEF Init
  <2>3. body \in 0 .. Stored
    BY <1>1, <2>2
  <2> QED
    BY <2>1, <2>2, <2>3 DEF Init, TypeOK
<1>3. ASSUME NEW r \in Readers PROVE Streams(r)
  <2>1. pc[r] = "idle" /\ pipe[r] = "closed"
    BY DEF Init
  <2> QED
    BY <2>1 DEF Streams, Delivered, Within, Follows, Closed, ReadAll, Active, Ended
<1> QED
  BY <1>2, <1>3 DEF IInv

LEMMA NextIInv == IInv /\ [Next]_vars => IInv'
<1> SUFFICES ASSUME IInv, [Next]_vars PROVE IInv'
  OBVIOUS
<1>1. CASE Append1 \/ CloseChannel \/ Release
  BY <1>1, FileKeeps
<1>2. ASSUME NEW r \in Readers, TypeOK', Own(r), Streams(r)' PROVE IInv'
  BY <1>2, OthersKeep DEF IInv
<1>3. ASSUME NEW r \in Readers, Get(r) \/ GetFails(r) PROVE IInv'
  BY <1>2, <1>3, GetKeeps
<1>4. ASSUME NEW r \in Readers, PipeFollow(r) PROVE IInv'
  <2>1. All \in Slices
    BY DEF Slices
  <2> QED
    BY <1>2, <1>4, <2>1, PipesKeeps DEF PipeFollow
<1>5. ASSUME NEW r \in Readers, PipeHit(r) PROVE IInv'
  <2>1. PICK s \in Slices : Pipes(r, FALSE, s)
    BY <1>5 DEF PipeHit
  <2> QED
    BY <1>2, <1>5, <2>1, PipesKeeps DEF PipeHit
<1>6. ASSUME NEW r \in Readers, ReadBlock(r) PROVE IInv'
  BY <1>2, <1>6, ReadBlockKeeps
<1>7. ASSUME NEW r \in Readers, ReadEnd(r) PROVE IInv'
  BY <1>2, <1>7, ReadEndKeeps
<1>8. ASSUME NEW r \in Readers, Deliver(r) PROVE IInv'
  BY <1>2, <1>8, DeliverKeeps
<1>9. ASSUME NEW r \in Readers,
             ReadFails(r) \/ WriteFails(r) \/ Waiting(r) \/ Shutting(r) \/ SeeEnd(r)
               \/ Close(r) \/ Over(r)
      PROVE  IInv'
  BY <1>2, <1>9, RestKeeps
<1>10. CASE UNCHANGED vars
  BY <1>10 DEF vars, file, readers, ends, IInv, TypeOK, Streams, Delivered, Within, Follows, Closed,
               ReadAll, Active, Ended, From, EndOf, Stored, Slices
<1> QED
  BY <1>1, <1>3, <1>4, <1>5, <1>6, <1>7, <1>8, <1>9, <1>10
     DEF Next, StoreNext, Starting, Pumping, Consuming

-----------------------------------------------------------------------------
\* The invariant is inductive.
THEOREM Inductive == Spec => []IInv
  BY InitIInv, NextIInv, PTL DEF Spec

\* A pipe that ended with io.EOF before any release has delivered the slice, or all
\* that the download has ever written, which is over; or its file could not be read.
EndMeansAll ==
  \A r \in Readers : pipe[r] = "eof" /\ pc[r] \in Ended /\ ~released
                       => \/ pc[r] = "failed"
                          \/ got[r] = EndOf(r) - From(r) /\ channel

\* store.go 412-481: an end of a stream that is not an error is the end of all that
\* was asked for, whoever downloads, closes or purges; only a release, and an error
\* of the file, which the code logs and does not pass on, may end it early.
THEOREM EndsWhole == Spec => []EndMeansAll
<1>1. IInv => EndMeansAll
  <2> SUFFICES ASSUME IInv, NEW r \in Readers, pipe[r] = "eof", pc[r] = "done", ~released
               PROVE  got[r] = EndOf(r) - From(r) /\ channel
    BY DEF EndMeansAll, Ended
  <2>1. pos[r] = EndOf(r) /\ channel /\ pos[r] = From(r) + got[r]
    BY DEF IInv, Streams, ReadAll, Delivered
  <2> QED
    BY <2>1, Typed
<1> QED
  BY Inductive, <1>1, PTL

-----------------------------------------------------------------------------
(* The handlers.                                                            *)

\* The download: why its copy ended, and what that says of the body.
Downloaded ==
  /\ dpc = "idle" => body = 0
  /\ size >= 0 => sent <= size
  /\ dpc \in {"idle", "burst", "rest"} => derr = "none"
  /\ dpc \in {"settle", "over"} /\ derr = "none" => body = Stored
  /\ derr = "eof" => burst > body /\ body = Stored
  /\ derr = "cut" => body = sent /\ body < Stored
  /\ kept <=> (dpc = "over" /\ D!Sound)
  /\ channel => dpc \in {"settle", "over"}
  /\ dpc = "over" => channel

\* A request that has got past the checks.
Accepted(r) ==
  phase[r] \in {"store", "copy", "return"} =>
    /\ request[r].host \in Hosts
    /\ request[r].range # <<>> => request[r].range[1].clean

\* Nothing is said before the store has answered.
Blank(r) == phase[r] \in {"idle", "store"} => ~encoded[r] /\ view[r] = "none"

\* The headers, as long as the body is copied.
Announced(r) ==
  phase[r] = "copy" =>
    /\ Active(r)
    /\ \/ /\ status[r] = 200 /\ slice[r] = All
          /\ declared[r] = IF encoded[r] THEN -1 ELSE size
       \/ /\ status[r] = 206 /\ ~encoded[r] /\ ~follows[r]
          /\ declared[r] = LengthOf(slice[r]) /\ declared[r] >= 0

\* What there is for an answer in a file whose copy is complete.
Due(r) == IF status[r] = 206 THEN LengthOf(slice[r]) ELSE Stored

\* What the client has concluded, and that it stays right.
Viewed(r) ==
  /\ view[r] \in {"whole", "broken"} => phase[r] \in {"return", "over"}
  /\ view[r] = "whole" => \/ got[r] = Due(r)
                          \/ encoded[r] /\ (released \/ derr # "none" \/ pc[r] = "failed")
  /\ view[r] = "broken" /\ ~released => \/ channel /\ body < Stored
                                        \/ pc[r] = "failed"
                                        \/ encoded[r] /\ Stored < Config(r).UploadBurst

Answers(r) == Accepted(r) /\ Blank(r) /\ Announced(r) /\ Viewed(r)

HIInv == IInv /\ HandlerTypeOK /\ Downloaded /\ \A r \in Readers : Answers(r)

\* The variables of the handlers, without the pipe's.
AnswerTypes == /\ phase \in [Readers -> Phases]
               /\ request \in [Readers -> Requests]
               /\ status \in [Readers -> {0, 200, 206, 302, 400, 403, 405, 500, 502}]
               /\ declared \in [Readers -> -1 .. Stored]
               /\ encoded \in [Readers -> BOOLEAN]
               /\ view \in [Readers -> Views]

-----------------------------------------------------------------------------
(* Lengths.                                                                 *)

LEMMA TypeParts == HandlerTypeOK <=> TypeOK /\ AnswerTypes /\ D!TypeOK
  BY DEF HandlerTypeOK, AnswerTypes

LEMMA LongestIsNat == Longest \in Nat
<1>1. (CHOOSE n \in Sizes : \A k \in Sizes : k <= n) \in Sizes
  BY LongestAssumption
<1> QED
  BY <1>1 DEF Longest, Higher

\* The numbers of a download.
LEMMA Amounts ==
  ASSUME IInv, D!TypeOK
  PROVE  /\ size \in Int /\ size >= -1 /\ sent \in Nat /\ body \in Nat /\ burst \in Nat
         /\ body <= sent /\ body <= Stored /\ Stored \in Nat
         /\ Stored = IF size >= 0 THEN size ELSE 0
         /\ D!Limit = Stored
<1>1. size \in Sizes /\ body \in 0 .. Stored
  BY DEF IInv, TypeOK
<1>2. size \in Int /\ size >= -1 /\ Stored \in Nat /\ Stored = IF size >= 0 THEN size ELSE 0
  BY <1>1, Sized
<1>3. sent \in 0 .. Longest /\ burst \in Bursts /\ body \in 0 .. sent
  BY DEF D!TypeOK
<1>4. sent \in Nat /\ burst \in Nat /\ body \in Nat /\ body <= sent
  BY <1>3, LongestIsNat, DownloadAssumption
<1>5. D!Limit = Stored
  BY <1>2 DEF D!Limit
<1> QED
  BY <1>1, <1>2, <1>4, <1>5

-----------------------------------------------------------------------------
(* The steps of the download.                                               *)

LEMMA DownloadsKeeps ==
  ASSUME IInv, D!TypeOK, Downloaded, Downloads
  PROVE  D!TypeOK' /\ Downloaded'
<1>1. /\ body' = body + 1 /\ body < sent /\ body < Stored /\ dpc \in {"burst", "rest"} /\ ~channel
      /\ UNCHANGED <<dpc, size, sent, burst, derr, kept, channel>> /\ Stored' = Stored
  BY Amounts DEF Downloads, Append1, D!CopyBlock, D!Copies, D!Ends, Stored
<1>2. D!TypeOK'
  BY <1>1, Amounts DEF D!TypeOK
<1>3. Downloaded'
  BY <1>1, Amounts DEF Downloaded, D!Sound, D!OtherSize
<1> QED
  BY <1>2, <1>3

LEMMA TurnsKeep ==
  ASSUME IInv, D!TypeOK, Downloaded, DownloadTurns
  PROVE  D!TypeOK' /\ Downloaded' /\ (derr # "none" => derr' # "none")
<1>1. /\ size \in Int /\ size >= -1 /\ sent \in Nat /\ body \in Nat /\ burst \in Nat
      /\ body <= sent /\ body <= Stored /\ Stored \in Nat
      /\ Stored = IF size >= 0 THEN size ELSE 0
      /\ D!Limit = Stored
  BY Amounts
<1>2. UNCHANGED <<size, body, channel, burst>> /\ Stored' = Stored
  BY DEF DownloadTurns, vars, file, Stored, D!Reply, D!WriteFails, D!BurstDone, D!BurstEnds,
         D!RestEnds, D!Cancelled, D!CloseFails
<1> USE DEF Downloaded, D!Sound, D!OtherSize
<1>3. CASE D!Reply
  <2>1. /\ dpc = "idle" /\ dpc' \in {"burst", "rest"} /\ UNCHANGED <<derr, kept>>
        /\ sent' \in 0 .. Longest /\ (size >= 0 => sent' <= size)
    BY <1>3 DEF D!Reply
  <2>2. D!TypeOK'
    BY <1>1, <1>2, <2>1, LongestIsNat DEF D!TypeOK
  <2> QED
    BY <1>1, <1>2, <2>1, <2>2
<1>4. ASSUME D!Copies, UNCHANGED <<sent, kept>>, dpc' = "settle",
             \/ derr' \in {"disk", "cancelled"}
             \/ derr' = "none" /\ body = Stored
             \/ derr' = "eof" /\ body = Stored /\ burst > body
             \/ derr' = "cut" /\ body = sent /\ body < Stored
      PROVE  D!TypeOK' /\ Downloaded' /\ (derr # "none" => derr' # "none")
  <2>1. dpc \in {"burst", "rest"} /\ derr = "none" /\ ~kept /\ derr' \in D!Errors
    BY <1>4 DEF D!Copies, D!Errors
  <2>2. D!TypeOK'
    BY <1>2, <1>4, <2>1 DEF D!TypeOK
  <2> QED
    BY <1>1, <1>2, <1>4, <2>1, <2>2
<1>5. CASE D!WriteFails
  BY <1>4, <1>5 DEF D!WriteFails
<1>6. CASE D!Cancelled
  BY <1>4, <1>6 DEF D!Cancelled
<1>7. CASE D!BurstDone
  BY <1>1, <1>2, <1>7 DEF D!BurstDone, D!TypeOK
<1>8. CASE D!BurstEnds
  BY <1>1, <1>4, <1>8 DEF D!BurstEnds, D!BurstError, D!Ends, D!Cut, D!Copies
<1>9. CASE D!RestEnds
  BY <1>1, <1>4, <1>9 DEF D!RestEnds, D!Ends, D!Cut, D!Copies
<1>10. CASE D!CloseFails
  BY <1>1, <1>2, <1>10 DEF D!CloseFails, D!TypeOK, D!Errors
<1> QED
  BY <1>3, <1>5, <1>6, <1>7, <1>8, <1>9, <1>10 DEF DownloadTurns

LEMMA EndsKeeps ==
  ASSUME IInv, D!TypeOK, Downloaded, DownloadEnds \/ DownloadSettles
  PROVE  D!TypeOK' /\ Downloaded' /\ UNCHANGED <<size, body, derr, released>>
<1> USE DEF Downloaded, D!TypeOK, D!Sound, D!OtherSize
<1>1. CASE DownloadEnds
  <2>1. /\ dpc = "settle" /\ channel' = TRUE
        /\ UNCHANGED <<size, body, released, dpc, sent, burst, derr, kept>>
    BY <1>1 DEF DownloadEnds, CloseChannel, fill
  <2>2. Stored' = Stored
    BY <2>1 DEF Stored
  <2> QED
    BY <2>1, <2>2
<1>2. CASE DownloadSettles
  <2>1. /\ dpc = "settle" /\ dpc' = "over" /\ kept' = D!Sound /\ channel
        /\ UNCHANGED <<size, body, channel, released, sent, burst, derr>>
    BY <1>2 DEF DownloadSettles, D!Settle, vars, file
  <2>2. Stored' = Stored
    BY <2>1 DEF Stored
  <2>3. D!TypeOK'
    BY <2>1
  <2>4. Downloaded'
    BY <2>1, <2>2
  <2> QED
    BY <2>1, <2>3, <2>4
<1> QED
  BY <1>1, <1>2

\* What clients have concluded stays right whatever the download does.
LEMMA DownloadSpares ==
  ASSUME IInv, D!TypeOK, NEW r \in Readers, Answers(r),
         UNCHANGED <<size, released, readers, ends, phase, request, answer>>,
         body' = body \/ ~channel,
         channel => channel',
         derr # "none" => derr' # "none"
  PROVE  Answers(r)'
<1>1. Stored' = Stored
  BY DEF Stored
<1>2. Accepted(r)' /\ Blank(r)' /\ Announced(r)'
  BY <1>1 DEF Answers, Accepted, Blank, Announced, Active, Ended, readers, ends, answer
<1>3. Viewed(r)'
  BY <1>1 DEF Answers, Viewed, Due, Config, readers, ends, answer
<1> QED
  BY <1>2, <1>3 DEF Answers

LEMMA DownloadKeeps ==
  ASSUME HIInv, IInv', Downloads \/ DownloadTurns \/ DownloadEnds \/ DownloadSettles
  PROVE  HIInv'
<1>1. IInv /\ TypeOK /\ AnswerTypes /\ D!TypeOK /\ Downloaded /\ \A r \in Readers : Answers(r)
  BY TypeParts DEF HIInv
<1>2. UNCHANGED <<size, released, readers, ends, phase, request, answer>>
  BY DEF Downloads, DownloadTurns, DownloadEnds, DownloadSettles, Append1, CloseChannel, vars, file
<1>3. /\ D!TypeOK' /\ Downloaded'
      /\ body' = body \/ ~channel
      /\ channel => channel'
      /\ derr # "none" => derr' # "none"
  <2>1. CASE Downloads
    BY <1>1, <2>1, DownloadsKeeps DEF Downloads, Append1, D!CopyBlock
  <2>2. CASE DownloadTurns
    BY <1>1, <2>2, TurnsKeep DEF DownloadTurns, vars, file
  <2>3. CASE DownloadEnds \/ DownloadSettles
    <3>1. D!TypeOK' /\ Downloaded' /\ UNCHANGED <<body, derr>>
      BY <1>1, <2>3, EndsKeeps
    <3>2. channel => channel'
      BY <2>3 DEF DownloadEnds, CloseChannel, DownloadSettles, vars, file
    <3> QED
      BY <3>1, <3>2
  <2> QED
    BY <2>1, <2>2, <2>3
<1>4. \A r \in Readers : Answers(r)'
  BY <1>1, <1>2, <1>3, DownloadSpares
<1>5. AnswerTypes'
  <2>1. Stored' = Stored
    BY <1>2 DEF Stored
  <2> QED
    BY <1>1, <1>2, <2>1 DEF AnswerTypes, answer
<1>6. HandlerTypeOK'
  BY <1>3, <1>5 DEF HandlerTypeOK, AnswerTypes, IInv
<1> QED
  BY <1>3, <1>4, <1>6 DEF HIInv

-----------------------------------------------------------------------------
(* The steps of a handler, beside the others.                               *)

\* Nothing of q changes that its answer depends on.
Quiet(q) == /\ phase'[q] = phase[q] /\ request'[q] = request[q] /\ status'[q] = status[q]
            /\ declared'[q] = declared[q] /\ encoded'[q] = encoded[q] /\ view'[q] = view[q]
            /\ follows'[q] = follows[q] /\ slice'[q] = slice[q] /\ got'[q] = got[q]
            /\ Active(q) => Active(q)'
            /\ pc[q] = "failed" => pc'[q] = "failed"

LEMMA QuietKeeps ==
  ASSUME NEW q \in Readers, Answers(q), Quiet(q), UNCHANGED <<file, released, fill>>
  PROVE  Answers(q)'
<1>1. Stored' = Stored /\ UNCHANGED <<size, body, channel, released, derr>>
  BY DEF Stored, file, fill
<1>2. Accepted(q)' /\ Blank(q)' /\ Announced(q)'
  BY <1>1 DEF Quiet, Answers, Accepted, Blank, Announced
<1>3. Viewed(q)'
  BY <1>1 DEF Quiet, Answers, Viewed, Due, Config
<1> QED
  BY <1>2, <1>3 DEF Answers

\* The step is r's, of its handler and its goroutines.
Alone(r) == \A q \in Readers \ {r} :
              /\ Same(q)
              /\ phase'[q] = phase[q] /\ request'[q] = request[q] /\ status'[q] = status[q]
              /\ declared'[q] = declared[q] /\ encoded'[q] = encoded[q] /\ view'[q] = view[q]

LEMMA AloneKeeps ==
  ASSUME HIInv, IInv', NEW r \in Readers, UNCHANGED <<file, released, fill>>, Alone(r),
         AnswerTypes', Answers(r)'
  PROVE  HIInv'
<1>1. ASSUME NEW q \in Readers PROVE Answers(q)'
  <2>1. CASE q # r
    BY <2>1, QuietKeeps DEF HIInv, Alone, Same, Quiet, Active, Ended
  <2> QED
    BY <2>1
<1>2. Downloaded' /\ D!TypeOK'
  <2>1. UNCHANGED <<size, body, channel, dpc, sent, burst, derr, kept>> /\ Stored' = Stored
    BY DEF file, fill, Stored
  <2>2. Downloaded /\ D!TypeOK
    BY DEF HIInv, HandlerTypeOK
  <2>3. Downloaded'
    BY <2>1, <2>2 DEF Downloaded, D!Sound, D!OtherSize
  <2>4. D!TypeOK'
    BY <2>1, <2>2 DEF D!TypeOK
  <2> QED
    BY <2>3, <2>4
<1>3. HandlerTypeOK'
  BY <1>2 DEF HandlerTypeOK, AnswerTypes, IInv
<1> QED
  BY <1>1, <1>2, <1>3 DEF HIInv

\* What the invariant says of a reader.
LEMMA Known ==
  ASSUME HIInv, NEW r \in Readers
  PROVE  IInv /\ TypeOK /\ AnswerTypes /\ D!TypeOK /\ Downloaded /\ Answers(r) /\ Streams(r)
  BY TypeParts DEF HIInv, IInv

\* The steps of the pipe that a handler does not wait for.
LEMMA StreamingKeeps ==
  ASSUME HIInv, IInv', NEW r \in Readers, Streaming(r), UNCHANGED fill
  PROVE  HIInv'
<1>1. Own(r)
  BY Known, ReadBlockKeeps, ReadEndKeeps, RestKeeps DEF Streaming, Pumping
<1>2. /\ UNCHANGED <<phase, request, answer, follows, slice, got>>
      /\ Active(r) => Active(r)'
      /\ pc[r] = "failed" => pc'[r] = "failed"
  BY Known DEF Streaming, Pumping, Waiting, Shutting, ReadBlock, ReadEnd, ReadFails, WriteFails,
               WaitClosed, WaitReleased, WaitTimer, ShutReleased, ShutEnded, Shut, Active, Ended,
               ends, readers, TypeOK
<1>3. Answers(r)'
  BY <1>1, <1>2, Known, QuietKeeps DEF Quiet, Own, answer
<1>4. AnswerTypes'
  BY <1>1, <1>2, Known DEF AnswerTypes, Own, file, answer, Stored
<1>5. Alone(r)
  BY <1>1, <1>2 DEF Alone, Own, answer
<1> QED
  BY <1>1, <1>3, <1>4, <1>5, AloneKeeps DEF Own

-----------------------------------------------------------------------------
(* Every step of the handlers is one of the pipe.                           *)

LEMMA SliceFits ==
  ASSUME HIInv, NEW r \in Readers, phase[r] = "store"
  PROVE  /\ SliceOf(r) \in Slices
         /\ request[r].range = <<>> => SliceOf(r) = All
         /\ request[r].range # <<>> => /\ LengthOf(SliceOf(r)) \in Int
                                       /\ LengthOf(SliceOf(r)) >= 0
                                       /\ LengthOf(SliceOf(r)) <= Stored
<1>1. size \in Sizes /\ Stored \in Nat
  BY Known, Sized DEF TypeOK
<1>2. CASE request[r].range = <<>>
  BY <1>2 DEF SliceOf, Slices
<1>3. CASE request[r].range # <<>>
  <2>1. request[r] \in Requests /\ request[r].range[1].clean
    BY <1>3, Known DEF AnswerTypes, Answers, Accepted
  <2>2. Requested(request[r].range[1]) \in Asked
    BY <1>3, <2>1, RangeAssumption
  <2>3. SliceOf(r) = Clamp(Requested(request[r].range[1]), size)
    BY <1>3 DEF SliceOf
  <2>4. /\ SliceOf(r).Start \in Int /\ SliceOf(r).End \in Int
        /\ SliceOf(r).End >= 0 => SliceOf(r).Start >= 0 /\ SliceOf(r).Start <= SliceOf(r).End
                                  /\ SliceOf(r).End <= Stored
        /\ SliceOf(r).End < 0 => SliceOf(r).Start = SliceOf(r).End
    BY <1>1, <2>2, <2>3, ClampedSlice
  <2> QED
    BY <1>1, <1>3, <2>2, <2>3, <2>4 DEF Slices, LengthOf
<1> QED
  BY <1>2, <1>3

\* A HIT is of data whose download is over, and which has all of its body.
LEMMA HitIsComplete ==
  ASSUME HIInv, NEW r \in Readers, AnswerHit(r)
  PROVE  channel /\ body = Stored /\ PipeHit(r)
<1>1. channel /\ body = Stored
  BY Known DEF AnswerHit, Downloaded, D!Sound
<1> QED
  BY <1>1, SliceFits DEF AnswerHit, PipeHit

LEMMA StepsOfPipe == ASSUME HIInv, [HandlerNext]_hvars
                     PROVE  [Next]_vars
<1> USE DEF Next, StoreNext
<1>1. CASE Downloads \/ DownloadTurns \/ DownloadEnds \/ DownloadSettles
  BY <1>1 DEF Downloads, DownloadTurns, DownloadEnds, DownloadSettles
<1>2. CASE Release
  BY <1>2
<1>3. ASSUME NEW r \in Readers, Arrive(r) \/ ArriveGone(r) PROVE [Next]_vars
  BY <1>3 DEF Arrive, ArriveGone
<1>4. ASSUME NEW r \in Readers, AskStore(r) \/ StoreReleased(r) \/ StoreFails(r)
      PROVE  [Next]_vars
  BY <1>4 DEF AskStore, StoreReleased, StoreFails, Starting
<1>5. ASSUME NEW r \in Readers, AnswerFollow(r) PROVE [Next]_vars
  BY <1>5 DEF AnswerFollow, Starting
<1>6. ASSUME NEW r \in Readers, AnswerHit(r) PROVE [Next]_vars
  BY <1>6, HitIsComplete DEF Starting
<1>7. ASSUME NEW r \in Readers, CopyBlock(r) \/ ClientGone(r) \/ CopyEnds(r) \/ CloseResult(r)
      PROVE  [Next]_vars
  BY <1>7 DEF CopyBlock, ClientGone, CopyEnds, CloseResult, Consuming
<1>8. ASSUME NEW r \in Readers, Streaming(r) PROVE [Next]_vars
  BY <1>8 DEF Streaming
<1>9. ASSUME NEW r \in Readers, Done(r) PROVE [Next]_vars
  BY <1>9 DEF Done
<1>10. CASE UNCHANGED hvars
  BY <1>10 DEF hvars
<1> HIDE DEF Next, StoreNext
<1> QED
  BY <1>1, <1>2, <1>3, <1>4, <1>5, <1>6, <1>7, <1>8, <1>9, <1>10 DEF HandlerNext, Handling

-----------------------------------------------------------------------------
(* The steps of a handler that change its answer.                           *)

LEMMA ArriveKeeps ==
  ASSUME HIInv, IInv', NEW r \in Readers, Arrive(r) \/ ArriveGone(r), UNCHANGED fill
  PROVE  HIInv'
<1>1. UNCHANGED vars
  BY DEF Arrive, ArriveGone
<1>2. Alone(r) /\ UNCHANGED <<file, released, fill>>
  BY <1>1, Known DEF Arrive, ArriveGone, Alone, Same, AnswerTypes, vars, readers, ends
<1>3. Blank(r) /\ phase[r] = "idle" /\ Stored' = Stored
  BY <1>1, Known DEF Arrive, ArriveGone, Answers, vars, file, Stored
<1>4. CASE Arrive(r)
  <2>1. PICK q \in Requests :
          /\ request' = [request EXCEPT ![r] = q]
          /\ status' = [status EXCEPT ![r] = Refusal(q)]
          /\ phase' = [phase EXCEPT ![r] = IF Refusal(q) = 0 THEN "store" ELSE "over"]
          /\ UNCHANGED <<declared, encoded, view>>
    BY <1>4 DEF Arrive
  <2>2. Refusal(q) \in {0, 302, 400, 403, 405}
    BY DEF Refusal
  <2>3. AnswerTypes'
    BY <1>3, <2>1, <2>2, Known DEF AnswerTypes, Phases
  <2>4. Refusal(q) = 0 => q.host \in Hosts /\ (q.range # <<>> => q.range[1].clean)
    BY DEF Refusal
  <2>5. Answers(r)'
    <3>1. Accepted(r)'
      BY <2>1, <2>4, Known DEF AnswerTypes, Accepted
    <3>2. Blank(r)' /\ Announced(r)' /\ Viewed(r)'
      BY <1>3, <2>1, Known DEF AnswerTypes, Blank, Announced, Viewed
    <3> QED
      BY <3>1, <3>2 DEF Answers
  <2> QED
    BY <1>2, <2>3, <2>5, AloneKeeps
<1>5. CASE ArriveGone(r)
  <2>1. AnswerTypes'
    BY <1>3, <1>5, Known DEF ArriveGone, AnswerTypes, Phases, Views
  <2>2. phase'[r] = "over" /\ view'[r] = "gone"
    BY <1>5, Known DEF ArriveGone, AnswerTypes
  <2>3. Answers(r)'
    BY <2>2 DEF Answers, Accepted, Blank, Announced, Viewed
  <2> QED
    BY <1>2, <2>1, <2>3, AloneKeeps
<1> QED
  BY <1>4, <1>5

LEMMA AskKeeps ==
  ASSUME HIInv, IInv', NEW r \in Readers, AskStore(r) \/ StoreReleased(r) \/ StoreFails(r),
         UNCHANGED fill
  PROVE  HIInv'
<1>1. UNCHANGED vars \/ Get(r) \/ GetFails(r)
  BY DEF AskStore, StoreReleased, StoreFails
<1>2. Own(r) /\ UNCHANGED <<file, released, follows, slice, got>>
  <2>1. CASE UNCHANGED vars
    BY <2>1 DEF vars, file, readers, ends, Own, Same
  <2>2. CASE Get(r) \/ GetFails(r)
    BY <2>2, Known, GetKeeps DEF Get, GetFails, ends
  <2> QED
    BY <1>1, <2>1, <2>2
<1>3. Stored' = Stored
  BY <1>2 DEF Stored, file
<1>4. phase[r] = "store" /\ view[r] = "none" /\ ~encoded[r]
  BY Known DEF AskStore, StoreReleased, StoreFails, Answers, Blank
<1>5. UNCHANGED <<request, declared, encoded, view>>
  BY DEF AskStore, StoreReleased, StoreFails, Fail, answer
<1>6. \/ UNCHANGED <<phase, status>>
      \/ \E s \in {500, 502} : /\ status' = [status EXCEPT ![r] = s]
                               /\ phase' = [phase EXCEPT ![r] = "over"]
  BY DEF AskStore, StoreReleased, StoreFails, Fail, answer
<1>7. AnswerTypes'
  BY <1>3, <1>5, <1>6, Known DEF AnswerTypes, Phases
<1>8. Alone(r)
  BY <1>2, <1>5, <1>6, Known DEF Alone, Own, AnswerTypes
<1>9. phase'[r] \in {"store", "over"} /\ (phase'[r] = "store" => request'[r] = request[r])
  BY <1>4, <1>5, <1>6, Known DEF AnswerTypes
<1>10. Answers(r)'
  BY <1>4, <1>5, <1>9, Known DEF Answers, Accepted, Blank, Announced, Viewed
<1> QED
  BY <1>2, <1>7, <1>8, <1>10, AloneKeeps

LEMMA AnswerKeeps ==
  ASSUME HIInv, IInv', NEW r \in Readers, AnswerFollow(r) \/ AnswerHit(r), UNCHANGED fill
  PROVE  HIInv'
<1>1. PICK f \in BOOLEAN, s \in Slices :
        /\ Pipes(r, f, s)
        /\ \/ s = All /\ FullHeaders(r)
           \/ /\ ~f /\ PartHeaders(r) /\ s = SliceOf(r)
              /\ LengthOf(s) \in Int /\ LengthOf(s) >= 0 /\ LengthOf(s) <= Stored
        /\ IF f THEN s = All ELSE channel /\ body = Stored
  <2>1. CASE AnswerFollow(r)
    <3>1. All \in Slices
      BY DEF Slices
    <3> QED
      BY <2>1, <3>1 DEF AnswerFollow, PipeFollow
  <2>2. CASE AnswerHit(r)
    <3>1. phase[r] = "store" /\ Pipes(r, FALSE, SliceOf(r))
          /\ IF request[r].range = <<>> THEN FullHeaders(r) ELSE PartHeaders(r)
      BY <2>2 DEF AnswerHit
    <3> QED
      BY <2>2, <3>1, SliceFits, HitIsComplete
  <2> QED
    BY <2>1, <2>2
<1>2. Own(r) /\ follows'[r] = f /\ slice'[r] = s /\ pc'[r] = "copy"
  <2>1. Own(r)
    BY <1>1, Known, PipesKeeps
  <2> QED
    BY <1>1, <2>1, Known DEF Pipes, TypeOK
<1>3. /\ phase[r] = "store" /\ view[r] = "none" /\ ~encoded[r]
      /\ size \in Int /\ size >= -1 /\ Stored \in Nat /\ size <= Stored
      /\ Stored' = Stored /\ size' = size
  <2>1. phase[r] = "store" /\ view[r] = "none" /\ ~encoded[r]
    BY Known DEF AnswerFollow, AnswerHit, Answers, Blank
  <2>2. size \in Int /\ size >= -1 /\ Stored \in Nat /\ size <= Stored
    BY Known, Amounts
  <2>3. Stored' = Stored /\ size' = size
    BY <1>2 DEF Own, Stored, file
  <2> QED
    BY <2>1, <2>2, <2>3
<1>4. /\ UNCHANGED <<request, view>>
      /\ phase' = [phase EXCEPT ![r] = IF request[r].method = "HEAD" THEN "return" ELSE "copy"]
  BY DEF AnswerFollow, AnswerHit, Begin
<1>5. /\ status' \in [Readers -> {0, 200, 206, 302, 400, 403, 405, 500, 502}]
      /\ encoded' \in [Readers -> BOOLEAN] /\ declared' \in [Readers -> -1 .. Stored]
      /\ \A q \in Readers \ {r} : /\ status'[q] = status[q] /\ encoded'[q] = encoded[q]
                                  /\ declared'[q] = declared[q]
      /\ \/ /\ status'[r] = 200 /\ s = All
            /\ declared'[r] = IF encoded'[r] THEN -1 ELSE size
         \/ /\ status'[r] = 206 /\ ~encoded'[r] /\ ~f
            /\ declared'[r] = LengthOf(s) /\ declared'[r] >= 0
  <2>1. CASE s = All /\ FullHeaders(r)
    <3>1. /\ status' = [status EXCEPT ![r] = 200]
          /\ encoded' = [encoded EXCEPT ![r] = Encodes(r)]
          /\ declared' = [declared EXCEPT ![r] = IF Encodes(r) THEN -1 ELSE size]
      BY <2>1 DEF FullHeaders
    <3>2. Encodes(r) \in BOOLEAN /\ (IF Encodes(r) THEN -1 ELSE size) \in -1 .. Stored
      BY <1>3 DEF Encodes
    <3>3. encoded' \in [Readers -> BOOLEAN] /\ encoded'[r] = Encodes(r)
      BY <3>1, <3>2, Known DEF AnswerTypes
    <3>4. /\ declared' \in [Readers -> -1 .. Stored]
          /\ declared'[r] = IF Encodes(r) THEN -1 ELSE size
      BY <3>1, <3>2, Known DEF AnswerTypes
    <3> QED
      BY <2>1, <3>1, <3>3, <3>4, Known DEF AnswerTypes
  <2>2. CASE /\ ~f /\ PartHeaders(r)
             /\ LengthOf(s) \in Int /\ LengthOf(s) >= 0 /\ LengthOf(s) <= Stored /\ s = SliceOf(r)
    <3>1. /\ status' = [status EXCEPT ![r] = 206]
          /\ declared' = [declared EXCEPT ![r] = LengthOf(s)]
          /\ encoded' = encoded
      BY <2>2 DEF PartHeaders
    <3>2. LengthOf(s) \in -1 .. Stored
      BY <1>3, <2>2
    <3> QED
      BY <1>3, <2>2, <3>1, <3>2, Known DEF AnswerTypes
  <2> QED
    BY <1>1, <2>1, <2>2
<1>6. AnswerTypes'
  BY <1>3, <1>4, <1>5, Known DEF AnswerTypes, Phases
<1>7. Alone(r)
  BY <1>2, <1>4, <1>5, Known DEF Alone, Own, AnswerTypes
<1>8. phase'[r] \in {"return", "copy"} /\ request'[r] = request[r] /\ view'[r] = "none"
  BY <1>3, <1>4, Known DEF AnswerTypes
<1>9. Answers(r)'
  <2>1. Accepted(r)' /\ Blank(r)' /\ Viewed(r)'
    BY <1>3, <1>8, Known DEF Answers, Accepted, Blank, Viewed
  <2>2. Announced(r)'
    BY <1>2, <1>3, <1>5, <1>8 DEF Announced, Active, Ended
  <2> QED
    BY <2>1, <2>2 DEF Answers
<1> QED
  BY <1>2, <1>6, <1>7, <1>9, AloneKeeps DEF Own

LEMMA CopyKeeps ==
  ASSUME HIInv, IInv', NEW r \in Readers, CopyBlock(r) \/ ClientGone(r), UNCHANGED fill
  PROVE  HIInv'
<1>1. Deliver(r) /\ phase[r] = "copy" /\ UNCHANGED <<request, status, declared, encoded>>
  BY DEF CopyBlock, ClientGone, answer
<1>2. Own(r) /\ UNCHANGED <<follows, slice>> /\ pc'[r] = "copy"
  BY <1>1, Known, DeliverKeeps DEF Deliver, TypeOK
<1>3. Stored' = Stored /\ size' = size
  BY <1>2 DEF Own, Stored, file
<1>4. \/ UNCHANGED <<phase, view>>
      \/ /\ phase' = [phase EXCEPT ![r] = "return"]
         /\ view' = [view EXCEPT ![r] = "gone"]
  BY DEF CopyBlock, ClientGone, answer
<1>5. AnswerTypes'
  BY <1>1, <1>3, <1>4, Known DEF AnswerTypes, Phases, Views
<1>6. Alone(r)
  BY <1>1, <1>2, <1>4, Known DEF Alone, Own, AnswerTypes
<1>7. \/ phase'[r] = "copy" /\ view'[r] = view[r]
      \/ phase'[r] = "return" /\ view'[r] = "gone"
  BY <1>1, <1>4, Known DEF AnswerTypes
<1>8. view'[r] \notin {"whole", "broken"}
  BY <1>1, <1>7, Known DEF Answers, Viewed
<1>9. Answers(r)'
  <2>1. Accepted(r)' /\ Blank(r)' /\ Viewed(r)'
    BY <1>1, <1>7, <1>8, Known DEF Answers, Accepted, Blank, Viewed
  <2>2. Announced(r)'
    BY <1>1, <1>2, <1>3, <1>7, Known DEF Answers, Announced, Active
  <2> QED
    BY <2>1, <2>2 DEF Answers
<1> QED
  BY <1>2, <1>5, <1>6, <1>9, AloneKeeps DEF Own

LEMMA CloseKeeps ==
  ASSUME HIInv, IInv', NEW r \in Readers, CloseResult(r), UNCHANGED fill
  PROVE  HIInv'
<1>1. /\ Close(r) /\ phase[r] = "return" /\ phase' = [phase EXCEPT ![r] = "over"]
      /\ UNCHANGED <<request, status, declared, encoded, view>>
  BY DEF CloseResult, answer
<1>2. Own(r) /\ UNCHANGED <<pc, follows, slice, got>>
  BY <1>1, Known, RestKeeps DEF Close, readers
<1>3. Stored' = Stored /\ UNCHANGED <<size, body, channel, released, derr>>
  BY <1>2 DEF Own, Stored, file, fill
<1>4. AnswerTypes' /\ phase'[r] = "over"
  BY <1>1, <1>3, Known DEF AnswerTypes, Phases
<1>5. Alone(r)
  BY <1>1, <1>2, Known DEF Alone, Own, AnswerTypes
<1>6. Answers(r)'
  <2>1. Accepted(r)' /\ Blank(r)' /\ Announced(r)'
    BY <1>4 DEF Accepted, Blank, Announced
  <2>2. Viewed(r)'
    BY <1>1, <1>2, <1>3, <1>4, Known DEF Answers, Viewed, Due, Config
  <2> QED
    BY <2>1, <2>2 DEF Answers
<1> QED
  BY <1>2, <1>4, <1>5, <1>6, AloneKeeps DEF Own

LEMMA DoneKeeps ==
  ASSUME HIInv, IInv', NEW r \in Readers, Done(r), UNCHANGED fill
  PROVE  HIInv'
<1>1. Over(r) \/ UNCHANGED vars
  BY DEF Done
<1>2. Own(r)
  <2>1. CASE Over(r)
    BY <2>1, Known, RestKeeps
  <2>2. CASE UNCHANGED vars
    BY <2>2 DEF vars, file, readers, ends, Own, Same
  <2> QED
    BY <1>1, <2>1, <2>2
<1>3. Stored' = Stored /\ Stored \in Nat
  BY <1>2, Known, Amounts DEF Own, Stored, file
<1>4. (CHOOSE q \in Requests : TRUE) \in Requests
  BY SomeRequestAssumption
<1>5. AnswerTypes'
  <2>1. /\ phase' \in [Readers -> Phases] /\ request' \in [Readers -> Requests]
        /\ view' \in [Readers -> Views] /\ encoded' \in [Readers -> BOOLEAN]
    BY <1>4, Known DEF Done, AnswerTypes, Phases, Views
  <2>2. status' \in [Readers -> {0, 200, 206, 302, 400, 403, 405, 500, 502}]
    BY Known DEF Done, AnswerTypes
  <2>3. declared' \in [Readers -> -1 .. Stored]
    BY <1>3, Known DEF Done, AnswerTypes
  <2> QED
    BY <1>3, <2>1, <2>2, <2>3 DEF AnswerTypes
<1>6. Alone(r)
  BY <1>2, Known DEF Done, Alone, Own, AnswerTypes
<1>7. Answers(r)'
  <2>1. phase'[r] = "idle" /\ view'[r] = "none" /\ ~encoded'[r]
    BY Known DEF Done, AnswerTypes
  <2> QED
    BY <2>1 DEF Answers, Accepted, Blank, Announced, Viewed
<1> QED
  BY <1>2, <1>5, <1>6, <1>7, AloneKeeps DEF Own

-----------------------------------------------------------------------------
(* The end of a copy: what the client can conclude.                         *)

\* Without a release, of a file that can be read, the pipe has delivered the slice, as
\* far as there is a body, and the body does not grow any more.
LEMMA AtTheEnd ==
  ASSUME HIInv, NEW r \in Readers, phase[r] = "copy", pipe[r] \in {"eof", "released"}, ~released,
         pc[r] # "failed"
  PROVE  pipe[r] = "eof" /\ channel /\ got[r] = EndOf(r) - From(r)
<1>1. Active(r) /\ Streams(r)
  BY Known DEF Answers, Announced
<1>2. pipe[r] = "eof" /\ pc[r] = "done"
  BY <1>1 DEF Streams, Closed, Active, Ended
<1>3. pos[r] = EndOf(r) /\ channel /\ pos[r] = From(r) + got[r]
  BY <1>1, <1>2 DEF Streams, ReadAll, Delivered
<1> QED
  BY <1>2, <1>3, Known, Typed

\* All of the body: what is there is what was delivered.
LEMMA AllOfIt ==
  ASSUME HIInv, NEW r \in Readers, slice[r] = All
  PROVE  EndOf(r) = body /\ From(r) = 0
  BY DEF EndOf, From, All, Higher

\* A part of it: the body is complete, and the part as long as announced.
LEMMA PartOfIt ==
  ASSUME HIInv, NEW r \in Readers, phase[r] = "copy", ~follows[r]
  PROVE  /\ body = Stored
         /\ slice[r] # All => EndOf(r) - From(r) = LengthOf(slice[r])
<1>1. body = Stored
  BY Known DEF Answers, Announced, Streams, Follows
<1>2. size \in Sizes /\ slice[r] \in Slices
  BY Known DEF TypeOK
<1>3. ASSUME slice[r] # All PROVE EndOf(r) - From(r) = LengthOf(slice[r])
  <2>1. PICK a \in Asked : slice[r] = Clamp(a, size)
    BY <1>2, <1>3 DEF Slices
  <2>2. LET s == slice[r] IN
        /\ s.Start \in Int /\ s.End \in Int
        /\ Higher(s.Start, 0) \in Nat /\ Higher(s.Start, 0) <= Stored
        /\ s.End >= 0 => s.Start >= 0 /\ s.Start <= s.End /\ s.End <= Stored
        /\ s.End < 0 => s.Start = s.End /\ Stored = 0
    BY <1>2, <2>1, ClampedSlice
  <2>3. Stored \in Nat
    BY <1>2, Sized
  <2>4. CASE slice[r].End >= 0
    BY <1>1, <2>2, <2>3, <2>4 DEF EndOf, From, Lower, Higher, LengthOf
  <2>5. CASE slice[r].End < 0
    BY <1>1, <2>2, <2>3, <2>5 DEF EndOf, From, Lower, Higher, LengthOf
  <2> QED
    BY <2>2, <2>4, <2>5
<1> QED
  BY <1>1, <1>3

LEMMA VerdictIsRight ==
  ASSUME HIInv, NEW r \in Readers, phase[r] = "copy", pipe[r] \in {"eof", "released"}
  PROVE  LET v == Verdict(r, CopyRateOk(r)) IN
         /\ v \in {"whole", "broken"}
         /\ v = "whole" => \/ got[r] = Due(r)
                           \/ encoded[r] /\ (released \/ derr # "none" \/ pc[r] = "failed")
         /\ v = "broken" /\ ~released => \/ channel /\ body < Stored
                                         \/ pc[r] = "failed"
                                         \/ encoded[r] /\ Stored < Config(r).UploadBurst
<1> DEFINE v == Verdict(r, CopyRateOk(r))
<1>1. /\ size \in Int /\ size >= -1 /\ body \in Nat /\ Stored \in Nat /\ body <= Stored
      /\ got[r] \in Nat /\ got[r] <= Stored /\ declared[r] \in Int
      /\ Stored = IF size >= 0 THEN size ELSE 0
  BY Known, Amounts, Typed DEF AnswerTypes
<1>2. Config(r).UploadBurst \in Int
  BY HostAssumption, Known DEF Answers, Accepted, Config
<1>3. v \in {"whole", "broken"}
  BY DEF Verdict
<1>4. CASE /\ status[r] = 200 /\ slice[r] = All
           /\ declared[r] = IF encoded[r] THEN -1 ELSE size
  <2>1. Due(r) = Stored
    BY <1>4 DEF Due
  <2>2. ~released /\ pc[r] # "failed" => pipe[r] = "eof" /\ channel /\ got[r] = body
    BY <1>1, <1>4, AtTheEnd, AllOfIt
  <2>3. ~released /\ pc[r] # "failed" /\ derr = "none" => body = Stored
    BY <2>2, Known DEF Downloaded
  <2>4. CASE ~encoded[r] /\ size >= 0
    BY <1>1, <1>4, <2>1, <2>2, <2>4 DEF Verdict
  <2>5. CASE ~encoded[r] /\ size < 0
    BY <1>1, <1>4, <2>1, <2>5 DEF Verdict
  <2>6. CASE encoded[r]
    <3>1. v = "whole" <=> CopyRateOk(r)
      BY <1>4, <2>6 DEF Verdict
    <3>2. ASSUME v = "broken", ~released, pc[r] # "failed"
          PROVE  (channel /\ body < Stored) \/ Stored < Config(r).UploadBurst
      <4>1. got[r] < Config(r).UploadBurst
        BY <1>1, <1>2, <2>2, <3>1, <3>2 DEF CopyRateOk
      <4> QED
        BY <1>1, <1>2, <2>2, <3>2, <4>1
    <3> QED
      BY <1>3, <2>1, <2>2, <2>3, <2>6, <3>2
  <2> QED
    BY <1>1, <2>4, <2>5, <2>6
<1>5. CASE /\ status[r] = 206 /\ ~encoded[r] /\ ~follows[r]
           /\ declared[r] = LengthOf(slice[r]) /\ declared[r] >= 0
  <2>1. v = IF got[r] = LengthOf(slice[r]) THEN "whole" ELSE "broken"
    BY <1>5 DEF Verdict
  <2>2. ~released /\ pc[r] # "failed" => got[r] = LengthOf(slice[r])
    <3>1. slice[r] # All
      BY <1>5 DEF All, LengthOf
    <3> QED
      BY <1>5, <3>1, AtTheEnd, PartOfIt
  <2> QED
    BY <1>5, <2>1, <2>2 DEF Due
<1> QED
  BY <1>4, <1>5, Known DEF Answers, Announced

LEMMA CopyEndsKeeps ==
  ASSUME HIInv, IInv', NEW r \in Readers, CopyEnds(r), UNCHANGED fill
  PROVE  HIInv'
<1>1. /\ SeeEnd(r) /\ phase[r] = "copy" /\ phase' = [phase EXCEPT ![r] = "return"]
      /\ view' = [view EXCEPT ![r] = Verdict(r, CopyRateOk(r))]
      /\ UNCHANGED <<request, status, declared, encoded>>
      /\ pipe[r] \in {"eof", "released"}
  BY DEF CopyEnds, SeeEnd
<1>2. Own(r) /\ UNCHANGED <<pc, follows, slice, got>>
  BY <1>1, Known, RestKeeps DEF SeeEnd, readers
<1>3. Stored' = Stored /\ UNCHANGED <<size, body, channel, released, derr>>
  BY <1>2 DEF Own, Stored, file, fill
<1>4. Verdict(r, CopyRateOk(r)) \in {"whole", "broken"}
  BY DEF Verdict
<1>5. AnswerTypes' /\ phase'[r] = "return" /\ view'[r] = Verdict(r, CopyRateOk(r))
  <2>1. view' \in [Readers -> Views] /\ view'[r] = Verdict(r, CopyRateOk(r))
    BY <1>1, <1>4, Known DEF AnswerTypes, Views
  <2>2. phase' \in [Readers -> Phases] /\ phase'[r] = "return"
    BY <1>1, Known DEF AnswerTypes, Phases
  <2> QED
    BY <1>1, <1>3, <2>1, <2>2, Known DEF AnswerTypes
<1>6. Alone(r)
  BY <1>1, <1>2, Known DEF Alone, Own, AnswerTypes
<1>7. Answers(r)'
  <2>1. Accepted(r)' /\ Blank(r)' /\ Announced(r)'
    BY <1>1, <1>5, Known DEF Answers, Accepted, Blank, Announced
  <2>2. Viewed(r)'
    BY <1>1, <1>2, <1>3, <1>5, VerdictIsRight DEF Viewed, Due, Config
  <2> QED
    BY <2>1, <2>2 DEF Answers
<1> QED
  BY <1>2, <1>5, <1>6, <1>7, AloneKeeps DEF Own

-----------------------------------------------------------------------------
LEMMA InitHIInv == HandlerInit => HIInv
<1> SUFFICES ASSUME HandlerInit PROVE HIInv
  OBVIOUS
<1>1. IInv
  BY InitIInv DEF HandlerInit
<1>2. Init /\ size \in Int /\ Stored \in Nat
  BY Sized DEF HandlerInit, Init
<1>3. D!TypeOK
  <2>1. sent = 0 /\ body = 0 /\ sent \in 0 .. Longest /\ body \in 0 .. sent
    BY LongestIsNat DEF HandlerInit, D!Init
  <2> QED
    BY <2>1 DEF HandlerInit, D!Init, D!TypeOK, D!Errors
<1>4. dpc = "idle" /\ body = 0 /\ sent = 0 /\ derr = "none" /\ ~kept /\ ~channel
  BY <1>2 DEF HandlerInit, D!Init, Init
<1>5. Downloaded
  BY <1>4 DEF Downloaded
<1>6. AnswerTypes
  <2>1. (CHOOSE q \in Requests : TRUE) \in Requests
    BY SomeRequestAssumption
  <2>2. request \in [Readers -> Requests]
    BY <2>1 DEF HandlerInit
  <2>3. declared \in [Readers -> -1 .. Stored]
    BY <1>2 DEF HandlerInit
  <2> QED
    BY <2>2, <2>3 DEF HandlerInit, AnswerTypes, Phases, Views
<1>7. ASSUME NEW r \in Readers PROVE Answers(r)
  BY DEF HandlerInit, Answers, Accepted, Blank, Announced, Viewed
<1> QED
  BY <1>1, <1>3, <1>5, <1>6, <1>7, TypeParts DEF HIInv, IInv

LEMMA NextHIInv == HIInv /\ [HandlerNext]_hvars => HIInv'
<1> SUFFICES ASSUME HIInv, [HandlerNext]_hvars PROVE HIInv'
  OBVIOUS
<1>1. IInv'
  BY StepsOfPipe, NextIInv DEF HIInv
<1>2. CASE Downloads \/ DownloadTurns \/ DownloadEnds \/ DownloadSettles
  BY <1>1, <1>2, DownloadKeeps
<1>3. CASE Release /\ UNCHANGED <<phase, request, answer, fill>>
  <2>1. /\ UNCHANGED <<size, body, channel, readers, ends, phase, request, answer, fill>>
        /\ released' = TRUE /\ Stored' = Stored
    BY <1>3 DEF Release, file, Stored
  <2>2. Downloaded' /\ D!TypeOK' /\ AnswerTypes'
    BY <2>1, TypeParts DEF HIInv, Downloaded, D!Sound, D!OtherSize, D!TypeOK, AnswerTypes, answer,
                           fill
  <2>3. ASSUME NEW r \in Readers PROVE Answers(r)'
    BY <2>1, Known DEF Answers, Accepted, Blank, Announced, Viewed, Active, Ended, Due,
                       Config, readers, ends, answer, fill
  <2>4. HandlerTypeOK'
    BY <1>1, <2>2 DEF HandlerTypeOK, AnswerTypes, IInv
  <2> QED
    BY <1>1, <2>2, <2>3, <2>4 DEF HIInv
<1>4. ASSUME NEW r \in Readers, Handling(r), UNCHANGED fill PROVE HIInv'
  BY <1>1, <1>4, AskKeeps, AnswerKeeps, CopyKeeps, CopyEndsKeeps, CloseKeeps DEF Handling
<1>5. ASSUME NEW r \in Readers, Streaming(r), UNCHANGED fill PROVE HIInv'
  BY <1>1, <1>5, StreamingKeeps
<1>6. ASSUME NEW r \in Readers, Arrive(r) \/ ArriveGone(r) \/ Done(r), UNCHANGED fill PROVE HIInv'
  BY <1>1, <1>6, ArriveKeeps, DoneKeeps
<1>7. CASE UNCHANGED hvars
  <2>1. UNCHANGED <<size, body, channel, released, readers, ends, phase, request, answer, fill>>
    BY <1>7 DEF hvars, vars, file
  <2>2. Stored' = Stored
    BY <2>1 DEF Stored
  <2>3. Downloaded' /\ D!TypeOK' /\ AnswerTypes'
    BY <2>1, <2>2, TypeParts DEF HIInv, Downloaded, D!Sound, D!OtherSize, D!TypeOK, AnswerTypes,
                                 answer, fill
  <2>4. ASSUME NEW r \in Readers PROVE Answers(r)'
    BY <2>1, <2>2, Known DEF Answers, Accepted, Blank, Announced, Viewed, Active, Ended, Due,
                             Config, readers, ends, answer, fill
  <2>5. HandlerTypeOK'
    BY <1>1, <2>3 DEF HandlerTypeOK, AnswerTypes, IInv
  <2> QED
    BY <1>1, <2>3, <2>4, <2>5 DEF HIInv
<1> QED
  BY <1>2, <1>3, <1>4, <1>5, <1>6, <1>7 DEF HandlerNext

-----------------------------------------------------------------------------
\* The invariant is inductive.
THEOREM HandlerInductive == HandlerSpec => []HIInv
  BY InitHIInv, NextHIInv, PTL DEF HandlerSpec

\* Handlers and download do to the pipe, its file and the store what module Pipe says
\* they do: what is served as a HIT has all of its body, and its download is over.
THEOREM Uses == HandlerSpec => UsesThePipe
<1>1. HandlerInit => Init
  BY DEF HandlerInit
<1> QED
  BY <1>1, HandlerInductive, StepsOfPipe, PTL DEF HandlerSpec, UsesThePipe, Spec

\* store.go 613-667: what stays in content/ is as long as the origin announced, and
\* what came as announced stays, however the copy was divided.
THEOREM Keeps == HandlerSpec => []KeptExactly
<1>1. HIInv => KeptExactly
  <2> SUFFICES ASSUME HIInv PROVE KeptExactly
    OBVIOUS
  <2>1. /\ D!TypeOK /\ Downloaded /\ body \in Nat /\ sent \in Nat /\ size \in Int /\ burst \in Nat
        /\ body <= sent /\ Stored = IF size >= 0 THEN size ELSE 0
    BY Amounts DEF HIInv, HandlerTypeOK
  <2>2. D!KeptIsWhole
    BY <2>1 DEF D!KeptIsWhole, Downloaded, D!Sound, D!OtherSize
  <2>3. D!WholeIsKept
    BY <2>1 DEF D!WholeIsKept, Downloaded, D!Sound, D!OtherSize, D!TypeOK, D!Errors
  <2> QED
    BY <2>2, <2>3 DEF KeptExactly
<1> QED
  BY <1>1, HandlerInductive, PTL

\* handler.go 68-126: an answer that looks whole to its client has all that the
\* origin announced or, where it announced nothing, sent; with the exceptions that
\* WholeIsWhole names.
THEOREM TellsTheTruth == HandlerSpec => []WholeIsWhole
<1>1. HIInv => WholeIsWhole
  <2> SUFFICES ASSUME HIInv, NEW r \in Readers, view[r] = "whole"
               PROVE  \/ got[r] = Promised(r)
                      \/ encoded[r] /\ (released \/ derr # "none" \/ pc[r] = "failed")
                      \/ size < 0 /\ got[r] = 0
    BY DEF WholeIsWhole
  <2>1. \/ got[r] = Due(r)
        \/ encoded[r] /\ (released \/ derr # "none" \/ pc[r] = "failed")
    BY DEF HIInv, Answers, Viewed
  <2>2. /\ size \in Int /\ got[r] \in Nat /\ got[r] <= Stored
        /\ Stored = IF size >= 0 THEN size ELSE 0
    BY Known, Amounts, Typed
  <2>3. CASE size >= 0
    BY <2>1, <2>2, <2>3 DEF Due, Promised
  <2>4. CASE size < 0
    BY <2>1, <2>2, <2>4 DEF Due, Promised
  <2> QED
    BY <2>2, <2>3, <2>4
<1> QED
  BY <1>1, HandlerInductive, PTL

\* handler.go 68-126, ioutil.go: nothing but a download that broke off, a body file
\* that cannot be read, a release or a burst longer than an encoded body breaks an
\* answer.
THEOREM BreaksNothing == HandlerSpec => []NothingBreaksIt
<1>1. HIInv => NothingBreaksIt
  BY DEF HIInv, Answers, Viewed, NothingBreaksIt
<1> QED
  BY <1>1, HandlerInductive, PTL
=============================================================================
