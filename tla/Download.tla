------------------------------ MODULE Download ------------------------------
(***************************************************************************)
(* The goroutine of store.go startDownload: ioutil.CopyRate copies the     *)
(* body of the origin's answer to the body file, first a burst, then the   *)
(* rest, and what came of it decides whether the data is kept.  One        *)
(* download; sizes are in blocks of 1 KiB, the unit of the burst.  Module  *)
(* Handler adds who reads the file meanwhile, Store who finds it.          *)
(***************************************************************************)
EXTENDS Integers

CONSTANTS Sizes,    \* the lengths origins announce, -1 for none
          Longest,  \* blocks in the longest body an origin sends (a bound)
          Bursts,   \* HostConfig.DownloadBurst
          DiskFails \* a write to the body file may fail

VARIABLES pc,       \* where the goroutine is
          size,     \* Info.Size
          sent,     \* the blocks the origin sends before its body ends
          burst,    \* DownloadBurst
          written,  \* CopyRate's written
          err,      \* CopyRate's err
          kept      \* the data stays in content/ when the goroutine ends

vars == <<pc, size, sent, burst, written, err, kept>>

Errors == {"none", "eof", "cut", "cancelled", "disk"}

TypeOK == /\ pc \in {"idle", "burst", "rest", "settle", "over"}
          /\ size \in Sizes
          /\ sent \in 0 .. Longest
          /\ burst \in Bursts
          /\ written \in 0 .. sent
          /\ err \in Errors
          /\ kept \in BOOLEAN

Init == /\ pc = "idle"
        /\ size \in Sizes /\ sent = 0 /\ burst \in Bursts
        /\ written = 0
        /\ err = "none"
        /\ kept = FALSE

-----------------------------------------------------------------------------
(* The source: net/http gives the body of an answer with a length an error  *)
(* if it ends before that; io.LimitReader ends it at the length, and at     *)
(* once where none was announced.                                           *)

Limit == IF size > 0 THEN size ELSE 0

Ends == written >= sent \/ written >= Limit
Cut  == written < Limit

\* The answer's headers have come.
Reply == /\ pc = "idle"
         /\ sent' \in {n \in 0 .. Longest : size >= 0 => n <= size}
         /\ pc' = IF burst > 0 THEN "burst" ELSE "rest"
         /\ UNCHANGED <<size, burst, written, err, kept>>

Copies == \/ pc = "burst" /\ written < burst
          \/ pc = "rest"

CopyBlock == /\ Copies /\ ~Ends
             /\ written' = written + 1
             /\ UNCHANGED <<pc, size, sent, burst, err, kept>>

WriteFails == /\ Copies /\ ~Ends /\ DiskFails
              /\ err' = "disk"
              /\ pc' = "settle"
              /\ UNCHANGED <<size, sent, burst, written, kept>>

\* The request's context ends, and with it the body.
Cancelled == /\ Copies
             /\ err' = "cancelled"
             /\ pc' = "settle"
             /\ UNCHANGED <<size, sent, burst, written, kept>>

\* io.CopyN has its burst.
BurstDone == /\ pc = "burst" /\ written = burst
             /\ pc' = "rest"
             /\ UNCHANGED <<size, sent, burst, written, err, kept>>

\* io.CopyN says io.EOF of a source that ends within it.
BurstError == IF Cut THEN "cut" ELSE "eof"

BurstEnds == /\ pc = "burst" /\ written < burst /\ Ends
             /\ err' = BurstError
             /\ pc' = "settle"
             /\ UNCHANGED <<size, sent, burst, written, kept>>

\* io.Copy, through the leaky bucket or not, ends with its source.
RestEnds == /\ pc = "rest" /\ Ends
            /\ err' = IF Cut THEN "cut" ELSE "none"
            /\ pc' = "settle"
            /\ UNCHANGED <<size, sent, burst, written, kept>>

\* data.Close: the last sync of the body fails.
CloseFails == /\ pc = "settle" /\ DiskFails /\ err = "none"
              /\ err' = "disk"
              /\ UNCHANGED <<pc, size, sent, burst, written, kept>>

\* Another size than announced; looked at only if the copy had no error.
OtherSize == err = "none" /\ size >= 0 /\ written # size

\* Seeded fault: that the source ended is no error.
SoundDespiteEnd == err # "disk"

Sound == err = "none" /\ ~OtherSize

Settle == /\ pc = "settle"
          /\ kept' = Sound
          /\ pc' = "over"
          /\ UNCHANGED <<size, sent, burst, written, err>>

Next == \/ Reply \/ CopyBlock \/ WriteFails \/ Cancelled \/ BurstDone \/ BurstEnds
        \/ RestEnds \/ CloseFails \/ Settle

Spec == Init /\ [][Next]_vars

-----------------------------------------------------------------------------
(* Properties.                                                              *)

\* Data that is kept has the length the origin announced, however the copy was
\* divided and wherever origin or disk failed.
KeptIsWhole == kept /\ size >= 0 => written = size /\ sent = size

\* What an origin has sent as announced and the disk has taken is kept, if the
\* burst is not longer than the body: io.CopyN calls it an error if it is.
WholeIsKept ==
  pc = "over" /\ sent = size /\ burst <= size /\ err \notin {"cancelled", "disk"} => kept
=============================================================================
