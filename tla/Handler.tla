------------------------------ MODULE Handler ------------------------------
(***************************************************************************)
(* cdn/handler.go and cdn/writer.go: a request is checked, the store is    *)
(* asked, the answer's headers are written and its body is copied from the *)
(* pipe of module Pipe to the client with ioutil.CopyRate.  A reader of    *)
(* Pipe is a request here: the handler is what reads the pipe.  The body   *)
(* is written by the download of module Download, whose goroutine closes   *)
(* the channel and then decides whether there is anything to HIT.          *)
(*                                                                         *)
(* net/http ends an answer when the handler returns: the client takes it   *)
(* for broken if it is shorter than its Content-Length; without one it     *)
(* can only tell by the encoding, whose writer is closed or not.           *)
(***************************************************************************)
EXTENDS Pipe

CONSTANTS Hosts,      \* the hosts of the configuration
          HostConfig, \* HostConfig[h]: HttpsRedirect, CompressionMaxSize, UploadBurst
          Requests,   \* the requests clients make
          Bursts,     \* HostConfig.DownloadBurst of the origin
          DiskFails   \* a write to the body file may fail

ASSUME HostAssumption ==
  HostConfig \in [Hosts -> [HttpsRedirect : BOOLEAN, CompressionMaxSize : Int,
                            UploadBurst : Int]]
ASSUME DownloadAssumption == Bursts \subseteq Nat /\ DiskFails \in BOOLEAN
ASSUME RequestAssumption ==
  \A q \in Requests : /\ q.valid \in BOOLEAN       \* an acceptable URL
                      /\ q.tls \in BOOLEAN
                      /\ q.method \in STRING /\ q.host \in STRING
                      /\ q.range = <<>> \/ q.range[1].clean \in BOOLEAN   \* its Range header
                      /\ q.encoding \in BOOLEAN    \* it accepts gzip or deflate
ASSUME SomeRequestAssumption == Requests # {}
ASSUME RangeAssumption ==
  \A q \in Requests : q.range # <<>> => (q.range[1].clean => Requested(q.range[1]) \in Asked)
ASSUME LongestAssumption == \E n \in Sizes : \A k \in Sizes : k <= n

VARIABLES phase,     \* phase[r]: what the handler of r is at
          request,   \* request[r]: the request r stands for
          status,    \* status[r]: the status of the answer, 0 before it
          declared,  \* declared[r]: Content-Length, or -1
          encoded,   \* encoded[r]: the body goes through an encoder
          view,      \* view[r]: what the client makes of the answer
          dpc,       \* where the download's goroutine is
          sent,      \* the blocks the origin sends
          burst,     \* the origin's DownloadBurst
          derr,      \* the download's copyErr
          kept       \* the data is in content/, its download settled

answer == <<status, declared, encoded, view>>
fill   == <<dpc, sent, burst, derr, kept>>
hvars  == <<vars, phase, request, answer, fill>>

Longest == Higher(0, CHOOSE n \in Sizes : \A k \in Sizes : k <= n)

D == INSTANCE Download WITH pc <- dpc, written <- body, err <- derr

Phases == {"idle", "store", "copy", "return", "over"}
Views  == {"none", "whole", "broken", "gone"}

HandlerTypeOK ==
  /\ TypeOK
  /\ phase \in [Readers -> Phases]
  /\ request \in [Readers -> Requests]
  /\ status \in [Readers -> {0, 200, 206, 302, 400, 403, 405, 500, 502}]
  /\ declared \in [Readers -> -1 .. Stored]
  /\ D!TypeOK
  /\ encoded \in [Readers -> BOOLEAN]
  /\ view \in [Readers -> Views]

HandlerInit == /\ Init
               /\ D!Init
               /\ phase = [r \in Readers |-> "idle"]
               /\ request = [r \in Readers |-> CHOOSE q \in Requests : TRUE]
               /\ status = [r \in Readers |-> 0]
               /\ declared = [r \in Readers |-> -1]
               /\ encoded = [r \in Readers |-> FALSE]
               /\ view = [r \in Readers |-> "none"]

Config(r) == HostConfig[request[r].host]

-----------------------------------------------------------------------------
(* Before the store is asked.                                               *)

\* _Writer.Prepare: the status it refuses a request with, or 0.
Refusal(q) == CASE ~q.valid                      -> 400
                [] q.method \notin {"GET", "HEAD"} -> 405
                [] q.host \notin Hosts           -> 403
                [] ~q.tls /\ HostConfig[q.host].HttpsRedirect -> 302
                [] q.range # <<>> /\ ~q.range[1].clean -> 400
                [] OTHER                         -> 0

\* A request arrives: checks of _Writer.Prepare in their order.
Arrive(r) ==
  /\ phase[r] = "idle" /\ pc[r] = "idle"
  /\ \E q \in Requests :
       LET refused == Refusal(q) IN
       /\ request' = [request EXCEPT ![r] = q]
       /\ status' = [status EXCEPT ![r] = refused]
       /\ phase' = [phase EXCEPT ![r] = IF refused = 0 THEN "store" ELSE "over"]
       /\ UNCHANGED <<vars, declared, encoded, view>>

\* The client is gone before its request is looked at: ctx.Err().
ArriveGone(r) == /\ phase[r] = "idle" /\ pc[r] = "idle"
                 /\ phase' = [phase EXCEPT ![r] = "over"]
                 /\ view' = [view EXCEPT ![r] = "gone"]
                 /\ UNCHANGED <<vars, request, status, declared, encoded>>

\* Store.Get at its beginning.
AskStore(r) == /\ phase[r] = "store" /\ Get(r)
               /\ UNCHANGED <<phase, request, answer>>

Fail(r, s) == /\ status' = [status EXCEPT ![r] = s]
              /\ phase' = [phase EXCEPT ![r] = "over"]
              /\ UNCHANGED <<request, declared, encoded, view>>

\* ErrStoreReleased.
StoreReleased(r) == /\ phase[r] = "store" /\ pc[r] = "idle" /\ released
                    /\ Fail(r, 500)
                    /\ UNCHANGED vars

\* RequestError, DynamicContentError, SizeExceededError; or any other error.
StoreFails(r) == /\ phase[r] = "store" /\ GetFails(r)
                 /\ \E s \in {502, 500} : Fail(r, s)

-----------------------------------------------------------------------------
(* The store has answered: the headers.                                     *)

\* What the request asks for of a complete body.
SliceOf(r) == IF request[r].range = <<>> THEN All
              ELSE Clamp(Requested(request[r].range[1]), size)

Encodes(r) == /\ Config(r).CompressionMaxSize > 0
              /\ size <= Config(r).CompressionMaxSize
              /\ request[r].encoding

\* Seeded fault: the length is never announced.
FullHeadersOpen(r) == /\ status' = [status EXCEPT ![r] = 200]
                      /\ encoded' = [encoded EXCEPT ![r] = Encodes(r)]
                      /\ declared' = [declared EXCEPT ![r] = -1]

\* An answer with all of the body; 200 stands for the status the origin gave, which
\* may be 404.  net/http drops the Content-Length "-1".
FullHeaders(r) == /\ status' = [status EXCEPT ![r] = 200]
                  /\ encoded' = [encoded EXCEPT ![r] = Encodes(r)]
                  /\ declared' = [declared EXCEPT ![r] = IF Encodes(r) THEN -1 ELSE size]

\* An answer with a part of it, which is never encoded.
PartHeaders(r) == /\ status' = [status EXCEPT ![r] = 206]
                  /\ declared' = [declared EXCEPT ![r] = LengthOf(SliceOf(r))]
                  /\ UNCHANGED encoded

\* Only a GET has a body; otherwise the pipe is closed unread.
Begin(r) == /\ phase' = [phase EXCEPT ![r] = IF request[r].method = "HEAD"
                                               THEN "return" ELSE "copy"]
            /\ UNCHANGED <<request, view>>

\* A download is registered until its goroutine has the locks, some time after
\* it has closed the channel.
Registered == dpc \notin {"idle", "over"}

\* MISS, EXPIRED, UPDATING: the range is left aside.
AnswerFollow(r) == /\ phase[r] = "store" /\ Registered /\ PipeFollow(r)
                   /\ FullHeaders(r)
                   /\ Begin(r)

\* Seeded fault: a range is served of data that is still being downloaded.
AnswerHitEarly(r) == /\ phase[r] = "store" /\ dpc # "idle"
                     /\ Pipes(r, FALSE, SliceOf(r))
                     /\ IF request[r].range = <<>> THEN FullHeaders(r) ELSE PartHeaders(r)
                     /\ Begin(r)

\* HIT: all of it or, if the request has a range, a part.
AnswerHit(r) == /\ phase[r] = "store" /\ dpc = "over" /\ kept
                /\ Pipes(r, FALSE, SliceOf(r))
                /\ IF request[r].range = <<>> THEN FullHeaders(r) ELSE PartHeaders(r)
                /\ Begin(r)

-----------------------------------------------------------------------------
(* CopyRate from the pipe to the client, and the end.                       *)

\* What the client sees at the end of an answer whose encoder was closed or not.
Verdict(r, closed) == IF declared[r] >= 0
                        THEN IF got[r] = declared[r] THEN "whole" ELSE "broken"
                        ELSE IF encoded[r] /\ ~closed THEN "broken" ELSE "whole"

CopyBlock(r) == /\ phase[r] = "copy" /\ Deliver(r)
                /\ UNCHANGED <<phase, request, answer>>

\* Writing a block to the client fails: it has gone away.
ClientGone(r) == /\ phase[r] = "copy" /\ Deliver(r)
                 /\ phase' = [phase EXCEPT ![r] = "return"]
                 /\ view' = [view EXCEPT ![r] = "gone"]
                 /\ UNCHANGED <<request, status, declared, encoded>>

\* CopyRate returns without error: not when the pipe ended with one, and not
\* when it ended within the burst, where io.CopyN reports io.EOF.
CopyRateOk(r) == pipe[r] = "eof" /\ got[r] >= Config(r).UploadBurst

\* The copy ends; the encoder is closed if there was no error.
CopyEnds(r) == /\ phase[r] = "copy" /\ SeeEnd(r)
               /\ phase' = [phase EXCEPT ![r] = "return"]
               /\ view' = [view EXCEPT ![r] = Verdict(r, CopyRateOk(r))]
               /\ UNCHANGED <<request, status, declared, encoded>>

\* The deferred getResult.Close.
CloseResult(r) == /\ phase[r] = "return" /\ Close(r)
                  /\ phase' = [phase EXCEPT ![r] = "over"]
                  /\ UNCHANGED <<request, answer>>

\* The goroutines of the request are gone: r stands for the next one.
Done(r) == /\ phase[r] = "over" /\ pc[r] \in Ended \cup {"idle"}
           /\ IF pc[r] \in Ended THEN Over(r) ELSE UNCHANGED vars
           /\ phase' = [phase EXCEPT ![r] = "idle"]
           /\ request' = [request EXCEPT ![r] = CHOOSE q \in Requests : TRUE]
           /\ status' = [status EXCEPT ![r] = 0]
           /\ declared' = [declared EXCEPT ![r] = -1]
           /\ encoded' = [encoded EXCEPT ![r] = FALSE]
           /\ view' = [view EXCEPT ![r] = "none"]

-----------------------------------------------------------------------------
(* The download beside it.                                                  *)

\* A block arrives; it is in the file when CopyRate has written it.
Downloads == /\ Append1 /\ D!CopyBlock
             /\ UNCHANGED <<phase, request, answer>>

\* The same goroutine where nobody else sees what it does: the body ends, or the
\* request does; a write fails, or the close.  Release cancels the request; so may
\* at any time the goroutine beside Client.Do which watches the caller: if it does
\* not run before Do has returned and the caller's client has gone, it finds both
\* its cases ready and may take the one that cancels.
DownloadTurns == /\ \/ D!Reply \/ D!WriteFails \/ D!BurstDone \/ D!BurstEnds \/ D!RestEnds
                    \/ D!Cancelled
                    \/ ~channel /\ D!CloseFails
                 /\ UNCHANGED <<vars, phase, request, answer>>

DownloadEnds == /\ dpc = "settle" /\ CloseChannel
                /\ UNCHANGED <<phase, request, answer, fill>>

DownloadSettles == /\ channel /\ D!Settle
                   /\ UNCHANGED <<vars, phase, request, answer>>

-----------------------------------------------------------------------------
Handling(r) == \/ AskStore(r) \/ StoreReleased(r) \/ StoreFails(r)
               \/ AnswerFollow(r) \/ AnswerHit(r)
               \/ CopyBlock(r) \/ ClientGone(r) \/ CopyEnds(r) \/ CloseResult(r)

Streaming(r) == /\ Pumping(r) \/ Waiting(r) \/ Shutting(r)
                /\ UNCHANGED <<phase, request, answer>>

HandlerNext ==
  \/ Downloads \/ DownloadTurns \/ DownloadEnds \/ DownloadSettles
  \/ Release /\ UNCHANGED <<phase, request, answer, fill>>
  \/ \E r \in Readers : /\ Arrive(r) \/ ArriveGone(r) \/ Handling(r) \/ Streaming(r) \/ Done(r)
                       /\ UNCHANGED fill

HandlerSpec == HandlerInit /\ [][HandlerNext]_hvars

\* The goroutines of pipeData run; clients, origin and Release owe nothing.
FairSpec == HandlerSpec /\ Fairness

-----------------------------------------------------------------------------
(* Properties.                                                              *)

\* What the answer to a GET promises: the slice, or all that the origin has announced
\* or, where it announces nothing, sends.
Promised(r) == IF status[r] = 206 THEN LengthOf(slice[r])
                                  ELSE IF size >= 0 THEN size ELSE sent

\* An answer that the client takes for whole is: that a download broke off is
\* seen by the client, although the pipe ends with io.EOF whatever became of it.
\* Excepted are encoded answers, which have no length, if the download failed, the
\* body file could not be read or the store was released; and the body of a 404
\* without a length, of which nothing is stored and every client gets an empty one.
WholeIsWhole ==
  \A r \in Readers : view[r] = "whole" =>
    \/ got[r] = Promised(r)
    \/ encoded[r] /\ (released \/ derr # "none" \/ pc[r] = "failed")
    \/ size < 0 /\ got[r] = 0

\* If the store is not released, a client that stays, a body file that can be read
\* and a body that arrives whole make an answer that arrives whole, unless it is
\* encoded and the body is shorter than the upload burst, which io.CopyN calls an
\* error.
NothingBreaksIt ==
  \A r \in Readers : view[r] = "broken" /\ ~released =>
    \/ body < Stored
    \/ pc[r] = "failed"
    \/ encoded[r] /\ Stored < Config(r).UploadBurst

\* Every step of handler and download is one that module Pipe knows of its
\* reader, its file and the store: what is a HIT has all of its body.
UsesThePipe == Spec

\* What is kept for later is exactly what is worth it, however the copy was divided,
\* wherever origin or disk failed and whoever read meanwhile: it has the length
\* that was announced, and what an origin has sent as announced and the disk has
\* taken is kept, if the burst is not longer than the body.
KeptExactly == D!KeptIsWhole /\ D!WholeIsKept

\* A client that reads on sees the end of its answer once the download is over.
FollowersSeeEnd ==
  (\A r \in Readers : WF_hvars((CopyBlock(r) \/ CopyEnds(r)) /\ UNCHANGED fill))
    => \A r \in Readers : channel /\ phase[r] = "copy" ~> phase[r] # "copy"

\* Every stream ends: after Release whatever its reader, the origin and the
\* download do, so that Release, which waits for it, returns; at the end of the
\* download if its reader has gone; and for a reader that reads on.
StreamsEnd == ReleaseEndsAll /\ GoneReadersEnd /\ FollowersSeeEnd
=============================================================================
