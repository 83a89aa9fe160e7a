------------------------------- MODULE HttpApp -------------------------------
(***************************************************************************)
(* apps/httpapp.go: one server, its connections and its handlers, from     *)
(* Start to Stop.  net/http calls ConnState in the goroutine that accepts, *)
(* one connection after the other, and with StateClosed in the goroutine   *)
(* of a connection after it has closed it.  A connection that h2c takes    *)
(* over (StateHijacked) is never reported closed and Shutdown does not     *)
(* know it any more.  Handlers are one per connection here.                *)
(***************************************************************************)
EXTENDS Integers, FiniteSets

CONSTANTS Conns,      \* connections: an identity is used again once it is over
          MaxConns,   \* 0: no limit
          HandleH2C,  \* TLSConfig is nil and h2c is switched on
          Timeouts    \* the context of Terminate may end before the handlers

ASSUME ConnsAssumption == IsFiniteSet(Conns)
ASSUME LimitAssumption == /\ MaxConns \in Nat
                          /\ HandleH2C \in BOOLEAN
                          /\ Timeouts \in BOOLEAN

VARIABLES server,     \* what the App is at
          conn,       \* conn[k]: what connection k is at
          accepting,  \* the connection whose StateNew hook runs, as a set
          connCount,  \* HttpApp.connCount
          request,    \* request[k]: what the request on k is at
          wg          \* the requests HttpApp.wg counts

vars == <<server, conn, accepting, connCount, request, wg>>

Phases == {"down", "failed", "serving",
           "draining",     \* in Shutdown
           "terminated",   \* Shutdown has waited for its connections
           "closed",       \* it could not: Close
           "stopped",      \* Stop has returned after "terminated" or "failed"
           "abandoned"}    \* ... and after "closed"
States == {"none",      \* no connection
           "backlog",   \* the kernel has it
           "new",       \* in the StateNew hook
           "refused",   \* closed by the hook, its goroutine has not noticed
           "open",
           "ended",     \* closed, its StateClosed hook has not run
           "hijacked"}

TypeOK == /\ server \in Phases
          /\ conn \in [Conns -> States]
          /\ accepting \subseteq Conns
          /\ connCount \in Nat
          /\ request \in [Conns -> {"none", "read", "handler"}]
          /\ wg \subseteq Conns

Init == /\ server = "down"
        /\ conn = [k \in Conns |-> "none"]
        /\ accepting = {}
        /\ connCount = 0
        /\ request = [k \in Conns |-> "none"]
        /\ wg = {}

Become(k, state) == conn' = [conn EXCEPT ![k] = state]
At(state) == {k \in Conns : conn[k] = state}

-----------------------------------------------------------------------------
(* Start and Run.                                                           *)

Start == /\ server = "down"
         /\ server' = "serving"
         /\ UNCHANGED <<conn, accepting, connCount, request, wg>>

\* net.Listen fails: cancel.
StartFails == /\ server = "down"
              /\ server' = "failed"
              /\ UNCHANGED <<conn, accepting, connCount, request, wg>>

Dial(k) == /\ conn[k] = "none" /\ request[k] = "none"
           /\ server = "serving"
           /\ Become(k, "backlog")
           /\ UNCHANGED <<server, accepting, connCount, request, wg>>

\* StateNew: connCount is increased ...
Accept(k) == /\ server = "serving" /\ accepting = {} /\ conn[k] = "backlog"
             /\ Become(k, "new")
             /\ accepting' = {k}
             /\ connCount' = connCount + 1
             /\ UNCHANGED <<server, request, wg>>

\* Seeded fault: one connection too many.
OverLimitLoose == MaxConns > 0 /\ MaxConns + 1 < connCount

OverLimit == MaxConns > 0 /\ MaxConns < connCount

\* ... and then read again.  Close may have closed the connection meanwhile.
Check(k) == /\ accepting = {k}
            /\ accepting' = {}
            /\ Become(k, IF OverLimit \/ server = "closed" THEN "refused" ELSE "open")
            /\ UNCHANGED <<server, connCount, request, wg>>

\* Seeded fault: a refused connection is discounted at once and once more when
\* its goroutine sees that it is closed.
RefusedTwice(k) == /\ conn[k] = "refused"
                   /\ Become(k, "ended")
                   /\ connCount' = connCount - 1
                   /\ UNCHANGED <<server, accepting, request, wg>>

\* The goroutine of a refused connection finds it closed.
Refused(k) == /\ conn[k] = "refused"
              /\ Become(k, "ended")
              /\ UNCHANGED <<server, accepting, connCount, request, wg>>

\* The client hangs up, or the connection has been idle for too long.
HangUp(k) == /\ conn[k] = "open" /\ request[k] = "none"
             /\ Become(k, "ended")
             /\ UNCHANGED <<server, accepting, connCount, request, wg>>

\* StateClosed.
Closed(k) == /\ conn[k] = "ended" /\ request[k] = "none"
             /\ Become(k, "none")
             /\ connCount' = connCount - 1
             /\ UNCHANGED <<server, accepting, request, wg>>

\* h2c: the connection is HTTP/2 from here on.
Hijack(k) == /\ HandleH2C /\ conn[k] = "open" /\ request[k] = "none"
             /\ Become(k, "hijacked")
             /\ UNCHANGED <<server, accepting, connCount, request, wg>>

\* It ends: nobody is told.
HijackedEnds(k) == /\ conn[k] = "hijacked" /\ request[k] = "none"
                   /\ Become(k, "none")
                   /\ UNCHANGED <<server, accepting, connCount, request, wg>>

-----------------------------------------------------------------------------
(* httpHandler.                                                             *)

\* The goroutine of a connection has read a request.
Read(k) == /\ conn[k] \in {"open", "hijacked"} /\ request[k] = "none"
           /\ request' = [request EXCEPT ![k] = "read"]
           /\ UNCHANGED <<server, conn, accepting, connCount, wg>>

\* wg.Add.
Enter(k) == /\ request[k] = "read"
            /\ request' = [request EXCEPT ![k] = "handler"]
            /\ wg' = wg \cup {k}
            /\ UNCHANGED <<server, conn, accepting, connCount>>

\* What becomes of a connection after a response: with the server shutting down
\* it is closed, not kept alive.
After(k) == IF conn[k] = "open" /\ server # "serving" THEN "ended" ELSE conn[k]

\* Seeded fault: wg.Done is forgotten.
LeaveCounted(k) == /\ request[k] = "handler"
                   /\ request' = [request EXCEPT ![k] = "none"]
                   /\ Become(k, After(k))
                   /\ UNCHANGED <<server, accepting, connCount, wg>>

\* ServeHTTP returns; wg.Done.
Leave(k) == /\ request[k] = "handler"
            /\ request' = [request EXCEPT ![k] = "none"]
            /\ wg' = wg \ {k}
            /\ Become(k, After(k))
            /\ UNCHANGED <<server, accepting, connCount>>

\* It panics: recover ends the process, and it is started again.
Fatal(k) == /\ request[k] = "handler"
            /\ server' = "down"
            /\ conn' = [x \in Conns |-> "none"]
            /\ accepting' = {}
            /\ connCount' = 0
            /\ request' = [x \in Conns |-> "none"]
            /\ wg' = {}

-----------------------------------------------------------------------------
(* Terminate and Stop.                                                      *)

\* Shutdown closes the listener, with what is in the backlog.  The connection
\* being accepted is still served.
Shutdown == /\ server = "serving"
            /\ server' = "draining"
            /\ conn' = [k \in Conns |-> IF conn[k] = "backlog" THEN "none" ELSE conn[k]]
            /\ UNCHANGED <<accepting, connCount, request, wg>>

\* It closes connections without a request, again and again ...
CloseIdle(k) == /\ server = "draining"
                /\ conn[k] = "open" /\ request[k] = "none"
                /\ Become(k, "ended")
                /\ UNCHANGED <<server, accepting, connCount, request, wg>>

Tracked == {k \in Conns : conn[k] \in {"new", "refused", "open"}}

\* Seeded fault: Terminate closes the server instead of shutting it down.
ShutdownDoneAbrupt == /\ server = "draining"
                      /\ server' = "terminated"
                      /\ conn' = [k \in Conns |-> IF conn[k] = "open" THEN "ended" ELSE conn[k]]
                      /\ UNCHANGED <<accepting, connCount, request, wg>>

\* ... and returns when it tracks none.
ShutdownDone == /\ server = "draining" /\ Tracked = {}
                /\ server' = "terminated"
                /\ UNCHANGED <<conn, accepting, connCount, request, wg>>

\* Its context has ended: Close closes them all; their handlers go on.
ShutdownTimeout == /\ Timeouts /\ server = "draining"
                   /\ server' = "closed"
                   /\ conn' = [k \in Conns |-> IF conn[k] = "open" THEN "ended" ELSE conn[k]]
                   /\ UNCHANGED <<accepting, connCount, request, wg>>

\* wg.Wait returns.
Quiet == wg = {}

Stop == /\ server \in {"terminated", "closed"} /\ Quiet
        /\ server' = IF server = "terminated" THEN "stopped" ELSE "abandoned"
        /\ UNCHANGED <<conn, accepting, connCount, request, wg>>

\* Stop of a server that has not started.
StopFailed == /\ server = "failed"
              /\ server' = "stopped"
              /\ UNCHANGED <<conn, accepting, connCount, request, wg>>

-----------------------------------------------------------------------------
ConnStep(k) == Check(k) \/ Refused(k) \/ Closed(k) \/ Enter(k) \/ Leave(k)

Stopping == ShutdownDone \/ Stop \/ StopFailed

Next == \/ Start \/ StartFails \/ Shutdown \/ ShutdownTimeout \/ Stopping
        \/ \E k \in Conns : \/ ConnStep(k) \/ CloseIdle(k) \/ Dial(k) \/ Accept(k) \/ HangUp(k)
                            \/ Hijack(k) \/ HijackedEnds(k) \/ Read(k) \/ Fatal(k)

Spec == Init /\ [][Next]_vars

\* Goroutines run and handlers end: a stream ends with its download or with the
\* store's release (module Pipe), unless its reader stalls.
Fairness == WF_vars(Stopping) /\ \A k \in Conns : WF_vars(ConnStep(k)) /\ WF_vars(CloseIdle(k))

FairSpec == Spec /\ Fairness

-----------------------------------------------------------------------------
(* Properties.                                                              *)

\* Connections that StateNew has counted and StateClosed has not.
Counted == {k \in Conns : conn[k] \in {"new", "refused", "open", "ended", "hijacked"}}

\* connCount follows the connections there are: the two part only when one that
\* h2c has taken over ends, of which nobody tells it, and meet when the process
\* starts again.  One that is refused is counted until its goroutine has seen it.
CountIsExact ==
  [][connCount' - Cardinality(Counted') # connCount - Cardinality(Counted)
       => \/ \E k \in Conns : conn[k] = "hijacked" /\ conn'[k] = "none"
          \/ server' = "down"]_vars

\* No more than MaxConns connections are let in, although the count is read
\* apart from being increased and connections end at any time.
NeverTooMany == MaxConns > 0 => Cardinality(At("open") \cup At("hijacked")) <= MaxConns

\* If Shutdown has had the time it needs, no request is in a handler or on its
\* way to one from then on, but for the connections that h2c has taken over:
\* what the handlers use, the store, can be released.
StoppedIsQuiet ==
  server \in {"terminated", "stopped"} =>
    \A k \in Conns : conn[k] # "hijacked" => request[k] = "none"

\* Terminate returns, and then Stop, once handlers end, unless those that h2c has
\* taken over go on asking for ever; no timeout is needed.
StopReturns ==
  <>[](\A k \in Conns : conn[k] = "hijacked" => request[k] = "none")
    => (server = "draining" ~> server \in {"stopped", "abandoned", "down"})
=============================================================================
