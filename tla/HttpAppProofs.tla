---------------------------- MODULE HttpAppProofs ----------------------------
(***************************************************************************)
(* The count of connections, their limit and the quiet after Stop, for any *)
(* finite set of connections and any limit, with h2c or without, whether   *)
(* Terminate may time out or not.  IInv is inductive: the limit holds      *)
(* because no connection is missing in connCount when the hook reads it    *)
(* again, and handlers are quiet because Shutdown lets go of no connection.*)
(***************************************************************************)
EXTENDS HttpApp, FiniteSetTheorems, TLAPS

LetIn == At("open") \cup At("hijacked")

\* A server that does not run has nothing.
Idle == server \in {"down", "failed"} =>
          \A k \in Conns : conn[k] = "none" /\ request[k] = "none"

\* The hook that runs is that of a new connection.
Hooked == \A k \in accepting : conn[k] = "new"

\* A connection is never missing in connCount: the limit may be reached too
\* early, never too late.
NeverForgotten == connCount >= Cardinality(Counted)

\* Requests are those of connections that are served, but for a server that has
\* been closed.
Carried == server \notin {"closed", "abandoned"} =>
             \A k \in Conns : request[k] # "none" => conn[k] \in {"open", "hijacked"}

\* After Shutdown there is none that it knows.
LetGo == server \in {"terminated", "stopped"} =>
           \A k \in Conns : conn[k] \notin {"new", "open"}

IInv == TypeOK /\ Idle /\ Hooked /\ NeverForgotten /\ NeverTooMany /\ Carried /\ LetGo

-----------------------------------------------------------------------------
(* The sets that are counted.                                               *)

LEMMA Finite == /\ IsFiniteSet(Counted) /\ Cardinality(Counted) \in Nat
                /\ IsFiniteSet(LetIn) /\ Cardinality(LetIn) \in Nat
                /\ IsFiniteSet(LetIn') /\ Cardinality(LetIn') \in Nat
                /\ IsFiniteSet(Counted') /\ Cardinality(Counted') \in Nat
<1>1. Counted \subseteq Conns /\ LetIn \subseteq Conns
  BY DEF Counted, LetIn, At
<1>2. Counted' \subseteq Conns /\ LetIn' \subseteq Conns
  BY DEF Counted, LetIn, At
<1> QED
  BY <1>1, <1>2, ConnsAssumption, FS_Subset, FS_CardinalityType

\* Who is let in is counted.
LEMMA LetInCounted == LetIn \subseteq Counted
  BY DEF LetIn, At, Counted

\* Steps that neither count nor discount anybody nor let anybody in.
Neutral == connCount' = connCount /\ Counted' = Counted /\ LetIn' \subseteq LetIn

\* A connection that changes between two states that are counted alike.
LEMMA Moves ==
  ASSUME TypeOK, NEW k \in Conns, NEW s \in States, Become(k, s), connCount' = connCount,
         \/ /\ conn[k] \in {"new", "refused", "open", "ended", "hijacked"}
            /\ s \in {"new", "refused", "open", "ended", "hijacked"}
            /\ s \in {"open", "hijacked"} => conn[k] \in {"open", "hijacked"}
         \/ conn[k] \in {"none", "backlog"} /\ s \in {"none", "backlog"}
  PROVE  Neutral
<1>1. \A x \in Conns : conn'[x] = IF x = k THEN s ELSE conn[x]
  BY DEF Become, TypeOK
<1>2. Counted' = Counted
  BY <1>1 DEF Counted
<1>3. LetIn' \subseteq LetIn
  BY <1>1 DEF LetIn, At
<1> QED
  BY <1>2, <1>3 DEF Neutral

\* What a step does to count and connections: it counts one that was not counted,
\* discounts one, lets in one that is counted and within the limit, is the end of
\* one that h2c has taken over, starts the process again, or does nothing to them.
Counts   == /\ connCount' = connCount + 1 /\ LetIn' \subseteq LetIn
            /\ \E k \in Conns \ Counted : Counted' = Counted \cup {k}
Discounts == /\ connCount' = connCount - 1 /\ LetIn' \subseteq LetIn
             /\ \E k \in Counted : Counted' = Counted \ {k}
LetsIn   == /\ connCount' = connCount /\ Counted' = Counted /\ LetIn' \subseteq Counted'
            /\ ~OverLimit
Loses    == /\ connCount' = connCount /\ LetIn' \subseteq LetIn
            /\ \E k \in Counted : /\ Counted' = Counted \ {k}
                                  /\ conn[k] = "hijacked" /\ conn'[k] = "none"
Restarts == server' = "down" /\ connCount' = 0 /\ Counted' = {} /\ LetIn' = {}

\* Every step is one of these.
LEMMA Balance == ASSUME IInv, [Next]_vars
                 PROVE  Neutral \/ Counts \/ Discounts \/ LetsIn \/ Loses \/ Restarts
<1> USE DEF IInv
<1>1. ASSUME UNCHANGED <<conn, connCount>> PROVE Neutral
  BY <1>1 DEF Neutral, Counted, LetIn, At
<1>2. CASE Start \/ StartFails \/ Stopping
  BY <1>1, <1>2 DEF Start, StartFails, Stopping, ShutdownDone, Stop, StopFailed
<1>3. CASE Shutdown
  <2>1. \A k \in Conns : conn'[k] = IF conn[k] = "backlog" THEN "none" ELSE conn[k]
    BY <1>3 DEF Shutdown
  <2> QED
    BY <1>3, <2>1 DEF Shutdown, Neutral, Counted, LetIn, At
<1>4. CASE ShutdownTimeout
  <2>1. \A k \in Conns : conn'[k] = IF conn[k] = "open" THEN "ended" ELSE conn[k]
    BY <1>4 DEF ShutdownTimeout
  <2> QED
    BY <1>4, <2>1 DEF ShutdownTimeout, Neutral, Counted, LetIn, At
<1>5. ASSUME NEW k \in Conns, Check(k) PROVE Neutral \/ LetsIn
  <2>1. conn[k] = "new"
    BY <1>5 DEF Check, Hooked
  <2>2. CASE OverLimit \/ server = "closed"
    BY <1>5, <2>1, <2>2, Moves DEF Check, States
  <2>3. CASE ~(OverLimit \/ server = "closed")
    <3>1. \A x \in Conns : conn'[x] = IF x = k THEN "open" ELSE conn[x]
      BY <1>5, <2>3 DEF Check, Become, TypeOK
    <3>2. Counted' = Counted
      BY <2>1, <3>1 DEF Counted
    <3>3. LetIn' \subseteq Counted'
      BY DEF LetIn, At, Counted
    <3> QED
      BY <1>5, <2>3, <3>2, <3>3 DEF Check, LetsIn
  <2> QED
    BY <2>2, <2>3
<1>6. ASSUME NEW k \in Conns, Refused(k) \/ CloseIdle(k) \/ HangUp(k) \/ Hijack(k) PROVE Neutral
  BY <1>6, Moves DEF Refused, CloseIdle, HangUp, Hijack, States
<1>7. ASSUME NEW k \in Conns, Closed(k) PROVE Discounts
  <2>1. \A x \in Conns : conn'[x] = IF x = k THEN "none" ELSE conn[x]
    BY <1>7 DEF Closed, Become, TypeOK
  <2>2. k \in Counted /\ Counted' = Counted \ {k}
    BY <1>7, <2>1 DEF Closed, Counted
  <2>3. LetIn' \subseteq LetIn
    BY <2>1 DEF LetIn, At
  <2> QED
    BY <1>7, <2>2, <2>3 DEF Closed, Discounts
<1>8. ASSUME NEW k \in Conns, Enter(k) \/ Read(k) PROVE Neutral
  BY <1>1, <1>8 DEF Enter, Read
<1>9. ASSUME NEW k \in Conns, Leave(k) PROVE Neutral
  <2>1. CASE conn[k] = "open" /\ server # "serving"
    BY <1>9, <2>1, Moves DEF Leave, After, States
  <2>2. CASE ~(conn[k] = "open" /\ server # "serving")
    <3>1. conn' = conn
      BY <1>9, <2>2 DEF Leave, After, Become, TypeOK
    <3> QED
      BY <1>1, <1>9, <3>1 DEF Leave
  <2> QED
    BY <2>1, <2>2
<1>10. ASSUME NEW k \in Conns, Dial(k) PROVE Neutral
  BY <1>10, Moves DEF Dial, States
<1>11. ASSUME NEW k \in Conns, Accept(k) PROVE Counts
  <2>1. \A x \in Conns : conn'[x] = IF x = k THEN "new" ELSE conn[x]
    BY <1>11 DEF Accept, Become, TypeOK
  <2>2. k \notin Counted /\ Counted' = Counted \cup {k}
    BY <1>11, <2>1 DEF Accept, Counted
  <2>3. LetIn' \subseteq LetIn
    BY <2>1 DEF LetIn, At
  <2> QED
    BY <1>11, <2>2, <2>3 DEF Accept, Counts
<1>12. ASSUME NEW k \in Conns, HijackedEnds(k) PROVE Loses
  <2>1. \A x \in Conns : conn'[x] = IF x = k THEN "none" ELSE conn[x]
    BY <1>12 DEF HijackedEnds, Become, TypeOK
  <2>2. k \in Counted /\ Counted' = Counted \ {k}
    BY <1>12, <2>1 DEF HijackedEnds, Counted
  <2>3. LetIn' \subseteq LetIn
    BY <2>1 DEF LetIn, At
  <2> QED
    BY <1>12, <2>1, <2>2, <2>3 DEF HijackedEnds, Loses
<1>13. ASSUME NEW k \in Conns, Fatal(k) PROVE Restarts
  BY <1>13 DEF Fatal, Restarts, Counted, LetIn, At
<1>14. CASE UNCHANGED vars
  BY <1>1, <1>14 DEF vars
<1> QED
  BY <1>2, <1>3, <1>4, <1>5, <1>6, <1>7, <1>8, <1>9, <1>10, <1>11, <1>12, <1>13, <1>14
     DEF Next, ConnStep

-----------------------------------------------------------------------------
(* The invariant.                                                           *)

\* The balance keeps the two that are about numbers, and the count a number.
LEMMA NumbersKept ==
  ASSUME IInv, Neutral \/ Counts \/ Discounts \/ LetsIn \/ Loses \/ Restarts
  PROVE  connCount' \in Nat /\ NeverForgotten' /\ NeverTooMany'
<1> USE DEF IInv, NeverForgotten
<1> HIDE DEF LetIn, Counted
<1>1. connCount \in Nat /\ Cardinality(Counted) \in Nat /\ IsFiniteSet(Counted)
  BY Finite DEF TypeOK
<1>2. ASSUME LetIn' \subseteq LetIn PROVE NeverTooMany'
  <2>1. Cardinality(LetIn') <= Cardinality(LetIn)
    BY <1>2, Finite, FS_Subset
  <2>2. MaxConns > 0 => Cardinality(LetIn) <= MaxConns
    BY DEF NeverTooMany, LetIn
  <2>3. MaxConns > 0 => Cardinality(LetIn') <= MaxConns
    BY <2>1, <2>2, Finite, LimitAssumption
  <2> QED
    BY <2>3 DEF NeverTooMany, LetIn
<1>3. CASE Neutral
  BY <1>1, <1>2, <1>3 DEF Neutral
<1>4. CASE Counts
  <2>1. Cardinality(Counted') = Cardinality(Counted) + 1
    BY <1>1, <1>4, FS_AddElement DEF Counts
  <2> QED
    BY <1>1, <1>2, <1>4, <2>1 DEF Counts
<1>5. CASE Discounts
  <2>1. PICK k \in Counted : Counted' = Counted \ {k}
    BY <1>5 DEF Discounts
  <2>2. Cardinality(Counted') = Cardinality(Counted) - 1 /\ Cardinality(Counted') \in Nat
    BY <1>1, <2>1, FS_RemoveElement, Finite
  <2> QED
    BY <1>1, <1>2, <1>5, <2>2 DEF Discounts
<1>6. CASE LetsIn
  <2>1. Cardinality(LetIn') <= Cardinality(Counted)
    BY <1>1, <1>6, FS_Subset DEF LetsIn
  <2>2. MaxConns > 0 => connCount <= MaxConns
    BY <1>1, <1>6, LimitAssumption DEF LetsIn, OverLimit
  <2>3. MaxConns > 0 => Cardinality(LetIn') <= MaxConns
    BY <1>1, <2>1, <2>2, Finite, LimitAssumption
  <2> QED
    BY <1>1, <1>6, <2>3 DEF LetsIn, NeverTooMany, LetIn
<1>7. CASE Loses
  <2>1. PICK k \in Counted : Counted' = Counted \ {k}
    BY <1>7 DEF Loses
  <2>2. Cardinality(Counted') = Cardinality(Counted) - 1 /\ Cardinality(Counted') \in Nat
    BY <1>1, <2>1, FS_RemoveElement, Finite
  <2> QED
    BY <1>1, <1>2, <1>7, <2>2 DEF Loses
<1>8. CASE Restarts
  <2>1. Cardinality(Counted') = 0
    BY <1>8, FS_EmptySet DEF Restarts
  <2> QED
    BY <1>2, <1>8, <2>1 DEF Restarts
<1> QED
  BY <1>3, <1>4, <1>5, <1>6, <1>7, <1>8

\* It holds at first.
LEMMA InitIInv == Init => IInv
<1> SUFFICES ASSUME Init PROVE IInv
  OBVIOUS
<1>1. Counted = {} /\ At("open") \cup At("hijacked") = {}
  BY DEF Init, Counted, At
<1>2. NeverForgotten /\ NeverTooMany
  BY <1>1, FS_EmptySet, LimitAssumption DEF Init, NeverForgotten, NeverTooMany
<1> QED
  BY <1>2 DEF Init, IInv, TypeOK, Phases, States, Idle, Hooked, Carried, LetGo

\* Every step keeps it.
LEMMA NextIInv == IInv /\ [Next]_vars => IInv'
<1> SUFFICES ASSUME IInv, [Next]_vars PROVE IInv'
  OBVIOUS
<1>1. connCount' \in Nat /\ NeverForgotten' /\ NeverTooMany'
  BY Balance, NumbersKept
<1>2. TypeOK' /\ Idle' /\ Hooked' /\ Carried' /\ LetGo'
  <2> USE <1>1 DEF IInv, TypeOK, Phases, States, Idle, Hooked, Carried, LetGo, Become
  <2>1. CASE Start
    BY <2>1 DEF Start
  <2>2. CASE StartFails
    BY <2>2 DEF StartFails
  <2>3. CASE Shutdown
    BY <2>3 DEF Shutdown
  <2>4. CASE ShutdownTimeout
    BY <2>4 DEF ShutdownTimeout
  <2>5. CASE ShutdownDone
    BY <2>5 DEF ShutdownDone, Tracked
  <2>6. CASE Stop
    BY <2>6 DEF Stop
  <2>7. CASE StopFailed
    BY <2>7 DEF StopFailed
  <2>8. ASSUME NEW k \in Conns, Check(k) PROVE TypeOK' /\ Idle' /\ Hooked' /\ Carried' /\ LetGo'
    <3>1. conn[k] = "new"
      BY <2>8 DEF Check
    <3> QED
      BY <2>8, <3>1 DEF Check
  <2>9. ASSUME NEW k \in Conns, Refused(k) PROVE TypeOK' /\ Idle' /\ Hooked' /\ Carried' /\ LetGo'
    BY <2>9 DEF Refused
  <2>10. ASSUME NEW k \in Conns, Closed(k) PROVE TypeOK' /\ Idle' /\ Hooked' /\ Carried' /\ LetGo'
    BY <2>10 DEF Closed
  <2>11. ASSUME NEW k \in Conns, Enter(k) PROVE TypeOK' /\ Idle' /\ Hooked' /\ Carried' /\ LetGo'
    BY <2>11 DEF Enter
  <2>12. ASSUME NEW k \in Conns, Leave(k) PROVE TypeOK' /\ Idle' /\ Hooked' /\ Carried' /\ LetGo'
    BY <2>12 DEF Leave, After
  <2>13. ASSUME NEW k \in Conns, CloseIdle(k)
         PROVE  TypeOK' /\ Idle' /\ Hooked' /\ Carried' /\ LetGo'
    BY <2>13 DEF CloseIdle
  <2>14. ASSUME NEW k \in Conns, Dial(k) PROVE TypeOK' /\ Idle' /\ Hooked' /\ Carried' /\ LetGo'
    BY <2>14 DEF Dial
  <2>15. ASSUME NEW k \in Conns, Accept(k) PROVE TypeOK' /\ Idle' /\ Hooked' /\ Carried' /\ LetGo'
    BY <2>15 DEF Accept
  <2>16. ASSUME NEW k \in Conns, HangUp(k) PROVE TypeOK' /\ Idle' /\ Hooked' /\ Carried' /\ LetGo'
    BY <2>16 DEF HangUp
  <2>17. ASSUME NEW k \in Conns, Hijack(k) PROVE TypeOK' /\ Idle' /\ Hooked' /\ Carried' /\ LetGo'
    BY <2>17 DEF Hijack
  <2>18. ASSUME NEW k \in Conns, HijackedEnds(k)
         PROVE TypeOK' /\ Idle' /\ Hooked' /\ Carried' /\ LetGo'
    BY <2>18 DEF HijackedEnds
  <2>19. ASSUME NEW k \in Conns, Read(k) PROVE TypeOK' /\ Idle' /\ Hooked' /\ Carried' /\ LetGo'
    BY <2>19 DEF Read
  <2>20. ASSUME NEW k \in Conns, Fatal(k) PROVE TypeOK' /\ Idle' /\ Hooked' /\ Carried' /\ LetGo'
    BY <2>20 DEF Fatal
  <2>21. CASE UNCHANGED vars
    BY <2>21 DEF vars
  <2> QED
    BY <2>1, <2>2, <2>3, <2>4, <2>5, <2>6, <2>7, <2>8, <2>9, <2>10, <2>11, <2>12, <2>13, <2>14,
       <2>15, <2>16, <2>17, <2>18, <2>19, <2>20, <2>21 DEF Next, ConnStep, Stopping
<1> QED
  BY <1>1, <1>2 DEF IInv

-----------------------------------------------------------------------------
\* The invariant is inductive.
THEOREM Inductive == Spec => []IInv
  BY InitIInv, NextIInv, PTL DEF Spec

\* httpapp.go 85: no more than MaxConns connections are let in, although the
\* count is read apart from being increased and connections end at any time.
THEOREM Limited == Spec => []NeverTooMany
<1>1. IInv => NeverTooMany
  BY DEF IInv
<1> QED
  BY Inductive, <1>1, PTL

\* httpapp.go 156-167: if Shutdown has had the time it needs, requests that are in a
\* handler or on their way to one are those of connections that h2c has taken over.
THEOREM Quieted == Spec => []StoppedIsQuiet
<1>1. IInv => StoppedIsQuiet
  BY DEF IInv, StoppedIsQuiet, Carried, LetGo
<1> QED
  BY Inductive, <1>1, PTL

\* httpapp.go 81-107: connCount and the connections there are part only when one
\* that h2c has taken over ends, and meet when the process starts again.
THEOREM Exact == Spec => CountIsExact
<1>1. ASSUME IInv, [Next]_vars
      PROVE  \/ connCount' - Cardinality(Counted') = connCount - Cardinality(Counted)
             \/ \E k \in Conns : conn[k] = "hijacked" /\ conn'[k] = "none"
             \/ server' = "down"
  <2>1. connCount \in Nat /\ connCount' \in Nat
    BY <1>1, NextIInv DEF IInv, TypeOK
  <2> HIDE DEF Counted
  <2>2. CASE Neutral
    BY <2>1, <2>2, Finite DEF Neutral
  <2>3. CASE Counts
    <3>1. Cardinality(Counted') = Cardinality(Counted) + 1
      BY <2>3, Finite, FS_AddElement DEF Counts
    <3> QED
      BY <2>1, <2>3, <3>1, Finite DEF Counts
  <2>4. CASE Discounts
    <3>1. Cardinality(Counted') = Cardinality(Counted) - 1
      BY <2>4, Finite, FS_RemoveElement DEF Discounts
    <3> QED
      BY <2>1, <2>4, <3>1, Finite DEF Discounts
  <2>5. CASE LetsIn
    BY <2>1, <2>5, Finite DEF LetsIn
  <2>6. CASE Loses
    BY <2>6 DEF Loses, Counted
  <2>7. CASE Restarts
    BY <2>7 DEF Restarts
  <2> QED
    BY <1>1, Balance, <2>2, <2>3, <2>4, <2>5, <2>6, <2>7
<1>2. IInv /\ [Next]_vars
        => [connCount' - Cardinality(Counted') # connCount - Cardinality(Counted)
              => \/ \E k \in Conns : conn[k] = "hijacked" /\ conn'[k] = "none"
                 \/ server' = "down"]_vars
  BY <1>1
<1> QED
  BY Inductive, <1>2, PTL DEF Spec, CountIsExact
=============================================================================
