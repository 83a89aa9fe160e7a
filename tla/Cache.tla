-------------------------------- MODULE Cache --------------------------------
(***************************************************************************)
(* What store/store.go promises its callers, whatever goes on inside: an   *)
(* entry per data path, which is being filled, sound or a failure, and     *)
(* answers that read one entry.  A failure goes, even if all of the body   *)
(* has arrived.  There are no locks, directories or goroutines here.       *)
(* Store implements this (Store!ImplementsCache) if paths differ in their  *)
(* key and neither the process dies nor a rename fails.                    *)
(***************************************************************************)
CONSTANTS Clients, Objs, Paths, None

VARIABLES entry,     \* entry[p]: the data served for p, or None
          sound,     \* sound[o]: all of o has arrived, and its download went well
          expired,   \* expired[o]: o is past its time
          purging,   \* purging[c]: the paths c's purge has still to go to
          hits,      \* hits[c]: the data of c's answer, if it is a HIT
          follows    \* follows[c]: that of an answer that follows a download

answers == <<hits, follows>>
cvars   == <<entry, sound, expired, purging, answers>>

Init == /\ entry = [p \in Paths |-> None]
        /\ sound = [o \in Objs |-> FALSE]
        /\ expired = [o \in Objs |-> FALSE]
        /\ purging = [c \in Clients |-> {}]
        /\ hits = [c \in Clients |-> None]
        /\ follows = [c \in Clients |-> None]

\* A path without an entry gets one: nobody has the data yet.
Fill(p, o) == /\ entry[p] = None
              /\ \A q \in Paths : entry[q] # o
              /\ \A c \in Clients : o \notin {hits[c], follows[c]}
              /\ entry' = [entry EXCEPT ![p] = o]
              /\ sound' = [sound EXCEPT ![o] = FALSE]
              /\ expired' = [expired EXCEPT ![o] = FALSE]
              /\ UNCHANGED <<purging, answers>>

Complete(o) == /\ sound' = [sound EXCEPT ![o] = TRUE]
               /\ UNCHANGED <<entry, expired, purging, answers>>

Expire(o) == /\ expired' = [expired EXCEPT ![o] = TRUE]
             /\ UNCHANGED <<entry, sound, purging, answers>>

\* Nobody asked for a purge: only what is expired or not sound goes.
Drop(p) == /\ entry[p] # None
           /\ expired[entry[p]] \/ ~sound[entry[p]]
           /\ entry' = [entry EXCEPT ![p] = None]
           /\ UNCHANGED <<sound, expired, purging, answers>>

\* A purge names its paths when it is called, leaves them behind one by one ...
BeginPurge(c, S) == /\ purging[c] = {}
                    /\ purging' = [purging EXCEPT ![c] = S]
                    /\ UNCHANGED <<entry, sound, expired, answers>>

Narrow(c, S) == /\ S \subseteq purging[c]
                /\ purging' = [purging EXCEPT ![c] = S]
                /\ UNCHANGED <<entry, sound, expired, answers>>

\* ... and drops what it finds there.
Purge(c, S) == /\ S \subseteq purging[c]
               /\ entry' = [p \in Paths |-> IF p \in S THEN None ELSE entry[p]]
               /\ UNCHANGED <<sound, expired, purging, answers>>

\* Only what is sound is a HIT, and only what is there now is served at all.
Hit(c, p) == /\ entry[p] # None /\ sound[entry[p]]
             /\ hits' = [hits EXCEPT ![c] = entry[p]]
             /\ UNCHANGED <<entry, sound, expired, purging, follows>>

Follow(c, p) == /\ entry[p] # None
                /\ follows' = [follows EXCEPT ![c] = entry[p]]
                /\ UNCHANGED <<entry, sound, expired, purging, hits>>

End(c) == /\ hits' = [hits EXCEPT ![c] = None]
          /\ follows' = [follows EXCEPT ![c] = None]
          /\ UNCHANGED <<entry, sound, expired, purging>>

Next == \/ \E p \in Paths : Drop(p) \/ \E o \in Objs : Fill(p, o)
        \/ \E o \in Objs : Complete(o) \/ Expire(o)
        \/ \E c \in Clients :
             \/ End(c)
             \/ \E p \in Paths : Hit(c, p) \/ Follow(c, p)
             \/ \E S \in SUBSET Paths : BeginPurge(c, S) \/ Narrow(c, S) \/ Purge(c, S)

Spec == Init /\ [][Next]_cvars
=============================================================================
