------------------------------ MODULE MCStore ------------------------------
(* Instances of Store for TLC.                                              *)
EXTENDS Store, TLC

\* One path under host H1 and one under H2.
TwoHosts  == "P1" :> "H1" @@ "P2" :> "H2"
OneHost   == "P1" :> "H1"
OwnKeys   == "P1" :> "K1" @@ "P2" :> "K2"
OwnKey    == "P1" :> "K1"

NoWalk    == <<>>
\* A walk that gets as far as the first data directory.
WalkOne   == <<"H1", "P1">>

\* What the clients call.
Gets         == [c \in Clients |-> {"get"}]
GetsAndPurge == [c \in Clients |-> {"get", "purge"}]
GetterAnyPurge == "getter" :> {"get"} @@ "purger" :> {"purge", "purgehost", "purgeall"}
GetterPurgeAll == "getter" :> {"get"} @@ "purger" :> {"purgeall"}

\* Clients, and data directories, are interchangeable.
Symmetry == Permutations(Clients) \cup Permutations(Objs)
SymmetryObjs == Permutations(Objs)

\* States that differ in a dead value only are the same: the info, body and
\* expiry of data nobody can open any more, the presence in trash of data that
\* is in use, the err of a download that is not registered, and the locals a
\* call does not read any more.  The history before is left out.
Live(q, f, labels, v) == IF pc[q] \in labels THEN f[q] ELSE v
Those(S, f) == {o \in S : f[o]}
View == <<dir, hostDirs, {o \in Objs : o \in trash /\ ~InUse(o)},
          Those(Present, readable), Those(Present, expired),
          {o \in (Present \cup {opened[c] : c \in Clients}) \ {None} : Sound(o)},
          Those({o \in Objs : pc[o] # "idle" /\ (found[o] = o \/ downloads[Key(o)] = o)}, failed),
          downloads, locks, pc, path,
          [q \in Procs |-> Live(q, found, {"exists", "finish"}, None)], op, res,
          [c \in Clients |-> Live(c, existed, {"request", "mkdir", "create", "info", "register",
                                               "open"}, FALSE)],
          opened, await, todo, at,
          {h \in seen : \E i \in DOMAIN Walk : i >= at /\ Walk[i] = h}>>
=============================================================================
