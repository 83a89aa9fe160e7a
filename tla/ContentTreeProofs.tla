--------------------------- MODULE ContentTreeProofs ---------------------------
(***************************************************************************)
(* The cleaner, which goes about the tree without a lock, takes nothing    *)
(* from under a Create and removes no fresh data, for any number of data   *)
(* directories, any depth of the tree and any crashes.  What makes it so   *)
(* is that the tree is closed: what is above a directory that exists       *)
(* exists, so that a directory above data is never empty; and that what    *)
(* the cleaner has found expired is so, or gone with its host, as long as  *)
(* it holds the lock of the data.                                          *)
(***************************************************************************)
EXTENDS ContentTree, WellFoundedInduction, TLAPS

\* What is above a directory that exists exists.
Closed == \A d \in Data : \A j \in DOMAIN Path[d] :
            Path[d][j] \in tree => \A i \in 1 .. j : Path[d][i] \in tree

\* The types of the disk: data is written or cut short, not both.
Disk == /\ tree \subseteq Nodes
        /\ ready \subseteq tree \cap Data
        /\ expired \subseteq ready
        /\ broken \subseteq (tree \cap Data) \ ready

\* A Get that makes its directories is alone with what it makes.
Makers == /\ phase \in [Data -> {"idle", "up", "down", "files"}]
          /\ \A d \in Data : /\ depth[d] \in 1 .. Len(Path[d])
                             /\ phase[d] # "idle" => d \notin ready /\ d \notin broken
                             /\ phase[d] = "files" => d \in tree
          /\ loading \subseteq Data
          /\ \A d \in loading : d \notin broken

\* The types of the rest.
Walk == /\ at \in 0 .. Len(Order)
        /\ step \in {"visit", "open", "trash", "list"}
        /\ listed \subseteq Nodes
        /\ crashes \in 0 .. Crashes

\* What the cleaner knows of the data whose lock it has.
Held == at # 0 =>
  /\ step \in {"open", "trash"} /\ Here \in Data => phase[Here] = "idle"
  /\ step = "trash" => Here \in Data /\ (Here \in tree => Here \in expired)

\* The inductive invariant.
IInv == Closed /\ Disk /\ Makers /\ Walk /\ Held

\* What Lose needs to keep the rest: nothing that leads to what stays is lost.
Loses(S) == /\ tree' = tree \ S /\ ready' = ready \ S /\ expired' = expired \ S
            /\ \A d \in Data : \A j \in DOMAIN Path[d] : \A i \in 1 .. j :
                 Path[d][i] \in S => Path[d][j] \in S \/ Path[d][j] \notin tree

-----------------------------------------------------------------------------
(* The tree.                                                                *)

\* A set of numbers has a least element.
LEMMA Minimum == ASSUME NEW S \in SUBSET Nat, S # {}
                 PROVE  \E m \in S : \A n \in S : m <= n
<1> DEFINE Less == OpToRel(<, Nat)
<1>1. \E m \in S : \A n \in S : ~ (<<n, m>> \in Less)
  BY NatLessThanWellFounded, WFMin, Zenon
<1>2. \A m, n \in Nat : n < m => <<n, m>> \in Less
  BY DEF OpToRel
<1> HIDE DEF Less
<1>3. PICK m \in S : \A n \in S : ~ (<<n, m>> \in Less)
  BY <1>1
<1>4. \A n \in S : ~ (n < m)
  BY <1>2, <1>3
<1>5. \A n \in S : m <= n
  BY <1>4
<1> QED
  BY <1>5

\* Every step of a path is a node, and its last one the data.
LEMMA PathFacts == ASSUME NEW d \in Data
                   PROVE  /\ Len(Path[d]) \in Nat /\ Len(Path[d]) > 0
                          /\ DOMAIN Path[d] = 1 .. Len(Path[d])
                          /\ Path[d][Len(Path[d])] = d
                          /\ \A i \in DOMAIN Path[d] : Path[d][i] \in Nodes
                          /\ Host(d) = Path[d][1]
                          /\ d \in Nodes
<1>1. Path[d] \in Seq(Nodes) /\ Len(Path[d]) > 0 /\ Path[d][Len(Path[d])] = d
  BY PathAssumption
<1> QED
  BY <1>1 DEF Host

\* In which path it is, and at which place, says everything about a node: TreeAssumption
\* for a single node.
LEMMA OnePlace ==
  ASSUME NEW d \in Data, NEW e \in Data, NEW i \in DOMAIN Path[d], NEW j \in DOMAIN Path[e],
         Path[d][i] = Path[e][j]
  PROVE  i = j /\ \A k \in 1 .. i : Path[d][k] = Path[e][k]
BY TreeAssumption

\* Data is a leaf.
LEMMA Leaf ==
  ASSUME NEW d \in Data, NEW e \in Data, NEW j \in DOMAIN Path[e], Path[e][j] = d
  PROVE  e = d /\ j = Len(Path[d])
<1>1. Len(Path[d]) \in DOMAIN Path[d] /\ Path[d][Len(Path[d])] = d
  BY PathFacts
<1>2. j = Len(Path[d]) /\ j = Len(Path[e])
  BY <1>1, TreeAssumption
<1>3. Path[e][Len(Path[e])] = e
  BY PathFacts
<1> QED
  BY <1>2, <1>3

\* What is above a node of the path, in the path, its parent included.
LEMMA ParentOf ==
  ASSUME NEW d \in Data, NEW i \in DOMAIN Path[d], i > 1
  PROVE  Path[d][i - 1] \in Parents(Path[d][i])
BY PathFacts DEF Parents

\* ... and nothing else.
LEMMA OnlyParent ==
  ASSUME NEW d \in Data, NEW i \in DOMAIN Path[d], NEW m \in Parents(Path[d][i])
  PROVE  i > 1 /\ m = Path[d][i - 1]
<1>0. PICK e \in Data : \E j \in DOMAIN Path[e] :
        j > 1 /\ Path[e][j] = Path[d][i] /\ Path[e][j - 1] = m
  BY DEF Parents
<1>1. PICK j \in DOMAIN Path[e] : j > 1 /\ Path[e][j] = Path[d][i] /\ Path[e][j - 1] = m
  BY <1>0
<1>2. i = j /\ \A k \in 1 .. i : Path[d][k] = Path[e][k]
  BY <1>1, OnePlace
<1>3. i \in Nat /\ i - 1 \in 1 .. i
  BY <1>1, <1>2, PathFacts
<1> QED
  BY <1>1, <1>2, <1>3

\* The directories of a data path that exist are gone with the ones above them.
LEMMA WithinLoses == ASSUME NEW n, Lose(Within(n)) PROVE Loses(Within(n))
<1> SUFFICES ASSUME NEW d \in Data, NEW j \in DOMAIN Path[d], NEW i \in 1 .. j,
                    Path[d][i] \in Within(n), Path[d][j] \in tree
             PROVE  Path[d][j] \in Within(n)
  BY DEF Lose, Loses
<1>1. i \in DOMAIN Path[d] /\ i \in Nat /\ j \in Nat
  BY PathFacts
<1>2. CASE Path[d][i] = n
  BY <1>1, <1>2 DEF Within
<1>3. ASSUME NEW e \in Data, NEW k \in DOMAIN Path[e], NEW l \in DOMAIN Path[e],
             k <= l, Path[e][k] = n, Path[e][l] = Path[d][i]
      PROVE  Path[d][j] \in Within(n)
  <2>1. l = i /\ \A x \in 1 .. i : Path[e][x] = Path[d][x]
    BY <1>1, <1>3, OnePlace
  <2>2. k \in 1 .. i /\ k \in DOMAIN Path[d] /\ k <= j
    BY <1>1, <1>3, <2>1, PathFacts
  <2>3. Path[d][k] = n
    BY <1>3, <2>1, <2>2
  <2> QED
    BY <2>2, <2>3 DEF Within
<1>4. Path[d][i] = n \/ \E e \in Data : \E k, l \in DOMAIN Path[e] :
                           k <= l /\ Path[e][k] = n /\ Path[e][l] = Path[d][i]
  BY DEF Within
<1> QED
  BY <1>2, <1>3, <1>4

\* A data directory that is lost takes nothing with it.
LEMMA LeafLoses == ASSUME NEW d \in Data, Lose({d}) PROVE Loses({d})
<1> SUFFICES ASSUME NEW e \in Data, NEW j \in DOMAIN Path[e], NEW i \in 1 .. j, Path[e][i] = d
             PROVE  Path[e][j] = d
  BY DEF Lose, Loses
<1>1. i \in DOMAIN Path[e] /\ i \in Nat /\ j \in Nat /\ j <= Len(Path[e])
  BY PathFacts
<1>2. e = d /\ i = Len(Path[d])
  BY <1>1, Leaf
<1> QED
  BY <1>1, <1>2

\* An empty directory that is not data has no data in it.
LEMMA NoDataWithin ==
  ASSUME Closed, NEW n, n \notin Data, Empty(n), NEW d \in Data, d \in tree
  PROVE  d \notin Within(n)
<1> SUFFICES ASSUME d \in Within(n) PROVE FALSE
  OBVIOUS
<1>0. PICK e \in Data : \E i, j \in DOMAIN Path[e] :
        i <= j /\ Path[e][i] = n /\ Path[e][j] = d
  BY DEF Within
<1>1. PICK i \in DOMAIN Path[e], j \in DOMAIN Path[e] :
        i <= j /\ Path[e][i] = n /\ Path[e][j] = d
  BY <1>0
<1>2. e = d /\ j = Len(Path[d])
  BY <1>1, Leaf
<1>3. i \in Nat /\ i < j
  BY <1>1, <1>2, PathFacts
<1>4. i + 1 \in DOMAIN Path[d] /\ i + 1 > 1 /\ i + 1 \in 1 .. j
  BY <1>1, <1>2, <1>3, PathFacts
<1>5. Path[d][i + 1] \in tree
  BY <1>1, <1>2, <1>4 DEF Closed
<1>6. n \in Parents(Path[d][i + 1])
  <2>1. Path[d][(i + 1) - 1] \in Parents(Path[d][i + 1])
    BY <1>4, ParentOf
  <2>2. (i + 1) - 1 = i
    BY <1>3
  <2> QED
    BY <1>1, <1>2, <2>1, <2>2
<1> QED
  BY <1>5, <1>6 DEF Empty, In

\* What is in the directory of a host has that host.
LEMMA HostWithin ==
  ASSUME NEW d \in Data, NEW e \in Data, d \in Within(Host(e))
  PROVE  Host(d) = Host(e)
<1>1. CASE d = Host(e)
  <2>1. 1 \in DOMAIN Path[e] /\ Path[e][1] = d
    BY <1>1, PathFacts
  <2>2. e = d
    BY <2>1, Leaf
  <2> QED
    BY <2>2
<1>2. ASSUME NEW f \in Data, NEW i \in DOMAIN Path[f], NEW j \in DOMAIN Path[f],
             i <= j, Path[f][i] = Host(e), Path[f][j] = d
      PROVE  Host(d) = Host(e)
  <2>1. f = d
    BY <1>2, Leaf
  <2>2. 1 \in DOMAIN Path[e] /\ Path[e][1] = Host(e)
    BY PathFacts
  <2>3. i = 1
    BY <1>2, <2>2, OnePlace
  <2> QED
    BY <1>2, <2>1, <2>3, PathFacts
<1> QED
  BY <1>1, <1>2 DEF Within

-----------------------------------------------------------------------------
(* What keeps the invariant.                                                *)

\* What is lost leaves the tree closed.
LEMMA LosesClosed == ASSUME Closed, NEW S, Loses(S) PROVE Closed'
<1> SUFFICES ASSUME NEW d \in Data, NEW j \in DOMAIN Path[d], Path[d][j] \in tree \ S,
                    NEW i \in 1 .. j
             PROVE  Path[d][i] \in tree \ S
  BY DEF Closed, Loses
<1>1. Path[d][i] \in tree
  BY DEF Closed
<1>2. Path[d][i] \notin S
  BY DEF Loses
<1> QED
  BY <1>1, <1>2

\* The loss of what no Get is making and no crash has left.
LEMMA LosesDisk ==
  ASSUME IInv, NEW S, Loses(S), broken' = broken, S \cap broken = {}
  PROVE  Closed' /\ Disk'
<1>1. Closed'
  BY LosesClosed DEF IInv
<1>2. Disk'
  BY DEF IInv, Disk, Loses
<1> QED
  BY <1>1, <1>2

\* The walk touches no Get.
LEMMA MakersStay ==
  ASSUME IInv, NEW S, Loses(S), UNCHANGED makers, broken' \subseteq broken,
         \A d \in Data : phase[d] = "files" => d \notin S
  PROVE  Makers'
BY DEF IInv, Makers, makers, Loses

\* It stays true while the walk waits, whoever else works.
LEMMA HeldStays ==
  ASSUME IInv, UNCHANGED walk,
         \A d \in Data : phase[d] = "idle" => phase'[d] = "idle" \/ ~Locked(d),
         \A d \in Data : Locked(d) /\ phase[d] = "idle" /\ (d \in tree => d \in expired)
                         => (d \in tree' => d \in expired')
  PROVE  Held'
<1>1. Held /\ at' = at /\ step' = step /\ Here' = Here
  BY DEF IInv, walk, Here
<1>2. CASE at # 0 /\ step \in {"open", "trash"} /\ Here \in Data
  <2> DEFINE d == Here
  <2>1. d \in Data /\ phase[d] = "idle" /\ Locked(d)
    BY <1>1, <1>2 DEF Held, Locked
  <2>2. phase'[d] = "idle"
    <3> HIDE DEF d
    <3> QED
      BY <2>1
  <2>3. (d \in tree => d \in expired) => (d \in tree' => d \in expired')
    <3> HIDE DEF d
    <3> QED
      BY <2>1
  <2> QED
    BY <1>1, <1>2, <2>2, <2>3 DEF Held
<1> QED
  BY <1>1, <1>2 DEF Held

\* A loss leaves what is expired expired.
LEMMA LosesHeld ==
  ASSUME IInv, NEW S, Loses(S), UNCHANGED <<phase, walk>>
  PROVE  Held'
BY HeldStays DEF Loses

\* A Get goes on at d while the disk stays.
LEMMA GoesOnAt ==
  ASSUME IInv, NEW d \in Data, UNCHANGED <<disk, loading, walk, past>>,
         NEW p \in {"idle", "up", "down", "files"}, NEW i \in 1 .. Len(Path[d]),
         Goto(d, p, i), p # "idle" => phase[d] # "idle", p = "files" => d \in tree
  PROVE  IInv'
<1>1. Closed' /\ Disk' /\ Walk'
  BY DEF IInv, Closed, Disk, Walk, disk, walk, past
<1>2. Makers'
  BY DEF IInv, Makers, Goto, disk, past
<1>3. Held'
  <2>1. \A e \in Data : phase[e] = "idle" => phase'[e] = "idle"
    BY DEF IInv, Makers, Goto
  <2> QED
    BY <2>1, HeldStays DEF disk
<1> QED
  BY <1>1, <1>2, <1>3 DEF IInv

\* Next1 leaves the walk somewhere in Order.
LEMMA Next1Walk ==
  ASSUME Walk, NEW known, known \subseteq Nodes, Next1(known), UNCHANGED past
  PROVE  Walk'
<1> DEFINE later == {i \in DOMAIN Order : i > at /\ Order[i] \in known}
<1>1. Len(Order) \in Nat /\ DOMAIN Order = 1 .. Len(Order)
  BY OrderAssumption
<1>2. at' \in 0 .. Len(Order)
  <2>1. CASE later = {}
    BY <1>1, <2>1 DEF Next1
  <2>2. CASE later # {}
    <3>1. later \in SUBSET Nat /\ later \subseteq 1 .. Len(Order)
      BY <1>1
    <3>2. at' = CHOOSE i \in later : \A j \in later : i <= j
      BY <2>2 DEF Next1
    <3> HIDE DEF later
    <3>3. \E i \in later : \A j \in later : i <= j
      BY <2>2, <3>1, Minimum
    <3>4. at' \in later
      BY <3>2, <3>3
    <3> QED
      BY <1>1, <3>1, <3>4
  <2> QED
    BY <2>1, <2>2
<1>3. listed' = known /\ step' = "visit"
  BY DEF Next1
<1> QED
  BY <1>2, <1>3 DEF Walk, past

-----------------------------------------------------------------------------
(* Every step keeps it.                                                     *)

\* It holds at first.
LEMMA InitIInv == Init => IInv
<1> SUFFICES ASSUME Init PROVE IInv
  OBVIOUS
<1>1. ASSUME NEW d \in Data PROVE 1 \in 1 .. Len(Path[d])
  BY PathFacts
<1>2. Makers
  BY <1>1 DEF Init, Makers
<1>3. Walk
  BY OrderAssumption, NameAssumption DEF Init, Walk
<1>4. Held
  BY DEF Init, Held
<1> QED
  BY <1>2, <1>3, <1>4 DEF Init, IInv, Closed, Disk

\* Get loses only what is expired, or was never written.
LEMMA CreateStep == ASSUME IInv, NEW d \in Data, Create(d) PROVE IInv'
<1>1. Loses({d})
  BY LeafLoses DEF Create
<1>2. d \notin broken
  BY DEF IInv, Disk, Create
<1>3. Closed' /\ Disk'
  BY <1>1, <1>2, LosesDisk DEF Create, past
<1>4. Walk'
  BY DEF IInv, Walk, Create, walk, past
<1>5. Makers'
  <2>1. Len(Path[d]) \in 1 .. Len(Path[d])
    BY PathFacts
  <2>2. d \notin ready'
    BY <1>1 DEF Loses
  <2> QED
    BY <1>1, <1>2, <2>1, <2>2 DEF IInv, Makers, Create, Goto, Loses, past
<1>6. Held'
  <2>1. \A e \in Data : phase[e] = "idle" => phase'[e] = "idle" \/ ~Locked(e)
    BY DEF IInv, Makers, Create, Goto
  <2> QED
    BY <1>1, <2>1, HeldStays DEF Create, Loses
<1> QED
  BY <1>3, <1>4, <1>5, <1>6 DEF IInv

\* MkdirAll looks up the path.
LEMMA StatUpStep == ASSUME IInv, NEW d \in Data, StatUp(d) PROVE IInv'
<1>1. depth[d] \in 1 .. Len(Path[d]) /\ Len(Path[d]) \in Nat /\ Path[d][Len(Path[d])] = d
  BY PathFacts DEF IInv, Makers
<1>2. phase[d] # "idle" /\ UNCHANGED <<disk, loading, walk, past>>
  BY DEF StatUp
<1>3. CASE At(d) \in tree /\ At(d) = d
  <2>1. Goto(d, "files", depth[d])
    BY <1>3 DEF StatUp
  <2> QED
    BY <1>1, <1>2, <1>3, <2>1, GoesOnAt
<1>4. CASE At(d) \in tree /\ At(d) # d
  <2>1. Goto(d, "down", depth[d] + 1)
    BY <1>4 DEF StatUp
  <2>2. depth[d] + 1 \in 1 .. Len(Path[d])
    BY <1>1, <1>4 DEF At
  <2> QED
    BY <1>2, <2>1, <2>2, GoesOnAt
<1>5. CASE At(d) \notin tree /\ depth[d] = 1
  <2>1. Goto(d, "down", 1)
    BY <1>5 DEF StatUp
  <2>2. 1 \in 1 .. Len(Path[d])
    BY <1>1
  <2> QED
    BY <1>2, <2>1, <2>2, GoesOnAt
<1>6. CASE At(d) \notin tree /\ depth[d] # 1
  <2>1. Goto(d, "up", depth[d] - 1)
    BY <1>6 DEF StatUp
  <2>2. depth[d] - 1 \in 1 .. Len(Path[d])
    BY <1>1, <1>6
  <2> QED
    BY <1>2, <2>1, <2>2, GoesOnAt
<1> QED
  BY <1>3, <1>4, <1>5, <1>6

\* What is made has its parent, and so all above it.
LEMMA MkdirClosed == ASSUME IInv, NEW d \in Data, MkdirDown(d) PROVE Closed'
<1> DEFINE i == depth[d]
           n == Path[d][i]
<1>1. i \in DOMAIN Path[d] /\ i \in Nat /\ tree' = tree \cup {n} /\ Exist(Parents(n))
  BY PathFacts DEF IInv, Makers, MkdirDown, At
<1>2. \A k \in 1 .. i : Path[d][k] \in tree'
  <2>1. CASE i = 1
    BY <1>1, <2>1
  <2>2. CASE i # 1
    <3>1. i > 1 /\ i - 1 \in DOMAIN Path[d]
      BY <1>1, <2>2, PathFacts
    <3>2. Path[d][i - 1] \in tree
      <4> HIDE DEF i
      <4> QED
        BY <1>1, <3>1, ParentOf DEF Exist
    <3>3. \A k \in 1 .. i - 1 : Path[d][k] \in tree
      BY <3>1, <3>2 DEF IInv, Closed
    <3> HIDE DEF i
    <3> QED
      BY <1>1, <3>3
  <2> QED
    BY <2>1, <2>2
<1> SUFFICES ASSUME NEW e \in Data, NEW j \in DOMAIN Path[e], Path[e][j] \in tree',
                    NEW k \in 1 .. j
             PROVE  Path[e][k] \in tree'
  BY DEF Closed
<1>3. CASE Path[e][j] \in tree
  BY <1>1, <1>3 DEF IInv, Closed
<1>4. CASE Path[e][j] = n
  <2>1. i = j /\ \A l \in 1 .. i : Path[d][l] = Path[e][l]
    <3> HIDE DEF i
    <3> QED
      BY <1>1, <1>4, OnePlace
  <2> HIDE DEF i, n
  <2> QED
    BY <1>2, <2>1
<1> QED
  BY <1>1, <1>3, <1>4

\* MkdirAll goes down the path.
LEMMA MkdirStep == ASSUME IInv, NEW d \in Data, MkdirDown(d) PROVE IInv'
<1>1. /\ depth[d] \in 1 .. Len(Path[d]) /\ Len(Path[d]) \in Nat
      /\ Path[d][Len(Path[d])] = d /\ At(d) \in Nodes
  BY PathFacts DEF IInv, Makers, At
<1>2. /\ phase[d] = "down" /\ tree' = tree \cup {At(d)}
      /\ UNCHANGED <<ready, expired, loading, walk, past>>
  BY DEF MkdirDown
<1>3. Closed'
  BY MkdirClosed
<1>4. Disk' /\ Walk'
  BY <1>1, <1>2 DEF IInv, Disk, Walk, walk, past
<1>5. ASSUME NEW p \in {"down", "files"}, NEW i \in 1 .. Len(Path[d]), Goto(d, p, i),
             p = "files" => d \in tree'
      PROVE  Makers'
  BY <1>2, <1>5 DEF IInv, Makers, Goto, past
<1>8. Held'
  <2>1. \A e \in Data : phase[e] = "idle" => phase'[e] = "idle"
    BY <1>2 DEF IInv, Makers, MkdirDown, Goto
  <2>2. \A e \in Data : phase[e] = "idle" => At(d) # e
    <3> SUFFICES ASSUME NEW e \in Data, phase[e] = "idle", At(d) = e PROVE FALSE
      OBVIOUS
    <3>1. depth[d] \in DOMAIN Path[d] /\ Path[d][depth[d]] = e
      BY <1>1, PathFacts DEF At
    <3>2. d = e
      BY <3>1, Leaf
    <3> QED
      BY <1>2, <3>2
  <2> QED
    BY <1>2, <2>1, <2>2, HeldStays
<1>6. CASE At(d) = d
  <2>1. Goto(d, "files", depth[d])
    BY <1>6 DEF MkdirDown
  <2> QED
    BY <1>1, <1>2, <1>3, <1>4, <1>5, <1>6, <1>8, <2>1 DEF IInv
<1>7. CASE At(d) # d
  <2>1. Goto(d, "down", depth[d] + 1)
    BY <1>7 DEF MkdirDown
  <2>2. depth[d] + 1 \in 1 .. Len(Path[d])
    BY <1>1, <1>7 DEF At
  <2> QED
    BY <1>3, <1>4, <1>5, <1>8, <2>1, <2>2 DEF IInv
<1> QED
  BY <1>6, <1>7

\* The data is written, or it is not.
LEMMA EndStep ==
  ASSUME IInv, NEW d \in Data, MkdirFails(d) \/ Written(d) \/ WriteFails(d)
  PROVE  IInv'
<1>1. 1 \in 1 .. Len(Path[d])
  BY PathFacts
<1>2. CASE MkdirFails(d)
  BY <1>1, <1>2, GoesOnAt DEF MkdirFails
<1>3. CASE Written(d)
  <2>1. /\ phase[d] = "files" /\ d \in tree /\ d \notin broken
        /\ ready' = ready \cup {d} /\ Goto(d, "idle", 1)
        /\ loading' = loading \cup {d}
        /\ UNCHANGED <<tree, expired, walk, past>>
    BY <1>3 DEF IInv, Makers, Written
  <2>2. Closed' /\ Disk' /\ Walk'
    BY <2>1 DEF IInv, Closed, Disk, Walk, walk, past
  <2>3. Makers'
    BY <1>1, <2>1 DEF IInv, Makers, Goto, past
  <2>4. \A e \in Data : phase[e] = "idle" => phase'[e] = "idle"
    BY <2>1 DEF IInv, Makers, Goto
  <2>5. Held'
    BY <2>1, <2>4, HeldStays
  <2> QED
    BY <2>2, <2>3, <2>5 DEF IInv
<1>4. CASE WriteFails(d)
  <2>1. /\ phase[d] = "files" /\ Goto(d, "idle", 1) /\ Loses({d})
        /\ UNCHANGED <<loading, walk, past>>
    BY <1>4, LeafLoses DEF WriteFails
  <2>2. d \notin broken
    BY <2>1 DEF IInv, Makers
  <2>3. Closed' /\ Disk'
    BY <2>1, <2>2, LosesDisk DEF past
  <2>4. Walk'
    BY <2>1 DEF IInv, Walk, walk, past
  <2>5. Makers'
    BY <1>1, <2>1, <2>2 DEF IInv, Makers, Goto, past, Loses
  <2>6. \A e \in Data : phase[e] = "idle" => phase'[e] = "idle"
    BY <2>1 DEF IInv, Makers, Goto
  <2>7. Held'
    BY <2>1, <2>6, HeldStays DEF Loses
  <2> QED
    BY <2>3, <2>4, <2>5, <2>7 DEF IInv
<1> QED
  BY <1>2, <1>3, <1>4

\* A directory the cleaner removes is empty: there is no data in it.
LEMMA VisitLoses ==
  ASSUME IInv, VisitDirectory, Empty(Here)
  PROVE  /\ Loses(Within(Here))
         /\ \A d \in Data : d \in tree => d \notin Within(Here)
<1>1. Here \notin Data /\ Lose(Within(Here)) /\ Closed
  BY NameAssumption DEF VisitDirectory, IsData, IInv
<1> DEFINE n == Here
<1>2. Loses(Within(n)) /\ \A d \in Data : d \in tree => d \notin Within(n)
  <2>1. n \notin Data /\ Lose(Within(n)) /\ Closed /\ Empty(n)
    BY <1>1
  <2> HIDE DEF n
  <2> QED
    BY <2>1, WithinLoses, NoDataWithin
<1> QED
  BY <1>2

\* Data that is lost by the cleaner is expired, and no Get is at it.
LEMMA TrashLoses ==
  ASSUME IInv, TrashData, Here \in tree
  PROVE  Here \in expired /\ Loses({Here}) /\ Here \notin broken /\ phase[Here] = "idle"
<1>1. /\ Here \in Data /\ Here \in expired /\ Lose({Here}) /\ phase[Here] = "idle"
      /\ Here \notin broken
  BY DEF IInv, Disk, Held, TrashData
<1>2. Loses({Here})
  <2> DEFINE n == Here
  <2>1. n \in Data /\ Lose({n})
    BY <1>1
  <2>2. Loses({n})
    <3> HIDE DEF n
    <3> QED
      BY <2>1, LeafLoses
  <2> QED
    BY <2>2
<1> QED
  BY <1>1, <1>2

\* The cleaner keeps the invariant, in every step of its walk.
LEMMA CleaningStep == ASSUME IInv, Cleaning PROVE IInv'
<1>1. ASSUME UNCHANGED <<disk, makers, past>>, Walk', Held' PROVE IInv'
  BY <1>1 DEF IInv, Closed, Disk, Makers, disk, makers, past
<1>2. ASSUME NEW S, Loses(S), UNCHANGED <<makers, past>>, S \cap broken = {}, Walk', Held',
             \A d \in Data : phase[d] = "files" => d \notin S
      PROVE  IInv'
  <2>1. broken' = broken
    BY <1>2 DEF past
  <2>2. Closed' /\ Disk'
    BY <1>2, <2>1, LosesDisk
  <2>3. Makers'
    BY <1>2, <2>1, MakersStay
  <2> QED
    BY <1>2, <2>2, <2>3 DEF IInv
<1>3. (List \/ Abort) /\ UNCHANGED past => Walk' /\ Held'
  BY OrderAssumption DEF List, Abort, IInv, Walk, Held, past
<1>4. CASE WalkStart
  <2>1. {n \in tree : Parents(n) = {}} \subseteq Nodes
    BY DEF IInv, Disk
  <2>2. Walk' /\ Held'
    BY <1>4, <2>1, Next1Walk DEF WalkStart, Next1, Held, IInv
  <2> QED
    BY <1>1, <1>4, <2>2 DEF WalkStart
<1>5. CASE ReadDir
  <2>1. listed \cup In(Here) \subseteq Nodes
    BY DEF IInv, Disk, Walk, In
  <2>2. Walk' /\ Held'
    BY <1>5, <2>1, Next1Walk DEF ReadDir, Next1, Held, IInv
  <2> QED
    BY <1>1, <1>5, <2>2 DEF ReadDir
<1>6. CASE VisitDirectory
  <2>1. UNCHANGED <<makers, past>> /\ Walk' /\ Held'
    BY <1>3, <1>6 DEF VisitDirectory
  <2>2. CASE Empty(Here)
    <3>1. Loses(Within(Here)) /\ \A d \in Data : d \in tree => d \notin Within(Here)
      BY <1>6, <2>2, VisitLoses
    <3>2. \A d \in Data : phase[d] = "files" => d \notin Within(Here)
      BY <3>1 DEF IInv, Makers
    <3>3. Within(Here) \cap broken = {}
      BY <3>1 DEF IInv, Disk
    <3> QED
      BY <1>2, <2>1, <3>1, <3>2, <3>3
  <2>3. CASE ~Empty(Here)
    BY <1>1, <1>6, <2>1, <2>3 DEF VisitDirectory
  <2> QED
    BY <2>2, <2>3
<1>7. CASE LockData
  <2>1. UNCHANGED <<disk, makers, past>>
    BY <1>7 DEF LockData
  <2>2. CASE step' = "open" /\ UNCHANGED <<at, listed>>
    <3>1. Here' = Here
      BY <2>2 DEF Here
    <3>2. Walk' /\ Held'
      BY <1>7, <2>1, <2>2, <3>1 DEF LockData, IInv, Walk, Held, makers, past
    <3> QED
      BY <1>1, <2>1, <3>2
  <2>3. CASE List
    BY <1>1, <1>3, <2>1, <2>3
  <2> QED
    BY <1>7, <2>2, <2>3 DEF LockData
<1>8. CASE OpenData
  <2>1. UNCHANGED <<disk, makers, past>>
    BY <1>8 DEF OpenData
  <2>2. CASE Here \in expired /\ step' = "trash" /\ UNCHANGED <<at, listed>>
    <3>1. Here' = Here /\ Here \in Data
      BY <2>2 DEF Here, IInv, Disk
    <3>2. Walk' /\ Held'
      BY <1>8, <2>1, <2>2, <3>1 DEF OpenData, IInv, Walk, Held, disk, makers, past
    <3> QED
      BY <1>1, <2>1, <3>2
  <2>3. CASE List \/ Abort
    BY <1>1, <1>3, <2>1, <2>3
  <2> QED
    BY <1>8, <2>2, <2>3 DEF OpenData
<1>9. CASE TrashData
  <2>1. UNCHANGED <<makers, past>> /\ Walk' /\ Held'
    BY <1>3, <1>9 DEF TrashData
  <2>2. CASE Here \in tree
    <3>1. Loses({Here}) /\ Here \notin broken /\ phase[Here] = "idle"
      BY <1>9, <2>2, TrashLoses
    <3>2. \A d \in Data : phase[d] = "files" => d \notin {Here}
      BY <3>1
    <3> QED
      BY <1>2, <2>1, <3>1, <3>2
  <2>3. CASE Here \notin tree
    BY <1>1, <1>9, <2>1, <2>3 DEF TrashData
  <2> QED
    BY <2>2, <2>3
<1> QED
  BY <1>4, <1>5, <1>6, <1>7, <1>8, <1>9 DEF Cleaning

\* The end of a download, and Purge, under the lock of their data.
LEMMA SingleStep ==
  ASSUME IInv, NEW d \in Data, Settle(d) \/ Discard(d) \/ Purge(d)
  PROVE  IInv'
<1>1. CASE Settle(d)
  <2>1. /\ loading' = loading \ {d}
        /\ UNCHANGED <<disk, phase, depth, walk, past>>
    BY <1>1 DEF Settle
  <2>2. Closed' /\ Disk' /\ Walk' /\ Makers'
    BY <2>1 DEF IInv, Closed, Disk, Walk, Makers, disk, walk, past
  <2>3. Held'
    BY <2>1, HeldStays DEF disk
  <2> QED
    BY <2>2, <2>3 DEF IInv
<1>2. CASE Discard(d)
  <2>1. /\ loading' = loading \ {d} /\ d \notin broken /\ phase[d] = "idle"
        /\ UNCHANGED <<phase, depth, walk, past>> /\ Loses({d})
    BY <1>2, LeafLoses DEF Discard, Locked, IInv, Makers
  <2>2. Closed' /\ Disk'
    BY <2>1, LosesDisk DEF past
  <2>3. Walk' /\ Makers' /\ Held'
    BY <2>1, LosesHeld DEF IInv, Walk, Makers, Loses, walk, past
  <2> QED
    BY <2>2, <2>3 DEF IInv
<1>3. CASE Purge(d)
  <2>1. /\ broken' = broken \ {d} /\ phase[d] = "idle"
        /\ UNCHANGED <<makers, walk, crashes>> /\ Loses({d})
    BY <1>3, LeafLoses DEF Purge, Locked
  <2>2. Closed'
    BY <2>1, LosesClosed DEF IInv
  <2>3. Disk'
    BY <2>1 DEF IInv, Disk, Loses
  <2>4. Makers'
    BY <2>1, MakersStay
  <2>5. Walk' /\ Held'
    BY <2>1, LosesHeld DEF IInv, Walk, makers, walk
  <2> QED
    BY <2>2, <2>3, <2>4, <2>5 DEF IInv
<1> QED
  BY <1>1, <1>2, <1>3

\* PurgeHost waits for the Gets of its host.
LEMMA PurgeHostStep == ASSUME IInv, NEW e \in Data, PurgeHost(Host(e)) PROVE IInv'
<1> DEFINE S == Within(Host(e))
<1>1. /\ Lose(S) /\ broken' = broken \ S /\ UNCHANGED <<makers, walk, crashes>>
      /\ \A d \in Data : Host(d) = Host(e) => phase[d] = "idle"
  BY DEF PurgeHost
<1>2. Loses(S)
  BY <1>1, WithinLoses DEF IInv
<1>3. Closed'
  BY <1>2, LosesClosed DEF IInv
<1>4. \A d \in Data : phase[d] = "files" => d \notin S
  BY <1>1, HostWithin
<1> HIDE DEF S
<1>5. Disk'
  BY <1>1, <1>2 DEF IInv, Disk, Loses
<1>6. Makers'
  BY <1>1, <1>2, <1>4, MakersStay
<1>7. Walk' /\ Held'
  BY <1>1, <1>2, LosesHeld DEF IInv, Walk, makers, walk
<1> QED
  BY <1>3, <1>5, <1>6, <1>7 DEF IInv

\* Time passes.
LEMMA ExpireStep == ASSUME IInv, NEW d \in Data, Expire(d) PROVE IInv'
<1>1. Closed' /\ Disk' /\ Makers' /\ Walk'
  BY DEF IInv, Closed, Disk, Makers, Walk, Expire, makers, walk, past
<1>2. Held'
  BY HeldStays DEF Expire, makers
<1> QED
  BY <1>1, <1>2 DEF IInv

\* A crash: what was being written has a directory, but no info.
LEMMA CrashStep == ASSUME IInv, Crash PROVE IInv'
<1>1. Closed'
  BY DEF IInv, Closed, Crash, disk
<1>2. Disk'
  BY DEF IInv, Disk, Makers, Crash, disk
<1>3. Walk'
  BY OrderAssumption, NameAssumption DEF IInv, Walk, Crash, Abort
<1>4. Makers'
  <2>1. ASSUME NEW d \in Data PROVE 1 \in 1 .. Len(Path[d])
    BY PathFacts
  <2> QED
    BY <2>1 DEF Makers, Crash
<1>5. Held'
  BY DEF Held, Crash, Abort
<1> QED
  BY <1>1, <1>2, <1>3, <1>4, <1>5 DEF IInv

\* The invariant is inductive.
LEMMA Inductive == IInv /\ [Next]_vars => IInv'
<1> SUFFICES ASSUME IInv, [Next]_vars PROVE IInv'
  OBVIOUS
<1>1. CASE UNCHANGED vars
  BY <1>1 DEF IInv, Closed, Disk, Makers, Walk, Held, Here, vars, disk, makers, walk, past
<1>2. CASE Cleaning
  BY <1>2, CleaningStep
<1>3. CASE Crash
  BY <1>3, CrashStep
<1>4. ASSUME NEW d \in Data,
             \/ Create(d) \/ Making(d) \/ Settle(d) \/ Discard(d)
             \/ Purge(d) \/ PurgeHost(Host(d)) \/ Expire(d)
      PROVE  IInv'
  BY <1>4, CreateStep, StatUpStep, MkdirStep, EndStep, SingleStep, ExpireStep, PurgeHostStep
     DEF Making
<1> QED
  BY <1>1, <1>2, <1>3, <1>4 DEF Next

\* It implies the invariants of the run, and the types.
LEMMA Consequences == IInv => TypeOK /\ GroundHolds
<1> SUFFICES ASSUME IInv PROVE TypeOK /\ GroundHolds
  OBVIOUS
<1>1. ASSUME NEW n \in tree, NEW m \in Parents(n) PROVE m \in tree
  <2>1. PICK d \in Data : \E i \in DOMAIN Path[d] : Path[d][i] = n
    BY DEF IInv, Disk, Nodes
  <2>2. PICK i \in DOMAIN Path[d] : Path[d][i] = n
    BY <2>1
  <2>3. i > 1 /\ m = Path[d][i - 1]
    BY <2>2, OnlyParent
  <2>4. i - 1 \in 1 .. i
    BY <2>3, PathFacts
  <2> QED
    BY <2>2, <2>3, <2>4 DEF IInv, Closed
<1>2. \A n \in tree : Exist(Parents(n))
  BY <1>1 DEF Exist
<1> QED
  BY <1>2 DEF IInv, Disk, Makers, Walk, TypeOK, GroundHolds

\* The tree and the walk have their types, for any number of directories: above every
\* directory that exists there is its parent.
THEOREM TypeCorrect == Spec => []TypeOK
BY InitIInv, Inductive, Consequences, PTL DEF Spec

\* GroundHolds: MkdirAll may fail when the cleaner comes in between, but a Create that has
\* its directory keeps it.
THEOREM GroundHeld == Spec => []GroundHolds
BY InitIInv, Inductive, Consequences, PTL DEF Spec

\* What a step may take away of the data is expired, or asked for.
LEMMA FreshStep ==
  ASSUME IInv, Next, NEW d \in ready \ expired
  PROVE  d \in ready' \/ Purge(d) \/ PurgeHost(Host(d)) \/ Discard(d)
<1>1. d \in Data /\ d \in tree
  BY DEF IInv, Disk
<1>2. CASE Cleaning
  <2>1. WalkStart \/ ReadDir \/ LockData \/ OpenData => ready' = ready
    BY DEF WalkStart, ReadDir, LockData, OpenData, disk
  <2>2. CASE VisitDirectory
    <3>1. CASE Empty(Here)
      BY <1>1, <2>2, <3>1, VisitLoses DEF Loses
    <3>2. CASE ~Empty(Here)
      BY <2>2, <3>2 DEF VisitDirectory, disk
    <3> QED
      BY <3>1, <3>2
  <2>3. CASE TrashData
    <3>1. CASE Here \in tree
      BY <2>3, <3>1, TrashLoses DEF Loses
    <3>2. CASE Here \notin tree
      BY <2>3, <3>2 DEF TrashData, disk
    <3> QED
      BY <3>1, <3>2
  <2> QED
    BY <1>2, <2>1, <2>2, <2>3 DEF Cleaning
<1>3. CASE Crash
  BY <1>3 DEF Crash, disk
<1>4. ASSUME NEW e \in Data, Create(e) PROVE d \in ready'
  BY <1>1, <1>4 DEF Create, Lose
<1>5. ASSUME NEW e \in Data, Making(e) PROVE d \in ready'
  <2>1. phase[e] = "files" => e \notin ready
    BY <1>5 DEF IInv, Makers
  <2>2. CASE WriteFails(e)
    BY <2>1, <2>2 DEF WriteFails, Lose
  <2>3. CASE StatUp(e) \/ MkdirDown(e) \/ MkdirFails(e) \/ Written(e)
    BY <2>3 DEF StatUp, MkdirDown, MkdirFails, Written, disk
  <2> QED
    BY <1>5, <2>2, <2>3 DEF Making
<1>6. ASSUME NEW e \in Data, Settle(e) \/ Expire(e) PROVE d \in ready'
  BY <1>6 DEF Settle, Expire, disk
<1>7. ASSUME NEW e \in Data, Discard(e) \/ Purge(e) PROVE d \in ready' \/ d = e
  BY <1>7 DEF Discard, Purge, Lose
<1>8. ASSUME NEW e \in Data, PurgeHost(Host(e)) PROVE d \in ready' \/ Host(d) = Host(e)
  <2>1. d \in Within(Host(e)) => Host(d) = Host(e)
    BY <1>1, <1>8, HostWithin
  <2> QED
    BY <1>8, <2>1 DEF PurgeHost, Lose
<1> QED
  BY <1>2, <1>3, <1>4, <1>5, <1>6, <1>7, <1>8 DEF Next

\* FreshStays: fresh data leaves content/ by Purge, by PurgeHost of its own host or by its
\* own failed download; whatever the cleaner removes without a lock, it is not data, and
\* what it takes with the lock is expired when it is renamed.
THEOREM FreshStaysThere == Spec => FreshStays
<1>1. IInv /\ [Next]_vars
        => [\A d \in ready \ expired :
              d \in ready' \/ Purge(d) \/ PurgeHost(Host(d)) \/ Discard(d)]_vars
  BY FreshStep
<1> QED
  BY <1>1, InitIInv, Inductive, PTL DEF Spec, FreshStays
================================================================================
