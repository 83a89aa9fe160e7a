\* Three goroutines on two names.  A holder that is not in the map has no user
\* (ProcInv, NameInv), so two holder objects are as many as two names ever need.
SPECIFICATION FairSpec
CONSTANTS
  Procs = {p1, p2, p3}
  Names = {n1, n2}
  Holders = {h1, h2}
  NoHolder = NoHolder
INVARIANTS MutualExclusion NoPanic MapIsExact
PROPERTIES ImplementsRWLock LockReturns
