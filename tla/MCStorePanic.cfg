\* Expired data and an origin that cannot be reached.
SPECIFICATION Spec
CONSTANTS
  Clients = {c1, c2}
  Objs = {o1, o2}
  Cleaner = cleaner
  Paths = {"P1"}
  Hosts = {"H1"}
  Keys = {"K1"}
  HostOf <- OneHost
  KeyOf <- OwnKey
  Walk <- NoWalk
  None = None
  NoHost = NoHost
  Ops <- Gets
  Replies = {"cacheable", "toolarge", "dynamic"}
  Faults = {"request"}
SYMMETRY SymmetryObjs
VIEW View
INVARIANT NeverOpenedTwice
