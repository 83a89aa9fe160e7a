\* Two callers of Get and Purge on one URL; three data directories are one whose
\* download has ended but not settled, one that is filled and one being created.
SPECIFICATION Spec
CONSTANTS
  Clients = {c1, c2}
  Objs = {o1, o2, o3}
  Cleaner = cleaner
  Paths = {"P1"}
  Hosts = {"H1"}
  Keys = {"K1"}
  HostOf <- OneHost
  KeyOf <- OwnKey
  Walk <- NoWalk
  None = None
  NoHost = NoHost
  Ops <- GetsAndPurge
  Replies = {"cacheable", "toolarge", "dynamic"}
  Faults = {"copy", "disk"}
SYMMETRY Symmetry
VIEW View
INVARIANTS TypeOK IncompleteIsRegistered HitIsWhole AwaitsOwnDownload RegistrationSettles UndisturbedUnderLocks
PROPERTIES LateFinishHarmless ImplementsCache
