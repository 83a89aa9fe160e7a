\* A caller of Get beside one of PurgeAll, the cleaner and the goroutine that a Get
\* leaves behind, under fair scheduling; no symmetry, no view.
SPECIFICATION FairSpec
CONSTANTS
  Clients = {"getter", "purger"}
  Objs = {o1}
  Cleaner = cleaner
  Paths = {"P1"}
  Hosts = {"H1"}
  Keys = {"K1"}
  HostOf <- OneHost
  KeyOf <- OwnKey
  Walk <- WalkOne
  None = None
  NoHost = NoHost
  Ops <- GetterPurgeAll
  Replies = {"cacheable"}
  Faults = {}
PROPERTIES EveryCallReturns ExpiredIsCollected
