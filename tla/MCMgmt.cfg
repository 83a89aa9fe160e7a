\* A Get beside a client that calls every purge through the management server;
\* two paths under two hosts, one data directory, and everything may fail.
SPECIFICATION Spec
CONSTANTS
  Clients = {"getter", "purger"}
  Objs = {o1}
  Cleaner = cleaner
  Paths = {"P1", "P2"}
  Hosts = {"H1", "H2"}
  Keys = {"K1", "K2"}
  HostOf <- TwoHosts
  KeyOf <- OwnKeys
  Walk <- WalkOne
  None = None
  NoHost = NoHost
  Ops <- GetterAnyPurge
  Replies = {"cacheable"}
  Faults = {"crash", "request", "rename", "copy", "disk"}
VIEW MgmtView
INVARIANTS PurgedIsGone PurgeAllComplete
