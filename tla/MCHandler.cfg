\* One request after the other, of every kind, beside a download that may fail.
SPECIFICATION FairSpec
CONSTANTS
  Readers = {r1}
  Sizes <- Lengths
  Asked <- AskedFor
  Hosts = {"a", "zip", "secure"}
  HostConfig <- Config1
  Requests <- All1
  Bursts = {0, 1, 3}
  DiskFails = TRUE
INVARIANTS WholeIsWhole NothingBreaksIt KeptExactly
PROPERTIES UsesThePipe StreamsEnd
CHECK_DEADLOCK FALSE
