\* Two connections more than the limit; h2c is on and Terminate may time out.
SPECIFICATION FairSpec
CONSTANTS
  Conns = {k1, k2, k3, k4}
  MaxConns = 2
  HandleH2C = TRUE
  Timeouts = TRUE
INVARIANTS NeverTooMany StoppedIsQuiet
PROPERTIES CountIsExact StopReturns
CHECK_DEADLOCK FALSE
