\* An origin whose time is limited, one that has no say and one without limits.
SPECIFICATION Spec
CONSTANTS
  Second = 4
  Half = 16
  Horizon = 14
  Configs <- Hosts
  Answers <- Origin
INVARIANTS WithinMaxAge AsConfigured
PROPERTY HitsAreYoung
