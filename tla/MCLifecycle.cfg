\* Two processes and two calls; Release at any time, nothing outside need happen.
SPECIFICATION FairSpec
CONSTANTS
  Stores = {s1, s2}
  Calls = {c1, c2}
  Cleaners = {"content"}
PROPERTIES OnlyOwnerWrites ReleaseReturns GoneCallReturns
