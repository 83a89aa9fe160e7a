\* Two paths of one host; the process may crash once.
SPECIFICATION FairSpec
CONSTANTS
  Data = {"d", "e"}
  Path <- TwoPaths
  Order <- TwoOrder
  Named = {"d", "e"}
  Crashes = 1
INVARIANT GroundHolds
PROPERTIES FreshStays LeftoversGo
