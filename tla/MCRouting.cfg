\* Four configurations: an origin with two schemes and a redirect, an origin with
\* and without its default port, and two with hosts that are asked for by their own
\* names; two paths, one of them written in two ways.
SPECIFICATION RoutingSpec
CONSTANTS
  Sites <- Configurations
  Paths = {"/a/b", "/a%2Fb", "/"}
  Rewritten <- Escaped
  Queries = {"", "q"}
  ListensTLS = 8443
INVARIANTS OwnAnswer KeysApart PurgeReaches LimitsAreOwn
