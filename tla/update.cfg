\* Two updates, a manual check beside the poller, every failure, both ways to stop the
\* service and a crash of NRCC.
CONSTANTS
  r1 = r1
  r2 = r2
  c1 = c1
  Requests = {r1, r2}
  Checkers = {c1}
  Poller = Poller
  Nobody = Nobody
  Strategies = {"npm-global", "external"}
  Halts = {"Stop", "Shutdown"}
  Faults = {"backup", "npm", "prefix", "first", "critical"}
  MaxVersion = 2
  CatalogLimit = 1
  MaxCrashes = 1
SPECIFICATION Spec
INVARIANT InstallsAreBackedUp
INVARIANT CompletedIsInstalled
PROPERTY EverythingEnds
CHECK_DEADLOCK FALSE
