\* Two handlers, a host removed and added again, a failed write and a restart.
CONSTANTS
  Hosts = {h1}
  Requests = {r1, r2}
  MaxCounts = 4
  MaxUpdates = 2
  MaxErrors = 1
  MaxKills = 1
SPECIFICATION FairSpec
INVARIANTS
  ActiveExact
  NeverCountedTwice
  NothingLost
  InStep
PROPERTIES
  CatchesUp
CHECK_DEADLOCK FALSE
