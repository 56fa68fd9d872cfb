\* Two rotations at once over two keys, each in a block that Parse matches or not;
\* two secrets are generated.
SPECIFICATION Spec
CONSTANTS
  Rotators = {r1, r2}
  Key = {k1, k2}
  MaxSecrets = 3
  MaxFaults = 2
  MaxStops = 1
INVARIANTS
  InSync
PROPERTIES
  Transactional
  DaemonFollows
  KeysKept
CHECK_DEADLOCK FALSE
