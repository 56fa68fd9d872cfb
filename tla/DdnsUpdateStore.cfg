\* One request at a time, and last_ip is not stored once.
SPECIFICATION Spec
CONSTANTS
  Handlers = {h1}
  Name = {n1}
  V4 = {a}
  V6 = {b}
  BadIP = BadIP
  NoIP = NoIP
  NoRow = NoRow
  Nobody = Nobody
  MaxAdmin = 1
  MaxMoves = 2
  MaxNet = 0
  MaxStore = 1
  MaxCrash = 0
PROPERTY EveryPollRewrites
CHECK_DEADLOCK FALSE
