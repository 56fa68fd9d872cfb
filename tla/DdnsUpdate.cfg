\* Two requests at a time, one name, an IPv4 and an IPv6 address, and one
\* fault of each kind.
SPECIFICATION Spec
CONSTANTS
  Handlers = {h1, h2}
  Name = {n1}
  V4 = {a}
  V6 = {b}
  BadIP = BadIP
  NoIP = NoIP
  NoRow = NoRow
  Nobody = Nobody
  MaxAdmin = 3
  MaxMoves = 2
  MaxNet = 1
  MaxStore = 1
  MaxCrash = 1
INVARIANTS
  LastIpTracksDns
  OwnMarks
PROPERTIES
  PollsSettle
CHECK_DEADLOCK FALSE
