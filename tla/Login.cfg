\* Two requests at once; the lock is 1, 2, 3, 3 minutes and an unclamped shift
\* would wrap at the fourth.
CONSTANTS
  Handlers = {h1, h2}
  Clients = {c1}
  Hashes = {p1, p2}
  None = none
  Threshold = 2
  Window = 3
  MaxShift = 2
  Width = 4
  MaxKeys = 0
  Cap = 6
SPECIFICATION LoginFairSpec
INVARIANTS
  LoginTypeOK
  SessionsKnowPassword
  GuessesBounded
PROPERTIES
  LocksEnd
