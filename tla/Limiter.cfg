\* A rate of 1 per second in ticks of half a second: a token is 2 units, the
\* burst 4, a bucket full after 4 ticks.
CONSTANTS
  Clients = {c1, c2}
  Requests = {r1, r2}
  Rate = 1
  PerSecond = 2
  Minute = 6
  TenMinutes = 7
  Full = 1
  MaxLag = 1
  MaxClock = 10
  MaxCalls = 4
SPECIFICATION Spec
PROPERTIES
  IsTokenBucket
  RefusedOnlyWhenDry
CHECK_DEADLOCK FALSE
