\* One host, two writes, one SIGHUP or stop, one ACME or bind failure.
SPECIFICATION Spec
CONSTANTS
  h1 = h1
  k1 = k1
  k2 = k2
  NoKey = NoKey
  Host <- MCHost
  MainTexts <- MCMainTexts
  FragTexts <- MCFragTexts
  KeyTexts <- MCKeyTexts
  MaxWrites = 2
  MaxHups = 1
  MaxFailures = 1
INVARIANTS
  TypeOK
  InStep
PROPERTIES
  Converges
  CertsFollow
