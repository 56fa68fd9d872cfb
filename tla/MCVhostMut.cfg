\* Two writers with three jobs in all, and an operator who edits a file.
CONSTANTS
  a = a
  b = b
  adm = adm
  r1 = r1
  Hosts <- MCHosts
  AdminHost = adm
  Base = base
  Other = other
  Rules = {r1}
  NoRule = NoRule
  Writers = {w1, w2}
  HandTexts <- MCHandTexts
  MaxHands = 1
  MaxJobs = 3
SPECIFICATION Spec
PROPERTIES
  OwnRulesOnly
  StaysLoadable
  SetIsOwned
CHECK_DEADLOCK FALSE
