\* Two editors, the poller and others over five records.
SPECIFICATION Spec
CONSTANTS
  e1 = e1
  e2 = e2
  ns1 = ns1
  ns2 = ns2
  a = a
  cname = cname
  glue = glue
  Editors = {e1, e2}
  Rec <- MCRec
  ApexNS <- MCApexNS
  Child <- MCChild
  RRsets <- MCRRsets
  Clash <- MCClash
  Zone0 <- MCZone0
  Keep = 2
  MaxEdits = 2
  MaxOthers = 1
  MaxFaults = 1
INVARIANTS
  TypeOK
  SnapshotsTrue
PROPERTIES
  RestorePoint
  RestoreExact
  HistoryCatchesUp
CHECK_DEADLOCK FALSE
