\* Two handshakes at once, two renewals, a covered name and another one.
CONSTANTS
  Handshakes = {h1, h2}
  Boot = boot
  Names = {n1, n2}
  Covered = {n1}
  Blank = none
  MaxRenewals = 2
  MaxExpired = 1
  MaxReloads = 1
SPECIFICATION CertsFairSpec
INVARIANTS
  CertsTypeOK
  NoNeedlessOrder
PROPERTIES
  RenewalServed
