\* Two concurrent writers, two edits, two operator events, one backup kept.
SPECIFICATION Spec
CONSTANTS
  a = a
  x = x
  Free = Free
  NoText = NoText
  Writers = {w1, w2}
  RR <- MCRR
  Rejected <- MCRejected
  RawTexts <- MCRawTexts
  HandTexts <- MCHandTexts
  InitialText <- MCInitialText
  Keep = 1
  Today = 2
  SerialMod = 8
  MaxEdits = 2
  MaxOperator = 2
INVARIANTS
  BackupHeld
  BrokenOnlyByHand
PROPERTIES
  WritersSerialize
  EditsAtomic
  SerialAdvances
  AppliedReachesNamed
  EditReturns
CHECK_DEADLOCK FALSE
