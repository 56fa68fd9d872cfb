\* One edit, no operator event: a reload that rndc reports as failed.
SPECIFICATION Spec
CONSTANTS
  a = a
  x = x
  Free = Free
  NoText = NoText
  Writers = {w1, w2}
  RR <- MCRR
  Rejected <- MCRejected
  RawTexts <- MCRawTexts
  HandTexts <- MCHandTexts
  InitialText <- MCInitialText
  Keep = 1
  Today = 2
  SerialMod = 8
  MaxEdits = 1
  MaxOperator = 0
INVARIANT RolledBackNotServed
CHECK_DEADLOCK FALSE
