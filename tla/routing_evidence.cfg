SPECIFICATION Spec
CONSTANTS
  NoRecord = NoRecord
  a1 = a1
  a2 = a2
  p1 = p1
  h1 = h1
  h2 = h2
  Attempts = {a1, a2}
  Pulls = {p1}
  Heads = {h1, h2}
  Freezes <- MCFreezes
  Surfaces <- MCSurfaces
  MaxAuthorizationAge = 0
  MaxReceiptAge = 1
  MaxPostAge = 0
  MaxTime = 1
  MaxSequence = 2
  MaxChanges = 1
SYMMETRY Interchangeable
INVARIANTS
  RequestIsQualified
  AcceptedIsOurs
  ConfirmedAfterAnswer
  ConfirmedIsFresh
CHECK_DEADLOCK FALSE
