SPECIFICATION Spec
CONSTANTS
  NoRecord = NoRecord
  Workers = {w}
  Logins = {ann, bob}
  Mains = {m1, m2}
  Pinned = {m1}
  MaxAge = 1
  MaxTime = 3
  MaxChanges = 1
SYMMETRY Interchangeable
INVARIANTS
  ReleaseHadRoute
  SubmittedByProvedMain
PROPERTIES
  KeepsToRequest
CHECK_DEADLOCK FALSE
