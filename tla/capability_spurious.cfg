SPECIFICATION Spec
CONSTANTS
  NoRecord = NoRecord
  Workers = {w}
  Logins = {ann, bob}
  Mains = {m1, m2}
  Pinned = {m1}
  MaxAge = 1
  MaxTime = 2
  MaxChanges = 2
SYMMETRY Interchangeable
INVARIANTS
  BlockedIsUnproven
CHECK_DEADLOCK FALSE
