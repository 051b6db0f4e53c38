SPECIFICATION FairSpec
CONSTANTS
  c1 = c1
  c2 = c2
  p1 = p1
  p2 = p2
  h1 = h1
  h2 = h2
  m1 = m1
  m2 = m2
  a1 = a1
  a2 = a2
  w1 = w1
  w2 = w2
  NoActor = NoActor
  Comments = {c1, c2}
  Pulls = {p1}
  Heads = {h1}
  Mains = {m1, m2}
  Actors = {a1, a2}
  Workflows = {w1, w2}
  Request <- AtlasRequests
  AtlasPulls = {p1}
  Sources <- AtlasSources
  InitialChecks <- AnyChecks
  MaxAttempts = 2
  MaxChanges = 2
INVARIANTS
  NegativeIsFinal
PROPERTIES
  KeepsToRequest
  RunEnds
CHECK_DEADLOCK FALSE
