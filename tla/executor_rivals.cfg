SPECIFICATION Spec
CONSTANTS
  c1 = c1
  c2 = c2
  p1 = p1
  p2 = p2
  h1 = h1
  h2 = h2
  m1 = m1
  m2 = m2
  a1 = a1
  a2 = a2
  w1 = w1
  w2 = w2
  NoActor = NoActor
  Comments = {c1, c2}
  Pulls = {p1}
  Heads = {h1, h2}
  Mains = {m1, m2}
  Actors = {a1}
  Workflows = {w1}
  Request <- RivalRequests
  AtlasPulls = {}
  Sources <- OneSource
  InitialChecks <- AllPassed
  MaxAttempts = 2
  MaxChanges = 1
INVARIANTS
  AtMostOnePut
  PutOnFreshFacts
  ReceiptIsOwn
  HandleNotLost
  AcceptedIsOnRecord
  ReconcileBindsHead
PROPERTIES
  FirstOutcomeIsLast
  KeepsPromise
CHECK_DEADLOCK FALSE
