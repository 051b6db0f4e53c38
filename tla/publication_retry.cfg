SPECIFICATION FairSpec
CONSTANTS
  p1 = p1
  p2 = p2
  r1 = r1
  r2 = r2
  base = base
  ours = ours
  theirs = theirs
  path1 = path1
  path2 = path2
  Absent = Absent
  Free = Free
  Publishers = {p1, p2}
  Repos = {r1}
  Shas = {base, ours}
  Candidate <- Retry
  Expected <- FromBase
  Bundle <- OnePath
  Ancestors <- Line
  Endpoints = {TRUE}
  Interference = {"raw", "unlock"}
  MaxChanges = 2
INVARIANTS
  BundleBeforePush
PROPERTIES
  PublishEnds
CHECK_DEADLOCK FALSE
