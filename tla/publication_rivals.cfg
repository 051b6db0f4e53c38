SPECIFICATION Spec
CONSTANTS
  p1 = p1
  p2 = p2
  r1 = r1
  r2 = r2
  base = base
  ours = ours
  theirs = theirs
  path1 = path1
  path2 = path2
  Absent = Absent
  Free = Free
  Publishers = {p1, p2}
  Repos = {r1, r2}
  Shas = {base, ours, theirs}
  Candidate <- Rivals
  Expected <- FromBase
  Bundle <- OwnPaths
  Ancestors <- Fork
  Endpoints = {TRUE, FALSE}
  Interference = {"git", "swap", "work"}
  MaxChanges = 2
INVARIANTS
  PublishedIsTrue
  VerdictIsCurrent
  NothingOverwritten
  LocksReleased
  BundleBeforePush
PROPERTIES
  KeepsUpdate
CHECK_DEADLOCK FALSE
SYMMETRY EitherRepo
