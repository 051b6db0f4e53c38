SPECIFICATION Spec
CONSTANTS
  NoLocator = NoLocator
  NoCheckpoint = NoCheckpoint
  NoCoordinates = NoCoordinates
  l1 = l1
  Workers = {v, w}
  Coordinates = {c1, c2}
  Locators = {l1}
  Replacing = {l1}
  Armable = {"scheduled_task"}
  Proposals <- Proposed
  BoundedStates = {"RUNNING", "WAITING_EXTERNAL", "DONE"}
  MaxUsed = 1
  MaxChanges = 1
  MaxCheckpoints = 2
SYMMETRY Interchangeable
INVARIANTS
  
  TerminalityAgrees
PROPERTIES
  ResumeResetsNothing
CHECK_DEADLOCK FALSE
