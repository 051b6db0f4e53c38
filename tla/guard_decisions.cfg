SPECIFICATION Spec
CONSTANTS
  NoFailure = NoFailure
  NoDependency = NoDependency
  NoSnapshot = NoSnapshot
  Heads = {"a", "b"}
  Phases = {"review"}
  Failures = {"tests"}
  Dependencies = {"external"}
  RetryBudget = 1
  HeavyBudget = 1
  MaxCount = 1
  CallerStates = {"RUNNING", "DONE"}
  CallerFreezes = {TRUE, FALSE}
INVARIANTS
  FrozenEditIsReasoned
  HeavyBudgetHolds
  RetryBudgetHolds
PROPERTIES
  FreezeOutlivesCaller
  WorkNeedsProgress
