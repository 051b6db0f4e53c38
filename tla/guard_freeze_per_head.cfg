SPECIFICATION Spec
CONSTANTS
  NoFailure = NoFailure
  NoDependency = NoDependency
  NoSnapshot = NoSnapshot
  Heads = {"a", "b"}
  Phases = {"review"}
  Failures = {"tests"}
  Dependencies = {}
  RetryBudget = 0
  HeavyBudget = 0
  MaxCount = 0
  CallerStates = {"RUNNING"}
  CallerFreezes = {TRUE, FALSE}
INVARIANTS
  FreezePerHead
