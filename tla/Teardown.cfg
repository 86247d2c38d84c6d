SPECIFICATION Spec
CONSTANTS
  Nodes = {"a", "b", "c"}
  Needs <- Fork
  Rank <- ForkRank
  ContinueOnError = {}
  Gated = {}
  Pure = {}
  CheckGenerated = {}
  Mounts = {}
  OnFailure = {"a"}
  Always = {"a", "b"}
  Outcomes <- SucceedOrFail
  MaxAttempts <- Once
  MaxParallel = 1
  Group <- Ungrouped
  GroupLimit <- NoLimit
  BreakOnFailure = FALSE
  Requests = {}
  Budget = 0
  Interruptible = TRUE
INVARIANTS
  TypeOK
  OneFinishPerExecution
  ResultMatchesLedger
  AlwaysAtMostOnce
  AlwaysRan
PROPERTIES
  CleanupInsideTheLedger
