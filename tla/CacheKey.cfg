SPECIFICATION Spec
CONSTANTS
  Nodes = {"a", "b"}
  Needs <- Chain
  Rank <- ChainRank
  ContinueOnError = {}
  Gated = {}
  Pure = {"a"}
  CheckGenerated = {}
  Mounts = {}
  OnFailure = {"a"}
  Always = {}
  Outcomes <- SucceedOrFail
  MaxAttempts <- Once
  MaxParallel = 1
  Group <- Ungrouped
  GroupLimit <- NoLimit
  BreakOnFailure = FALSE
  Requests = {}
  Budget = 0
  Interruptible = FALSE
INVARIANTS
  FailureRunsHandlers
