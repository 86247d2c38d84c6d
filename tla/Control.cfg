SPECIFICATION Spec
CONSTANTS
  Nodes = {"a", "b"}
  Needs <- Chain
  Rank <- ChainRank
  ContinueOnError = {}
  Gated = {}
  Pure = {}
  CheckGenerated = {}
  Mounts = {"b"}
  OnFailure = {"a"}
  Always = {"a"}
  Outcomes <- SucceedOrFail
  MaxAttempts <- Once
  MaxParallel = 1
  Group <- Ungrouped
  GroupLimit <- NoLimit
  BreakOnFailure = FALSE
  Requests <- Rewrites
  Budget = 3
  Interruptible = FALSE
INVARIANTS
  OneExecutionPerStep
  NeedsHold
PROPERTIES
  EveryStepReported
