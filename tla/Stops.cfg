SPECIFICATION EndingSpec
CONSTANTS
  Nodes = {"a", "b"}
  Needs <- Chain
  Rank <- ChainRank
  ContinueOnError = {"a"}
  Gated = {}
  Pure = {}
  CheckGenerated = {}
  Mounts = {}
  OnFailure = {}
  Always = {}
  Outcomes <- SucceedOrFail
  MaxAttempts <- Once
  MaxParallel = 1
  Group <- Ungrouped
  GroupLimit <- NoLimit
  BreakOnFailure = TRUE
  Requests <- Stops
  Budget = 2
  Interruptible = TRUE
INVARIANTS
  NeverStuck
PROPERTIES
  RunEnds

