SPECIFICATION Spec
CONSTANTS
  Nodes = {"a", "b"}
  Needs <- Pair
  Rank <- PairRank
  ContinueOnError = {}
  Gated = {}
  Pure = {}
  CheckGenerated = {}
  Mounts = {}
  OnFailure = {}
  Always = {}
  Outcomes <- SucceedOrFail
  MaxAttempts <- Once
  MaxParallel = 2
  Group <- AllGrouped
  GroupLimit <- OneAtATime
  BreakOnFailure = FALSE
  Requests <- Retries
  Budget = 1
  Interruptible = FALSE
INVARIANTS
  GroupLimitHolds
