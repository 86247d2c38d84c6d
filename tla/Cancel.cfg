SPECIFICATION FairSpec
CONSTANTS
  Nodes = {"a", "b"}
  Needs <- Chain
  Rank <- ChainRank
  ContinueOnError = {}
  Gated = {"b"}
  Pure = {}
  CheckGenerated = {}
  Mounts = {}
  OnFailure = {}
  Always = {"a"}
  Outcomes <- SucceedOrFail
  MaxAttempts <- Once
  MaxParallel = 1
  Group <- Ungrouped
  GroupLimit <- NoLimit
  BreakOnFailure = FALSE
  Requests <- Retries
  Budget = 1
  Interruptible = TRUE
PROPERTIES
  
  RequestsAnswered
