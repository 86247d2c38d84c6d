SPECIFICATION Spec
CONSTANTS
  Nodes = {"a", "b"}
  Needs <- Pair
  Rank <- PairRank
  ContinueOnError = {}
  Gated = {}
  Pure = {"b"}
  CheckGenerated = {}
  Mounts = {}
  OnFailure = {}
  Always = {}
  Outcomes <- AnyOfFirst
  MaxAttempts <- FirstTwice
  MaxParallel = 1
  Group <- OneGrouped
  GroupLimit <- OneAtATime
  BreakOnFailure = FALSE
  Requests <- Retries
  Budget = 1
  Interruptible = TRUE
INVARIANTS
  SlotsAccounted
PROPERTIES
  FreshAttempts
