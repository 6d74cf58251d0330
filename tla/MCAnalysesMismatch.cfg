\* Does the impact gate block on definite mismatches alone?
SPECIFICATION Spec
CONSTANTS
  Blank <- MCBlank
  Files <- MCFiles
  Replies <- MCReplies
  Target = "target"
  Radius = {"target", "test"}
  Guarded = {"test"}
  NoSymbol = NoSymbol
  Graphs <- MCGraphs
  NoFn = NoFn
  Comparisons <- MCComparisons
  ImpactInputs <- MCImpactInputs
  CleanupInputs <- MCCleanupInputs
  IntegrationInputs <- MCIntegrationInputs
  Unmeasured = Unmeasured
  Private <- MCPrivate
  Unanswered = Unanswered
  Changes <- MCChanges
  Caps <- MCCaps
INVARIANTS
  DefiniteMismatch
CHECK_DEADLOCK FALSE
