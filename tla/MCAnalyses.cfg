\* Every analysis on its small inputs.
SPECIFICATION Spec
CONSTANTS
  Blank <- MCBlank
  Files <- MCFiles
  Replies <- MCReplies
  Target = "target"
  Radius = {"target", "test"}
  Guarded = {"test"}
  NoSymbol = NoSymbol
  Graphs <- MCGraphs
  NoFn = NoFn
  Comparisons <- MCComparisons
  ImpactInputs <- MCImpactInputs
  CleanupInputs <- MCCleanupInputs
  IntegrationInputs <- MCIntegrationInputs
  Unmeasured = Unmeasured
  Private <- MCPrivate
  Unanswered = Unanswered
  Changes <- MCChanges
  Caps <- MCCaps
INVARIANTS
  RadiusIsReach
  AppliesAlike
  CompatIsBinding
  NotBreakingBreaksNothing
  CallersFit
  NothingDangles
  PassedIsChecked
  AuditIsSound
PROPERTIES
  PlacedExactly
CHECK_DEADLOCK FALSE
