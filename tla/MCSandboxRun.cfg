\* One permit, two calls, two tries each.
SPECIFICATION FairSpec
CONSTANTS
  a = a
  i = i
  Call = {a, i}
  Scripts <- MCScripts
  Attempts = 2
  MaxInflight = 1
INVARIANTS
  PermitsBalance
  KnownIsStopped
  OkIsGreenRun
PROPERTIES
  CallsEnd
CHECK_DEADLOCK FALSE
