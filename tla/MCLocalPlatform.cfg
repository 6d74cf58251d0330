\* Three jobs, two git calls in a build, one restart.
SPECIFICATION FairSpec
CONSTANTS
  Job = {j1, j2, j3}
  j1 = j1
  j2 = j2
  j3 = j3
  GitCalls = 2
  MaxCrashes = 1
  Key <- MCKey
  Request <- MCRequest
  KeyOf <- MCKeyOf
  Parent <- MCParent
  Nobody = Nobody
  Free = Free
INVARIANTS
  BaselineOfWholeTree
  OneScript
PROPERTIES
  ImagesAreForks
  NobodyWaitsForEver
CHECK_DEADLOCK FALSE
