SPECIFICATION NetSpec
CHECK_DEADLOCK FALSE
CONSTANTS
  Jobs = {j1, j2}
  j1 = j1
  j2 = j2
  Symbols = {"m.Z.b", "m.c", "z.b"}
  Files = {"m.py", "z.py"}
  FileOf <- MCFileOf
  Reach <- MCReach
  Requests <- MCRequests
  Fqn <- MCFqn
  Resolve <- MCResolve
  PathOf <- MCPathOf
  Names = {"test_a", "test_b", "method"}
  Methods = {"method"}
SYMMETRY MCSymmetry
INVARIANTS
  GateRunsOnDisk
  NetOrBorrowed
  NetPublished
