\* A run the platform cuts short, against the comment of runner.py.
SPECIFICATION Spec
CONSTANTS
  a = a
  i = i
  Call = {a, i}
  Scripts <- MCScripts
  Attempts = 2
  MaxInflight = 1
INVARIANT
  CutIsNeverRed
CHECK_DEADLOCK FALSE
