\* Three candidates and two repairs, with everything that can go wrong.
SPECIFICATION FairSpec
CONSTANTS
  Fanout = 3
  MaxRepairs = 2
  CanRaise = TRUE
  Python311 = TRUE
INVARIANTS
  NothingLeftBehind
  GreenNeverExhausted
  SeedIsPair
PROPERTIES
  PromiseSpec
  TaskEnds
