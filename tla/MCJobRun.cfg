SPECIFICATION FairSpec
CONSTANTS
  Tasks = {t1, t2, t3}
  Handlers = {h1, h2}
  t1 = t1
  t2 = t2
  t3 = t3
  h1 = h1
  h2 = h2
  MaxParallel = 2
  DiscardPercent = 50
  Surroundings = {{"crash", "cut", "python311"}, {"raise", "cut", "python311"}, {"raise", "crash", "cut"}, {"raise", "crash", "python311"}}
INVARIANTS
  PublishedIsTested
  VerdictIsEarned
PROPERTIES
  EndIsFinal
  JobEnds
  CancelTakes
CHECK_DEADLOCK FALSE
