SPECIFICATION FairSpec
CONSTANTS
  Tasks = {t1, t2, t3, t4}
  Workers = {w1}
  NumDps = 1
  PipeCap = 1
  MergeCount = 1
  SplitSize = 1
  Outcomes = {"rows", "empty"}
  Faults = {}
  Empty = Empty
CHECK_DEADLOCK FALSE
PROPERTIES SweepCompletes ProcessorsStop MainEndsUnlessStuck
