SPECIFICATION Spec
CONSTANTS
  Tasks = {t1, t2, t3, t4}
  Workers = {w1, w2}
  NumDps = 2
  PipeCap = 1
  MergeCount = 1
  SplitSize = 1
  Outcomes = {"rows", "raise", "die"}
  Faults = {"interrupt", "dpcrash"}
  Empty = Empty
SYMMETRY Symmetry
CHECK_DEADLOCK FALSE
INVARIANTS
  TypeOK AtMostOnce NothingDropped LostOnlyBehindTheEnd ExitedIsEmptyHanded
  FailureLeavesProcessorsWaiting MemoryBounded
PROPERTY SinkSpec
