SPECIFICATION MCSpec
CONSTANTS
  Jobs <- MCJobs
  MaxFiles = 1
  Cores = 2
  DfMergeCount = 1
  Tables <- MCTables
  Thresholds <- MCThresholds
CONSTRAINT Bounded
CHECK_DEADLOCK FALSE
INVARIANTS RunApart LostOnlyToSibling RowsKept ParetoListsCorners
