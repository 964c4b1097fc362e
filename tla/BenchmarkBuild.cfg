SPECIFICATION FairSpec
CONSTANTS
  Faults = {"make", "interrupt"}
  MaxFaults = 3
  Repair = "clean"
INVARIANTS Inv UndisturbedRunsComplete
PROPERTIES PatchedTreeBlocks RepairedBuildCompletes
