SPECIFICATION Spec
CONSTANTS
  GccPatches = 3
  Faults = {"download", "unpack", "build", "interrupt"}
  MaxFaults = 3
  MaxRuns = 2
INVARIANTS Inv GccIsComplete PatchedTreeBlocks
PROPERTY BadArchiveStays
