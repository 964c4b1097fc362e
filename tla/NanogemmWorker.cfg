SPECIFICATION WorkerSpec
CONSTANTS
  Mrs <- MCMrs
  Nrs <- MCNrs
  SimdWidths = {128, 256, 512, 1024}
  Assocs = {4, 8, 16}
  L1Sizes = {32, 64, 128}
  Isas = {"aarch64", "riscv64"}
  CoreSettings <- MCCoreSettings
  Followed <- MCFollowed
  NumBuckets = 2
  Sizes = {1, 2}
  MaxCount = 1
  MaxRuns = 3
CHECK_DEADLOCK FALSE
INVARIANTS
  RunsWhatIsBuilt KernelNumbers CoreTakesParameters StatsInv FrameIsComplete
