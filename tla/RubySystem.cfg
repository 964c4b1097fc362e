SPECIFICATION FairSpec
CONSTANTS
  Configs <- MCConfigs
  MaxPackets = 4
CHECK_DEADLOCK FALSE
INVARIANTS Consistent DeadlockFree MemoryIsReached
PROPERTY EveryPacketArrives
