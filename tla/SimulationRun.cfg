SPECIFICATION MCSpec
CONSTANTS
  Forever = 10
  SwitchTicks = 2
  MaxGuest = 2
  Options <- MCOptions
  StageUnits = 2
  TickLimits <- MCTickLimits
INVARIANTS MCInv CheckpointsAsAsked RegionIsMeasured
PROPERTY EveryRunEnds
