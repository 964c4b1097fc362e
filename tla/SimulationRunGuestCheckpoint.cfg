SPECIFICATION MCSpec
CONSTANTS
  Forever = 10
  SwitchTicks = 2
  MaxGuest = 2
  Options <- MCOptions
  StageUnits = 1
  TickLimits = {0}
INVARIANT GuestCheckpointsAreSkipped
