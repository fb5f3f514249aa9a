SPECIFICATION NarratorFairSpec
CONSTANTS
  RotateTicks = 1
  CardTicks = 1
  HoldTicks = 1
  RetryTicks = 1
  MaxCommissions = 1
  MaxSays = 1
  MaxFaults = 2
  MaxInbox = 2
INVARIANTS PanelShowsLastPayload
PROPERTIES PanelCatchesUp CardComesDown
