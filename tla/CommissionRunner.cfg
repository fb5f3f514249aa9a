SPECIFICATION FairSpec
CONSTANTS
  Classes <- ReadOrSet
  MaxAttempts = 4
  MaxRuns = 3
INVARIANTS AdmissionGate RepairKnowsWhy HonestFailure PassMeansLive
PROPERTIES DriverOnlyImproves CommissionEnds
CHECK_DEADLOCK FALSE
