SPECIFICATION Spec
CONSTANTS
  MaxForRange = 4
  AdcPins = {26, 27}
  MaxLen = 8
  Recent = 2
  MinStatus = 2
  MinVariance = 4
  RailCount = 1
  DriftFloor = 2
  StaleFactor = 1
  Interval = 2
  EtaCap = 2
  Programs <- MCPrograms
  Specs <- MCSpecs
  Readings <- MCReadings
  Samples = {0, 2, 5}
  MaxPoints = 6
  Slack = 1
INVARIANTS BlessedIsSound ConsoleAgrees SilenceIsCaught
PROPERTIES VerdictsAgree UnitsDoNotMatter
CHECK_DEADLOCK FALSE
