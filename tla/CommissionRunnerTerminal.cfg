SPECIFICATION Spec
CONSTANTS
  Classes <- ReadOrSet
  MaxAttempts = 2
  MaxRuns = 1
INVARIANTS TerminalEventAlwaysSent
CHECK_DEADLOCK FALSE
