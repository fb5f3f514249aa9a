SPECIFICATION Spec
CONSTANTS
  tool = tool
  scan = scan
  commission = commission
  commission2 = commission2
  Callers = {tool, scan}
  Daemons = {scan}
  Owners = {commission, commission2}
  Poller = Poller
  NoTask = NoTask
  MaxOps = 2
SYMMETRY OwnerSymmetry
INVARIANTS OneThreadOnTheWire PollerSilenced NoCodeOnDirtyLine TelemetrySurvives
PROPERTIES NoOvertaking ImplementsBoardAccess
