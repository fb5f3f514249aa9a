SPECIFICATION FairSpec
CONSTANTS
  tool = tool
  scan = scan
  commission = commission
  commission2 = commission2
  Callers = {tool, scan}
  Daemons = {scan}
  Owners = {commission}
  Poller = Poller
  NoTask = NoTask
  MaxOps = 1
PROPERTIES WaiterServed TelemetryResumes ShutdownEnds
