SPECIFICATION FairSpec
CONSTANTS
  oled = oled
  shtc3 = shtc3
  Addrs = {oled}
  QueueSize = 2
  WireSize = 1
  MaxPlugs = 3
  MaxConns = 2
  MaxVersions = 2
  MaxManual = 1
INVARIANTS StreamIntact CaughtUpConsoleAgrees
PROPERTIES PluggedIsShown
