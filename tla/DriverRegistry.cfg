SPECIFICATION Spec
CONSTANTS
  pilot = pilot
  mcp = mcp
  Tools = {pilot, mcp}
  Poller = Poller
  Commission = Commission
  Nobody = Nobody
  Capacity = 3
  MaxVersions = 3
  MaxEvents = 2
SYMMETRY ToolSymmetry
INVARIANTS StaleByAtMostOneSwap PollerRunsRegistered HistoryAtMostOneSwapBack
