SPECIFICATION Spec
CONSTANTS
  Clients = {pilot, mcp}
  Levels = {0, 1, 2}
  MaxAsks = 4
  MaxCommissions = 2
INVARIANTS LastWordWins TestLeavesOff
SYMMETRY ClientSymmetry
CHECK_DEADLOCK FALSE
