SPECIFICATION Spec
CONSTANTS
  Consoles = {b1}
  Conns = {c1, c2}
  NoConn = NoConn
  MaxTurns = 3
  MaxWords = 1
  MaxCrashes = 1
INVARIANTS ConversationIsKept MessageIsOneAnswer
SYMMETRY ChatSymmetry
CHECK_DEADLOCK FALSE
