SPECIFICATION Spec
CONSTANTS
  MaxExecs = 3
  MaxResets = 1
  MaxChatter = 1
  MaxFaults = 1
INVARIANTS ReplyIsOwn CleanLineIsSynced
PROPERTY StaleCodeNeverRuns
CHECK_DEADLOCK FALSE
