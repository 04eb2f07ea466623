SPECIFICATION SwtmrSpec
CONSTANTS
  LIMIT = 2
  MAX_TIMERID = 4
  QueueSize = 2
  Interval = {1, 3}
INVARIANTS
  BlocksAgree
PROPERTIES
  ExpiryKept
  ImplementsTimers
