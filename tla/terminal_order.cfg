SPECIFICATION Spec
CONSTANTS
  MaxStarts = 1
  MaxConns = 2
  MaxAttempts = 2
  MaxPending = 1
  MaxBuffer = 2
  MaxOwned = 1
  MaxOutput = 2
  MaxInput = 0
  MaxKicks = 0
  MaxFaults = 0
INVARIANTS OutputInOrder
CHECK_DEADLOCK FALSE
