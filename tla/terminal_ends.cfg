SPECIFICATION Spec
CONSTANTS
  MaxStarts = 1
  MaxConns = 2
  MaxAttempts = 2
  MaxPending = 1
  MaxBuffer = 1
  MaxOwned = 1
  MaxOutput = 0
  MaxInput = 0
  MaxKicks = 1
  MaxFaults = 2
PROPERTIES EndIsSeen ReconnectingEnds 
CHECK_DEADLOCK FALSE
