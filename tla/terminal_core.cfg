SPECIFICATION Spec
CONSTANTS
  MaxStarts = 2
  MaxConns = 2
  MaxAttempts = 2
  MaxPending = 1
  MaxBuffer = 1
  MaxOwned = 1
  MaxOutput = 1
  MaxInput = 1
  MaxKicks = 0
  MaxFaults = 1
INVARIANTS TypeOK NewestKeepsCallbacks InputReachesItsShell ScreenIsOneShell
CHECK_DEADLOCK FALSE
