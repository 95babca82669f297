\* A session whose writes block runs past its deadline.
CONSTANTS
  Second = 1
  T = 3
  Budget = 6
  PerServer = 2
  MaxBudget = 9
  FloodRetries = 3
  MaxFloodWait = 3
  MaxReceived = 12
  Waits <- MCWaits
  Online <- MCOnline
  Chunks <- MCChunks
  SendTimes <- Blocking
SPECIFICATION Spec
INVARIANTS
  DeadlineAsDocumented
