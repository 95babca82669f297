\* Sessions whose writes return at once, and sessions whose writes may block
\* for as long as the socket timeout lets them.
CONSTANTS
  Second = 1
  T = 3
  Budget = 6
  PerServer = 2
  MaxBudget = 9
  FloodRetries = 3
  MaxFloodWait = 3
  MaxReceived = 12
  Waits <- MCWaits
  Online <- MCOnline
  Chunks <- MCChunks
  SendTimes <- Blocking
SPECIFICATION FairSpec
INVARIANTS
  EndsByDeadline
  OutcomeHonest
PROPERTIES
  DeadlineCapped
  OnlyWritesOverrun
  KeepsContract
