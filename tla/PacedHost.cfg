\* A throttling host with the limits of the code and of TeamSpeak.
CONSTANTS
  Second = 5
  T = 50
  Budget = 300
  PerServer = 25
  MaxBudget = 4500
  FloodRetries = 3
  MaxFloodWait = 50
  MaxReceived = 100000
  Waits = {}
  Online <- MCOnline
  Chunks <- MCChunks
  SendTimes <- AtOnce
  Allowance = 10
  Window = 15
  Latencies <- MCLatencies
  Earlier <- MCEarlier
SPECIFICATION PacedSpec
INVARIANTS
  RetriesSuffice
PROPERTIES
  ReadCompletely
