\* An exporter that starts between the two scans, on a port that is its password.
CONSTANTS
  None = None
  AsInt <- MCAsInt
  AsTenths <- MCAsTenths
  Upper <- MCUpper
  Blank = {"", " "}
  Commands <- MCCommands
  Environments <- MCEnvironments
  Others <- MCOthers
  Scripts <- MCScripts
  Digits <- MCDigits
  MaxPid = 5
SPECIFICATION Spec
INVARIANTS
  OutputAsDocumented
CHECK_DEADLOCK FALSE
