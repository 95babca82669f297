\* A check while the processes of its container start, exec and exit.
CONSTANTS
  None = None
  AsInt <- MCAsInt
  AsTenths <- MCAsTenths
  Upper <- MCUpper
  Blank = {"", " "}
  Commands <- MCCommands
  Environments <- MCEnvironments
  Others <- MCOthers
  Scripts <- MCScripts
  Digits <- MCDigits
  MaxPid = 5
SPECIFICATION Spec
INVARIANTS
  TypeOK
  HealthyWhenServing
  PasswordsHidden
  OverriddenReported
\* The check is done, or no pid is left for it; an exporter that is PID 1 and
\* cannot start ends its container.
CHECK_DEADLOCK FALSE
