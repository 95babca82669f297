\* Three polls of a host with two virtualservers.
CONSTANTS
  v1 = v1  v2 = v2
  a = a  aCut = aCut  b = b
  A = A  B = B
  None = None
  NFields = 2
  MaxPolls = 3
  Ids <- MCIds
  Names <- MCNames
  Labels <- MCLabels
  label_value <- MCLabelValue
  Unnamed <- MCUnnamed
  Values <- MCValues
  Statuses <- MCStatuses
  Listings <- MCListings
  Infos <- MCInfos
  Times <- MCTimes
SPECIFICATION FairSpec
INVARIANTS
  TypeOK
  SnapshotWhole
  AppliedComplete
  ReadingsBelong
  MemoryBounded
  WarnedExactlyOnce
  StatusLogged
  SelfMetricsAgree
PROPERTIES
  ImplementsSnapshot
  KeepsContract
