\* Two polls and up to two signals at any point of the process's life.
CONSTANTS
  v1 = v1
  a = a
  A = A
  None = None
  NFields = 1
  MaxPolls = 2
  MaxSignals = 2
  Ids <- MCIds
  Names <- MCNames
  Labels <- MCLabels
  label_value <- MCLabelValue
  Unnamed <- MCUnnamed
  Values <- MCValues
  Statuses <- MCStatuses
  Listings <- MCListings
  Infos <- MCInfos
  Times <- MCTimes
SPECIFICATION ExporterSpec
INVARIANTS
  CleanStop
  OnlyStartupFails
PROPERTIES
  StopsWhenAsked
