\* Two polls and any number of scrapes.
CONSTANTS
  v1 = v1  v2 = v2
  a = a  b = b
  A = A  B = B
  None = None
  NFields = 2
  MaxPolls = 2
  Ids <- MCIds
  Names <- MCNames
  Labels <- MCLabels
  label_value <- MCLabelValue
  Unnamed <- MCUnnamed
  Values <- MCValues
  Statuses <- MCStatuses
  Listings <- MCListings
  Infos <- MCInfos
  Times <- MCTimes
SPECIFICATION ScrapeSpec
INVARIANTS
  ScrapeWhole
  ScrapeContinuity
  ScrapeBelongs
