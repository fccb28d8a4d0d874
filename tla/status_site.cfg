CONSTANTS
  NqLimit = 2
  CheckLimit = 1
  Checks = 1
  BuildLimit = 1
  Builds = 1
  RenderLimit = 3
  Period = 4
  ReportMaxAge = 4
  StaleAge = 11
  MaxTime = 12
SPECIFICATION Spec
CHECK_DEADLOCK FALSE
INVARIANTS
  TypeOK
  PublishedInOrder
  StaleMeansTwoLost
PROPERTIES
  AllClearIsRecent
