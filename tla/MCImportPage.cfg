CONSTANTS
  Imports <- MCImports
  Lengths <- MCLengths
  PageLengths <- MCPageLengths
  Polls <- MCPolls
  MaxRequests = 3
  MaxLosses = 1
SPECIFICATION FairPageSpec
INVARIANTS
  PageTypeOK
  ProgressWithinTotal
  CompletedMeansQueried
PROPERTIES
  PageReleased
CHECK_DEADLOCK FALSE
