SPECIFICATION Spec
CONSTANTS
  Points = {"a", "b", "c"}
  Searches <- MCSearches
  MaxArray = 2
INVARIANTS
  LastUsedIsProducer
  MoreAccurateOnesFailed
  BestOrNothing
  NoOperationIsTrue
  ArrayReportsFailures
  NetworkErrorIsOfThisPoint
CHECK_DEADLOCK FALSE
