\* The algorithm ends with pc = "done", so deadlock is not an error.
CONSTANTS
  Cells = {1, 2, 3}
  none = none
  NoDesc = none
  Op <- Found
  Lists <- MCLists
  Contexts <- MCContexts
SPECIFICATION Spec
INVARIANTS
  NothingLost
  NoOperationTwice
  EmptyForAReason
  OrderIndependent
CHECK_DEADLOCK FALSE
