\* Simplification of pipelines; toString ends, so the system stops
SPECIFICATION FairSpec
CONSTANTS
  Inputs <- MCInputs
  Points <- MCPoints
INVARIANTS TypeOK SameBothWays StacksEmptied NothingLeftToCancel
PROPERTIES Terminates
CHECK_DEADLOCK FALSE
