CONSTANTS
  Searches <- AnySearch
  MaxDepth = 3
  WinScore = 80
  UniqueRoot = 100
  Infinite = 1000
  NONE = NONE

SPECIFICATION Spec
CHECK_DEADLOCK FALSE

INVARIANTS
  TableIsTrue
  PublishedIsMinimax
  WinsAreForced
