CONSTANTS
  Workers = {w1, w2}
  Positions <- GamePositions
  NoWorker = NoWorker
  HumanTurns <- QuietOrMill
  WinningTurns <- None
  MaxTurns = 2

SPECIFICATION Spec
CHECK_DEADLOCK FALSE

INVARIANTS
  CancelReachesWorker
