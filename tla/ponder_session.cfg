CONSTANTS
  Workers = {w1, w2}
  Positions <- GamePositions
  NoWorker = NoWorker
  HumanTurns <- QuietMillOrWin
  WinningTurns <- Win
  MaxTurns = 2

SPECIFICATION FairSpec
CHECK_DEADLOCK FALSE

INVARIANTS
  SessionTypeOK
  OneSearchAtATime
  HitIsForThisPosition

PROPERTIES
  TurnOnlyHangsUnattended
