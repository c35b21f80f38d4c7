CONSTANTS
  Workers = {w1, w2}
  Positions = {p1, p2}
  NoWorker = NoWorker

SPECIFICATION FairSearchSpec

INVARIANTS
  SearchTypeOK
  BestMoveNeedsHit
  RegistrationIsLive

PROPERTIES
  GateMovesForward
  ReleasedWorkerEnds
