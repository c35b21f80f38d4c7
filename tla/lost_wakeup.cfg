CONSTANTS
  Workers = {w1}
  Positions = {p1}
  NoWorker = NoWorker

SPECIFICATION FairSearchSpec

PROPERTIES
  HitIsAnswered
