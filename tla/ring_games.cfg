CONSTANTS
  Nodes <- RingNodes
  Neighbors <- RingNeighbors
  StandardLines <- RingLines
  DiagonalLines <- NoLines
  EdgeLines <- RingEdgeLines
  CrossLines <- NoLines
  HistoryCap = 4
  Variants <- ObservedRing

SPECIFICATION FairHistorySpec
CHECK_DEADLOCK FALSE

INVARIANTS
  OngoingHasLegalAction
  ActionCoherent
  LossDeclaredAtOnce
  StalemateMeansNoMove
  NMoveRuleBites

PROPERTIES
  GameEnds
  PaidMillPaysNoMore
  NoShuttleMill
