CONSTANTS
  Nodes <- SectorNodes
  Neighbors <- SectorNeighbors
  StandardLines <- SectorLines
  DiagonalLines <- SectorDiagonalLines
  EdgeLines <- SectorEdgeLines
  CrossLines <- SectorCrossLines
  HistoryCap = 2
  Variants <- SectorVariants

SPECIFICATION Spec
CHECK_DEADLOCK FALSE
CONSTRAINT InTwoMills

INVARIANTS
  TypeOK
  OngoingHasLegalAction
  ObligationsCoherent
  MaterialAccounted
  PhaseFollowsHand
  ResultIsEarned
  PathsAgree
  UndoRestores
  FenKeepsTheGame

PROPERTIES
  MillProtection
