CONSTANTS
  Nodes <- ArcNodes
  Neighbors <- ArcNeighbors
  StandardLines <- ArcLines
  DiagonalLines <- NoLines
  EdgeLines <- NoLines
  CrossLines <- NoLines
  SnapshotWindow = 2
  SetupPositions <- ArcPositions
  HistoryCap = 12
  Variants <- RepeatingVariants

SPECIFICATION KernelSpec
CHECK_DEADLOCK FALSE
CONSTRAINT ShortPlacing

INVARIANTS
  ThreefoldIsDrawn
  SearchSeesRepetitions

PROPERTIES
  ImplementsGameLine
