CONSTANTS
  Joiners = {j1}
  CreatorSeats = {"first"}
  Moves <- NamedMoves
  Legal <- FollowsSuit
  ToMove <- Alternating
  OutcomeOf <- SecondMoveWins
  Transformed <- Renamed
  MAX_RECENT_COMMANDS = 2
  MaxEvents = 2
  MaxLosses = 1

SPECIFICATION Spec
CHECK_DEADLOCK FALSE

PROPERTIES
  ResignSaysWhetherAccepted
