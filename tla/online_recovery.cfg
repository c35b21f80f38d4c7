CONSTANTS
  Joiners = {j1}
  CreatorSeats = {"first"}
  Moves <- NamedMoves
  Legal <- FollowsSuit
  ToMove <- Alternating
  OutcomeOf <- SecondMoveWins
  Transformed <- Renamed
  MAX_RECENT_COMMANDS = 2
  MaxEvents = 2
  MaxLosses = 2

SPECIFICATION Spec
CHECK_DEADLOCK FALSE

PROPERTIES
  Reconnects
