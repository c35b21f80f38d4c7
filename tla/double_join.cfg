CONSTANTS
  Joiners = {j1, j2}
  CreatorSeats = {"first"}
  Moves <- NamedMoves
  Legal <- FollowsSuit
  ToMove <- Alternating
  OutcomeOf <- SecondMoveWins
  Transformed <- Renamed
  MAX_RECENT_COMMANDS = 2
  MaxEvents = 1
  MaxLosses = 0

SPECIFICATION Spec
CHECK_DEADLOCK FALSE

INVARIANTS
  JoinsOnce
