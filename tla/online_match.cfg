CONSTANTS
  Joiners = {j1}
  CreatorSeats = {"first"}
  Moves <- NamedMoves
  Legal <- FollowsSuit
  ToMove <- Alternating
  OutcomeOf <- SecondMoveWins
  Transformed <- Renamed
  MAX_RECENT_COMMANDS = 2
  MaxEvents = 3
  MaxLosses = 1

SPECIFICATION Spec
CHECK_DEADLOCK FALSE

INVARIANTS
  OnlineTypeOK
  AnswerIsTrue
  QuietMeansAgreed
  WinnerIsTheRooms

PROPERTIES
  ActsOnWhatItSaw
  KeepsTheMatch
