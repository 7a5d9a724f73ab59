\* One inning of a three-batter lineup.
CONSTANTS
  a1 = a1
  a2 = a2
  a3 = a3
  h1 = h1
  h2 = h2
  h3 = h3
  x = x
  Slots = 3
  Innings = 1
  BallsForWalk = 1
  StrikesForOut = 2
  NoPlayer = NoPlayer
  Openings <- MCOpenings
  Pitches <- MCPitches
  Bips <- MCBips
  Ways <- MCWays
  MenuCodes <- MCMenuCodes
  Remote <- MCRemote
  Bench <- MCBench
  Bases <- MCBases
  Cells <- MCCells
  MaxLoose = 1
  MaxWaiting = 1
  MaxTaps = 7
SPECIFICATION Spec
INVARIANTS
  TypeOK
  LogTellsTheGame
  CellIsShown
  RunnersAreOnBase
  PlaysAreTold
  ScoresAgree
PROPERTIES
  UndoIsAStack
CHECK_DEADLOCK FALSE
