CONSTANTS
  NoUser = "nobody"
  LocalId = "local"
  NoTeam = NoTeam
  Me = "me"
  Waiting = Waiting
  Failed = Failed
  Denied = Denied
  Broken = Broken
  NoGame = NoGame
  NoTeamShown = NoTeamShown
  Games <- MCGames
  Teams <- MCTeams
  GameFacts <- MCGameFacts
  TeamFacts <- MCTeamFacts
  Newest <- MCNewest
  ByName <- MCByName
  PageSize = 1
  FirstLimit = 1
  MoreLimit = 1
  MaxShown = 2
  Typed <- MCTyped
  Panels <- MCPanels
  TypedTeams <- MCTypedTeams
  TeamPanels <- MCTeamPanels
  Members = {"ann"}
  Demo = "demo"
  FirstRoster <- MCFirstRoster
  FirstSubs <- MCFirstSubs
  TeamPlayers <- MCTeamPlayers
  StarterCount = 3
  MaxEdits = 1
  Itineraries <- MCItineraries
SPECIFICATION Spec
CHECK_DEADLOCK FALSE

INVARIANTS CleanIsOnServer ListIsRight Adopted ShownAsAllowed SpinnersEnd QueryShowsInPanel ParsersAgree
PROPERTIES UnsyncedIsKept BackupIsComplete RestoredAreThere SavedAsShown SlotsKeepHistory
