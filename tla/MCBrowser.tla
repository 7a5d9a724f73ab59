----------------------------- MODULE MCBrowser -----------------------------
(***************************************************************************)
(* A library of two games, the demo game and one team; pages of one entry, *)
(* so that lists come in several.                                          *)
(***************************************************************************)
EXTENDS Browser

MCGames == {"g1", "g2", "demo"}
MCTeams == {"t1"}
Fact(date, sides) ==
  [demo |-> FALSE, public |-> FALSE, granted |-> "none", sides |-> sides,
   event |-> <<"cup">>, location |-> <<"park">>, away |-> <<"lions">>, home |-> <<"owls">>,
   date |-> date]
MCGameFacts ==
  [g \in MCGames |->
    CASE g = "g1" -> Fact(<<"d1">>, {"t1"})
      [] g = "g2" -> [Fact(<<"d2">>, {}) EXCEPT !.granted = "read"]
      [] g = "demo" -> [Fact(<<"d3">>, {}) EXCEPT !.demo = TRUE, !.event = <<"demo">>]]
MCTeamFacts == [t \in MCTeams |-> [role |-> "none", name |-> <<"lions">>]]
MCNewest == <<"demo", "g2", "g1">>
MCByName == <<"t1">>

MCTyped ==
  {<<>>, <<"is", ":", "local">>, <<"cup">>,
   <<"event", ":", "\"", "cup", " ", "final", "\"", " ", "lions">>,
   <<"date", ":", ">=", "d2">>, <<"date", ":", "d1", "..", "d2", " ", "\"", "a", " ", "b", "\"">>,
   <<"event", ":", "cup", ":", "final">>, <<"date", ":", "\"", "d1", "\"", "..", "d2">>}
MCPanels ==
  {[EmptyPanel EXCEPT !.event = <<"cup">>, !.start = <<"d1">>, !.end = <<"d2">>],
   [EmptyPanel EXCEPT !.event = <<"cup", " ", "final">>, !.end = <<"d2">>, !.remote = TRUE],
   [EmptyPanel EXCEPT !.location = <<"park">>, !.team = <<"lions", " ", "b">>,
                      !.start = <<"d1">>, !.local = TRUE]}
MCTypedTeams == {<<>>, <<"owls">>}
MCTeamPanels == {[EmptyPanel EXCEPT !.name = <<"lions", " ", "b">>, !.remote = TRUE]}

Base == MaxEdits + 2
Game(log, owner, dirty) == [log |-> log, owner |-> owner, start |-> owner, dirty |-> dirty]
Team(ver, owner, dirty) == [ver |-> ver, owner |-> owner, dirty |-> dirty]
Copy(log, owner, share) == [log |-> log, owner |-> owner, share |-> share, gone |-> FALSE]
NoGames == [g \in MCGames |-> Absent]
Nothing == [games |-> NoGames, teams |-> [t \in MCTeams |-> Absent], stats |-> NoGames]

(* In step with the server, another user's game on it. *)
Tidy ==
  [db |-> [Nothing EXCEPT !.games["g1"] = Game(<<Base>>, Me, FALSE),
                          !.teams["t1"] = Team(Base, Me, FALSE)],
   srv |-> [games |-> [NoGames EXCEPT !["g1"] = Copy(<<Base>>, Me, "none"),
                                      !["g2"] = Copy(<<Base>>, "other", "read")],
            teams |-> [t \in MCTeams |-> [ver |-> Base, owner |-> Me,
                                  share |-> "none", gone |-> FALSE]]],
   user |-> Me, live |-> "open", file |-> <<>>]
(* Edited away from the server, where things have been deleted meanwhile.  *)
Away ==
  [db |-> [Nothing EXCEPT !.games["g1"] = Game(<<Base, Base + 1>>, Me, TRUE),
                          !.games["g2"] = Game(<<Base>>, "other", FALSE),
                          !.teams["t1"] = Team(Base + 1, Me, TRUE)],
   srv |-> [games |-> [NoGames EXCEPT !["g1"] = Copy(<<Base>>, Me, "none"),
                                      !["g2"] = GameTomb("other")],
            teams |-> [t \in MCTeams |-> [ver |-> Base, owner |-> Me,
                                  share |-> "none", gone |-> FALSE]]],
   user |-> Me, live |-> "open", file |-> <<>>]
(* Signed in for the first time. *)
New == [db |-> Nothing, user |-> Me, live |-> "open", file |-> <<>>,
        srv |-> [games |-> NoGames, teams |-> [t \in MCTeams |-> Absent]]]
(* The same user at a new device, with a backup of the old one and a game *)
(* deleted there since. *)
Fresh == [New EXCEPT !.srv = [Tidy.srv EXCEPT !.games["g1"] = GameTomb(Me)],
            !.file = <<Line("team", "t1", Tidy.db.teams["t1"]), Broken,
                       Line("game", "demo", Game(<<Base>>, LocalId, TRUE)),
                       Line("game", "g1", Tidy.db.games["g1"])>>]
(* Nobody has signed in yet. *)
Anonymous ==
  [db |-> [Nothing EXCEPT !.games["g1"] = Game(<<Base>>, LocalId, TRUE),
                          !.teams["t1"] = Team(Base, LocalId, TRUE)],
   srv |-> [games |-> NoGames, teams |-> [t \in MCTeams |-> Absent]],
   user |-> NoUser, live |-> "expired", file |-> <<>>]

Visit(world, parts, bounds, links, steps) ==
  [world |-> world, visits |-> parts, moves |-> steps,
   left |-> [edits |-> bounds[1], others |-> bounds[2], faults |-> bounds[3],
             clicks |-> bounds[4], links |-> links]]
MCItineraries ==
  {Visit(Tidy, {"dashboard"}, <<1, 1, 0, 1>>, {"dashboard"}, 0),
   Visit(Away, {"dashboard"}, <<1, 0, 1, 1>>, {"dashboard"}, 0),
   Visit(Tidy, {"search"}, <<0, 0, 0, 1>>, {"dashboard", "teams"}, 0),
   Visit(Anonymous, {"search"}, <<0, 0, 0, 2>>, {"dashboard"}, 0),
   Visit(Tidy, {"game"}, <<2, 1, 0, 1>>, {"g1", "g2"}, 0),
   Visit(Away, {"game", "dashboard"}, <<2, 0, 0, 1>>, {"g1", "dashboard"}, 0),
   Visit(Anonymous, {"game"}, <<2, 0, 0, 2>>, {"g1", "demo"}, 0),
   Visit(Away, {"teams"}, <<0, 0, 0, 1>>, {"teams"}, 0),
   Visit(Away, {"teams"}, <<0, 0, 1, 0>>, {"teams"}, 0),
   Visit(Away, {"teams"}, <<1, 0, 0, 1>>, {"t1"}, 0),
   Visit(Away, {"teams"}, <<1, 1, 0, 0>>, {"teams"}, 0),
   Visit(New, {"teams"}, <<1, 0, 0, 1>>, {"teams"}, 0),
   Visit(Anonymous, {"teams"}, <<1, 0, 0, 4>>, {"teams"}, 0),
   Visit(Away, {"session"}, <<1, 1, 0, 2>>, {"g1", "g2"}, 0),
   Visit(Anonymous, {"session"}, <<0, 0, 1, 2>>, {"demo", "g1", "teams"}, 0),
   Visit(Anonymous, {"session"}, <<0, 0, 0, 3>>, {"g1", "teams"}, 0),
   Visit(Anonymous, {"session", "game"}, <<1, 0, 0, 2>>, {"profile", "demo"}, 0),
   Visit(Away, {"backup"}, <<0, 0, 1, 3>>, {"profile"}, 0),
   Visit(Away, {"backup"}, <<1, 1, 0, 1>>, {"dashboard"}, 0),
   Visit(Fresh, {"backup"}, <<0, 0, 0, 2>>, {"dashboard"}, 0),
   Visit(Fresh, {"game"}, <<1, 0, 0, 1>>, {"g1", "t1"}, 0),
   Visit(Anonymous, {"lineup"}, <<0, 0, 0, 0>>, {"profile"}, 4)}
MCFirstRoster == <<1, 2>>
MCFirstSubs == <<3>>
MCTeamPlayers == <<1, 2, 3, 4>>
================================================================================
