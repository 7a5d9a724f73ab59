-------------------------------- MODULE MCScorer --------------------------------
(* Instances of the scorer: a game between two short lineups. *)
EXTENDS Scorer

CONSTANTS a1, a2, a3, h1, h2, h3, x

MCBench == {x}
Lineups == [t \in Team |-> IF t = "away" THEN SubSeq(<<a1, a2, a3>>, 1, Slots)
                           ELSE SubSeq(<<h1, h2, h3>>, 1, Slots)]
Start == [id |-> 1, type |-> "GAME_START", away |-> "A", home |-> "H", event |-> "",
          subs |-> [t \in Team |-> IF t = "away" THEN <<x>> ELSE <<>>],
          rosters |-> Lineups]
At(b, i) == [b |-> b, i |-> i, col |-> <<i, 0>>]
Hit == [res |-> "Safe", base |-> "1B", type |-> "HIT", seq |-> 0, mode |-> "normal"]
Triple(id, b) ==
  [id |-> id, type |-> "PLAY_RESULT", team |-> "away", ctx |-> At(b, 1),
   batter |-> Lineups["away"][b + 1], runners |-> <<>>, bip |-> [Hit EXCEPT !.base = "3B"]]
StrikeOut(id, b) ==
  [id |-> id, type |-> "PLAY_RESULT", team |-> "away", ctx |-> At(b, 1),
   batter |-> Lineups["away"][b + 1], runners |-> <<>>,
   bip |-> [res |-> "Out", base |-> "", type |-> "BOO", seq |-> 0, mode |-> "normal"]]

Column(id) == [id |-> id, type |-> "ADD_COLUMN", inning |-> 1, team |-> "away"]

(* x has come in for the third batter, who is up. *)
Change(id) == [id |-> id, type |-> "SUBSTITUTION", team |-> "away", index |-> 2,
               player |-> x, ctx |-> At(2, 1)]

(* An inning with two columns, two outs and a runner on third, and one whose
   last play was taken back and whose next batter has just come in. *)
MCOpenings ==
  {<<Start, StrikeOut(2, 0),
     [id |-> 3, type |-> "OUT_NUM_UPDATE", key |-> <<"away", 0, <<1, 0>>>>, outNum |-> 2],
     Column(4), Triple(5, 1)>>,
   <<Start, StrikeOut(2, 0), Change(3), Triple(4, 1), [id |-> 5, type |-> "UNDO", refId |-> 4]>>}
MCBases == {1}
MCCells == {<<"away", 2, <<1, 0>>>>}
MCPitches == {<<"ball", "">>, <<"strike", "Called">>, <<"out", "BOO">>}
MCBips == {Hit, [Hit EXCEPT !.res = "Out", !.type = "OUT"],
           [Hit EXCEPT !.res = "Out", !.type = "OUT", !.seq = 1]}
MCWays == {"Out", "CS"}
MCMenuCodes == {"HBP", "SB", "CS"}
MCRemote == {[type |-> "PITCH", team |-> "away", ctx |-> At(0, 1), batter |-> a1,
              pitch |-> "ball", code |-> ""]}
================================================================================
