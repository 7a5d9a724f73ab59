-------------------------------- MODULE Runners --------------------------------
(***************************************************************************)
(* What the scoring overlay computes over the reducer's state: who is on   *)
(* base when a batter comes up, where the runners go by default, and the   *)
(* choices its buttons offer (src/frontend/game/runnerManager.js,          *)
(* csoManager.js, substitutionManager.js and the helpers of                *)
(* controllers/AppController.js).                                          *)
(***************************************************************************)
EXTENDS GameReducer

(* Where batter b stands in the order that begins with the inning's lead,
   that of its first column. *)
OrderIn(g, team, inning, b) ==
  LET columns == SelectSeq(g.columns, LAMBDA c : c.inning = inning)
      lead == IF columns = <<>> THEN 0 ELSE AtLeast0(columns[1].lead[team])
      n == Len(g.roster[team])
  IN (b + n - lead) % n

(* A runner put on base by hand: paths, but no play and no pitch. *)
IsPlacedRunner(e) ==
  /\ e.outcome = "" /\ \E p \in 0..3 : e.paths[p] # NotThere
  /\ \A i \in DOMAIN e.pitches : e.pitches[i].type = "substitution"

(* The base an event leaves its batter on, -1 for none: the last one on his
   way, if he was safe there and it is not home. *)
BaseHeld(e) ==
  LET last == Max({-1} \cup {p \in 0..3 : e.paths[p] # NotThere})
  IN IF last = -1 \/ last = 3 \/ e.paths[IF last = -1 THEN 0 ELSE last] = Out
     THEN -1 ELSE last

(* The elements of a list at some of its places. *)
Picked(list, places) ==
  LET upTo[i \in 0..Len(list)] ==
        IF i = 0 THEN <<>>
        ELSE IF i \in places THEN Append(upTo[i - 1], list[i]) ELSE upTo[i - 1]
  IN upTo[Len(list)]

(* The runners on base for a context: of every other batter the last event of
   the inning that is before it, the lead runner first. *)
GetRunnersOnBase(g, team, ctx) ==
  LET columns == [j \in DOMAIN g.columns |-> ColumnId(g.columns[j])]
      before(b, c) ==
        \/ c[2] < ctx.col[2]
        \/ /\ c = ctx.col
           /\ \/ OrderIn(g, team, ctx.i, b) < OrderIn(g, team, ctx.i, ctx.b)
              \/ IsPlacedRunner(g.events[<<team, b, c>>])
      passed(b) == {j \in DOMAIN columns :
                     /\ g.columns[j].inning = ctx.i
                     /\ <<team, b, columns[j]>> \in DOMAIN g.events
                     /\ before(b, columns[j])}
      last(b) == Max({0} \cup passed(b))
      runner(b) ==
        IF b = ctx.b \/ last(b) \notin passed(b) THEN [key |-> <<>>, base |-> -1]
        ELSE LET key == <<team, b, columns[last(b)]>>
             IN [key |-> key, base |-> BaseHeld(g.events[key])]
      batters == [i \in 1..Len(g.roster[team]) |-> runner(i - 1)]
      on(base) == Picked(batters, {i \in DOMAIN batters : batters[i].base = base})
  IN on(2) \o on(1) \o on(0)

InningOuts(g, team, inning) == OutsExcluding(g, team, inning, {})
InningRuns(g, team, inning) ==
  Cardinality({k \in DOMAIN g.events : /\ k[1] = team
                                       /\ k[3] \in InningColumns(g, inning)
                                       /\ g.events[k].paths[3] = Safe})

--------------------------------------------------------------------------------
(* Default advances. *)

Advanced(base, by) == CASE base + by = 1 -> "To 2nd"
                        [] base + by = 2 -> "To 3rd"
                        [] OTHER -> "Score"

(* Nobody moves on an out that ends the inning.  A walk pushes the runners in
   a row from first, of two on a base the one later in the list.  A hit or a
   sacrifice moves everybody, another play on the ground those in that row,
   an out off the field of play nobody.  The outcome found in the events of a
   play that is edited is not modelled: a runner's base is the last on his
   way, so the code never finds one. *)
DefaultAdvances(runners, bip, outs) ==
  LET occupied(b) == \E i \in DOMAIN runners : runners[i].base = b
      forced(b) == \A c \in 0..b : occupied(c)
      pushed(i) == /\ forced(runners[i].base)
                   /\ \A j \in DOMAIN runners :
                        runners[j].base = runners[i].base => j <= i
      walk == bip.type \in {"BB", "IBB", "HBP", "CI"}
      offTheField == /\ bip.res = "Out"
                     /\ bip.type \in {"Out", "Int", "BOO", "SO", "Interference"}
      moves(i) == IF walk THEN pushed(i)
                  ELSE /\ bip.res \notin {"Fly", "Line", "IFF"}
                       /\ \/ bip.res = "Safe" \/ bip.type \in {"SF", "SH"}
                          \/ ~offTheField /\ forced(runners[i].base)
      by == IF ~walk /\ bip.res = "Safe" /\ BaseIndex(bip.base) >= 0
            THEN BaseIndex(bip.base) + 1 ELSE 1
      third == outs >= 2 /\ bip.res \in {"Fly", "Line", "IFF", "Out"}
  IN [i \in DOMAIN runners |->
        [key |-> runners[i].key, base |-> runners[i].base,
         outcome |-> IF ~third /\ moves(i) THEN Advanced(runners[i].base, by) ELSE "Stay"]]

--------------------------------------------------------------------------------
(* Choices. *)

RunnerActionOptions == <<"Stay", "SB", "CS", "PO", "Adv", "LE", "LB", "Int">>
RunnerAdvanceOptions(base) ==
  <<"Stay">> \o (IF base = 0 THEN <<"To 2nd">> ELSE <<>>)
             \o (IF base <= 1 THEN <<"To 3rd">> ELSE <<>>) \o <<"Score", "Out">>
(* What the menu of a base offers, by what the taps made of the way there. *)
RunnerMenuOptions(path) ==
  IF path = Safe THEN {"SB", "WP", "PB", "BK", "Adv", "E", "Obs", "Place", "CR"}
                 ELSE {"CS", "PO", "Force", "Tag"}

BipOptions(key, res, mode) ==
  CASE key = "res" -> IF mode = "dropped" THEN <<"Safe", "Out">>
                      ELSE <<"Safe", "Out", "Ground", "Fly", "Line", "IFF">>
    [] key = "base" -> <<"1B", "2B", "3B", "Home">>
    [] key = "type" ->
         IF mode = "dropped" THEN IF res = "Safe" THEN <<"D3", "FC">> ELSE <<"K">>
         ELSE CASE res = "Safe" -> <<"HIT", "ERR", "FC">>
                [] res = "Out" -> <<"OUT", "SH", "SF">>
                [] res = "Ground" -> <<"OUT", "SH">>
                [] res = "Fly" -> <<"OUT", "SF">>
                [] OTHER -> <<"OUT">>

(* The next option of a button, the first one after a value it does not know. *)
NextOption(options, current) ==
  LET at == SelectInSeq(options, LAMBDA o : o = current)
  IN options[(at % Len(options)) + 1]

(* A new result takes the first type it has, except after a dropped strike. *)
WithResult(bip, res, mode) ==
  [bip EXCEPT !.res = res,
              !.type = IF mode = "dropped" THEN @ ELSE BipOptions("type", res, mode)[1]]
CycleBip(bip, key, mode) ==
  LET next == NextOption(BipOptions(key, bip.res, mode), bip[key])
  IN IF key = "res" THEN WithResult(bip, next, mode) ELSE [bip EXCEPT ![key] = next]

(* Everybody who can come in: bench, starters and those in the game. *)
AllAvailablePlayers(g, team) ==
  (Range(g.subs[team]) \cup {g.roster[team][i].starter : i \in DOMAIN g.roster[team]}
     \cup {g.roster[team][i].current : i \in DOMAIN g.roster[team]}) \ {NoPlayer}
================================================================================
