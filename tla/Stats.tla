--------------------------------- MODULE Stats ---------------------------------
(***************************************************************************)
(* The statistics of a game and their totals over games                    *)
(* (src/frontend/game/statsEngine.js).  The code counts in one pass over   *)
(* the events; here each number is the count of the events it is made of.  *)
(* Names and the derived averages are left out.                            *)
(***************************************************************************)
EXTENDS GameReducer

Hits == {"1B", "2B", "3B", "HR"}
Walks == {"BB", "IBB"}
StrikeOuts == {"K", "Kc"}

Sum(S, n(_)) == FoldSet(LAMBDA k, so : so + n(k), 0, S)
Count(S, P(_)) == Cardinality({k \in S : P(k)})

(* What the letters of an outcome count as.  "DP" and "TP" stand before them,
   so an outcome that is compared or looked at from its start is none then; a
   dash comes from the throws. *)
Is(e, outcomes) == e.multi = 1 /\ e.outcome \in outcomes
IsSacrifice(e) == e.outcome \in {"SH", "SF"}
IsStrikeOut(e) == e.outcome \in StrikeOuts
AtBat(e) == e.outcome # "" /\ ~Is(e, Walks \cup {"HBP", "CI"}) /\ ~IsSacrifice(e)
OnError(e) == Is(e, {"E"})
HasDash(e) ==
  /\ e.bip # <<>>
  /\ \/ e.bip.seq > 1 /\ e.outcome \in {"G", "SH", "K", "D3"}
     \/ e.bip.seq > 1 /\ e.outcome = "SF" /\ e.bip.res = "Out"
     \/ e.bip.seq > 0 /\ e.outcome \in {"E", "FC"}
GroundOut(e) == HasDash(e) /\ ~Is(e, {"E", "F", "FC", "L"})
OtherOut(e) == /\ e.outcome # "" /\ ~IsStrikeOut(e) /\ ~GroundOut(e)
               /\ ~Is(e, Hits \cup Walks \cup {"HBP", "CI", "E", "F", "FC", "L"})
(* Mutant: an out at home scores. *)
ReachedHome(e) == e.paths[3] # NotThere
Scored(e) == e.paths[3] = Safe
ErrorsIn(e) == Cardinality({p \in 0..3 : e.info[p] = "E"}) + (IF OnError(e) THEN 1 ELSE 0)

PlayerStats(g, p) ==
  LET of(P(_)) == Count({k \in DOMAIN g.events : g.events[k].pId = p},
                        LAMBDA k : P(g.events[k]))
      is(outcomes) == of(LAMBDA e : Is(e, outcomes))
  IN [pa |-> of(LAMBDA e : TRUE), ab |-> of(AtBat), r |-> of(Scored), h |-> is(Hits),
      rbi |-> Count(DOMAIN g.events, LAMBDA k : /\ g.events[k].rbi = p /\ Scored(g.events[k])
                                                /\ g.events[k].pId # NoPlayer),
      bb |-> is(Walks), k |-> of(IsStrikeOut), hbp |-> is({"HBP"}),
      sf |-> of(LAMBDA e : e.outcome = "SF"), sh |-> of(LAMBDA e : e.outcome = "SH"),
      roe |-> of(OnError),
      singles |-> is({"1B"}), doubles |-> is({"2B"}), triples |-> is({"3B"}), hr |-> is({"HR"}),
      flyouts |-> is({"F", "FC"}), lineouts |-> is({"L"}), groundouts |-> of(GroundOut),
      otherOuts |-> of(OtherOut)]

(* Of one team's events in one column; e are the errors of the other team's. *)
InningStats(g, team, col) ==
  LET at(t) == {k \in DOMAIN g.events : k[1] = t /\ k[3] = col /\ g.events[k].pId # NoPlayer}
      pa == Cardinality(at(team))
      r == Count(at(team), LAMBDA k : Scored(g.events[k]))
      outs == Max({0} \cup {g.events[k].outNum : k \in at(team)})
  IN [pa |-> pa, r |-> r, outs |-> outs, lob |-> AtLeast0(pa - outs - r),
      h |-> Count(at(team), LAMBDA k : Is(g.events[k], Hits)),
      e |-> Sum(at(Other(team)), LAMBDA k : ErrorsIn(g.events[k]))]

(* The pitcher of the last pitch gets the batter and what became of him; his
   outs are what the event's number adds to the one of the slot before it. *)
PitcherOf(e) == IF e.pitches = <<>> THEN NoPlayer ELSE e.pitches[Len(e.pitches)].pitcher
OutsBefore(g, key) ==
  LET earlier == {k \in DOMAIN g.events : k[1] = key[1] /\ k[3] = key[3] /\ k[2] < key[2]}
  IN IF earlier = {} THEN 0
     ELSE g.events[CHOOSE k \in earlier : \A j \in earlier : j[2] <= k[2]].outNum
PitcherStats(g, p) ==
  LET faced == {k \in DOMAIN g.events : PitcherOf(g.events[k]) = p}
      of(P(_)) == Count(faced, LAMBDA k : P(g.events[k]))
      is(outcomes) == of(LAMBDA e : Is(e, outcomes))
      thrown(types) == Sum(DOMAIN g.events, LAMBDA k :
        Cardinality({i \in DOMAIN g.events[k].pitches :
                       /\ g.events[k].pitches[i].pitcher = p
                       /\ g.events[k].pitches[i].type \in types}))
      inPlay == of(LAMBDA e : /\ e.outcome # "" /\ ~IsStrikeOut(e)
                              /\ ~Is(e, Walks \cup {"HBP", "CI"}))
      outs(k) == AtLeast0(g.events[k].outNum - OutsBefore(g, k))
      struckOut(k) == IF IsStrikeOut(g.events[k]) THEN 1 ELSE 0
  IN [bf |-> Cardinality(faced),
      pitches |-> thrown({"ball", "strike", "foul"}) + inPlay,
      strikes |-> thrown({"strike", "foul"}) + inPlay, balls |-> thrown({"ball"}),
      bb |-> is(Walks), hbp |-> is({"HBP"}), h |-> is(Hits), k |-> of(IsStrikeOut),
      errors |-> of(OnError), er |-> of(Scored),
      ipOuts |-> Sum(faced, outs),
      defensiveOuts |-> Sum(faced, LAMBDA k : AtLeast0(outs(k) - struckOut(k)))]

--------------------------------------------------------------------------------
(* The score. *)

VisibleColumns(g, team) == {c \in Range(g.columns) : c.team \in {"", team}}
RunsIn(g, team, inning) ==
  Sum({c \in VisibleColumns(g, team) : c.inning = inning},
      LAMBDA c : InningStats(g, team, ColumnId(c)).r)

(* An override stands for the inning; "5" is the only score entered. *)
OverrideValue(score) == IF score = "5" THEN 5 ELSE 0
CalculateTotalRuns(g, team) ==
  Sum({c.inning : c \in Range(g.columns)},
      LAMBDA i : IF i \in DOMAIN g.overrides[team] THEN OverrideValue(g.overrides[team][i])
                 ELSE RunsIn(g, team, i))

Score(g, team) ==
  [R |-> CalculateTotalRuns(g, team),
   H |-> Sum(VisibleColumns(g, team), LAMBDA c : InningStats(g, team, ColumnId(c)).h),
   E |-> Sum(Range(g.columns), LAMBDA c : InningStats(g, team, ColumnId(c)).e)]

HasAB(g, team, inning) == \E c \in InningColumns(g, inning) : RecordedData(g, team, c)

CalculateGameStats(g) ==
  LET players == {g.events[k].pId : k \in DOMAIN g.events}
                   \cup {g.events[k].rbi : k \in {j \in DOMAIN g.events : Scored(g.events[j])}}
      pitchers == UNION {{PitcherOf(g.events[k])} \cup
                           {g.events[k].pitches[i].pitcher : i \in DOMAIN g.events[k].pitches} :
                         k \in DOMAIN g.events}
  IN [players |-> [p \in players \ {NoPlayer} |-> PlayerStats(g, p)],
      pitchers |-> [p \in pitchers \ {NoPlayer} |-> PitcherStats(g, p)],
      score |-> [t \in Team |-> Score(g, t)]]

--------------------------------------------------------------------------------
(* Totals over games: stats is a function from game ids, games what is known
   of them, [away, home, status]. *)

Sides(game, filter) == IF filter = "" THEN Team ELSE {t \in Team : game[t] = filter}
Result(stats, t) == CASE stats.score[t].R > stats.score[Other(t)].R -> "w"
                      [] stats.score[t].R < stats.score[Other(t)].R -> "l"
                      [] OTHER -> "t"

(* A game nothing is known of counts for nothing. *)
TeamTotals(stats, games, filter, team) ==
  LET played == {x \in (DOMAIN stats \cap DOMAIN games) \X Team :
                   x[2] \in Sides(games[x[1]], filter) /\ games[x[1]][x[2]] = team}
      ended(result) == Count(played, LAMBDA x : games[x[1]].status = "final"
                                                /\ Result(stats[x[1]], x[2]) = result)
  IN [games |-> Cardinality(played), w |-> ended("w"), l |-> ended("l"), t |-> ended("t"),
      rs |-> Sum(played, LAMBDA x : stats[x[1]].score[x[2]].R),
      ra |-> Sum(played, LAMBDA x : stats[x[1]].score[Other(x[2])].R)]
================================================================================
