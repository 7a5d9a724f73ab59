------------------------------- MODULE Narrative -------------------------------
(***************************************************************************)
(* The play-by-play feed (src/frontend/game/narrativeEngine.js): the       *)
(* linear history as blocks of half innings, each with its plate           *)
(* appearances, their events and a summary.  What the events say is the    *)
(* kind of thing that happened, the words are left out.                    *)
(***************************************************************************)
EXTENDS History

(* What the events of an item have told so far; an out is followed by the
   number of outs. *)
Tell(acc, what) == [acc EXCEPT !.told = Append(@, what)]
TellOuts(acc, n) ==
  LET outs == acc.outs + n
  IN IF n = 0 THEN acc ELSE [Tell(acc, <<"OUT_COUNT", outs>>) EXCEPT !.outs = outs]

(* The count is the feed's own; a dropped third strike counts as an out. *)
TellPitch(acc, a) ==
  LET balls == acc.balls + (IF a.pitch = "ball" THEN 1 ELSE 0)
      strikes == acc.strikes + (IF a.pitch = "strike" \/ (a.pitch = "foul" /\ acc.strikes < StrikesForOut - 1)
                                THEN 1 ELSE 0)
      pitched == Tell([acc EXCEPT !.balls = balls, !.strikes = strikes],
                      <<"PITCH", balls, strikes>>)
  IN IF balls >= BallsForWalk THEN Tell(pitched, <<"PLAY", "BB">>)
     ELSE IF strikes >= StrikesForOut
     THEN TellOuts(Tell(pitched, <<"PLAY", CASE a.code = "Dropped" -> "D3"
                                             [] a.code = "Called" -> "Kc"
                                             [] OTHER -> "K">>), 1)
     ELSE pitched

RunnerUpdates(a) == CASE a.type = "RUNNER_BATCH_UPDATE" -> a.updates
                      [] a.type = "RUNNER_ADVANCE" -> a.runners
                      [] OTHER -> <<>>
UpdateOutcome(a, u) == IF a.type = "RUNNER_BATCH_UPDATE" THEN u.action ELSE u.outcome
MovesRunners(item) == \E a \in Range(item.events) :
                        a.type \in {"RUNNER_ADVANCE", "RUNNER_BATCH_UPDATE"}

(* The code of a play; the outs of runners who moved later in the same item
   make a plain out a double or a triple play. *)
PlayCode(bip, later) ==
  LET outs == (IF bip.res = "Safe" THEN 0 ELSE 1)
              + FoldLeft(LAMBDA n, a : n + Cardinality({i \in DOMAIN RunnerUpdates(a) :
                           UpdateOutcome(a, RunnerUpdates(a)[i])
                             \in {"CS", "Out", "PO", "Tag", "Force"}}), 0, later)
  IN CASE bip.type = "HIT" -> IF bip.base = "Home" THEN "HR" ELSE bip.base
       [] bip.type = "ERR" -> "E"
       [] bip.type = "OUT" -> CASE outs = 2 -> "DP" [] outs > 2 -> "TP" [] OTHER -> "Out"
       [] OTHER -> bip.type

(* Runners who moved with the play are told with it, unless the item has
   runner actions of its own. *)
TellAdvance(acc, r) == CASE r.outcome = "Score" -> Tell(acc, <<"RUNNER", "scores">>)
                         [] r.outcome = "Out" -> Tell(acc, <<"RUNNER", "thrown out">>)
                         [] r.outcome \in {"To 2nd", "To 3rd"} -> Tell(acc, <<"RUNNER", r.outcome>>)
                         [] OTHER -> acc
TellPlay(acc, a, later, explicit) ==
  LET play == Tell(acc, <<"PLAY", PlayCode(a.bip, later)>>)
      batterOut == IF a.bip.res = "Safe" THEN 0 ELSE 1
  IN IF explicit THEN TellOuts(play, batterOut)
     ELSE TellOuts(FoldLeft(TellAdvance, play, a.runners), batterOut + OutsIn(a.runners))

(* Codes the feed has words for; the others it passes over. *)
AdvanceCodes == {"SB", "Adv", "Place", "Score", "WP", "PB", "BK", "E", "To 2nd", "To 3rd"}
OutCodes == {"CS", "Out", "PO", "Tag", "Force", "LE"}
TellRunner(acc, u, code) ==
  LET home == code = "Score" \/ (code \notin {"To 2nd", "To 3rd", "SB"} /\ u.base = 2)
      scored == IF home THEN Tell(acc, <<"RUNNER", "scores">>) ELSE acc
  IN CASE code \in AdvanceCodes ->
            IF code \in {"Place", "Score"} THEN scored ELSE Tell(scored, <<"RUNNER", code>>)
       [] code \in OutCodes -> TellOuts(Tell(acc, <<"RUNNER", "put out">>), 1)
       [] OTHER -> acc
TellRunners(acc, a) ==
  FoldLeft(LAMBDA so, u : TellRunner(so, u, UpdateOutcome(a, u)), acc, RunnerUpdates(a))

TellEvent(acc, i, item) ==
  LET a == item.events[i]
      later == SubSeq(item.events, i + 1, Len(item.events))
  IN CASE a.type = "PITCH" -> TellPitch(acc, a)
       [] a.type = "PLAY_RESULT" -> TellPlay(acc, a, later, MovesRunners(item))
       [] a.type \in {"RUNNER_ADVANCE", "RUNNER_BATCH_UPDATE"} -> TellRunners(acc, a)
       [] a.type = "MOVE_PLAY" -> Tell(acc, <<"SUMMARY", "moved">>)
       [] a.type = "SUBSTITUTION" -> Tell(acc, <<"SUB", a.player>>)
       [] OTHER -> acc

(* The lead changed, or the score is even, by what the item scored. *)
ScoreNews(item) ==
  LET team == item.key[1]
      lead(s) == s.score["home"] - s.score["away"]
      was == lead(item.before)
      is == lead(item.after)
  IN IF item.after = <<>> \/ item.after.score[team] <= item.before.score[team] THEN ""
     ELSE IF is = 0 THEN "tied"
     ELSE IF was = 0 \/ (was < 0) # (is < 0) THEN "lead" ELSE ""

(* A runner who is put on base with no play of his own does not bat. *)
PassivePlacement(item) ==
  /\ ~item.stricken
  /\ \A a \in Range(item.events) : a.type \notin {"PITCH", "PLAY_RESULT"}
  /\ \E a \in Range(item.events) : a.type = "MANUAL_PATH_OVERRIDE"

PlateAppearance(item) ==
  LET acc == FoldLeftDomain(LAMBDA so, i : TellEvent(so, i, item),
                            [told |-> <<>>, balls |-> 0, strikes |-> 0,
                             outs |-> item.before.outs], item.events)
      cleared == IF item.cleared THEN Append(acc.told, <<"SUMMARY", "cleared">>) ELSE acc.told
  IN [key |-> item.key, n |-> item.n, stricken |-> item.stricken,
      passive |-> PassivePlacement(item), before |-> item.before, after |-> item.after,
      news |-> ScoreNews(item), events |-> cleared]

(* Items that only clear are not shown: what they cleared says so. *)
IsShown(item) == \E a \in Range(item.events) : a.type # "CLEAR_DATA"

(* generateNarrative: the blocks, each the plate appearances of a stretch of
   the history in one half inning. *)
GenerateNarrative(g, log) ==
  LET history == GenerateLinearHistory(g, log)
      add(blocks, i) ==
        LET all == IF StartsBlock(history, i)
                   THEN Append(blocks, [half |-> HalfInning(history[i]), items |-> <<>>])
                   ELSE blocks
        IN IF IsShown(history[i])
           THEN [all EXCEPT ![Len(all)].items = Append(@, PlateAppearance(history[i]))]
           ELSE all
  IN FoldLeftDomain(add, <<>>, history)

(* appendInningSummary reads the state before the first and after the last item
   of the block; reading a state that is not there throws. *)
CanBeSummed(block) == \/ block.items = <<>>
                      \/ block.items[Len(block.items)].after # <<>>
InningSummary(block) ==
  LET last == block.items[Len(block.items)].after
      team == block.half[2]
  IN [runs |-> last.score[team] - block.items[1].before.score[team],
      lob |-> Cardinality(last.onBase)]
================================================================================
