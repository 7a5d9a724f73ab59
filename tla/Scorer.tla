--------------------------------- MODULE Scorer ---------------------------------
(***************************************************************************)
(* The scorer at work on one game: the sheet, the overlay of a cell (CSO)  *)
(* with its views, and the action each tap records                         *)
(* (src/frontend/controllers/AppController.js with game/csoManager.js,     *)
(* game/runnerManager.js and game/historyManager.js).                      *)
(*                                                                         *)
(* Dispatching an action changes the log and the game at once and then     *)
(* waits for the save; what a handler does after that wait is a            *)
(* continuation in "rest", and the scorer can tap before it runs.          *)
(***************************************************************************)
EXTENDS Runners, Narrative, Stats

CONSTANTS
  Openings,   \* logs a game may be opened with
  Pitches,    \* pairs <<type, code>> of the pitch buttons and their menus
  Bips,       \* balls in play, [res, base, type, seq, mode], the buttons can be set to
  Ways,       \* choices made in the runner lists
  MenuCodes,  \* codes picked from the menu of a base
  Remote,     \* actions other devices may record
  Bench,      \* players who can come in
  Bases,      \* bases the scorer taps
  Cells,      \* event keys of the cells the scorer touches
  MaxLoose,   \* changes at a time that no action has recorded yet: a bound
  MaxWaiting, \* handlers that wait for a save when the scorer taps: a bound
  MaxTaps     \* actions of the log and changes not recorded yet: a bound

(* The actions of a log, by their places; 0 marks what is no substitution. *)
Places(opening) == {0} \cup {i \in DOMAIN opening : opening[i].type # "UNDO"}

IsList(s) == s \in Seq(Range(s))
AreLineups(rosters) ==
  Team \subseteq DOMAIN rosters /\ \A t \in Team : IsList(rosters[t])

(* What every event has; the substitutions marked in its pitches are those of
   the log. *)
EventFields == {"pId", "paths", "info", "pitches"}
KnownMarks(event, places) ==
  /\ EventFields \subseteq DOMAIN event /\ IsList(event.pitches)
  /\ \A p \in Range(event.pitches) : p.refId \in places
HasList(a, field) == field \in DOMAIN a /\ IsList(a[field])
IsHeld(a, places) ==
  /\ a.type \in ActionTypes
  /\ a.type \in {"PLAY_RESULT", "RUNNER_ADVANCE"} => HasList(a, "runners")
  /\ a.type = "RUNNER_BATCH_UPDATE" => HasList(a, "updates")
  /\ a.type = "LINEUP_UPDATE" => HasList(a, "roster")
  /\ a.type = "MOVE_PLAY" => "event" \in DOMAIN a /\ KnownMarks(a.event, places)
  /\ a.type = "MANUAL_PATH_OVERRIDE" => "data" \in DOMAIN a /\ "pitches" \notin DOMAIN a.data
  /\ a.type = "GAME_IMPORT" =>
       /\ "game" \in DOMAIN a
       /\ "events" \in DOMAIN a.game =>
            \A k \in DOMAIN a.game.events : KnownMarks(a.game.events[k], places)
       /\ "roster" \in DOMAIN a.game => AreLineups(a.game.roster)

(* A log numbers its entries, and what they refer to stands before them. *)
IsLog(opening) ==
  /\ IsList(opening)
  /\ \A i \in DOMAIN opening :
       /\ opening[i].id = i /\ IsHeld(opening[i], Places(opening))
       /\ opening[i].type = "UNDO" => opening[i].refId \in 1..i - 1

ASSUME ScorerConstants ==
  /\ \A opening \in Openings : IsLog(opening)
  /\ \A a \in Remote : /\ "type" \in DOMAIN a /\ "id" \notin DOMAIN a
                        /\ a.type # "UNDO" /\ IsHeld(a, {0})
  /\ Bases \subseteq 0..3

VARIABLES
  game,    \* state.activeGame without its log
  log,     \* its actionLog; an action's id is its place
  ui,      \* activeTeam, activeCtx, the views of the overlay, and what is
           \* entered there: bipState, bipMode, pendingBipState,
           \* pendingRunnerState, isEditing
  data,    \* activeData, the overlay's copy of its cell
  rest,    \* handlers that wait for a save
  loose    \* changes made to the game that are in no action (auxiliary)

vars == <<game, log, ui, data, rest, loose>>

Ctx(b, c) == [b |-> b, i |-> c[1], col |-> c]
CellKey(u) == <<u.team, u.ctx.b, u.ctx.col>>
(* Nobody once the start of the game is undone. *)
BatterId(g, u) == IF u.ctx.b < Len(g.roster[u.team])
                  THEN g.roster[u.team][u.ctx.b + 1].current ELSE NoPlayer
CellData(g, u) == EventAt(g, CellKey(u), BatterId(g, u))
InCell == ui.view # "grid"
(* The copy is made when a cell is opened, and not read once it is closed. *)
NoCell == EmptyEvent(NoPlayer)
Copy(u, d) == IF u.view = "grid" THEN NoCell ELSE d
(* Views are opened as long as something can be recorded in them. *)
More == Len(log) + Cardinality(loose) < MaxTaps
Room == More /\ Len(rest) <= MaxWaiting

Init ==
  /\ log \in Openings
  /\ game = ComputeStateFromLog(log)
  /\ ui = [team |-> "away", ctx |-> <<>>, view |-> "grid", menu |-> <<>>,
           bip |-> <<>>, mode |-> "normal", pend |-> <<>>, runners |-> <<>>,
           editing |-> FALSE]
  /\ data = NoCell
  /\ rest = <<>>
  /\ loose = {}

(* Mutant: an UNDO is reduced like any action. *)
DispatchStepwise(was, a, left) ==
  LET action == Over(a, [id |-> Len(log) + 1])
  IN /\ log' = Append(log, action)
     /\ game' = GameReducer(was, action)
     /\ loose' = {}

(* ActiveGameController.dispatch: an UNDO recomputes the game from the log,
   anything else is applied to the game as it is.  "was" is that game, with
   changes of the handler's own; "left" are the loose ones a does not contain,
   which the state of the log lacks from now on. *)
DispatchOn(was, a, left) ==
  LET action == Over(a, [id |-> Len(log) + 1])
  IN /\ log' = Append(log, action)
     /\ game' = IF a.type = "UNDO" THEN ComputeStateFromLog(log')
                ELSE GameReducer(was, action)
     /\ loose' = IF a.type = "UNDO" \/ left = {} THEN {} ELSE {<<<<>>, 0>>}
Dispatch(a) == DispatchOn(game, a, loose)
Quiet == UNCHANGED <<game, log, loose>>
AtCell(a) ==
  Over(a, [team |-> ui.team, ctx |-> ui.ctx, batter |-> BatterId(game, ui)])
Await(k) == rest' = Append(rest, k)

--------------------------------------------------------------------------------
(* Views. *)

(* A view's own entries are set when it is opened, and not read once it is
   left; the continuation of a dropped strike still reads the ball in play. *)
Left(u) ==
  LET dropped == {"dropped", "commit"} \cap Range(rest) # {}
  IN [u EXCEPT !.runners = <<>>, !.bip = IF dropped THEN @ ELSE <<>>,
                                 !.mode = IF dropped THEN @ ELSE "normal"]
Shown(u, view) == [u EXCEPT !.view = IF @ = "grid" THEN @ ELSE view]
Closed(u) == [Left(u) EXCEPT !.view = "grid", !.menu = <<>>]
RunnersOn(u) == GetRunnersOnBase(game, u.team, u.ctx)
ShowRunnerAdvance(u, bip) ==
  [Shown(u, "advance") EXCEPT
     !.runners = DefaultAdvances(RunnersOn(u), bip, InningOuts(game, u.team, u.ctx.i))]

NewBip == [res |-> "Safe", base |-> "1B", type |-> "HIT", seq |-> 0, mode |-> "normal"]
ShowBallInPlay(u, d) ==
  LET bip == IF d.bip = <<>> THEN NewBip ELSE d.bip
  IN [Shown(u, "bip") EXCEPT
        !.bip = [bip EXCEPT !.type = IF u.mode = "dropped" THEN "D3" ELSE @]]

(* A cell shows the columns of its team; opening one resets the views, and
   leaves what was pending as it was. *)
OpenCSO(b, c) ==
  /\ ~InCell /\ More
  /\ c.team \in {"", ui.team} /\ b < Len(game.roster[ui.team])
  /\ ui' = [ui EXCEPT !.ctx = Ctx(b, ColumnId(c)), !.view = "main", !.menu = <<>>,
                      !.mode = "normal"]
  /\ data' = CellData(game, ui')
  /\ Quiet /\ UNCHANGED rest

CloseCSO == /\ InCell
            /\ ui' = Closed(ui) /\ data' = NoCell
            /\ Quiet /\ UNCHANGED rest

SwitchTeam == /\ ~InCell
              /\ ui' = [ui EXCEPT !.team = Other(@)]
              /\ Quiet /\ UNCHANGED <<data, rest>>

--------------------------------------------------------------------------------
(* Plays. *)

Recorded == (data.outcome # "" /\ ~ui.editing) \/ game.status = "final"
PitchArea == ui.view = "main" /\ ~Recorded
ToggleAction == /\ ui.view = "main" /\ Recorded
                /\ ui' = [ui EXCEPT !.editing = TRUE]
                /\ Quiet /\ UNCHANGED <<data, rest>>

(* finalizePlay up to its wait: the pending play is cleared after it. *)
FinalizePlay(u, advances, queue) ==
  /\ Dispatch(AtCell([type |-> "PLAY_RESULT", bip |-> [u.pend EXCEPT !.mode = u.mode],
                      runners |-> advances]))
  /\ rest' = Append(queue, "play")
  /\ ui' = u

(* A play with runners on base asks for their way first. *)
PlayOrAdvance(u, mode, queue) ==
  IF RunnersOn(u) # <<>>
  THEN ui' = [ShowRunnerAdvance(u, u.pend) EXCEPT !.mode = mode] /\ Quiet /\ rest' = queue
  ELSE FinalizePlay(u, <<>>, queue)

WithPending(u, res, base, type) ==
  [u EXCEPT !.pend = [res |-> res, base |-> base, type |-> type, seq |-> 0,
                      mode |-> "normal"]]

RecordOut(code) ==
  /\ PitchArea /\ Room /\ UNCHANGED data
  /\ LET u == WithPending(ui, "Out", "", code)
     IN IF code = "BOO" THEN FinalizePlay(u, <<>>, rest)
        ELSE PlayOrAdvance(u, "normal", rest)

(* HBP, IBB and CI. *)
RecordAutoAdvance(code) ==
  /\ PitchArea /\ Room /\ UNCHANGED data
  /\ PlayOrAdvance(WithPending(ui, "Safe", "1B", code), ui.mode, rest)

(* recordPitch up to its wait; the overlay counts the pitch ahead. *)
ThrowPitch(type, code, k) ==
  /\ Dispatch(AtCell([type |-> "PITCH", pitch |-> type, code |-> code]))
  /\ LET pitches == Append(data.pitches, [type |-> type, code |-> code,
                             pitcher |-> game.pitchers[Other(ui.team)], refId |-> 0])
     IN data' = [data EXCEPT !.pitches = pitches, !.balls = CountBalls(pitches),
                             !.strikes = CountStrikes(pitches)]
  /\ Await(k)

RecordPitch(type, code) ==
  /\ PitchArea /\ Room /\ code # "Dropped"
  /\ ThrowPitch(type, code, "pitch") /\ UNCHANGED ui

(* "Dropped" in the menu of strikes opens the ball in play view. *)
SelectDropped ==
  /\ PitchArea /\ More
  /\ ui' = ShowBallInPlay([ui EXCEPT !.mode = "dropped"], data)
  /\ Quiet /\ UNCHANGED <<data, rest>>

ShowBip == /\ PitchArea /\ More
           /\ ui' = ShowBallInPlay(ui, data)
           /\ Quiet /\ UNCHANGED <<data, rest>>
HideBip == /\ ui.view = "bip"
           /\ ui' = [Left(ui) EXCEPT !.view = "main", !.mode = "normal"]
           /\ Quiet /\ UNCHANGED <<data, rest>>

(* The buttons of the view, each tap the next option of its own. *)
CycleBiP(key) ==
  /\ ui.view = "bip" /\ More
  /\ ui' = [ui EXCEPT !.bip = CycleBip(@, key, ui.mode)]
  /\ ui'.bip \in Bips
  /\ Quiet /\ UNCHANGED <<data, rest>>

AddToSequence == /\ ui.view = "bip"
                 /\ ui' = [ui EXCEPT !.bip.seq = @ + 1] /\ ui'.bip \in Bips
                 /\ Quiet /\ UNCHANGED <<data, rest>>
BackspaceSequence == /\ ui.view = "bip" /\ ui.bip.seq > 0
                     /\ ui' = [ui EXCEPT !.bip.seq = @ - 1]
                     /\ Quiet /\ UNCHANGED <<data, rest>>

CommitBiP ==
  /\ ui.view = "bip" /\ Room
  /\ IF ui.mode = "dropped"
     THEN ThrowPitch("strike", "Dropped", "dropped") /\ UNCHANGED ui
     ELSE PlayOrAdvance([ui EXCEPT !.pend = ui.bip], "normal", rest) /\ UNCHANGED data

--------------------------------------------------------------------------------
(* Runners. *)

CloseRunnerAdvance == /\ ui.view = "advance"
                      /\ ui' = [Left(ui) EXCEPT !.view = "main"]
                      /\ Quiet /\ UNCHANGED <<data, rest>>

SetRunnerOutcome(i, choice) ==
  /\ ui.view \in {"advance", "action"} /\ i \in DOMAIN ui.runners
  /\ choice \in Range(IF ui.view = "action" THEN RunnerActionOptions
                      ELSE RunnerAdvanceOptions(ui.runners[i].base))
  /\ ui' = [ui EXCEPT !.runners[i].outcome = choice]
  /\ Quiet /\ UNCHANGED <<data, rest>>

(* With a play pending its result is recorded with the runners' ways, else
   the runners' ways alone. *)
FinishTurn ==
  /\ ui.view = "advance" /\ Room /\ UNCHANGED data
  /\ IF ui.pend # <<>> THEN FinalizePlay(ui, ui.runners, rest)
     ELSE /\ Dispatch(AtCell([type |-> "RUNNER_ADVANCE", runners |-> ui.runners,
                              sequencing |-> "BatterFirst",
                              rbiEligible |-> data.outcome # "E" /\ data.multi # 2]))
          /\ Await("advance") /\ UNCHANGED ui

Listed(runners, outcome) ==
  [i \in DOMAIN runners |-> [key |-> runners[i].key, base |-> runners[i].base,
                             outcome |-> outcome]]
OpenRunnerAction ==
  /\ PitchArea /\ More /\ RunnersOn(ui) # <<>>
  /\ ui' = [ui EXCEPT !.view = "action",
       !.runners = Listed(RunnersOn(ui), "Stay")]
  /\ Quiet /\ UNCHANGED <<data, rest>>
CloseRunnerAction == /\ ui.view = "action"
                     /\ ui' = [Left(ui) EXCEPT !.view = "main"]
                     /\ Quiet /\ UNCHANGED <<data, rest>>

Updates(runners) ==
  [i \in DOMAIN runners |-> [key |-> runners[i].key, base |-> runners[i].base,
                             action |-> runners[i].outcome]]
SaveRunnerActions ==
  LET moved == Picked(ui.runners, {i \in DOMAIN ui.runners : ui.runners[i].outcome # "Stay"})
  IN /\ ui.view = "action" /\ Room /\ UNCHANGED <<ui, data>>
     /\ IF moved = <<>> THEN Quiet
        ELSE Dispatch(AtCell([type |-> "RUNNER_BATCH_UPDATE",
                              updates |-> Updates(moved)]))
     /\ Await("runners")

RecordBalk ==
  /\ PitchArea /\ RunnersOn(ui) # <<>> /\ Room
  /\ Dispatch(AtCell([type |-> "RUNNER_BATCH_UPDATE",
                      updates |-> Updates(Listed(RunnersOn(ui), "BK"))]))
  /\ UNCHANGED <<ui, data, rest>>

--------------------------------------------------------------------------------
(* The bases of the cell. *)

PathOverride(d) == [type |-> "MANUAL_PATH_OVERRIDE", key |-> CellKey(ui),
                    data |-> [paths |-> d.paths, info |-> d.info,
                              pId |-> BatterId(game, ui)]]
OfCell == {c \in loose : c[1] = CellKey(ui)}
(* A copy of the cell that is not up to date any more takes its play along. *)
Overwrites == IF data = CellData(game, ui) THEN {} ELSE {<<<<>>, 0>>}

(* A tap turns the way to a base from nothing to safe to out and back, in the
   game itself; the menu it opens records a reason, only the way back to
   nothing is recorded right away. *)
HandleBaseClick(base) ==
  LET d == [data EXCEPT !.paths[base] = (@ + 1) % 3]
      tapped == PutEvent(game, CellKey(ui), d)
  IN /\ ui.view = "main" /\ Room /\ UNCHANGED rest
     /\ Cardinality(loose \cup {<<CellKey(ui), base>>}) <= MaxLoose
     /\ IF d.paths[base] # NotThere
        THEN /\ game' = tapped /\ data' = d
             /\ ui' = [ui EXCEPT !.menu = <<base, d.paths[base]>>]
             /\ loose' = loose \cup {<<CellKey(ui), base>>} \cup Overwrites
             /\ UNCHANGED log
        ELSE /\ DispatchOn(tapped, PathOverride(d), (loose \ OfCell) \cup Overwrites)
             /\ ui' = [ui EXCEPT !.menu = <<>>]
             /\ data' = CellData(game', ui)

ApplyRunnerAction(code) ==
  LET base == ui.menu[1]
  IN /\ ui.view = "main" /\ ui.menu # <<>> /\ Room
     /\ code \in RunnerMenuOptions(ui.menu[2])
     /\ DispatchOn(game, AtCell([type |-> "RUNNER_BATCH_UPDATE",
          updates |-> <<[key |-> CellKey(ui), action |-> code, base |-> base - 1]>>]),
          loose \ IF code \in SafeActions \cup OutActions THEN {<<CellKey(ui), base>>} ELSE {})
     /\ Await("base") /\ UNCHANGED <<ui, data>>

CloseRunnerMenu ==
  /\ ui.view = "main" /\ ui.menu # <<>> /\ Room
  /\ DispatchOn(game, PathOverride(data), loose \ OfCell)
  /\ ui' = [ui EXCEPT !.menu = <<>>]
  /\ UNCHANGED <<data, rest>>

--------------------------------------------------------------------------------
(* Corrections in the cell. *)

CycleOutNum ==
  /\ ui.view = "main" /\ Room /\ UNCHANGED <<ui, data>>
  /\ Dispatch([type |-> "OUT_NUM_UPDATE", key |-> CellKey(ui),
               outNum |-> (data.outNum + 1) % 4])
  /\ Await("sync")

EditRBI(credit) ==
  /\ ui.view = "main" /\ Room /\ UNCHANGED <<ui, rest>>
  /\ Dispatch([type |-> "RBI_EDIT", key |-> CellKey(ui), credit |-> credit])
  /\ data' = CellData(game', ui)

ClearAllData ==
  /\ ui.view = "main" /\ Room /\ UNCHANGED <<ui, data>>
  /\ Dispatch(AtCell([type |-> "CLEAR_DATA"]))
  /\ Await("clear")

(* The last thing in the pitches is taken back: a substitution by its own
   id, else the last pitch of the cell that is not undone. *)
UndoPitch ==
  LET last == IF data.pitches = <<>> THEN 0 ELSE data.pitches[Len(data.pitches)].refId
      undone == EffectivelyUndone(log)
      pitches == {a \in Range(log) : /\ a.type = "PITCH" /\ a.id \notin undone
                                     /\ a.ctx = ui.ctx /\ a.team = ui.team}
  IN /\ ui.view = "main" /\ Room /\ UNCHANGED ui
     /\ IF last # 0
        THEN Dispatch([type |-> "UNDO", refId |-> last]) /\ Await("sync") /\ UNCHANGED data
        ELSE /\ pitches # {}
             /\ Dispatch([type |-> "UNDO", refId |-> Max({a.id : a \in pitches})])
             /\ data' = CellData(game', ui)
             /\ UNCHANGED rest

ChangePitcher(player) ==
  /\ InCell /\ Room /\ UNCHANGED <<ui, data, rest>>
  /\ Dispatch([type |-> "PITCHER_UPDATE", team |-> Other(ui.team), pitcher |-> player])

(* The slot's player is replaced in the game, and no action says so. *)
CorrectPlayer(player) ==
  LET current == BatterId(game, ui)
  IN /\ InCell /\ Room /\ Cardinality(loose) < MaxLoose
     /\ player \in AllAvailablePlayers(game, ui.team) \ {current}
     /\ game' = [game EXCEPT !.roster[ui.team][ui.ctx.b + 1].current = player]
     /\ data' = [data EXCEPT !.pId = IF @ = current THEN player ELSE @]
     /\ loose' = loose \cup {<<<<>>, 0>>}
     /\ UNCHANGED <<log, ui, rest>>

(* From the title of the overlay or the sheet's lineup.  The cell opened last
   counts as the one being played when it is the slot's, closed or not. *)
Substitute(team, index, player) ==
  LET live == ui.ctx # <<>> /\ ui.team = team /\ ui.ctx.b = index
  IN /\ index < Len(game.roster[team]) /\ (InCell => live)
     /\ Room /\ UNCHANGED <<ui, data>>
     /\ Dispatch([type |-> "SUBSTITUTION", team |-> team, index |-> index,
                  player |-> player, ctx |-> IF live THEN ui.ctx ELSE <<>>])
     /\ IF live THEN Await("sync") ELSE UNCHANGED rest

--------------------------------------------------------------------------------
(* After the wait. *)

(* The lead of the next inning goes to its first column, if there is one. *)
SetNextInningLead(u, b) ==
  LET columns == SelectSeq(game.columns, LAMBDA c : c.inning = u.ctx.i + 1)
      first == SelectSeq(columns, LAMBDA c : c.sub = 0)
  IN IF columns = <<>> THEN Quiet
     ELSE Dispatch([type |-> "SET_INNING_LEAD", team |-> u.team, row |-> b,
                    col |-> ColumnId((IF first = <<>> THEN columns ELSE first)[1])])
ThirdOut(u) == InningOuts(game, u.team, u.ctx.i) >= 3
NextBatter(u) == (u.ctx.b + 1) % Len(game.roster[u.team])
LeadAfterThirdOut(u, b) == IF ThirdOut(u) THEN SetNextInningLead(u, b) ELSE Quiet

(* A walk pushes the runners, with nothing pending. *)
ForcedAdvance(u) == IF RunnersOn(u) = <<>> THEN Closed(u)
                    ELSE ShowRunnerAdvance(u, [NewBip EXCEPT !.type = "BB"])

(* A strikeout closes the overlay unless the third strike was dropped. *)
AfterPitch ==
  LET d == CellData(game, ui)
      last == IF d.pitches = <<>> THEN "" ELSE d.pitches[Len(d.pitches)].code
      strikeOut == d.outcome \in {"K", "Kc"}
  IN /\ ui' = CASE d.outcome = "BB" -> ForcedAdvance(ui)
                [] strikeOut /\ last = "Dropped" ->
                     ShowBallInPlay([ui EXCEPT !.mode = "dropped"], d)
                [] strikeOut /\ last # "Dropped" -> Closed(ui)
                [] OTHER -> ui
     /\ data' = Copy(ui', d)
     /\ IF strikeOut /\ last # "Dropped" THEN LeadAfterThirdOut(ui, NextBatter(ui))
        ELSE Quiet

AfterPlay ==
  /\ ui' = [Closed(ui) EXCEPT !.pend = <<>>, !.editing = FALSE, !.mode = "normal"]
  /\ data' = NoCell
  /\ LeadAfterThirdOut(ui, NextBatter(ui))

AfterAdvance == /\ ui' = Closed(ui) /\ data' = NoCell
                /\ LeadAfterThirdOut(ui, NextBatter(ui))

(* Mutant: the list of runners stays. *)
RunnersStayListed == LeadAfterThirdOut(ui, ui.ctx.b) /\ UNCHANGED <<ui, data>>

(* The batter who waited leads off: the out was on the bases. *)
AfterRunnerActions == /\ ui' = Shown(Left(ui), "main")
                      /\ LeadAfterThirdOut(ui, ui.ctx.b)
                      /\ UNCHANGED data

(* Mutant: the copy of the cell is not made again. *)
AfterSyncStale(close, menu) ==
  /\ ui' = [ui EXCEPT !.view = IF close THEN "grid" ELSE @,
                      !.menu = IF menu THEN <<>> ELSE @]
  /\ data' = Copy(ui', data)
  /\ Quiet

AfterSync(close, menu) ==
  /\ ui' = [ui EXCEPT !.view = IF close THEN "grid" ELSE @,
                      !.menu = IF menu THEN <<>> ELSE @]
  /\ data' = Copy(ui', CellData(game, ui))
  /\ Quiet

(* The rest of commitBiP behind a dropped strike. *)
AfterDropped == /\ PlayOrAdvance([ui EXCEPT !.pend = ui.bip], "normal", Tail(rest))
                /\ UNCHANGED data

(* The overlay's copy follows another device's action when its cell has an
   event. *)
AfterRemote ==
  /\ data' = IF InCell /\ CellKey(ui) \in DOMAIN game.events
             THEN game.events[CellKey(ui)] ELSE data
  /\ Quiet /\ UNCHANGED ui

Resume ==
  /\ rest # <<>>
  /\ LET k == Head(rest)
     IN \/ /\ k \in {"pitch", "dropped"} /\ AfterPitch
           /\ rest' = IF k = "dropped" THEN Append(Tail(rest), "commit") ELSE Tail(rest)
        \/ k = "play" /\ AfterPlay /\ rest' = Tail(rest)
        \/ k = "advance" /\ AfterAdvance /\ rest' = Tail(rest)
        \/ k = "runners" /\ AfterRunnerActions /\ rest' = Tail(rest)
        \/ /\ k \in {"sync", "base", "clear"} /\ AfterSync(k = "clear", k = "base")
           /\ rest' = Tail(rest)
        \/ k = "remote" /\ AfterRemote /\ rest' = Tail(rest)
        \/ k = "commit" /\ AfterDropped

--------------------------------------------------------------------------------
(* The sheet. *)

OnSheet(a) == ~InCell /\ Room /\ Dispatch(a) /\ UNCHANGED <<ui, data, rest>>

ToggleLead(b, c) ==
  OnSheet([type |-> "SET_INNING_LEAD", team |-> ui.team, col |-> ColumnId(c),
           row |-> IF c.lead[ui.team] = b THEN -1 ELSE b])

(* The play goes to the target batter's first cell without one, from the
   column it was in on, or to a new column. *)
MovePlay(key, b) ==
  LET columns == SelectSeq(game.columns, LAMBDA c : c.inning = key[3][1])
      start == Max({1, SelectInSeq(columns, LAMBDA c : ColumnId(c) = key[3])})
      free == {j \in start..Len(columns) :
                 LET k == <<ui.team, b, ColumnId(columns[j])>>
                 IN k \notin DOMAIN game.events \/ game.events[k].outcome = ""}
      sub == Max({0} \cup {c.sub : c \in Range(columns)}) + 1
      target == IF free # {} THEN ColumnId(columns[Min(free)]) ELSE <<key[3][1], sub>>
  IN /\ key[1] = ui.team /\ b < Len(game.roster[ui.team])
     /\ game.events[key].outcome # ""
     /\ OnSheet([type |-> "MOVE_PLAY", source |-> key, target |-> <<ui.team, b, target>>,
                 event |-> [game.events[key] EXCEPT !.pId = game.roster[ui.team][b + 1].current],
                 newColumn |-> IF free # {} THEN <<>> ELSE NewColumn(key[3][1], sub, "")])

AddColumn(inning) ==
  OnSheet([type |-> "ADD_COLUMN", inning |-> inning, team |-> ui.team])

RemoveColumn(c) ==
  /\ ~RecordedData(game, ui.team, ColumnId(c))
  /\ \E d \in Range(game.columns) : /\ d.inning = c.inning /\ d.team \in {"", ui.team}
                                    /\ d # c
  /\ OnSheet([type |-> "REMOVE_COLUMN", col |-> ColumnId(c), team |-> ui.team])

AddInning == OnSheet([type |-> "ADD_INNING"])
EditScore(inning, score) ==
  /\ game.status # "final"
  /\ OnSheet([type |-> "SCORE_OVERRIDE", team |-> ui.team, inning |-> inning, score |-> score])
EndGame == game.status # "final" /\ OnSheet([type |-> "GAME_FINALIZE"])

--------------------------------------------------------------------------------
(* Undo, redo, other devices, and a reload. *)

Undo == UndoTarget(log) # 0 /\ OnSheet([type |-> "UNDO", refId |-> UndoTarget(log)])
Redo == RedoTarget(log) # 0 /\ OnSheet([type |-> "UNDO", refId |-> RedoTarget(log)])

(* handleRemoteAction. *)
Receive(a) == Room /\ Dispatch(a) /\ Await("remote") /\ UNCHANGED <<ui, data>>

(* The page is loaded again: the game is what its log says. *)
Reload ==
  /\ rest = <<>>
  /\ game' = ComputeStateFromLog(log) /\ loose' = {} /\ UNCHANGED rest
  /\ ui' = [team |-> "away", ctx |-> <<>>, view |-> "grid", menu |-> <<>>,
            bip |-> <<>>, mode |-> "normal", pend |-> <<>>, runners |-> <<>>,
            editing |-> FALSE]
  /\ data' = NoCell
  /\ UNCHANGED log

--------------------------------------------------------------------------------
Columns == Range(game.columns)
Touched == {cell[2] : cell \in Cells}

InOverlay ==
  \/ CloseCSO \/ ToggleAction
  \/ \E p \in Pitches : IF p[1] = "out" THEN RecordOut(p[2]) ELSE RecordPitch(p[1], p[2])
  \/ \E code \in {"HBP", "IBB", "CI"} \cap MenuCodes : RecordAutoAdvance(code)
  \/ SelectDropped \/ ShowBip \/ HideBip \/ CommitBiP
  \/ AddToSequence \/ BackspaceSequence
  \/ \E key \in {"res", "base", "type"} : CycleBiP(key)
  \/ CloseRunnerAdvance \/ FinishTurn
  \/ OpenRunnerAction \/ CloseRunnerAction \/ SaveRunnerActions \/ RecordBalk
  \/ \E i \in DOMAIN ui.runners, way \in Ways : SetRunnerOutcome(i, way)
  \/ \E base \in Bases : HandleBaseClick(base)
  \/ \E code \in MenuCodes : ApplyRunnerAction(code)
  \/ CloseRunnerMenu
  \/ CycleOutNum \/ ClearAllData \/ UndoPitch
  \/ \E player \in Bench : ChangePitcher(player) \/ CorrectPlayer(player) \/ EditRBI(player)

OnTheSheet ==
  \/ \E b \in Touched, c \in Columns :
       <<ui.team, b, ColumnId(c)>> \in Cells /\ (OpenCSO(b, c) \/ ToggleLead(b, c))
  \/ SwitchTeam
  \/ \E key \in DOMAIN game.events, b \in Touched : MovePlay(key, b)
  \/ \E inning \in {c.inning : c \in Columns} : AddColumn(inning) \/ EditScore(inning, "") \/ EditScore(inning, "5")
  \/ \E c \in Columns : RemoveColumn(c)
  \/ AddInning \/ EndGame
  \/ Undo \/ Redo

Next ==
  \/ InOverlay \/ OnTheSheet \/ Resume \/ Reload
  \/ \E b \in Touched, player \in Bench : Substitute(ui.team, b, player)
  \/ \E a \in Remote : Receive(a)

Spec == Init /\ [][Next]_vars

--------------------------------------------------------------------------------
(* Properties. *)

(* The overlay's views and what is pending in them have the shapes the
   handlers expect, and so do the events. *)
TypeOK ==
  /\ ui.view \in {"grid", "main", "bip", "advance", "action"}
  /\ ui.mode \in {"normal", "dropped"} /\ ui.team \in Team
  /\ InCell => ui.ctx # <<>>
  /\ ui.view = "bip" => ui.bip # <<>>
  /\ \A k \in DOMAIN game.events :
       /\ game.events[k].outNum \in 0..3
       /\ \A p \in 0..3 : game.events[k].paths[p] \in {NotThere, Safe, Out}

(* docs/STATE-MANAGEMENT.md: the state is derived from the log.  As long as
   no change made in the game itself was left behind, the game the handlers
   have built step by step is the one a reload computes. *)
LogTellsTheGame == loose = {} => game = ComputeStateFromLog(log)

(* With no handler waiting, the overlay shows the cell's event if it has one
   (up to a player corrected in place). *)
CellIsShown ==
  InCell /\ rest = <<>> /\ CellKey(ui) \in DOMAIN game.events =>
    [data EXCEPT !.pId = NoPlayer] = [game.events[CellKey(ui)] EXCEPT !.pId = NoPlayer]

(* The runners whose ways the overlay asks for are those on base, whatever the
   scorer did since it listed them (another device's actions may change them). *)
RunnersAreOnBase ==
  ui.view \in {"advance", "action"} /\ rest = <<>>
    /\ ~(\E a \in Remote, entry \in Range(log) : entry = Over(a, [id |-> entry.id]))
  => {<<r.key, r.base>> : r \in Range(ui.runners)}
       = {<<r.key, r.base>> : r \in Range(RunnersOn(ui))}

(* Undo and redo, in any order with anything else, are those of a stack. *)
Promise == INSTANCE UndoStack WITH done <- InForce(log), taken <- TakenBack(log),
                                   undone <- RedoStack(log)
UndoIsAStack == Promise!Spec

OnlySheet == ~InCell /\ rest = <<>> /\ loose = {}

(* Every play of the game is told: the feed shows an item for its cell that is
   not struck out, unless an earlier play was moved away from that cell. *)
PlaysAreTold ==
  OnlySheet =>
    LET history == Items(log)
        left == {a.source : a \in {m \in Range(EffectiveLog(log)) : m.type = "MOVE_PLAY"}}
    IN \A k \in DOMAIN game.events \ left : game.events[k].outcome # "" =>
         \E i \in ItemsOf(history, k) : ~history[i].stricken /\ IsShown(history[i])

(* A cell is told where it was touched first: an action told before the runner
   it moves is replayed while he is not there. *)
ToldInOrder(told) ==
  \A i \in DOMAIN told : \A a \in Range(told[i].events) :
    a.type \in {"PLAY_RESULT", "RUNNER_ADVANCE", "RUNNER_BATCH_UPDATE"} =>
      \A r \in Range(IF a.type = "RUNNER_BATCH_UPDATE" THEN a.updates ELSE a.runners) :
        Latest(told, r.key) <= i

(* With nothing struck out, overridden, hidden or told too early, the score of
   the sheet, that of the feed and the runs of the innings agree. *)
ScoresAgree ==
  OnlySheet =>
    LET told == GenerateLinearHistory(game, log)
        plain(t) ==
          /\ game.overrides[t] = <<>>
          /\ \A k \in DOMAIN game.events : k[1] = t =>
               k[3] \in {ColumnId(c) : c \in VisibleColumns(game, t)}
    IN \A t \in Team : plain(t) =>
         /\ CalculateTotalRuns(game, t)
              = Sum({c.inning : c \in Columns}, LAMBDA i : InningRuns(game, t, i))
         /\ told # <<>> /\ (\A i \in DOMAIN told : ~told[i].stricken) /\ ToldInOrder(told) =>
              told[Len(told)].after.score[t] = CalculateTotalRuns(game, t)

(* docs/LINEAR-HISTORY.md, goldens: the feed can be told, every half inning
   with its summary. *)
FeedCanBeTold ==
  OnlySheet => \A block \in Range(GenerateNarrative(game, log)) : CanBeSummed(block)
================================================================================
