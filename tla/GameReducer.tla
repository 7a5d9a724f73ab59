------------------------------ MODULE GameReducer ------------------------------
(***************************************************************************)
(* The pure reducer of the browser, src/frontend/reducer.js: the state of  *)
(* a scored game, the effect of every action on it, and the state a log    *)
(* of actions stands for.  Names, coordinates, hit locations and the pitch *)
(* log (which nothing reads) are left out.  A column id "col-i-s" is the   *)
(* pair <<i, s>>, an event key "team-b-col" the triple <<team, b, col>>,   *)
(* and a player is one value.                                              *)
(***************************************************************************)
EXTENDS Integers, Sequences, FiniteSets, SequencesExt, FiniteSetsExt, TLC

CONSTANTS
  Slots,          \* lineup slots of a team: 9 in the code
  Innings,        \* innings of a new game: 7 in the code
  BallsForWalk,   \* 4 in the code
  StrikesForOut,  \* 3 in the code
  NoPlayer        \* the empty player id

ASSUME ReducerConstants ==
  /\ Slots \in Nat \ {0} /\ Innings \in Nat \ {0}
  /\ BallsForWalk \in Nat \ {0} /\ StrikesForOut \in Nat \ {0, 1}

(* f laid over g. *)
Over(f, g) ==
  [x \in DOMAIN f \cup DOMAIN g |-> IF x \in DOMAIN f THEN f[x] ELSE g[x]]

ActionTypes ==
  {"GAME_IMPORT", "GAME_START", "PITCH", "PLAY_RESULT", "RUNNER_ADVANCE", "SUBSTITUTION",
   "LINEUP_UPDATE", "SCORE_OVERRIDE", "PITCHER_UPDATE", "MOVE_PLAY", "CLEAR_DATA",
   "RUNNER_BATCH_UPDATE", "ADD_INNING", "ADD_COLUMN", "REMOVE_COLUMN",
   "GAME_METADATA_UPDATE", "SET_INNING_LEAD", "GAME_FINALIZE", "RBI_EDIT",
   "OUT_NUM_UPDATE", "MANUAL_PATH_OVERRIDE", "UNDO"}

Team == {"away", "home"}
Other(team) == IF team = "away" THEN "home" ELSE "away"

(* What paths[p] says of the way to base p (0 = first, 3 = home).  *)
NotThere == 0
Safe == 1
Out == 2

EmptyEvent(pid) ==
  [outcome |-> "", multi |-> 1, outNum |-> 0, balls |-> 0, strikes |-> 0,
   paths |-> [p \in 0..3 |-> NotThere], info |-> [p \in 0..3 |-> ""],
   pitches |-> <<>>, pId |-> pid, rbi |-> NoPlayer, bip |-> <<>>]

InitialState ==
  [status |-> "ongoing", pitchers |-> [t \in Team |-> NoPlayer],
   overrides |-> [t \in Team |-> <<>>], events |-> <<>>, columns |-> <<>>,
   roster |-> [t \in Team |-> <<>>], subs |-> [t \in Team |-> <<>>],
   meta |-> [away |-> "", home |-> "", event |-> ""]]

ColumnId(c) == <<c.inning, c.sub>>
NewColumn(inning, sub, team) ==
  [inning |-> inning, sub |-> sub, team |-> team, lead |-> [t \in Team |-> -1]]
InningColumns(g, inning) ==
  {ColumnId(c) : c \in {d \in Range(g.columns) : d.inning = inning}}
InColumnOrder(columns) ==
  SortSeq(columns, LAMBDA c, d : \/ c.inning < d.inning
                                 \/ c.inning = d.inning /\ c.sub < d.sub)

KeyOf(a) == <<a.team, a.ctx.b, a.ctx.col>>
EventAt(g, key, pid) == IF key \in DOMAIN g.events THEN g.events[key] ELSE EmptyEvent(pid)
PutEvent(g, key, event) ==
  [g EXCEPT !.events = [k \in DOMAIN @ \cup {key} |-> IF k = key THEN event ELSE @[k]]]
DropEvents(g, keys) ==
  [g EXCEPT !.events = [k \in DOMAIN @ \ keys |-> @[k]]]

OutsExcluding(g, team, inning, keys) ==
  Max({0} \cup {g.events[k].outNum :
                  k \in {e \in DOMAIN g.events \ keys :
                           e[1] = team /\ e[3] \in InningColumns(g, inning)}})

(* Mutant: outs are counted on. *)
AnyNumber(n) == n
AtMost3(n) == IF n > 3 THEN 3 ELSE n
AtLeast0(n) == IF n < 0 THEN 0 ELSE n

--------------------------------------------------------------------------------
(* Setting a game up. *)

ApplyGameStart(g, a) ==
  [g EXCEPT
     !.meta = [away |-> a.away, home |-> a.home, event |-> a.event],
     !.columns = [i \in 1..Innings |-> NewColumn(i, 0, "")],
     !.subs = a.subs,
     !.roster = [t \in Team |-> [i \in 1..Slots |->
                   [starter |-> a.rosters[t][i], current |-> a.rosters[t][i],
                    history |-> <<>>]]]]

(* The payload is a whole game: its fields replace those of the state. *)
ApplyGameImport(g, a) == Over(a.game, g)

(* away and home keep their value when the payload's is empty, event is
   replaced by any value but undefined. *)
ApplyGameMetadataUpdate(g, a) ==
  [g EXCEPT !.meta = [f \in DOMAIN @ |->
     IF f \in DOMAIN a.fields /\ (f = "event" \/ a.fields[f] # "")
     THEN a.fields[f] ELSE @[f]]]

ApplyGameFinalize(g) == [g EXCEPT !.status = "final"]

ApplyLineupUpdate(g, a) ==
  [g EXCEPT !.meta = IF a.name = "" THEN @ ELSE [@ EXCEPT ![a.team] = a.name],
            !.roster[a.team] = a.roster, !.subs[a.team] = a.subs]

(* rosterIndex counts from 0.  With a context the event of the batter is
   handed to the new player, and a marker goes into its pitches. *)
ApplySubstitution(g, a) ==
  LET slot == g.roster[a.team][a.index + 1]
      h == [g EXCEPT !.roster[a.team][a.index + 1] =
              [slot EXCEPT !.history = Append(@, slot.current), !.current = a.player]]
      key == <<a.team, a.index, a.ctx.col>>
      event == EventAt(g, key, a.player)
  IN IF a.ctx = <<>> THEN h
     ELSE PutEvent(h, key, [event EXCEPT !.pId = a.player,
            !.pitches = Append(@, [type |-> "substitution", code |-> "SUB",
                                   pitcher |-> NoPlayer, refId |-> a.id])])

ApplyPitcherUpdate(g, a) == [g EXCEPT !.pitchers[a.team] = a.pitcher]

(* An empty score removes the override. *)
ApplyScoreOverride(g, a) ==
  [g EXCEPT !.overrides[a.team] =
     IF a.score = "" THEN [i \in DOMAIN @ \ {a.inning} |-> @[i]]
                     ELSE Over([i \in {a.inning} |-> a.score], @)]

--------------------------------------------------------------------------------
(* Columns. *)

ApplyAddInning(g) ==
  LET last == Max({0} \cup {c.inning : c \in Range(g.columns)})
  IN [g EXCEPT !.columns = Append(@, NewColumn(last + 1, 0, ""))]

ApplyAddColumn(g, a) ==
  LET last == Max({-1} \cup {c[2] : c \in InningColumns(g, a.inning)})
  IN [g EXCEPT !.columns = InColumnOrder(Append(@, NewColumn(a.inning, last + 1, a.team)))]

RecordedData(g, team, col) ==
  \E k \in DOMAIN g.events :
    /\ k[1] = team /\ k[3] = col
    /\ g.events[k].outcome # "" \/ g.events[k].pitches # <<>>

(* A column goes only when the team keeps another one in the inning and has
   recorded nothing in it; a shared one stays for the other team. *)
ApplyRemoveColumn(g, a) ==
  LET at == SelectInSeq(g.columns, LAMBDA c : ColumnId(c) = a.col)
      col == g.columns[at]
      kept == {c \in Range(g.columns) : /\ c.inning = col.inning
                                        /\ c.team \in {"", a.team}
                                        /\ ColumnId(c) # a.col}
  IN IF \/ at = 0 \/ kept = {} \/ RecordedData(g, a.team, a.col)
        \/ col.team = Other(a.team)
     THEN g
     ELSE DropEvents(
            [g EXCEPT !.columns = IF col.team = a.team THEN RemoveAt(@, at)
                                  ELSE [@ EXCEPT ![at].team = Other(a.team)]],
            {k \in DOMAIN g.events : k[1] = a.team /\ k[3] = a.col})

(* row = -1 is null: the lead is taken back. *)
ApplySetInningLead(g, a) ==
  [g EXCEPT !.columns = [i \in DOMAIN @ |->
     IF ColumnId(@[i]) = a.col THEN [@[i] EXCEPT !.lead[a.team] = a.row] ELSE @[i]]]

--------------------------------------------------------------------------------
(* Pitches. *)

CountBalls(pitches) ==
  FoldLeft(LAMBDA n, p : IF p.type = "ball" /\ n < BallsForWalk THEN n + 1 ELSE n,
           0, pitches)

CountStrikes(pitches) ==
  FoldLeft(LAMBDA n, p :
             IF \/ p.type = "strike" /\ n < StrikesForOut
                \/ p.type = "foul" /\ n < StrikesForOut - 1
             THEN n + 1 ELSE n, 0, pitches)

(* "Kc" stands for the strikeout looking, a reversed K. *)
ApplyPitch(g, a) ==
  LET key == KeyOf(a)
      was == EventAt(g, key, a.batter)
      pitches == Append(was.pitches, [type |-> a.pitch, code |-> a.code,
                                      pitcher |-> g.pitchers[Other(a.team)], refId |-> 0])
      event == [was EXCEPT !.pitches = pitches,
                           !.pId = IF @ = NoPlayer THEN a.batter ELSE @,
                           !.balls = CountBalls(pitches),
                           !.strikes = CountStrikes(pitches)]
      strikeOut == [event EXCEPT
        !.multi = 1,
        !.outcome = IF a.pitch = "strike" /\ a.code = "Called" THEN "Kc" ELSE "K",
        !.outNum = IF a.pitch = "strike" /\ a.code = "Dropped" THEN @
                   ELSE AtMost3(OutsExcluding(g, a.team, a.ctx.i, {key}) + 1)]
  IN PutEvent(g, key,
       CASE event.balls >= BallsForWalk ->
              [event EXCEPT !.outcome = "BB", !.multi = 1, !.paths[0] = Safe]
         [] event.balls < BallsForWalk /\ event.strikes >= StrikesForOut -> strikeOut
         [] OTHER -> event)

--------------------------------------------------------------------------------
(* Balls in play.  bip is [res, base, type, seq, mode], seq the number of
   fielders in the sequence of throws. *)

BaseIndex(base) == CASE base = "1B" -> 0 [] base = "2B" -> 1 [] base = "3B" -> 2
                     [] base = "Home" -> 3 [] OTHER -> -1

AirOut(bip) == \/ bip.res \in {"Fly", "Line", "IFF"}
               \/ bip.res = "Out" /\ bip.type = "SF"

(* The outcome's letters: "G" is a plain sequence of throws, no letters at all
   if there was none; the code writes "DP" or "TP" before them. *)
OutcomeOf(bip) ==
  IF bip.mode = "dropped" THEN IF bip.res = "Safe" THEN bip.type ELSE "K"
  ELSE CASE bip.res = "Safe" ->
              IF bip.type = "ERR" THEN "E"
              ELSE IF bip.type \in {"FC", "HBP", "IBB", "CI"} THEN bip.type
              ELSE IF bip.base \in {"1B", "2B", "3B"} THEN bip.base ELSE "HR"
         [] bip.res = "Fly" -> IF bip.type = "SF" THEN "SF" ELSE "F"
         [] bip.res = "Line" -> "L"
         [] bip.res = "IFF" -> "IFF"
         [] bip.res \in {"Ground", "Out"} ->
              IF bip.type \in {"BOO", "Int", "SO", "SH", "SF"} THEN bip.type
             ELSE IF bip.seq = 0 THEN "" ELSE "G"
         [] OTHER -> ""

(* The way the batter went, an out at the base it was made. *)
BatterPaths(bip, was) ==
  LET last == BaseIndex(bip.base)
      way(end) == [p \in 0..3 |-> IF p < last THEN Safe ELSE IF p = last THEN end ELSE NotThere]
  IN IF last = -1 \/ (bip.res # "Safe" /\ AirOut(bip)) THEN was
     ELSE way(IF bip.res = "Safe" THEN Safe ELSE Out)

(* The way a runner on base b went with the play. *)
RunnerPaths(paths, b, outcome) ==
  CASE outcome = "Out" -> [paths EXCEPT ![b + 1] = Out]
    [] outcome = "To 2nd" -> [paths EXCEPT ![1] = Safe]
    [] outcome = "To 3rd" -> [paths EXCEPT ![1] = IF b = 0 THEN Safe ELSE @, ![2] = Safe]
    [] outcome = "Score" -> [p \in 0..3 |-> IF p > b THEN Safe ELSE paths[p]]
    [] OTHER -> paths

(* The runners of a play one after the other.  From first on, outs are
   numbered from "first" when the runners' outs come before the batter's,
   else each out is one more than the outs of the others at that moment;
   without a context (inning = 0) an out keeps its number. *)
MoveRunner(acc, r, team, inning, rbi) ==
  LET e == acc.g.events[r.key]
      numbered == r.outcome = "Out" /\ acc.next > 0
      n == IF r.outcome # "Out" THEN e.outNum
           ELSE IF numbered THEN acc.next
           ELSE IF inning = 0 THEN e.outNum
           ELSE AtMost3(OutsExcluding(acc.g, team, inning, {r.key}) + 1)
      f == [e EXCEPT !.paths = RunnerPaths(@, r.base, r.outcome),
                     !.outNum = n,
                     !.rbi = IF r.outcome = "Score" /\ rbi # NoPlayer THEN rbi ELSE @]
  IN IF r.key \notin DOMAIN acc.g.events THEN acc
     ELSE [g |-> PutEvent(acc.g, r.key, f),
           next |-> IF numbered THEN acc.next + 1 ELSE acc.next]
MoveRunners(g, team, inning, runners, first, rbi) ==
  LET moved[i \in 0..Len(runners)] ==
        IF i = 0 THEN [g |-> g, next |-> first]
        ELSE MoveRunner(moved[i - 1], runners[i], team, inning, rbi)
  IN moved[Len(runners)].g

OutsIn(runners) == Cardinality({i \in DOMAIN runners : runners[i].outcome = "Out"})

ApplyPlayResult(g, a) ==
  LET key == KeyOf(a)
      bip == a.bip
      was == EventAt(g, key, a.batter)
      batterOut == bip.res # "Safe"
      runnersOut == OutsIn(a.runners)
      outs == runnersOut + (IF batterOut THEN 1 ELSE 0)
      before == OutsExcluding(g, a.team, a.ctx.i, {key})
      outNum == IF ~batterOut THEN 0
                ELSE AtMost3(before + (IF AirOut(bip) THEN 1 ELSE outs))
      event == [was EXCEPT
        !.pId = IF @ = NoPlayer THEN a.batter ELSE @,
        !.bip = bip, !.outNum = outNum,
        !.outcome = IF OutcomeOf(bip) = "" /\ outs \in {2, 3} THEN "G" ELSE OutcomeOf(bip),
        !.multi = IF outs \in {2, 3} THEN outs ELSE 1,
        !.paths = BatterPaths(bip, @),
        !.rbi = IF bip.res = "Safe" /\ bip.base = "Home" /\ OutcomeOf(bip) # "E"
                   /\ a.batter # NoPlayer THEN a.batter ELSE @]
      first == IF ~AirOut(bip) /\ outNum > 0 /\ runnersOut > 0
               THEN outNum - runnersOut ELSE 0
      rbi == IF bip.res = "Safe" \/ outs \notin {2, 3} THEN a.batter ELSE NoPlayer
  IN MoveRunners(PutEvent(g, key, event), a.team, a.ctx.i, a.runners, first, rbi)

(* Where a runner is put out, what the cell noted about that base is blanked. *)
BlankOuts(g, runners) ==
  LET outs == {<<r.key, r.base + 1>> : r \in {s \in Range(runners) : s.outcome = "Out"}}
      info(k) == g.events[k].info
  IN [g EXCEPT !.events = [k \in DOMAIN g.events |-> [g.events[k] EXCEPT !.info =
       [p \in DOMAIN info(k) |-> IF <<k, p>> \in outs THEN "" ELSE info(k)[p]]]]]

(* Runners that move apart from a play in play; ctx = <<>> is no context. *)
ApplyRunnerAdvance(g, a) ==
  LET key == KeyOf(a)
      runnersOut == OutsIn(a.runners)
      known == a.ctx # <<>> /\ key \in DOMAIN g.events
      shift == /\ a.sequencing = "RunnersFirst" /\ known
               /\ g.events[key].outNum > 0 /\ runnersOut > 0
      h == IF shift
           THEN [g EXCEPT !.events[key].outNum = AtMost3(@ + runnersOut)] ELSE g
      moved == MoveRunners(h, a.team, IF a.ctx = <<>> THEN 0 ELSE a.ctx.i, a.runners,
                           IF shift THEN g.events[key].outNum ELSE 0,
                           IF a.rbiEligible THEN a.batter ELSE NoPlayer)
  IN BlankOuts(moved, a.runners)

--------------------------------------------------------------------------------
(* Runner actions, moves and corrections. *)

SafeActions == {"SB", "Adv", "Place", "BK", "CR", "E"}
OutActions == {"CS", "Out", "PO", "LE", "LB", "Int"}

(* updates is a sequence of [key, action, base]; the outs of the batch are
   numbered after those of the events it does not touch. *)
UpdateRunner(acc, u, batter) ==
  LET e == EventAt(acc.g, u.key, batter)
      p == u.base + 1
      put(way, n) == PutEvent(acc.g, u.key,
        [e EXCEPT !.paths[p] = way, !.info[p] = u.action, !.outNum = n])
  IN IF p <= 3 /\ u.action \in SafeActions
     THEN [acc EXCEPT !.g = put(Safe, e.outNum)]
     ELSE IF p <= 3 /\ u.action \in OutActions
     THEN [g |-> put(Out, AtMost3(acc.outs + 1)), outs |-> acc.outs + 1]
     ELSE [acc EXCEPT !.g = PutEvent(acc.g, u.key, e)]
ApplyRunnerBatchUpdate(g, a) ==
  LET keys == {u.key : u \in Range(a.updates)}
      updated[i \in 0..Len(a.updates)] ==
        IF i = 0 THEN [g |-> g, outs |-> OutsExcluding(g, a.team, a.ctx.i, keys)]
        ELSE UpdateRunner(updated[i - 1], a.updates[i], a.batter)
  IN updated[Len(a.updates)].g

ApplyClearData(g, a) == PutEvent(g, KeyOf(a), EmptyEvent(a.batter))

(* newColumn = <<>>: the play moves into a column that is there. *)
ApplyMovePlay(g, a) ==
  LET h == IF a.newColumn = <<>> THEN g
           ELSE [g EXCEPT !.columns = InColumnOrder(Append(@, a.newColumn))]
  IN DropEvents(PutEvent(h, a.target, a.event), {a.source})

ApplyRBIEdit(g, a) ==
  IF a.key \in DOMAIN g.events THEN [g EXCEPT !.events[a.key].rbi = a.credit] ELSE g

ApplyOutNumUpdate(g, a) ==
  IF a.key \in DOMAIN g.events THEN [g EXCEPT !.events[a.key].outNum = a.outNum] ELSE g

(* data is a record of some of an event's fields. *)
ApplyManualPathOverride(g, a) ==
  PutEvent(g, a.key, Over(a.data, EventAt(g, a.key, NoPlayer)))

--------------------------------------------------------------------------------
GameReducer(g, a) ==
  CASE a.type = "GAME_IMPORT"          -> ApplyGameImport(g, a)
    [] a.type = "GAME_START"           -> ApplyGameStart(g, a)
    [] a.type = "PITCH"                -> ApplyPitch(g, a)
    [] a.type = "PLAY_RESULT"          -> ApplyPlayResult(g, a)
    [] a.type = "RUNNER_ADVANCE"       -> ApplyRunnerAdvance(g, a)
    [] a.type = "SUBSTITUTION"         -> ApplySubstitution(g, a)
    [] a.type = "LINEUP_UPDATE"        -> ApplyLineupUpdate(g, a)
    [] a.type = "SCORE_OVERRIDE"       -> ApplyScoreOverride(g, a)
    [] a.type = "PITCHER_UPDATE"       -> ApplyPitcherUpdate(g, a)
    [] a.type = "MOVE_PLAY"            -> ApplyMovePlay(g, a)
    [] a.type = "CLEAR_DATA"           -> ApplyClearData(g, a)
    [] a.type = "RUNNER_BATCH_UPDATE"  -> ApplyRunnerBatchUpdate(g, a)
    [] a.type = "ADD_INNING"           -> ApplyAddInning(g)
    [] a.type = "ADD_COLUMN"           -> ApplyAddColumn(g, a)
    [] a.type = "REMOVE_COLUMN"        -> ApplyRemoveColumn(g, a)
    [] a.type = "GAME_METADATA_UPDATE" -> ApplyGameMetadataUpdate(g, a)
    [] a.type = "SET_INNING_LEAD"      -> ApplySetInningLead(g, a)
    [] a.type = "GAME_FINALIZE"        -> ApplyGameFinalize(g)
    [] a.type = "RBI_EDIT"             -> ApplyRBIEdit(g, a)
    [] a.type = "OUT_NUM_UPDATE"       -> ApplyOutNumUpdate(g, a)
    [] a.type = "MANUAL_PATH_OVERRIDE" -> ApplyManualPathOverride(g, a)
    [] a.type \in {"UNDO"}             -> g

(* From the last UNDO to the first: one that is not undone itself undoes the
   action it refers to.  The id of an action is its place in the log. *)
EffectivelyUndone(log) ==
  LET undone[i \in 1..Len(log) + 1] ==
        IF i = Len(log) + 1 THEN {}
        ELSE LET later == undone[i + 1]
             IN IF log[i].type # "UNDO" \/ i \in later THEN later
                ELSE later \cup {log[i].refId}
  IN undone[1]

ComputeStateFromLog(log) ==
  LET undone == EffectivelyUndone(log)
      state[i \in 0..Len(log)] ==
        IF i = 0 THEN InitialState
        ELSE IF i \in undone \/ log[i].type = "UNDO" THEN state[i - 1]
        ELSE GameReducer(state[i - 1], log[i])
  IN state[Len(log)]
================================================================================
