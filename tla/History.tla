-------------------------------- MODULE History --------------------------------
(***************************************************************************)
(* The linear history of a game (src/frontend/game/historyManager.js): the *)
(* log without what was undone, cut into items, each a plate appearance,   *)
(* with what was corrected struck out, and the state of the game before    *)
(* and after each item.                                                    *)
(***************************************************************************)
EXTENDS GameReducer

Undos(log) == {i \in DOMAIN log : log[i].type = "UNDO"} \ EffectivelyUndone(log)
InForce(log) == {i \in DOMAIN log : log[i].type # "UNDO"} \ EffectivelyUndone(log)
EffectiveLog(log) ==
  LET kept == InForce(log) IN SelectSeq(log, LAMBDA a : a.id \in kept)

(* The last action that is neither an UNDO nor undone, 0 for none. *)
UndoTarget(log) == Max({0} \cup InForce(log))

(* UNDOs in force of an action: the last one can be undone if no action in
   force stands behind it. *)
Redoable(log) ==
  {i \in Undos(log) : log[log[i].refId].type # "UNDO"}
(* Mutant: what stands behind the UNDO is not looked at. *)
LastUndone(log) == Max({0} \cup Redoable(log))
RedoTarget(log) ==
  LET found == Max({0} \cup Redoable(log))
  IN IF found > UndoTarget(log) THEN found ELSE 0

(* The UNDOs in force of an action, each with the action it takes back. *)
TakenBack(log) == {<<log[u].refId, u>> : u \in Redoable(log)}

(* What repeated redos bring back, the last one first: an action stays out once
   one behind its UNDO is in force, or would be when its turn comes. *)
Repeatable(log) ==
  LET found == Redoable(log)
      last == UndoTarget(log)
  IN {u \in found : u > last /\ \A j \in found : j > u => u > log[j].refId}
RedoStack(log) ==
  LET left == Repeatable(log)
      stack[i \in 0..Len(log)] ==
        IF i = 0 THEN <<>>
        ELSE IF i \in left THEN Append(stack[i - 1], <<log[i].refId, i>>)
        ELSE stack[i - 1]
  IN stack[Len(log)]

--------------------------------------------------------------------------------
(* Items. *)

HistoryItem(key, events, n) ==
  [key |-> key, n |-> n, events |-> events, stricken |-> FALSE,
   correction |-> n > 0, cleared |-> FALSE]
ItemsOf(history, key) == {i \in DOMAIN history : history[i].key = key}
Latest(history, key) == Max({0} \cup ItemsOf(history, key))
Strike(history, i) ==
  IF i = 0 THEN history ELSE [history EXCEPT ![i].stricken = TRUE]

(* The cell an action is about, else the one before it was about. *)
ContextKey(a, current) ==
  IF a.type = "MANUAL_PATH_OVERRIDE" THEN a.key
  ELSE IF "ctx" \in DOMAIN a /\ a.ctx # <<>> THEN KeyOf(a) ELSE current

IsGenerative(a) == a.type \in {"PLAY_RESULT", "CLEAR_DATA"}

(* Mutant: the moved play is told where it came from. *)
TellMoveAtSource(acc, a) ==
  LET source == Latest(acc.history, a.source)
  IN IF source = 0 THEN acc
     ELSE [history |-> Append(Strike(acc.history, source), HistoryItem(a.source, <<a>>, 1)),
           current |-> a.source]

(* A move strikes its source, and what its target shows. *)
TellMove(acc, a) ==
  LET source == Latest(acc.history, a.source)
      target == Latest(acc.history, a.target)
      n == Cardinality(ItemsOf(acc.history, a.target))
  IN IF source = 0 /\ target = 0 THEN acc
     ELSE [history |-> Append(Strike(Strike(acc.history, source), target),
                              HistoryItem(a.target, <<a>>, n)),
           current |-> a.target]

(* A play or a clearing of a cell that had one, and whatever comes after a
   clearing, begin a new item at the end. *)
TellAction(acc, a) ==
  LET key == ContextKey(a, acc.current)
      at == Latest(acc.history, key)
      item == acc.history[at]
      cleared == \E e \in Range(item.events) : e.type = "CLEAR_DATA"
      replaced == IsGenerative(a) /\ \E e \in Range(item.events) : IsGenerative(e)
      new == HistoryItem(key, <<a>>, Cardinality(ItemsOf(acc.history, key)))
  IN IF key = <<>> THEN acc
     ELSE [current |-> key,
           history |->
             IF at = 0 THEN Append(acc.history, new)
             ELSE IF cleared THEN Append(acc.history, new)
             ELSE IF replaced
             THEN Append([Strike(acc.history, at)
                            EXCEPT ![at].cleared = a.type = "CLEAR_DATA"], new)
             ELSE [acc.history EXCEPT ![at].events = Append(@, a)]]

Items(log) ==
  FoldLeft(LAMBDA acc, a : IF a.type = "MOVE_PLAY" THEN TellMove(acc, a)
                                                   ELSE TellAction(acc, a),
           [history |-> <<>>, current |-> <<>>], EffectiveLog(log)).history

(* insertHeaders: a header stands before an item of another half inning than
   the one before it. *)
HalfInning(item) == <<item.key[3][1], item.key[1]>>
StartsBlock(history, i) == i = 1 \/ HalfInning(history[i]) # HalfInning(history[i - 1])

--------------------------------------------------------------------------------
(* States. *)

(* mapInternalStateToNarrative, for a half inning.  A runner holds a base if
   he is safe there and his way has not led on. *)
Snapshot(g, team, inning) ==
  LET keys == {k \in DOMAIN g.events : k[1] = team /\ k[3] \in InningColumns(g, inning)}
      holds(k, b) == g.events[k].paths[b] = Safe /\ g.events[k].paths[b + 1] = NotThere
  IN [outs |-> Max({0} \cup {g.events[k].outNum : k \in keys}) % 3,
      onBase |-> {b \in 0..2 : \E k \in keys : holds(k, b)},
      score |-> [t \in Team |-> Cardinality({k \in DOMAIN g.events :
                                   k[1] = t /\ g.events[k].paths[3] = Safe})]]

(* The replay starts with the starters and no columns: those the actions of an
   item are about are put in first. *)
StartOfReplay(g) ==
  [InitialState EXCEPT
     !.roster = [t \in Team |-> [i \in DOMAIN g.roster[t] |->
        [g.roster[t][i] EXCEPT !.current = g.roster[t][i].starter, !.history = <<>>]]]]
ReplayAction(g, a) ==
  LET key == ContextKey(a, <<>>)
  IN GameReducer(IF key = <<>> \/ key[3] \in {ColumnId(c) : c \in Range(g.columns)}
                 THEN g
                 ELSE [g EXCEPT !.columns =
                         Append(@, NewColumn(key[3][1], key[3][2], ""))], a)

(* An item that is struck out has a state before it and none after it. *)
ReplayItem(acc, item) ==
  LET half == HalfInning(item)
      end == FoldLeft(ReplayAction, acc.g, item.events)
      before == Snapshot(acc.g, half[2], half[1])
  IN IF item.stricken
     THEN [acc EXCEPT !.told = Append(@, [before |-> before, after |-> <<>>] @@ item)]
     ELSE [g |-> end,
           told |-> Append(acc.told, [before |-> before,
                                      after |-> Snapshot(end, half[2], half[1])] @@ item)]

GenerateLinearHistory(g, log) ==
  FoldLeft(ReplayItem, [g |-> StartOfReplay(g), told |-> <<>>], Items(log)).told
================================================================================
