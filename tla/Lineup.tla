------------------------------- MODULE Lineup -------------------------------
(***************************************************************************)
(* The dialog that edits a team's lineup (game/lineupManager.js and its    *)
(* openers in AppController.js) over the sheet of the active game, which   *)
(* other scorers go on changing while the dialog is open.                  *)
(*                                                                         *)
(* A player is an id and a name, "" for an empty row; shirt number and     *)
(* position go with the name.  The dialog has two copies of the lists:     *)
(* lineupState, and the rows on the page, where one types; a re-rendering  *)
(* overwrites the rows, a scrape overwrites lineupState.                   *)
(***************************************************************************)
EXTENDS Naturals, Sequences, SequencesExt

CONSTANTS FirstRoster, FirstSubs,  \* the sheet as the game starts: ids
          TeamPlayers,             \* the ids of the saved team's roster
          StarterCount             \* 9 in the code

(* Ids are UUIDs: starters and bench are two parts of one roster            *)
(* (AppController.js:2826), and the rows the dialog adds are new (from 100).*)
ASSUME LineupAssumption ==
  /\ StarterCount \in Nat
  /\ FirstRoster \in Seq(0 .. 99) /\ FirstSubs \in Seq(0 .. 99)
  /\ IsInjective(FirstRoster \o FirstSubs)
  /\ TeamPlayers \in Seq(0 .. 99) /\ IsInjective(TeamPlayers)

VARIABLES sheet,   \* [roster, subs]: the team in the active game
          lineup,  \* the dialog
          moves    \* bound of the model: steps left

lineupVars == <<sheet, lineup, moves>>

Player(id) == [id |-> id, name |-> "named"]
Blank(id) == [id |-> id, name |-> ""]
Slot(p) == [starter |-> p, current |-> p, history |-> <<>>]
Players(ids) == [k \in DOMAIN ids |-> Player(ids[k])]
(* filter: those of a list that are in a set, in their order *)
Among(list, set) ==
  LET among[n \in 0 .. Len(list)] ==
        IF n = 0 THEN <<>>
        ELSE IF list[n] \in set THEN Append(among[n - 1], list[n]) ELSE among[n - 1]
  IN among[Len(list)]

Closed == [phase |-> "closed", read |-> <<>>, starters |-> <<>>, subs |-> <<>>,
           rows |-> <<>>, dragged |-> <<>>, next |-> 100]
LineupInit ==
  /\ sheet = [roster |-> [k \in DOMAIN FirstRoster |-> Slot(Player(FirstRoster[k]))],
              subs |-> Players(FirstSubs)]
  /\ lineup = Closed

Move == /\ moves > 0 /\ moves' = moves - 1
RenderLists(l) == [l EXCEPT !.rows = [starters |-> l.starters, subs |-> l.subs]]
(* scrape *)
Scraped(l) == [l EXCEPT !.starters = l.rows.starters, !.subs = l.rows.subs]
Group(l, type) == IF type = "starter" THEN l.starters ELSE l.subs
WithGroup(l, type, list) ==
  IF type = "starter" THEN [l EXCEPT !.starters = list] ELSE [l EXCEPT !.subs = list]
Types == {"starter", "sub"}

--------------------------------------------------------------------------------
(* getInitialLineupState: the sheet is read before the teams are awaited. *)

OpenLineup ==
  /\ lineup.phase = "closed" /\ Move
  /\ lineup' = [lineup EXCEPT !.phase = "opening", !.read = sheet]
  /\ UNCHANGED sheet

InitialLineup(read, next) ==
  LET used == {read.roster[k].starter.id : k \in DOMAIN read.roster}
              \cup {read.subs[k].id : k \in DOMAIN read.subs}
      missing == Among(TeamPlayers, ToSet(TeamPlayers) \ used)
      subs == read.subs \o Players(missing)
      count == IF Len(read.roster) > StarterCount THEN Len(read.roster) ELSE StarterCount
  IN [starters |-> [k \in 1 .. count |-> IF k \in DOMAIN read.roster
                                         THEN read.roster[k].starter ELSE Blank(next + k)],
      subs |-> IF subs = <<>> THEN <<Blank(next)>> ELSE subs]
ShowLineup ==
  /\ lineup.phase = "opening"
  /\ LET lists == InitialLineup(lineup.read, lineup.next)
     IN lineup' = RenderLists([lineup EXCEPT !.phase = "open", !.starters = lists.starters,
                            !.subs = lists.subs, !.next = @ + StarterCount + 1])
  /\ UNCHANGED <<sheet, moves>>

--------------------------------------------------------------------------------
(* Editing. *)

(* One pointer: whoever drags does not click. *)
Free == lineup.phase = "open" /\ lineup.dragged = <<>>
Rows(type) == IF type = "starter" THEN lineup.rows.starters ELSE lineup.rows.subs
TypeName(type, k, name) ==
  /\ Free /\ k \in DOMAIN Rows(type) /\ Rows(type)[k].name # name /\ Move
  /\ lineup' = IF type = "starter" THEN [lineup EXCEPT !.rows.starters[k].name = name]
               ELSE [lineup EXCEPT !.rows.subs[k].name = name]
  /\ UNCHANGED sheet

StartDrag(type, k) ==
  /\ Free /\ k \in DOMAIN Rows(type) /\ Move
  /\ lineup' = [lineup EXCEPT !.dragged = <<type, k>>]
  /\ UNCHANGED sheet
EndDrag ==
  /\ lineup.phase = "open" /\ lineup.dragged # <<>>
  /\ lineup' = [lineup EXCEPT !.dragged = <<>>]
  /\ UNCHANGED <<sheet, moves>>

(* The place is counted once the player has been taken out. *)
MovePlayer(l, from, fromType, to, toType) ==
  LET item == Group(l, fromType)[from]
      taken == WithGroup(l, fromType, RemoveAt(Group(l, fromType), from))
      target == Group(taken, toType)
      place == IF to > Len(target) + 1 THEN Len(target) + 1 ELSE to
  IN WithGroup(taken, toType, InsertAt(target, place, item))
(* Rendered without a scrape: what was typed and not scraped is lost. *)
Drop(type, k) ==
  /\ lineup.phase = "open" /\ lineup.dragged # <<>> /\ k \in DOMAIN Rows(type)
  /\ lineup' = RenderLists([MovePlayer(lineup, lineup.dragged[2], lineup.dragged[1], k, type)
                       EXCEPT !.dragged = <<>>])
  /\ UNCHANGED <<sheet, moves>>

AddPlayer(type) ==
  /\ Free /\ Move
  /\ LET l == Scraped(lineup)
     IN lineup' = RenderLists([WithGroup(l, type, Append(Group(l, type), Blank(l.next)))
                          EXCEPT !.next = @ + 1])
  /\ UNCHANGED sheet
(* Only the rows of substitutes have the button. *)
RemoveSub(k) ==
  /\ Free /\ k \in DOMAIN lineup.rows.subs /\ Move
  /\ LET l == Scraped(lineup) IN lineup' = RenderLists([l EXCEPT !.subs = RemoveAt(@, k)])
  /\ UNCHANGED sheet
CloseLineup ==
  /\ Free
  /\ lineup' = [Closed EXCEPT !.next = lineup.next] /\ UNCHANGED <<sheet, moves>>

--------------------------------------------------------------------------------
(* save: a starter keeps the slot the game has for them now. *)

SavedSlot(p, roster) ==
  LET mine == SelectInSeq(roster, LAMBDA s : s.starter.id = p.id)
      existing == roster[mine]
  IN IF mine = 0 THEN Slot(p)
     ELSE [existing EXCEPT !.starter = p,
             !.current = IF existing.current.id = existing.starter.id THEN p ELSE @]
Named(list) == Among(list, {p \in ToSet(list) : p.name # ""})
\* Mutant: the slots are those of when the dialog was opened.
SavedOverRead(l) ==
  LET starters == Named(l.starters)
  IN [roster |-> [k \in DOMAIN starters |-> SavedSlot(starters[k], l.read.roster)],
      subs |-> Named(l.subs)]
SavedSheet(l) ==
  LET starters == Named(l.starters)
  IN [roster |-> [k \in DOMAIN starters |-> SavedSlot(starters[k], sheet.roster)],
      subs |-> Named(l.subs)]
\* Mutant: saved without reading the rows.
SaveUnscraped ==
  /\ Free
  /\ sheet' = SavedSheet(lineup)
  /\ lineup' = [Closed EXCEPT !.phase = "saved", !.next = lineup.next]
  /\ UNCHANGED moves
SaveLineup ==
  /\ Free
  /\ sheet' = SavedSheet(Scraped(lineup))
  /\ lineup' = [Closed EXCEPT !.phase = "saved", !.next = lineup.next]
  /\ UNCHANGED moves
LineupSaved == /\ lineup.phase = "saved" /\ lineup' = [lineup EXCEPT !.phase = "closed"]
               /\ UNCHANGED <<sheet, moves>>

(* Another scorer's actions, as the reducer applies them. *)
OtherSubstitutes(k, p) ==
  /\ k \in DOMAIN sheet.roster /\ p \in ToSet(sheet.subs) /\ Move
  /\ sheet' = [sheet EXCEPT !.roster[k].history = Append(@, sheet.roster[k].current),
                            !.roster[k].current = p]
  /\ UNCHANGED lineup
OtherReorders ==
  /\ Len(sheet.roster) > 1 /\ Move
  /\ sheet' = [sheet EXCEPT !.roster = Reverse(@)] /\ UNCHANGED lineup

LineupNext ==
  \/ OpenLineup \/ ShowLineup \/ EndDrag \/ CloseLineup \/ SaveLineup \/ LineupSaved
  \/ OtherReorders
  \/ \E type \in Types : AddPlayer(type)
  \/ \E type \in Types, k \in 1 .. Len(TeamPlayers) + StarterCount + 2 :
       \/ \E name \in {"", "typed"} : TypeName(type, k, name)
       \/ StartDrag(type, k) \/ Drop(type, k)
  \/ \E k \in 1 .. Len(TeamPlayers) + StarterCount + 2 : RemoveSub(k)
  \/ \E k \in DOMAIN sheet.roster : \E p \in ToSet(sheet.subs) : OtherSubstitutes(k, p)
================================================================================
