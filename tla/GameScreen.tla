----------------------------- MODULE GameScreen -----------------------------
(***************************************************************************)
(* A game opened from the library: ActiveGameController.loadGameForView,   *)
(* checkPermissions, dispatch, the queue of saveState, createGame, and the *)
(* part of the socket's life that touches the stores (an acknowledgement   *)
(* marks the game clean; SyncClient has the protocol itself).              *)
(***************************************************************************)
EXTENDS Dashboard

CONSTANT NoGame

VARIABLE board  \* the active game and what is under way for it

NoBoard == [game |-> NoGame, log |-> <<>>, owner |-> NoUser, start |-> NoUser,
            readOnly |-> FALSE, jobs |-> <<>>, socket |-> NoGame,
            pending |-> {}, wire |-> <<>>, acks |-> <<>>]
page == <<screen, dash>>

--------------------------------------------------------------------------------
(* Opening. *)

OpenGame(g) ==
  /\ Started /\ Click /\ ~(screen = "game" /\ board.game = g)
  /\ calls' = Append(calls, Await("opened", g, db.games[g]))
  /\ UNCHANGED <<db, srv, user, live, offline, held, page, board>>

(* A record without a log becomes a game that starts by importing it. *)
ImportEdit == MaxEdits + 9
ShowGame(i, record, g) ==
  LET imported == [record EXCEPT !.log = <<ImportEdit>>]
  IN IF record.log = <<>>
     THEN /\ db' = SaveGame(db, g, imported, TRUE)
          /\ calls' = Append(Without(i), Await("stored", g, imported))
          /\ UNCHANGED <<page, board>>
     ELSE /\ board' = [board EXCEPT !.game = g, !.log = record.log, !.owner = record.owner,
                                    !.start = record.start]
          /\ screen' = "game"
          /\ calls' = Append(Without(i), Await("permitted", [id |-> g, owner |-> record.owner], KnownTeams(db)))
          /\ UNCHANGED <<db, dash>>
(* Back to the list, which the change of the address then loads once more. *)
TurnAway(i) ==
  LoadDashboard(dash, db, Append(Without(i), Await("route", <<>>, TRUE)))
Disconnected == [board EXCEPT !.socket = NoGame, !.wire = <<>>, !.acks = <<>>]
Routed(i) ==
  /\ GoesOn(i, "route") /\ Idle
  /\ LoadDashboard(dash, db, Without(i)) /\ board' = Disconnected

Opened(i) ==
  LET g == calls[i].with
  IN /\ GoesOn(i, "opened") /\ UNCHANGED <<srv, user, live, offline, left, held>>
     /\ IF calls[i].ans # Absent THEN ShowGame(i, calls[i].ans, g)
        ELSE /\ calls' = Append(Without(i), Fetch("downloaded", g, "pull", g))
             /\ UNCHANGED <<db, page, board>>
(* A game that is not in the browser is stored as it comes, dirty. *)
Downloaded(i) ==
  LET g == calls[i].with
      record == FromServer(calls[i].ans)
  IN /\ GoesOn(i, "downloaded")
     /\ IF Replied(i)
        THEN /\ db' = SaveGame(db, g, record, TRUE)
             /\ calls' = Append(Without(i), Await("stored", g, record))
             /\ UNCHANGED page
        ELSE TurnAway(i) /\ UNCHANGED db
     /\ UNCHANGED <<srv, user, live, offline, left, held, board>>
Stored(i) ==
  /\ GoesOn(i, "stored") /\ ShowGame(i, calls[i].ans, calls[i].with)
  /\ UNCHANGED <<srv, user, live, offline, left, held>>

(* The checks are about the game that was opened: it is taken before their *)
(* awaits, in which another one may become the active game.  The user is   *)
(* the same after them: another user comes with another page.              *)
FactsOf(game) == [owner |-> game.owner] @@ GameFacts[game.id]
ActiveFacts == FactsOf([id |-> board.game, owner |-> board.owner])
\* Mutant: once read-only, always read-only.
CheckPermissionsAgain(i) ==
  /\ GoesOn(i, "permitted")
  /\ board' = [board EXCEPT !.readOnly =
                 @ \/ IsReadOnly(FactsOf(calls[i].with), user, calls[i].ans)]
  /\ calls' = Append(Without(i), Await("access", calls[i].with, KnownTeams(db)))
  /\ Idle /\ UNCHANGED page
CheckPermissions(i) ==
  /\ GoesOn(i, "permitted")
  /\ board' = [board EXCEPT !.readOnly = IsReadOnly(FactsOf(calls[i].with), user, calls[i].ans)]
  /\ calls' = Append(Without(i), Await("access", calls[i].with, KnownTeams(db)))
  /\ Idle /\ UNCHANGED page
(* Nobody sees a game they may not read; then the socket is opened. *)
CheckAccess(i) ==
  LET game == calls[i].with
  IN /\ GoesOn(i, "access") /\ Idle
     /\ IF HasReadAccess(FactsOf(game), calls[i].ans, user)
        THEN /\ board' = [board EXCEPT !.socket = IF user = NoUser THEN NoGame ELSE game.id,
                                       !.pending = {}, !.wire = <<>>, !.acks = <<>>]
             /\ calls' = Without(i) /\ UNCHANGED page
        ELSE TurnAway(i) /\ UNCHANGED board

(* handleHashChange to the dashboard *)
LeaveGame ==
  /\ screen = "game" /\ Click
  /\ board' = Disconnected /\ LoadDashboard(dash, db, calls)
  /\ UNCHANGED <<db, srv, user, live, offline, held>>

--------------------------------------------------------------------------------
(* Scoring: every action is saved in turn, then sent. *)

(* The head of the queue is the job that runs: its record is written as it *)
(* starts. *)
RunJob(store, job) == SaveGame(store, job.game, job, TRUE)
Job(b, edit, opens) ==
  [game |-> b.game, log |-> b.log, owner |-> b.owner, start |-> b.start,
   edit |-> edit, opens |-> opens, phase |-> "game"]

(* The action is appended to the active game and its save queued. *)
Dispatched(b, edit, opens) ==
  LET next == [b EXCEPT !.log = Append(@, edit)]
      job == Job(next, edit, opens)
  IN /\ board' = [next EXCEPT !.jobs = Append(@, job)]
     /\ db' = IF b.jobs = <<>> THEN RunJob(db, job) ELSE db
     /\ left' = [left EXCEPT !.edits = @ - 1]

Score ==
  /\ screen = "game" /\ ~board.readOnly /\ left.edits > 0
  /\ ~\E i \in DOMAIN calls : calls[i].at \in {"permitted", "access"}
  /\ Dispatched(board, Edit, FALSE)
  /\ UNCHANGED <<srv, user, live, offline, calls, held, page>>

(* The statistics are those of the game that is active now. *)
GameWritten ==
  /\ board.jobs # <<>> /\ Head(board.jobs).phase = "game"
  /\ db' = SaveGameStats(db, board.game, board.log)
  /\ board' = [board EXCEPT !.jobs[1].phase = "stats"]
  /\ UNCHANGED <<srv, user, live, offline, calls, left, held, page>>
StatsWritten ==
  LET job == Head(board.jobs)
      rest == Tail(board.jobs)
      sent == board.socket # NoGame
  IN /\ board.jobs # <<>> /\ job.phase = "stats"
     /\ db' = IF rest = <<>> THEN db ELSE RunJob(db, Head(rest))
     /\ board' = [board EXCEPT !.jobs = rest,
          !.pending = IF sent THEN @ \cup {job.edit} ELSE @,
          !.wire = IF sent THEN Append(@, job.edit) ELSE @]
     /\ calls' = IF job.opens THEN Append(calls, Await("opened", job.game, db.games[job.game]))
                 ELSE calls
     /\ UNCHANGED <<srv, user, live, offline, left, held, page>>

(* createGame: the new game is a GAME_START applied to the empty state; it  *)
(* is opened once saved.                                                   *)
CreateGame(g) ==
  /\ screen = "dashboard" /\ left.edits > 0 /\ Click
  /\ db.games[g] = Absent /\ srv.games[g] = Absent
  /\ \A i \in DOMAIN board.jobs : board.jobs[i].game # g
  /\ calls' = Append(calls, Await("create", g, KnownTeams(db)))
  /\ UNCHANGED <<db, srv, user, live, offline, held, page, board>>
GameCreated(i) ==
  LET me == IF user = NoUser THEN LocalId ELSE user
  IN /\ GoesOn(i, "create") /\ left.edits > 0
     /\ Dispatched([board EXCEPT !.game = calls[i].with, !.log = <<>>, !.owner = me,
                                 !.start = me], Edit, TRUE)
     /\ calls' = Without(i) /\ UNCHANGED <<srv, user, live, offline, held, page>>

--------------------------------------------------------------------------------
(* The socket of the open game, without conflicts. *)

ServerTakes ==
  LET g == board.socket
      copy == IF Kept(srv.games[g]) THEN srv.games[g]
              ELSE [log |-> <<>>, owner |-> Me, share |-> "none", gone |-> FALSE]
      edit == Head(board.wire)
  IN /\ board.socket # NoGame /\ board.wire # <<>> /\ live = "open"
     /\ srv.games[g] # Absent => MayWrite(srv.games[g])
     /\ IsPrefix(Append(copy.log, edit), board.log)
     /\ srv' = [srv EXCEPT !.games[g] = [copy EXCEPT !.log = Append(@, edit)]]
     /\ Remember(srv')
     /\ board' = [board EXCEPT !.wire = Tail(@), !.acks = Append(@, edit)]
     /\ UNCHANGED <<db, user, live, offline, calls, left, page>>
(* The echo of the action: clean once nothing sent is unanswered. *)
Acknowledged ==
  LET pending == board.pending \ {Head(board.acks)}
  IN /\ board.acks # <<>>
     /\ board' = [board EXCEPT !.acks = Tail(@), !.pending = pending]
     /\ db' = IF pending = {} THEN MarkClean(db, "games", board.socket) ELSE db
     /\ UNCHANGED <<srv, user, live, offline, calls, left, held, page>>

GameClicks ==
  \/ \E g \in Games : OpenGame(g) \/ CreateGame(g)
  \/ LeaveGame \/ Score
GameGoesOn(i) ==
  \/ Routed(i) \/ Opened(i) \/ Downloaded(i) \/ Stored(i) \/ CheckPermissions(i) \/ CheckAccess(i)
  \/ GameCreated(i)
GameMoves == GameWritten \/ StatsWritten \/ ServerTakes \/ Acknowledged
================================================================================
