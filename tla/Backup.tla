------------------------------- MODULE Backup -------------------------------
(***************************************************************************)
(* Backing the library up into a file and restoring from one               *)
(* (services/backupManager.js and its dialogs in AppController.js).  The   *)
(* backup is a stream written while the application goes on; the restore   *)
(* reads the file line by line and saves what was chosen.  A line of the   *)
(* file is one item with its whole record, or Broken.                      *)
(***************************************************************************)
EXTENDS Session

CONSTANT Broken

VARIABLE vault  \* the file last written, the items chosen from it, and what
                \* there was to back up when the backup began (history)

NoVault == [file |-> <<>>, open |-> FALSE, items |-> <<>>, chosen |-> {},
            ready |-> FALSE, had |-> {}]
rest == <<srv, user, live, offline, held, screen, dash, board, club>>

--------------------------------------------------------------------------------
(* startBackup and the stream. *)

Line(type, id, record) == [type |-> type, id |-> id, record |-> record]
(* What a list entry of a game says: no permissions, so only the owner and *)
(* the teams can give access. *)
Meta(d, g) == [d.games[g] @@ GameFacts[g] EXCEPT !.public = FALSE, !.granted = "none"]
Listable(d, teams) ==
  SelectSeq(Newest, LAMBDA g : d.games[g] # Absent /\ HasReadAccess(Meta(d, g), teams, user))

BackingUp ==
  \E i \in DOMAIN calls : calls[i].at \in {"backup", "moreTeams", "listed", "moreGames",
                                          "copied", "fetched", "written"}
StartBackup ==
  /\ Started /\ Click /\ ~BackingUp
  /\ \E games, teams, remote \in BOOLEAN :
       /\ games \/ teams
       /\ calls' = Append(calls, Await("backup",
            [games |-> games, teams |-> teams, remote |-> remote, lines |-> <<>>, ids |-> <<>>],
            KnownTeams(db)))
       /\ vault' = [vault EXCEPT !.had =
            {g \in LocalGames(db) : games /\ HasReadAccess(Meta(db, g), KnownTeams(db), user)}]
  /\ UNCHANGED <<db, rest>>

(* Games are filtered with the teams of the start. *)
Gather(job) ==
  IF job.games THEN Await("listed", job, Listable(db, job.teamsThen)) ELSE Await("written", job, TRUE)
BackupTeams(i) ==
  LET job == calls[i].with @@ [teamsThen |-> calls[i].ans]
      mine == SelectSeq(ByName, LAMBDA t : /\ db.teams[t] # Absent
                                           /\ MayReadTeam(db.teams[t] @@ [id |-> t]))
      copied == [job EXCEPT !.lines = [k \in DOMAIN mine |-> Line("team", mine[k], db.teams[mine[k]])]]
  IN /\ GoesOn(i, "backup") /\ UNCHANGED <<db, left, vault, rest>>
     /\ calls' = Append(Without(i),
          IF ~job.teams THEN Gather(job)
          ELSE IF job.remote
               THEN Fetch("moreTeams", copied, "teams", [query |-> <<>>, offset |-> 0])
               ELSE Gather(copied))
(* The server's lists come in a shape this code does not read: an error,   *)
(* and nothing is added. *)
MoreTeams(i) ==
  /\ GoesOn(i, "moreTeams") /\ UNCHANGED <<db, left, vault, rest>>
  /\ calls' = Append(Without(i), Gather(calls[i].with))

NextGame(job) ==
  IF job.ids = <<>> THEN Await("written", job, TRUE)
  ELSE Await("copied", job, db.games[Head(job.ids)])
BackupGames(i) ==
  LET job == [calls[i].with EXCEPT !.ids = calls[i].ans]
  IN /\ GoesOn(i, "listed") /\ UNCHANGED <<db, left, vault, rest>>
     /\ calls' = Append(Without(i),
          IF job.remote THEN Fetch("moreGames", job, "games", [query |-> <<>>, offset |-> 0])
          ELSE NextGame(job))
\* Mutant: a server that does not answer ends the backup.
MoreGamesOrNone(i) ==
  /\ GoesOn(i, "moreGames") /\ UNCHANGED <<db, left, vault, rest>>
  /\ calls' = Append(Without(i), IF Replied(i) THEN NextGame(calls[i].with)
                                ELSE Await("written", calls[i].with, TRUE))
MoreGames(i) ==
  /\ GoesOn(i, "moreGames") /\ UNCHANGED <<db, left, vault, rest>>
  /\ calls' = Append(Without(i), NextGame(calls[i].with))

(* _fetchFullGame: the local record, else the server's, else no line. *)
Copied(job, record) ==
  [job EXCEPT !.ids = Tail(@), !.lines = Append(@, Line("game", Head(job.ids), record))]
CopyGame(i) ==
  LET job == calls[i].with
  IN /\ GoesOn(i, "copied") /\ UNCHANGED <<db, left, vault, rest>>
     /\ calls' = Append(Without(i),
          IF calls[i].ans = Absent THEN Fetch("fetched", job, "pull", Head(job.ids))
          ELSE NextGame(Copied(job, calls[i].ans)))
FetchGame(i) ==
  LET job == calls[i].with
  IN /\ GoesOn(i, "fetched") /\ UNCHANGED <<db, left, vault, rest>>
     /\ calls' = Append(Without(i), NextGame(
          IF Replied(i) THEN Copied(job, FromServer(calls[i].ans))
          ELSE [job EXCEPT !.ids = Tail(@)]))
BackupWritten(i) ==
  /\ GoesOn(i, "written")
  /\ vault' = [vault EXCEPT !.file = calls[i].with.lines, !.had = {}]
  /\ calls' = Without(i) /\ UNCHANGED <<db, left, rest>>

(* A line of the file is damaged on the disk. *)
FileDamaged ==
  /\ left.faults > 0 /\ left' = [left EXCEPT !.faults = @ - 1]
  /\ \E k \in DOMAIN vault.file : vault.file[k] # Broken /\ vault' = [vault EXCEPT !.file[k] = Broken]
  /\ UNCHANGED <<db, calls, rest>>

--------------------------------------------------------------------------------
(* The dialog of the restore. *)

Restoring == \E i \in DOMAIN calls : calls[i].at \in {"scanned", "restoring", "restored"}

(* One restore at a time. *)
OpenRestoreModal ==
  /\ Started /\ Click /\ ~Restoring /\ vault.file # <<>>
  /\ vault' = [vault EXCEPT !.open = TRUE, !.items = <<>>, !.chosen = {}, !.ready = FALSE]
  /\ UNCHANGED <<db, calls, rest>>
HandleRestoreFileSelect ==
  /\ vault.open /\ vault.items = <<>> /\ ~Restoring
  /\ calls' = Append(calls, Await("scanned", <<>>, vault.file))
  /\ UNCHANGED <<db, left, vault, rest>>
Scanned(i) ==
  /\ GoesOn(i, "scanned")
  /\ vault' = [vault EXCEPT !.items = SelectSeq(calls[i].ans, LAMBDA l : l # Broken)]
  /\ calls' = Without(i) /\ UNCHANGED <<db, left, rest>>
Items == {vault.items[k].id : k \in DOMAIN vault.items}
(* The choice is read line by line by a restore that runs, and a change of *)
(* it makes the button ready again. *)
Choosing(ids) == [vault EXCEPT !.chosen = ids, !.ready = ids # {}]
ToggleRestoreItem ==
  /\ vault.open
  /\ \E id \in Items :
       vault' = Choosing(IF id \in vault.chosen THEN vault.chosen \ {id} ELSE vault.chosen \cup {id})
  /\ UNCHANGED <<db, left, calls, rest>>
ToggleRestoreSelection(all) ==
  /\ vault.open /\ vault.chosen # (IF all THEN Items ELSE {})
  /\ vault' = Choosing(IF all THEN Items ELSE {})
  /\ UNCHANGED <<db, left, calls, rest>>

StartRestore ==
  /\ vault.open /\ vault.ready /\ Click
  /\ calls' = Append(calls, Await("restoring", <<>>, vault.file))
  /\ vault' = [vault EXCEPT !.ready = FALSE]
  /\ UNCHANGED <<db, rest>>

--------------------------------------------------------------------------------
(* restoreBackup: over whatever the browser has, and to be uploaded again.  *)

Restored(d, line) ==
  IF line.type = "game" THEN SaveGame(d, line.id, line.record, TRUE)
  ELSE SaveTeam(d, line.id, line.record, TRUE)
\* Mutant: a damaged line ends the restore.
RestoreWholeLines(i) ==
  LET lines == calls[i].ans
      line == Head(lines)
  IN /\ GoesOn(i, "restoring") /\ UNCHANGED <<left, vault>>
     /\ UNCHANGED <<srv, user, live, offline, held, screen, dash, board, club>>
     /\ IF lines = <<>> \/ line = Broken
        THEN /\ calls' = Append(Without(i), Await("restored", <<>>, TRUE))
             /\ UNCHANGED <<db>>
        ELSE /\ db' = IF line.id \in vault.chosen THEN Restored(db, line) ELSE db
             /\ calls' = Append(Without(i), Await("restoring", <<>>, Tail(lines)))
RestoreLine(i) ==
  LET lines == calls[i].ans
      line == Head(lines)
  IN /\ GoesOn(i, "restoring") /\ UNCHANGED <<left, vault>>
     /\ UNCHANGED <<srv, user, live, offline, held, screen, dash, board, club>>
     /\ IF lines = <<>>
        THEN /\ calls' = Append(Without(i), Await("restored", <<>>, TRUE))
             /\ UNCHANGED <<db>>
        ELSE /\ db' = IF line # Broken /\ line.id \in vault.chosen THEN Restored(db, line) ELSE db
             /\ calls' = Append(Without(i), Await("restoring", <<>>, Tail(lines)))
(* The result is shown; dismissing it loads the list of games. *)
RestoreEnds(i) ==
  /\ GoesOn(i, "restored") /\ LoadDashboard(dash, db, Without(i))
  /\ vault' = [vault EXCEPT !.open = FALSE, !.ready = TRUE]
  /\ Idle /\ UNCHANGED <<board, club>>

BackupClicks ==
  \/ StartBackup \/ FileDamaged \/ OpenRestoreModal \/ HandleRestoreFileSelect
  \/ ToggleRestoreItem \/ StartRestore \/ \E all \in BOOLEAN : ToggleRestoreSelection(all)
BackupGoesOn(i) ==
  \/ BackupTeams(i) \/ MoreTeams(i) \/ BackupGames(i) \/ MoreGames(i) \/ CopyGame(i)
  \/ FetchGame(i) \/ BackupWritten(i) \/ Scanned(i) \/ RestoreLine(i) \/ RestoreEnds(i)
================================================================================
