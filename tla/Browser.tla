------------------------------ MODULE Browser ------------------------------
(***************************************************************************)
(* One browser: the page's life (Session), the list of games (Dashboard),  *)
(* the game screen (GameScreen), the teams (TeamsScreen), backup and       *)
(* restore (Backup) and the lineup dialog (Lineup), over the stores they   *)
(* share (Library), a server others use too, and requests that get lost.   *)
(*                                                                         *)
(* Bound of the model: an itinerary, chosen at the start, says in which     *)
(* world it begins, in which parts the user clicks and how much may happen;*)
(* the functions a click starts run whatever it is.                        *)
(***************************************************************************)
EXTENDS Backup, Lineup

CONSTANT Itineraries  \* [world, visits, moves, left]; a world is what the browser,
                      \* the server and the disk hold: [db, srv, user, live, file]

ASSUME ItinerariesAssumption ==
  \A p \in Itineraries : /\ IsStore(p.world.db) /\ IsServer(p.world.srv)
                         /\ "clicks" \in DOMAIN p.left /\ p.left.clicks \in Nat

VARIABLES visits,  \* the parts the user clicks in
          raced    \* history: items changed while an upload of them was under way

vars == <<lib, screen, dash, board, club, vault, lineupVars, visits, raced>>

(* What the server has or once had, and so what is clean in the browser.   *)
Clean(w, store, id) ==
  {r \in {w.srv[store][id]} : r # Absent} \cup {r \in {w.db[store][id]} : r # Absent /\ ~r.dirty}
Init ==
  \E p \in Itineraries :
    /\ visits = p.visits /\ left = p.left /\ moves = p.moves /\ LineupInit
    /\ db = p.world.db /\ srv = p.world.srv /\ user = p.world.user /\ live = p.world.live
    /\ vault = [NoVault EXCEPT !.file = p.world.file]
    /\ held = [games |-> [g \in Games |-> {r.log : r \in Clean(p.world, "games", g)}],
               teams |-> [t \in Teams |-> {r.ver : r \in Clean(p.world, "teams", t)}]]
    /\ offline = FALSE /\ raced = {}
    /\ screen = "boot" /\ dash = NoRows /\ board = NoBoard /\ club = NoTeams
    /\ calls = <<Fetch("known", <<>>, "whoami", <<>>)>>

(* Sent, or about to be acknowledged, in another state than the browser's. *)
Racing ==
  {g \in Games : \E i \in DOMAIN calls :
     calls[i].at = "pushed" /\ calls[i].with = g /\ db.games[g] # Absent
       /\ calls[i].body.log # db.games[g].log}
  \cup {t \in Teams : \E i \in DOMAIN calls :
     /\ calls[i].at \in {"teamSent", "teamPushed", "offered"} /\ calls[i].body.id = t
     /\ db.teams[t] # Absent /\ calls[i].body.ver # db.teams[t].ver}
  \cup {g \in {board.socket} \cap LocalGames(db) :
     board.acks # <<>> /\ (board.jobs # <<>> \/ db.games[g].log # board.log)}

(* What a part leaves alone; a page that is loaded anew has no dialog open. *)
Apart == UNCHANGED <<lineupVars, visits>> /\ raced' = raced \cup Racing'
Dialogs == vault' = IF screen' = "boot" THEN [NoVault EXCEPT !.file = vault.file] ELSE vault

Clicks ==
  \/ "dashboard" \in visits /\ DashboardClicks /\ UNCHANGED <<board, club, vault>>
  \/ "search" \in visits /\ SearchClicks /\ UNCHANGED <<board, club, vault>>
  \/ "search" \in visits /\ TeamSearchClicks /\ UNCHANGED vault
  \/ "game" \in visits /\ GameClicks /\ UNCHANGED <<club, vault>>
  \/ "teams" \in visits /\ TeamClicks /\ UNCHANGED <<dash, board, vault>>
  \/ "session" \in visits /\ SessionClicks /\ Dialogs
  \/ "backup" \in visits /\ BackupClicks

GoOn(i) ==
  \/ DashboardGoesOn(i) /\ UNCHANGED <<board, club, vault>>
  \/ GameGoesOn(i) /\ UNCHANGED <<club, vault>>
  \/ TeamsGoOn(i) /\ UNCHANGED vault
  \/ SessionGoesOn(i) /\ Dialogs
  \/ BackupGoesOn(i)
Answers(i) == (Serve(i) \/ Lose(i)) /\ UNCHANGED <<screen, dash, board, club, vault>>
Moves == GameMoves /\ UNCHANGED <<club, vault>>

World ==
  /\ UNCHANGED <<screen, dash, board, club, vault>>
  /\ \/ \E g \in Games : OtherEdits(g) \/ OtherCreates(g) \/ OtherDeletes(g) \/ OtherRevokes(g)
     \/ \E t \in Teams : OtherEditsTeam(t) \/ OtherDeletesTeam(t)
     \/ SessionEnds \/ BackOnline

(* The lineup dialog shares nothing with the rest: it waits for a still page. *)
Next ==
  \/ Clicks /\ Apart
  \/ \E i \in DOMAIN calls : (GoOn(i) \/ Answers(i)) /\ Apart
  \/ Moves /\ Apart
  \/ World /\ Apart
  \/ "lineup" \in visits /\ calls = <<>> /\ LineupNext
       /\ UNCHANGED <<lib, screen, dash, board, club, vault, visits, raced>>

Spec == Init /\ [][Next]_vars

--------------------------------------------------------------------------------
(* What the screens together must keep. *)

(* A record the browser takes for clean is one the server has had: no       *)
(* upload, download, acknowledgement or merge marks unsaved content clean,  *)
(* unless the item was changed while an upload of it was under way (the     *)
(* record is marked without looking whether it still is what was sent).     *)
CleanIsOnServer ==
  /\ \A g \in Games \ raced : db.games[g] # Absent /\ ~db.games[g].dirty =>
                              db.games[g].log \in held.games[g]
  /\ \A t \in Teams \ raced : db.teams[t] # Absent /\ ~db.teams[t].dirty =>
                              db.teams[t].ver \in held.teams[t]

(* What the server has never heard of leaves the browser only at the user's *)
(* click: no answer about deleted items, however late, takes it away.       *)
UnsyncedIsKept ==
  [][\A g \in Games : db.games[g] # Absent /\ db'.games[g] = Absent =>
        srv.games[g] # Absent \/ left'.clicks < left.clicks]_vars

(* When nothing is under way any more, the list shows every local game that *)
(* matches the query, up to its limit, those with unsaved changes as such.  *)
Still == calls = <<>> /\ board.jobs = <<>>
Once(g) == Len(SelectSeq(dash.remote, LAMBDA item : item.id = g)) < 2
Matching == {g \in LocalGames(db) : MatchesGame(Summary(g), ParseQuery(dash.query))}
RowsOf(d) == {d.games[k].id : k \in DOMAIN d.games}
ListIsRight ==
  screen = "dashboard" /\ Still /\ ~Flagged(ParseQuery(dash.query), "remote") =>
    /\ {g.id : g \in dash.local} = Matching
    /\ \A k \in DOMAIN dash.games : LET row == dash.games[k] IN
         (Once(row.id) /\ row.id \in Matching /\ db.games[row.id].dirty)
           => row.status \in {"unsynced", "local_only"}

(* Nothing spins for ever: behind every list that is being read or fetched, *)
(* every team that is being sent and every page that is starting there is a *)
(* function under way, whatever failed and whoever else started another.    *)
UnderWay(stages) == \E i \in DOMAIN calls : calls[i].at \in stages
SpinnersEnd ==
  /\ dash.fetching => UnderWay({"games"})
  /\ dash.loading => UnderWay({"revisions", "locals"})
  /\ club.fetching => UnderWay({"teams"})
  /\ club.loading => UnderWay({"localTeams"})
  /\ \A t \in DOMAIN club.states : club.states[t] = "syncing" =>
       \E i \in DOMAIN calls : calls[i].at = "teamSent" /\ calls[i].with = t
  /\ screen = "boot" => calls # <<>>

(* Once the page runs for a signed-in user, everything made before signing  *)
(* in is theirs, with the action that starts the log, unless it came back   *)
(* from a backup or is the demo game.                                       *)
InBackup(id) == \E k \in DOMAIN vault.file : vault.file[k] # Broken /\ vault.file[k].id = id
Adopted ==
  /\ user # NoUser /\ screen \notin {"boot", "denied"} =>
       /\ \A g \in LocalGames(db) \ {Demo} : db.games[g].owner # LocalId \/ InBackup(g)
       /\ \A t \in LocalTeams(db) : db.teams[t].owner # LocalId \/ InBackup(t)
  /\ \A g \in LocalGames(db) : db.games[g].start = db.games[g].owner

(* When the checks of an opened game have ended it is one the user may      *)
(* read, and it is read-only exactly for those who may not write it.        *)
Checking == \E i \in DOMAIN calls : calls[i].at \in {"create", "opened", "permitted", "access"}
ShownAsAllowed ==
  screen = "game" /\ ~Checking =>
    /\ HasReadAccess(ActiveFacts, KnownTeams(db), user)
    /\ board.readOnly = IsReadOnly(ActiveFacts, user, KnownTeams(db))

(* A finished backup has a line for every game that was there when it began *)
(* and still is, whatever failed and whatever was deleted meanwhile.        *)
BackupIsComplete ==
  [][vault'.file # vault.file /\ vault.had # {} /\ vault'.had = {} =>
       \A g \in vault.had \cap LocalGames(db) :
         \E k \in DOMAIN vault'.file : vault'.file[k].id = g]_vars

(* A restore with an unchanged choice puts back every chosen item of the *)
(* file whose line is whole, however many others are damaged: it is there   *)
(* at the end, or the server has said that it is gone.                      *)
Present(l) == IF l.type = "game" THEN db.games[l.id] # Absent ELSE db.teams[l.id] # Absent
GoneThere(l) ==
  LET copy == IF l.type = "game" THEN srv.games[l.id] ELSE srv.teams[l.id]
  IN copy # Absent /\ ~Reads(copy)
RestoredAreThere ==
  [][vault.open /\ ~vault.ready /\ ~vault'.open /\ screen' # "boot" =>
       \A k \in DOMAIN vault.file : LET l == vault.file[k] IN
         l # Broken /\ l.id \in vault.chosen => Present(l) \/ GoneThere(l)]_vars

(* What the advanced panel wrote as a query, it shows again when opened     *)
(* (the team goes into the free text), values of several words included.    *)
QueryShowsInPanel ==
  /\ dash.query # <<>> => \A p \in Panels : dash.query = BuildAdvancedQuery(p) =>
       /\ SyncAdvancedPanel(dash.query) = [p EXCEPT !.team = <<>>]
       /\ SyncStatsAdvancedPanel(BuildStatsAdvancedQuery(p)) =
            [p EXCEPT !.location = <<>>, !.local = FALSE, !.remote = FALSE]
  /\ club.query # <<>> => \A p \in TeamPanels : club.query = BuildTeamsAdvancedQuery(p) =>
       SyncTeamsAdvancedPanel(club.query) = p

(* Browser and server understand a query alike, so that the local and the   *)
(* remote half of a list answer the same question; the exceptions are a     *)
(* second colon without quotes, and a quote or a third end in a range.      *)
Contested(token) ==
  IsFilter(token) /\ LET val == After(token, Colon) IN
    \/ Has(val, Colon) /\ Head(val) # Quote
    \/ Has(val, Dots) /\ (Has(val, Quote) \/ Has(After(val, Dots), Dots))
ParsersAgree ==
  (\A k \in DOMAIN Tokenize(dash.query) : ~Contested(Tokenize(dash.query)[k])) =>
    ParseQuery(dash.query) = ServerParse(dash.query)

(* SAVE in the lineup dialog stores the named rows the user sees, in their   *)
(* order, and nobody twice, after any dragging, adding and removing.         *)
SavedAsShown ==
  [][lineup.phase = "open" /\ lineup'.phase = "saved" =>
       LET starters == Named(lineup.rows.starters)
           all == starters \o Named(lineup.rows.subs)
       IN /\ [k \in DOMAIN sheet'.roster |-> sheet'.roster[k].starter] = starters
          /\ sheet'.subs = Named(lineup.rows.subs)
          /\ \A j, k \in DOMAIN all : all[j].id = all[k].id => j = k]_vars

(* A starter who stays in the lineup keeps the record of who has played in   *)
(* the slot and who does now, also when another scorer substitutes or        *)
(* reorders while the dialog is open.                                        *)
SlotsKeepHistory ==
  [][\A k \in DOMAIN sheet.roster, j \in DOMAIN sheet'.roster :
       LET old == sheet.roster[k]
           new == sheet'.roster[j]
       IN old.starter.id = new.starter.id =>
            /\ IsPrefix(old.history, new.history)
            /\ old.history = new.history => old.current.id = new.current.id]_vars
================================================================================
