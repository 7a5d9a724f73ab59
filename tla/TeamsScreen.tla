---------------------------- MODULE TeamsScreen ----------------------------
(***************************************************************************)
(* The list of teams, a team's page and the dialog that edits a team       *)
(* (controllers/TeamController.js, services/teamSyncManager.js).  Unlike   *)
(* the list of games it uploads by itself: every row that shows as         *)
(* local_only when the local records have been read is sent.               *)
(***************************************************************************)
EXTENDS GameScreen

CONSTANTS NoTeamShown, TypedTeams, TeamPanels, Members

VARIABLE club  \* the controller's fields, the rows, the team shown, the dialog

NoTeams == [local |-> {}, remote |-> <<>>, states |-> <<>>, loading |-> FALSE,
            fetching |-> FALSE, query |-> <<>>, limit |-> FirstLimit, offset |-> 0,
            more |-> TRUE, teams |-> <<>>, shown |-> NoTeamShown, dialog |-> NoTeamShown,
            members |-> <<>>, panel |-> EmptyPanel]

--------------------------------------------------------------------------------
(* Merging: the local record is the one shown. *)

TeamRow(c, id, unreachable) ==
  LET mine == {t \in c.local : t.id = id}
      theirs == SelectSeq(c.remote, LAMBDA t : t.id = id)
      base == IF mine # {} THEN CHOOSE t \in mine : TRUE ELSE theirs[Len(theirs)]
      \* a team that comes twice in the pages takes the first for a local one
      isLocal == mine # {} \/ Len(theirs) > 1
      known == CASE ~isLocal -> "remote_only"
                 [] mine # {} /\ base.dirty /\ Len(theirs) < 2 -> "local_only"
                 [] mine # {} /\ ~base.dirty /\ theirs = <<>> ->
                      IF unreachable THEN "synced" ELSE "local_only"
                 [] OTHER -> "synced"
  IN [id |-> id, ver |-> base.ver, owner |-> base.owner,
      source |-> IF isLocal THEN "local" ELSE "remote",
      status |-> IF id \in DOMAIN c.states THEN c.states[id] ELSE known]

RenderTeams(c, unreachable) ==
  LET has(t) == (\E m \in c.local : m.id = t) \/ \E i \in DOMAIN c.remote : c.remote[i].id = t
      ids == SelectSeq(ByName, has)
      shown == First(c.limit, ids)
  IN [c EXCEPT !.teams = [i \in DOMAIN shown |-> TeamRow(c, shown[i], unreachable)]]

RowOf(c, t) == CHOOSE row \in ToSet(c.teams) : row.id = t
Listed(c, t) == \E row \in ToSet(c.teams) : row.id = t

--------------------------------------------------------------------------------
(* Loading. *)

EmptiedTeams(c) == [c EXCEPT !.local = {}, !.remote = <<>>, !.states = <<>>,
                             !.limit = FirstLimit, !.offset = 0, !.more = TRUE]
FetchingTeams(c) ==
  IF CanFetch(c) THEN RenderTeams([c EXCEPT !.fetching = TRUE], offline) ELSE c
NextTeams(c) ==
  IF CanFetch(c)
  THEN <<Fetch("teams", <<>>, "teams", [query |-> c.query, offset |-> c.offset])>> ELSE <<>>

LoadTeams(c, store, rest) ==
  LET signedIn == user # NoUser
      loading == [c EXCEPT !.loading = TRUE]
  IN /\ club' = IF signedIn THEN FetchingTeams(loading) ELSE loading
     /\ calls' = rest \o <<Await("localTeams", signedIn, GetAllTeams(store))>>
                      \o IF signedIn THEN NextTeams(loading) ELSE <<>>
LoadTeamsView(c, store, rest) ==
  /\ screen' = "teams"
  /\ LoadTeams([EmptiedTeams(c) EXCEPT !.teams = <<>>], store, rest)

others == <<dash, board>>
StoreOnly == UNCHANGED <<srv, user, live, offline, held, others>>

ShowTeams == /\ Started /\ screen # "teams" /\ Click
             /\ LoadTeamsView([club EXCEPT !.query = <<>>], db, calls)
             /\ StoreOnly /\ UNCHANGED db
RefreshTeams == /\ screen = "teams" /\ Click /\ LoadTeams(EmptiedTeams(club), db, calls)
                /\ StoreOnly /\ UNCHANGED <<db, screen>>
ScrollTeams ==
  /\ screen = "teams" /\ club.limit + MoreLimit <= MaxShown
  /\ LET c == [club EXCEPT !.limit = @ + MoreLimit]
         loaded == Cardinality(c.local) + Len(c.remote)
     IN IF CanFetch(c) /\ c.limit + MoreLimit > loaded
        THEN club' = FetchingTeams(c) /\ calls' = calls \o NextTeams(c)
        ELSE club' = RenderTeams(c, offline) /\ UNCHANGED calls
  /\ Idle /\ UNCHANGED <<screen, others>>

SearchTeamsFor(query, panel) ==
  /\ screen = "teams" /\ query # club.query /\ Click
  /\ LoadTeamsView([club EXCEPT !.query = query, !.panel = panel], db, calls)
  /\ StoreOnly /\ UNCHANGED db
SearchTeams == \/ \E query \in TypedTeams : SearchTeamsFor(query, club.panel)
               \/ \E p \in TeamPanels : SearchTeamsFor(BuildTeamsAdvancedQuery(p), p)
ToggleTeamsSearch ==
  /\ screen = "teams"
  /\ club' = [club EXCEPT !.panel = SyncTeamsAdvancedPanel(club.query)]
  /\ Idle /\ UNCHANGED <<calls, screen, others>>

(* syncTeam, once per row; a row that is being sent is left alone. *)
Sends(c, t) == user # NoUser /\ Listed(c, t) /\ RowOf(c, t).status # "syncing"
Marked(c, ids, state) ==
  [c EXCEPT !.states = [t \in ids \cup DOMAIN c.states |->
                          IF t \in ids THEN state ELSE c.states[t]]]
SyncStarted(c, ids) == RenderTeams(Marked(c, ids, "syncing"), offline)
Upload(c, t) == Fetch("teamSent", t, "pushTeam", [id |-> t, ver |-> RowOf(c, t).ver])

(* triggerVisibleAutoSync *)
ToSend(c) == SelectSeq(c.teams, LAMBDA row : user # NoUser /\ row.status = "local_only")
LocalTeamsRead(i) ==
  LET parsed == ParseQuery(club.query)
      found == IF Flagged(parsed, "remote") THEN {}
               ELSE {t \in calls[i].ans : /\ MayReadTeam(t)
                                          /\ MatchesTeam(TeamFacts[t.id], parsed)}
      read == RenderTeams([club EXCEPT !.local = found, !.loading = FALSE], offline)
      sends == ToSend(read)
  IN /\ GoesOn(i, "localTeams")
     /\ club' = SyncStarted(read, {sends[k].id : k \in DOMAIN sends})
     /\ calls' = Without(i)
          \o [k \in DOMAIN sends |-> Upload(read, sends[k].id)]
          \o IF calls[i].with THEN <<Await("teamIds", <<>>, LocalTeams(db))>> ELSE <<>>
     /\ Idle /\ UNCHANGED <<screen, others>>

TeamsFetched(i) ==
  LET data == IF Replied(i) THEN calls[i].ans ELSE <<>>
  IN /\ GoesOn(i, "teams")
     /\ club' = RenderTeams([club EXCEPT !.remote = @ \o data, !.offset = @ + Len(data),
                                         !.more = @ /\ Len(data) >= PageSize,
                                         !.fetching = FALSE], offline)
     /\ calls' = Without(i) /\ Idle /\ UNCHANGED <<screen, others>>

TeamIdsRead(i) ==
  /\ GoesOn(i, "teamIds")
  /\ calls' = Without(i) \o IF calls[i].ans = {} THEN <<>>
                            ELSE <<Fetch("teamsGone", <<>>, "goneTeams", calls[i].ans)>>
  /\ Idle /\ UNCHANGED <<screen, club, others>>
TeamsGone(i) ==
  LET gone == IF Replied(i) THEN calls[i].ans ELSE {}
  IN /\ GoesOn(i, "teamsGone")
     /\ db' = [db EXCEPT !.teams = [t \in Teams |-> IF t \in gone THEN Absent ELSE @[t]]]
     /\ calls' = Without(i) \o IF gone = {} THEN <<>> ELSE <<Await("teamsPurged", gone, gone)>>
     /\ UNCHANGED <<left, screen, club>> /\ StoreOnly
TeamsPurged(i) ==
  LET gone == calls[i].ans
  IN /\ GoesOn(i, "teamsPurged")
     /\ club' = RenderTeams([club EXCEPT !.local = {t \in @ : t.id \notin gone},
                               !.remote = SelectSeq(@, LAMBDA t : t.id \notin gone)], offline)
     /\ calls' = Without(i) /\ Idle /\ UNCHANGED <<screen, others>>

--------------------------------------------------------------------------------
(* Sending a team. *)

SyncTeam ==
  /\ screen = "teams" /\ Click
  /\ \E t \in Teams : /\ Sends(club, t) /\ RowOf(club, t).status # "remote_only"
                      /\ club' = SyncStarted(club, {t})
                      /\ calls' = Append(calls, Upload(club, t))
  /\ StoreOnly /\ UNCHANGED <<db, screen>>

TeamSent(i) ==
  LET t == calls[i].with
      ok == calls[i].ans = "ok"
      state == Marked(club, {t}, IF ok THEN "synced" ELSE "error")
  IN /\ GoesOn(i, "teamSent")
     /\ db' = IF ok THEN MarkClean(db, "teams", t) ELSE db
     /\ club' = IF ok THEN state ELSE RenderTeams(state, offline)
     /\ calls' = Without(i) \o IF ok THEN <<Await("teamClean", t, TRUE)>> ELSE <<>>
     /\ UNCHANGED <<left, screen>> /\ StoreOnly
TeamClean(i) ==
  /\ GoesOn(i, "teamClean") /\ club' = RenderTeams(club, offline)
  /\ calls' = Without(i) /\ Idle /\ UNCHANGED <<screen, others>>

--------------------------------------------------------------------------------
(* A team's page. *)

ShowTeam(t) ==
  /\ screen = "teams" /\ club.dialog = NoTeamShown /\ Click /\ screen' = "team"
  /\ IF Listed(club, t)
     THEN club' = [club EXCEPT !.shown = RowOf(club, t)] /\ UNCHANGED calls
     ELSE calls' = Append(calls, Await("teamRead", t, db.teams[t])) /\ UNCHANGED club
  /\ StoreOnly /\ UNCHANGED db
(* Not found sets the hash, which loads the list again. *)
TeamRead(i) ==
  LET t == calls[i].with
  IN /\ GoesOn(i, "teamRead") /\ Idle /\ UNCHANGED others
     /\ CASE calls[i].ans # Absent ->
               /\ club' = [club EXCEPT !.shown = calls[i].ans @@ [id |-> t]]
               /\ calls' = Without(i) /\ UNCHANGED screen
          [] calls[i].ans = Absent /\ user # NoUser ->
               /\ calls' = Append(Without(i), Fetch("teamLoaded", t, "pullTeam", t))
               /\ UNCHANGED <<screen, club>>
          [] OTHER -> LoadTeamsView([club EXCEPT !.shown = NoTeamShown, !.query = <<>>],
                                    db, Without(i))
TeamLoaded(i) ==
  /\ GoesOn(i, "teamLoaded") /\ Idle /\ UNCHANGED others
  /\ IF Replied(i)
     THEN /\ club' = [club EXCEPT !.shown = calls[i].ans @@ [id |-> calls[i].with]]
          /\ calls' = Without(i) /\ UNCHANGED screen
     ELSE LoadTeamsView([club EXCEPT !.shown = NoTeamShown, !.query = <<>>], db, Without(i))

CanEdit(team) == CanWriteTeam(user, team @@ TeamFacts[team.id])

DeleteTeamShown ==
  /\ screen = "team" /\ club.shown # NoTeamShown /\ CanEdit(club.shown) /\ Click
  /\ db' = DeleteTeam(db, club.shown.id)
  /\ calls' = Append(calls, Await("teamDeleted", club.shown.id, TRUE))
  /\ StoreOnly /\ UNCHANGED <<screen, club>>
TeamDeleted(i) ==
  LET t == calls[i].with
  IN /\ GoesOn(i, "teamDeleted") /\ Idle /\ UNCHANGED others
     /\ IF user = NoUser THEN LoadTeamsView(club, db, Without(i))
        ELSE /\ calls' = Append(Without(i), Fetch("teamUnlisted", t, "deleteTeam", t))
             /\ UNCHANGED <<screen, club>>
TeamUnlisted(i) == /\ GoesOn(i, "teamUnlisted") /\ Idle /\ UNCHANGED others
                   /\ LoadTeamsView(club, db, Without(i))

--------------------------------------------------------------------------------
(* The dialog. *)

NobodyElse == [r \in {"admins", "scorekeepers", "spectators"} |-> {}]
(* From the page of a team, with its record, or for a new team. *)
EditTeam ==
  /\ screen = "team" /\ club.shown # NoTeamShown /\ CanEdit(club.shown) /\ club.dialog = NoTeamShown
  /\ Click
  /\ club' = [club EXCEPT !.dialog = club.shown.id, !.members = NobodyElse]
  /\ StoreOnly /\ UNCHANGED <<db, calls, screen>>
NewTeam(t) ==
  /\ screen = "teams" /\ club.dialog = NoTeamShown /\ db.teams[t] = Absent /\ srv.teams[t] = Absent
  /\ Click
  /\ club' = [club EXCEPT !.dialog = t,
                !.shown = [id |-> t, ver |-> 0, owner |-> user],
                !.members = [NobodyElse EXCEPT !["admins"] = {user}]]
  /\ StoreOnly /\ UNCHANGED <<db, calls, screen>>
AddTeamMember ==
  /\ club.dialog # NoTeamShown /\ Click
  /\ \E who \in Members, role \in DOMAIN NobodyElse :
       /\ \A r \in DOMAIN NobodyElse : who \notin club.members[r]
       /\ club' = [club EXCEPT !.members[role] = @ \cup {who}]
  /\ StoreOnly /\ UNCHANGED <<db, calls, screen>>
RemoveTeamMember ==
  /\ club.dialog # NoTeamShown /\ Click
  /\ \E role \in DOMAIN NobodyElse : \E who \in club.members[role] \cap Members :
       club' = [club EXCEPT !.members[role] = @ \ {who}]
  /\ StoreOnly /\ UNCHANGED <<db, calls, screen>>
CloseTeamDialog ==
  /\ club.dialog # NoTeamShown /\ club' = [club EXCEPT !.dialog = NoTeamShown]
  /\ Idle /\ UNCHANGED <<calls, screen, others>>

(* SAVE: the id is the form's, the owner that of the team shown; into the  *)
(* store first, and the dialog stays until the server answers. *)
SavedOwner == IF club.shown.owner # NoUser THEN club.shown.owner
              ELSE IF user # NoUser THEN user ELSE LocalId
SaveTeamDialog ==
  LET t == club.dialog
  IN /\ t # NoTeamShown /\ club.shown # NoTeamShown /\ left.edits > 0
     /\ db' = SaveTeam(db, t, [ver |-> Edit, owner |-> SavedOwner], TRUE)
     /\ calls' = Append(calls, Await("teamSaved", t, Edit))
     /\ left' = [left EXCEPT !.edits = @ - 1]
     /\ UNCHANGED <<srv, user, live, offline, held, screen, club, others>>
TeamSaved(i) ==
  LET t == calls[i].with
  IN /\ GoesOn(i, "teamSaved") /\ Idle /\ UNCHANGED others
     /\ IF user = NoUser THEN LoadTeamsView([club EXCEPT !.dialog = NoTeamShown], db, Without(i))
        ELSE /\ calls' = Append(Without(i),
                  Fetch("teamPushed", t, "pushTeam", [id |-> t, ver |-> calls[i].ans]))
             /\ UNCHANGED <<screen, club>>
TeamPushed(i) ==
  LET ok == calls[i].ans = "ok"
      store == IF ok THEN MarkClean(db, "teams", calls[i].with) ELSE db
  IN /\ GoesOn(i, "teamPushed") /\ db' = store
     /\ LoadTeamsView([club EXCEPT !.dialog = NoTeamShown], store, Without(i))
     /\ UNCHANGED left /\ StoreOnly

TeamClicks ==
  \/ ShowTeams \/ RefreshTeams \/ ScrollTeams \/ SyncTeam
  \/ DeleteTeamShown \/ EditTeam \/ AddTeamMember \/ RemoveTeamMember \/ CloseTeamDialog
  \/ SaveTeamDialog
  \/ \E t \in Teams : ShowTeam(t) \/ NewTeam(t)
TeamSearchClicks == SearchTeams \/ ToggleTeamsSearch
TeamsGoOn(i) ==
  \/ LocalTeamsRead(i) \/ TeamsFetched(i) \/ TeamIdsRead(i) \/ TeamsGone(i) \/ TeamsPurged(i)
  \/ TeamSent(i) \/ TeamClean(i) \/ TeamRead(i) \/ TeamLoaded(i) \/ TeamDeleted(i)
  \/ TeamUnlisted(i) \/ TeamSaved(i) \/ TeamPushed(i)
================================================================================
