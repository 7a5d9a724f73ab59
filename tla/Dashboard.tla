----------------------------- MODULE Dashboard -----------------------------
(***************************************************************************)
(* The list of games (controllers/DashboardController.js) and what the     *)
(* application does to a game from it (syncGame, deleteGame).  Two streams *)
(* run side by side, the local records and the pages of the server's list, *)
(* into two buffers that every change merges into the rows shown.          *)
(***************************************************************************)
EXTENDS Library

CONSTANTS FirstLimit, MoreLimit,  \* 50 and 20 rows in the code
          MaxShown,               \* bound of the model: no scrolling past it
          Typed, Panels           \* what may be typed as a query, put in the panel

ASSUME LimitsAssumption == FirstLimit \in Nat /\ MoreLimit \in Nat

VARIABLES screen,   \* app.state.view
          dash      \* the controller's fields, the rows and the panel

NoRows == [local |-> {}, remote |-> <<>>, revs |-> <<>>, loading |-> FALSE,
           fetching |-> FALSE, query |-> <<>>, limit |-> FirstLimit, offset |-> 0,
           more |-> TRUE, games |-> <<>>, panel |-> EmptyPanel]

--------------------------------------------------------------------------------
(* Merging. *)

Merged(d) ==
  LET start == [id \in {g.id : g \in d.local} |->
                  LET g == CHOOSE g \in d.local : g.id = id
                  IN [from |-> "local", ver |-> g.ver, dirty |-> g.dirty]]
      add(m, g) ==
        (g.id :> IF g.id \in DOMAIN m
                 THEN [from |-> "both", ver |-> g.ver, dirty |-> FALSE, mine |-> m[g.id]]
                 ELSE [from |-> "remote", ver |-> g.ver, dirty |-> FALSE]) @@ m
  IN FoldLeft(add, start, d.remote)

Own(item) == IF item.from = "both" THEN item.mine ELSE item

\* Mutant: what is on both sides counts as synced.
StatusBySide(item, unreachable) ==
  CASE item.from = "remote" -> "remote_only"
    [] item.from = "local" /\ (item.dirty \/ ~unreachable) -> "local_only"
    [] OTHER -> "synced"
Status(item, unreachable) ==
  CASE item.from = "remote" -> "remote_only"
    [] item.from # "remote" /\ Own(item).dirty ->
         IF item.from = "local" THEN "local_only" ELSE "unsynced"
    [] item.from = "local" /\ ~item.dirty ->
         IF unreachable THEN "synced" ELSE "local_only"
    [] OTHER -> "synced"

Row(d, id, item, unreachable) ==
  LET status == Status(item, unreachable)
  IN [id |-> id,
      ver |-> IF status \in {"unsynced", "local_only"} THEN Own(item).ver ELSE item.ver,
      source |-> IF item.from = "remote" THEN "remote" ELSE "local",
      localRevision |-> IF item.from # "remote" /\ id \in DOMAIN d.revs
                        THEN d.revs[id] ELSE 0,
      status |-> status]

(* mergeAndRender *)
Render(d, unreachable) ==
  LET m == Merged(d)
      ids == SelectSeq(Newest, LAMBDA g : g \in DOMAIN m)
      shown == First(d.limit, ids)
  IN [d EXCEPT !.games = [i \in DOMAIN shown |->
                            Row(d, shown[i], m[shown[i]], unreachable)]]

--------------------------------------------------------------------------------
(* Loading. *)

Emptied(d) == [d EXCEPT !.local = {}, !.remote = <<>>, !.revs = <<>>,
                        !.offset = 0, !.more = TRUE]
CanFetch(d) == ~d.fetching /\ d.more
(* The controller after fetchNextRemoteBatch, and the request it makes. *)
Fetching(d) == IF CanFetch(d) THEN Render([d EXCEPT !.fetching = TRUE], offline) ELSE d
NextBatch(d) ==
  IF CanFetch(d)
  THEN <<Fetch("games", <<>>, "games", [query |-> d.query, offset |-> d.offset])>> ELSE <<>>

Remotely(d) == user # NoUser /\ ~Flagged(ParseQuery(d.query), "local")
(* d is the emptied controller, store the database, rest the other calls. *)
LoadGames(d, store, rest) ==
  LET both == Remotely(d)
      loading == [d EXCEPT !.loading = TRUE]
  IN /\ dash' = IF both THEN Fetching(loading) ELSE loading
     /\ calls' = rest \o <<Await("revisions", both, GetLocalRevisions(store))>>
                      \o IF both THEN NextBatch(loading) ELSE <<>>

LoadDashboard(d, store, rest) ==
  /\ screen' = "dashboard"
  /\ LoadGames([Emptied(d) EXCEPT !.games = <<>>, !.limit = FirstLimit], store, rest)

(* The routes and clicks of the user, once init has run. *)
Started == screen \notin {"boot", "denied"}
Idle == UNCHANGED <<db, srv, user, live, offline, left, held>>

RefreshDashboard ==
  /\ screen = "dashboard" /\ Click
  /\ LoadGames(Emptied(dash), db, calls)
  /\ UNCHANGED <<db, srv, user, live, offline, held, screen>>

HandleScroll ==
  /\ screen = "dashboard" /\ dash.limit + MoreLimit <= MaxShown
  /\ LET d == [dash EXCEPT !.limit = @ + MoreLimit]
         loaded == Cardinality(d.local) + Len(d.remote)
     IN IF CanFetch(d) /\ d.limit + MoreLimit > loaded
        THEN dash' = Fetching(d) /\ calls' = calls \o NextBatch(d)
        ELSE dash' = Render(d, offline) /\ UNCHANGED calls
  /\ Idle /\ UNCHANGED screen

RevisionsRead(i) ==
  /\ GoesOn(i, "revisions")
  /\ dash' = [dash EXCEPT !.revs = calls[i].ans]
  /\ calls' = Append(Without(i), Await("locals", calls[i].with, GetAllGames(db)))
  /\ Idle /\ UNCHANGED screen

LocalsRead(i) ==
  LET parsed == ParseQuery(dash.query)
      found == IF Flagged(parsed, "remote") THEN {}
               ELSE {g \in calls[i].ans : MatchesGame(Summary(g.id), parsed)}
  IN /\ GoesOn(i, "locals")
     /\ dash' = Render([dash EXCEPT !.local = found, !.loading = FALSE], offline)
     /\ calls' = Without(i) \o
          IF calls[i].with THEN <<Await("ids", <<>>, LocalGames(db))>> ELSE <<>>
     /\ Idle /\ UNCHANGED screen

\* Mutant: the flag is left standing when the request fails.
GamesFetchedOrNot(i) ==
  LET data == IF Replied(i) THEN calls[i].ans ELSE <<>>
      unreachable == offline \/ calls[i].ans = Failed
  IN /\ GoesOn(i, "games")
     /\ offline' = unreachable
     /\ dash' = Render([dash EXCEPT !.remote = @ \o data, !.offset = @ + Len(data),
                                    !.more = @ /\ Len(data) >= PageSize,
                                    !.fetching = ~Replied(i)], unreachable)
     /\ calls' = Without(i)
     /\ UNCHANGED <<db, srv, user, live, left, held, screen>>
GamesFetched(i) ==
  LET data == IF Replied(i) THEN calls[i].ans ELSE <<>>
      unreachable == offline \/ calls[i].ans = Failed
  IN /\ GoesOn(i, "games")
     /\ offline' = unreachable
     /\ dash' = Render([dash EXCEPT !.remote = @ \o data, !.offset = @ + Len(data),
                                    !.more = @ /\ Len(data) >= PageSize,
                                    !.fetching = FALSE], unreachable)
     /\ calls' = Without(i)
     /\ UNCHANGED <<db, srv, user, live, left, held, screen>>

(* checkDeletions *)
IdsRead(i) ==
  /\ GoesOn(i, "ids")
  /\ calls' = Without(i) \o IF calls[i].ans = {} THEN <<>>
                            ELSE <<Fetch("gone", <<>>, "goneGames", calls[i].ans)>>
  /\ Idle /\ UNCHANGED <<screen, dash>>
GoneAnswered(i) ==
  LET gone == IF Replied(i) THEN calls[i].ans ELSE {}
  IN /\ GoesOn(i, "gone")
     /\ offline' = (offline \/ calls[i].ans = Failed)
     /\ db' = [db EXCEPT !.games = [g \in Games |-> IF g \in gone THEN Absent ELSE @[g]]]
     /\ calls' = Without(i) \o IF gone = {} THEN <<>> ELSE <<Await("purged", gone, gone)>>
     /\ UNCHANGED <<srv, user, live, left, held, screen, dash>>
Purged(i) ==
  LET gone == calls[i].ans
  IN /\ GoesOn(i, "purged")
     /\ dash' = Render([dash EXCEPT !.local = {g \in @ : g.id \notin gone},
                                    !.remote = SelectSeq(@, LAMBDA g : g.id \notin gone)],
                       offline)
     /\ calls' = Without(i) /\ Idle /\ UNCHANGED screen

--------------------------------------------------------------------------------
(* Searching. *)

SearchFor(query, panel) ==
  /\ screen = "dashboard" /\ query # dash.query /\ Click
  /\ LoadDashboard([dash EXCEPT !.query = query, !.panel = panel], db, calls)
  /\ UNCHANGED <<db, srv, user, live, offline, held>>
SearchGames == \E query \in Typed : SearchFor(query, dash.panel)
ApplyAdvancedSearch == \E p \in Panels : SearchFor(BuildAdvancedQuery(p), p)
ClearAdvancedSearch == SearchFor(<<>>, EmptyPanel)
ToggleAdvancedSearch ==
  /\ screen = "dashboard"
  /\ dash' = [dash EXCEPT !.panel = SyncAdvancedPanel(dash.query)]
  /\ Idle /\ UNCHANGED <<calls, screen>>

--------------------------------------------------------------------------------
(* Uploading, downloading and deleting a game. *)

(* Reloads the list when the transaction has ended. *)
Refreshes(i) ==
  /\ GoesOn(i, "reload") /\ LoadDashboard(dash, db, Without(i)) /\ Idle

SyncGame ==
  /\ screen = "dashboard" /\ Click
  /\ \E k \in DOMAIN dash.games :
       LET row == dash.games[k]
       IN calls' = Append(calls,
            IF \/ row.status = "remote_only"
               \/ row.status = "unsynced" /\ row.localRevision = 0
            THEN Fetch("pulled", row.id, "pull", row.id)
            ELSE Await("toPush", row.id, db.games[row.id]))
  /\ UNCHANGED <<db, srv, user, live, offline, held, screen, dash>>

Pulled(i) ==
  LET g == calls[i].with
  IN /\ GoesOn(i, "pulled")
     /\ IF Replied(i)
        THEN /\ db' = SaveGame(db, g, FromServer(calls[i].ans), FALSE)
             /\ calls' = Append(Without(i), Await("reload", <<>>, TRUE))
        ELSE calls' = Without(i) /\ UNCHANGED db
     /\ UNCHANGED <<srv, user, live, offline, left, held, screen, dash>>

ToPush(i) ==
  LET g == calls[i].with
  IN /\ GoesOn(i, "toPush") /\ Idle
     /\ IF calls[i].ans = Absent THEN LoadDashboard(dash, db, Without(i))
        ELSE /\ calls' = Append(Without(i),
                  Fetch("pushed", g, "push", [id |-> g, log |-> calls[i].ans.log]))
             /\ UNCHANGED <<screen, dash>>

\* Mutant: clean unless the server refuses.
PushedUnlessRefused(i) ==
  /\ GoesOn(i, "pushed")
  /\ db' = IF calls[i].ans # Denied THEN MarkClean(db, "games", calls[i].with) ELSE db
  /\ calls' = Without(i) \o
       IF Replied(i) THEN <<Await("reload", <<>>, TRUE)>> ELSE <<>>
  /\ UNCHANGED <<srv, user, live, offline, left, held, screen, dash>>
(* A conflict is shown on the row, which the reload below replaces. *)
Pushed(i) ==
  /\ GoesOn(i, "pushed")
  /\ db' = IF calls[i].ans = "ok" THEN MarkClean(db, "games", calls[i].with) ELSE db
  /\ calls' = Without(i) \o
       IF Replied(i) THEN <<Await("reload", <<>>, TRUE)>> ELSE <<>>
  /\ UNCHANGED <<srv, user, live, offline, left, held, screen, dash>>

DeleteGameFromList ==
  /\ screen = "dashboard" /\ Click
  /\ \E k \in DOMAIN dash.games :
       LET g == dash.games[k].id
       IN db' = DeleteGame(db, g) /\ calls' = Append(calls, Await("deleted", g, TRUE))
  /\ UNCHANGED <<srv, user, live, offline, held, screen, dash>>
GameDeleted(i) ==
  LET g == calls[i].with
  IN /\ GoesOn(i, "deleted") /\ Idle
     /\ IF user = NoUser THEN LoadDashboard(dash, db, Without(i))
        ELSE /\ calls' = Append(Without(i), Fetch("unlisted", g, "delete", g))
             /\ UNCHANGED <<screen, dash>>
Unlisted(i) == /\ GoesOn(i, "unlisted") /\ Idle
               /\ LoadDashboard(dash, db, Without(i))

--------------------------------------------------------------------------------
DashboardClicks ==
  RefreshDashboard \/ HandleScroll \/ SyncGame \/ DeleteGameFromList
SearchClicks ==
  SearchGames \/ ApplyAdvancedSearch \/ ClearAdvancedSearch \/ ToggleAdvancedSearch
DashboardGoesOn(i) ==
  \/ RevisionsRead(i) \/ LocalsRead(i) \/ GamesFetched(i) \/ IdsRead(i) \/ GoneAnswered(i)
  \/ Purged(i) \/ Refreshes(i) \/ Pulled(i) \/ ToPush(i) \/ Pushed(i) \/ GameDeleted(i)
  \/ Unlisted(i)
================================================================================
