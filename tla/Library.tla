------------------------------ MODULE Library ------------------------------
(***************************************************************************)
(* What the screens of one browser share: the IndexedDB stores             *)
(* (services/dbManager.js), the signed-in user, the suspended async        *)
(* functions, and the server's copies as /api/* serves them.               *)
(*                                                                         *)
(* An async function is a chain of actions.  `calls` lists the suspended   *)
(* ones: where each goes on (at), what it holds in its locals (with), what *)
(* it awaits (req and body; "db" for a transaction) and the answer once    *)
(* there is one.  A transaction takes effect when it is issued, since      *)
(* IndexedDB runs transactions in the order of their creation, and those   *)
(* who wait for one go on in that order; requests overtake each other.     *)
(*                                                                         *)
(* A game's log is a sequence of edits, a team's content one edit; edits   *)
(* are numbered as they are made.  The facts of a game or team that these  *)
(* screens only read are constants.                                        *)
(***************************************************************************)
EXTENDS Access, Search, FiniteSets, TLC

CONSTANTS Games, Teams, Me, Waiting, Failed, Denied,
          GameFacts, TeamFacts,   \* what never changes of each game and team
          Newest, ByName,         \* the games by date descending, the teams by name
          PageSize,               \* 50 in the code
          MaxEdits                \* bound of the model

ASSUME OrdersAssumption == Newest \in Seq(Games) /\ ByName \in Seq(Teams)

VARIABLES db,      \* [games, teams, stats]: the three stores
          srv,     \* [games, teams]: the server's copies
          user,    \* auth.currentUser, cached in localStorage
          live,    \* the user at the server: "open", "expired" or "barred"
          offline, \* sync.isServerUnreachable
          calls,   \* the suspended functions, in the order they were suspended
          left,    \* bounds of the model: edits, events of others, faults and clicks
                   \* still allowed, and what the page's address may name
          held     \* history: every content the server has had of an item

lib == <<db, srv, user, live, offline, calls, left, held>>

Revision(log) == IF log = <<>> THEN 0 ELSE log[Len(log)]
Summary(g) == GameFacts[g]
Edit == MaxEdits + 1 - left.edits

--------------------------------------------------------------------------------
(* The stores. *)

(* What is there instead of a record: undefined.                           *)
Absent == [absent |-> TRUE]
IsStore(d) ==
  /\ DOMAIN d = {"games", "teams", "stats"} /\ DOMAIN d.games = Games
  /\ \A g \in Games : \/ d.games[g] = Absent
                      \/ DOMAIN d.games[g] = {"log", "owner", "start", "dirty"}
IsServer(s) ==
  /\ DOMAIN s = {"games", "teams"} /\ DOMAIN s.games = Games
  /\ \A g \in Games : \/ s.games[g] = Absent
                      \/ DOMAIN s.games[g] = {"log", "owner", "share", "gone"}

(* A game as it comes from the server: its first action names its owner.   *)
FromServer(copy) == copy @@ [start |-> copy.owner]
SaveGame(d, g, record, dirty) ==
  [d EXCEPT !.games[g] = [log |-> record.log, owner |-> record.owner,
                          start |-> record.start, dirty |-> dirty]]
DeleteGame(d, g) == [d EXCEPT !.games[g] = Absent]
LocalGames(d) == {g \in Games : d.games[g] # Absent}
GetAllGames(d) == {[id |-> g, dirty |-> d.games[g].dirty, ver |-> Revision(d.games[g].log)] :
                   g \in LocalGames(d)}
GetLocalRevisions(d) == [g \in LocalGames(d) |-> Revision(d.games[g].log)]

SaveTeam(d, t, record, dirty) ==
  [d EXCEPT !.teams[t] = [ver |-> record.ver, owner |-> record.owner, dirty |-> dirty]]
DeleteTeam(d, t) == [d EXCEPT !.teams[t] = Absent]
LocalTeams(d) == {t \in Teams : d.teams[t] # Absent}
GetAllTeams(d) == {d.teams[t] @@ [id |-> t] : t \in LocalTeams(d)}

MarkClean(d, store, id) ==
  IF d[store][id] = Absent THEN d ELSE [d EXCEPT ![store][id].dirty = FALSE]

SaveGameStats(d, g, log) == [d EXCEPT !.stats[g] = log]
DeleteDatabase(d) == [games |-> [g \in Games |-> Absent], teams |-> [t \in Teams |-> Absent],
                      stats |-> [g \in Games |-> Absent]]

(* The records as PermissionService sees them. *)
KnownTeams(d) == [t \in Teams |-> IF d.teams[t] = Absent THEN NoTeam
                                  ELSE d.teams[t] @@ TeamFacts[t]]
MayRead(d, g) == HasReadAccess(d.games[g] @@ GameFacts[g], KnownTeams(d), user)
MayReadTeam(team) == HasTeamReadAccess(user, team @@ TeamFacts[team.id])

--------------------------------------------------------------------------------
(* Suspending and going on. *)

Await(at, with, result) ==
  [at |-> at, with |-> with, req |-> "db", body |-> <<>>, ans |-> result]
Fetch(at, with, req, body) ==
  [at |-> at, with |-> with, req |-> req, body |-> body, ans |-> Waiting]

Without(i) == RemoveAt(calls, i)
GoesOn(i, at) == /\ calls[i].at = at
                 /\ calls[i].ans # Waiting
                 /\ calls[i].req = "db" => \A j \in 1 .. i - 1 : calls[j].req # "db"
Replied(i) == calls[i].ans \notin {Failed, Denied}

Click == /\ left.clicks > 0
         /\ left' = [left EXCEPT !.clicks = @ - 1]

--------------------------------------------------------------------------------
(* The server. *)

(* A copy is [log or ver, owner, share, gone]: share is what the user may do  *)
(* with another's item, a deleted item stays as a tombstone of its owner.     *)
Kept(copy) == copy # Absent /\ ~copy.gone
MayLoad(copy) == copy # Absent /\ (copy.owner = Me \/ copy.share # "none")
MayWrite(copy) == copy.owner = Me \/ copy.share = "write"
Reads(copy) == Kept(copy) /\ MayLoad(copy)
GameTomb(owner) == [log |-> <<>>, owner |-> owner, share |-> "none", gone |-> TRUE]
TeamTomb(owner) == [ver |-> 0, owner |-> owner, share |-> "none", gone |-> TRUE]
First(n, ids) == SubSeq(ids, 1, IF n < Len(ids) THEN n ELSE Len(ids))
Page(ids, offset) == First(PageSize, SubSeq(ids, offset + 1, Len(ids)))

ListGames(query, offset) ==
  LET ids == SelectSeq(Newest, LAMBDA g : /\ Reads(srv.games[g])
                                          /\ MatchesGame(Summary(g), ServerParse(query)))
      page == Page(ids, offset)
  IN [i \in DOMAIN page |-> [id |-> page[i], ver |-> Revision(srv.games[page[i]].log)]]
ListTeams(query, offset) ==
  LET ids == SelectSeq(ByName, LAMBDA t : /\ Reads(srv.teams[t])
                                          /\ MatchesTeam(TeamFacts[t], ServerParse(query)))
      page == Page(ids, offset)
  IN [i \in DOMAIN page |-> [id |-> page[i], ver |-> srv.teams[page[i]].ver,
                             owner |-> srv.teams[page[i]].owner]]
\* Mutant: also what the server has never had.
UnreadableAt(copies, ids) == {id \in ids : ~Reads(copies[id])}
(* Gone for this user: deleted, or there and no longer accessible. *)
CheckDeletions(copies, ids) == {id \in ids : copies[id] # Absent /\ ~Reads(copies[id])}

Saves(copy, c) ==
  IF copy # Absent /\ ~MayWrite(copy) THEN Denied
  ELSE IF c.req = "push" /\ copy # Absent /\ ~IsPrefix(copy.log, c.body.log) THEN "conflict"
  ELSE "ok"
(* Nothing of an item the server has never had is refused. *)
Deletes(copy) == IF copy = Absent \/ copy.owner = Me THEN "ok" ELSE Denied
Loads(copy) == IF MayLoad(copy) THEN copy ELSE Denied

(* Static files need no session; the proxy knows a user the policy bars.  *)
Admitted(req) == \/ live = "open" \/ req = "asset"
                 \/ live = "barred" /\ req = "whoami"
Reply(c) ==
  IF ~Admitted(c.req) THEN Denied
  ELSE CASE c.req = "games" -> ListGames(c.body.query, c.body.offset)
         [] c.req = "teams" -> ListTeams(c.body.query, c.body.offset)
         [] c.req = "goneGames" -> CheckDeletions(srv.games, c.body)
         [] c.req = "goneTeams" -> CheckDeletions(srv.teams, c.body)
         [] c.req = "push" -> Saves(srv.games[c.body.id], c)
         [] c.req = "pushTeam" -> Saves(srv.teams[c.body.id], c)
         [] c.req = "pull" -> Loads(srv.games[c.body])
         [] c.req = "pullTeam" -> Loads(srv.teams[c.body])
         [] c.req = "delete" -> Deletes(srv.games[c.body])
         [] c.req = "deleteTeam" -> Deletes(srv.teams[c.body])
         [] OTHER -> "ok"

Writes == {"push", "pushTeam", "delete", "deleteTeam", "deleteAll"}
OwnerOf(copy) == IF copy = Absent THEN Me ELSE copy.owner
ShareOf(copy) == IF Kept(copy) THEN copy.share ELSE "none"
Mine(copies) == {id \in DOMAIN copies : Kept(copies[id]) /\ copies[id].owner = Me}
Buried(copies, tomb) == [id \in DOMAIN copies |-> IF id \in Mine(copies) THEN tomb ELSE copies[id]]
Effect(c) ==
  IF c.req \notin Writes \/ Reply(c) # "ok" THEN srv
  ELSE CASE c.req = "push" ->
              [srv EXCEPT !.games[c.body.id] =
                 [log |-> c.body.log, owner |-> OwnerOf(@), share |-> ShareOf(@), gone |-> FALSE]]
         [] c.req = "pushTeam" ->
              [srv EXCEPT !.teams[c.body.id] =
                 [ver |-> c.body.ver, owner |-> OwnerOf(@), share |-> ShareOf(@), gone |-> FALSE]]
         [] c.req = "delete" -> [srv EXCEPT !.games[c.body] = GameTomb(OwnerOf(@))]
         [] c.req = "deleteTeam" -> [srv EXCEPT !.teams[c.body] = TeamTomb(OwnerOf(@))]
         [] c.req = "deleteAll" ->
              [games |-> Buried(srv.games, GameTomb(Me)), teams |-> Buried(srv.teams, TeamTomb(Me))]

Remember(s) ==
  held' = [games |-> [g \in Games |-> held.games[g] \cup
                        IF s.games[g] # Absent THEN {s.games[g].log} ELSE {}],
           teams |-> [t \in Teams |-> held.teams[t] \cup
                        IF s.teams[t] # Absent THEN {s.teams[t].ver} ELSE {}]]

Serve(i) ==
  /\ calls[i].ans = Waiting
  /\ calls' = [calls EXCEPT ![i].ans = Reply(calls[i])]
  /\ srv' = Effect(calls[i]) /\ Remember(Effect(calls[i]))
  /\ UNCHANGED <<db, user, live, offline, left>>

(* The request or its answer is lost: fetch throws a TypeError. *)
Lose(i) ==
  /\ calls[i].ans = Waiting /\ left.faults > 0
  /\ left' = [left EXCEPT !.faults = @ - 1]
  /\ calls' = [calls EXCEPT ![i].ans = Failed]
  /\ \E s \in {srv, Effect(calls[i])} : srv' = s /\ Remember(s)
  /\ UNCHANGED <<db, user, live, offline>>

--------------------------------------------------------------------------------
(* The other users of the server. *)

Other == /\ left.others > 0
         /\ left' = [left EXCEPT !.others = @ - 1, !.edits = @ - 1]
         /\ left.edits > 0 /\ Remember(srv')
         /\ UNCHANGED <<db, user, live, offline, calls>>
OtherEdits(g) ==
  /\ Kept(srv.games[g])
  /\ srv' = [srv EXCEPT !.games[g].log = Append(@, Edit)] /\ Other
OtherCreates(g) ==
  /\ srv.games[g] = Absent /\ db.games[g] = Absent
  /\ srv' = [srv EXCEPT !.games[g] = [log |-> <<Edit>>, owner |-> "other",
                                   share |-> "read", gone |-> FALSE]]
  /\ Other
OtherDeletes(g) ==
  /\ Kept(srv.games[g]) /\ srv' = [srv EXCEPT !.games[g] = GameTomb(@.owner)] /\ Other
OtherRevokes(g) ==
  /\ Kept(srv.games[g]) /\ srv.games[g].owner # Me /\ srv.games[g].share # "none"
  /\ srv' = [srv EXCEPT !.games[g].share = "none"] /\ Other
OtherEditsTeam(t) ==
  /\ Kept(srv.teams[t])
  /\ srv' = [srv EXCEPT !.teams[t].ver = Edit] /\ Other
OtherDeletesTeam(t) ==
  /\ Kept(srv.teams[t]) /\ srv' = [srv EXCEPT !.teams[t] = TeamTomb(@.owner)] /\ Other

SessionEnds ==
  /\ live = "open" /\ left.others > 0 /\ live' \in {"expired", "barred"}
  /\ left' = [left EXCEPT !.others = @ - 1]
  /\ UNCHANGED <<db, srv, user, offline, calls, held>>
BackOnline ==
  /\ offline /\ offline' = FALSE
  /\ UNCHANGED <<db, srv, user, live, calls, left, held>>
================================================================================
