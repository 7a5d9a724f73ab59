------------------------------ MODULE Session ------------------------------
(***************************************************************************)
(* The life of the page: init (AppController), checkStatus and logout      *)
(* (services/authManager.js), the adoption of what was made before signing *)
(* in and the wiping of data (services/DataService.js).  A page can be     *)
(* reloaded, or closed and opened again, at any moment: the database, the  *)
(* cached user and what the requests in the air did to the server survive. *)
(***************************************************************************)
EXTENDS TeamsScreen

CONSTANT Demo  \* the demo game

Elsewhere == UNCHANGED <<dash, board, club>>

(* The new page: only the cached user is left of the old one. *)
Load(known, store, copies) ==
  /\ screen' = "boot" /\ dash' = NoRows /\ board' = NoBoard /\ club' = NoTeams
  /\ user' = known /\ offline' = FALSE /\ db' = store
  /\ calls' = <<Fetch("known", <<>>, "whoami", <<>>)>>
  /\ \E s \in {copies} \cup {Effect(calls[i]) : i \in {j \in DOMAIN calls : calls[j].ans = Waiting}} :
       srv' = s /\ Remember(s)

Reload ==
  /\ Click /\ Load(user, db, srv) /\ UNCHANGED live
(* login opens a window that reloads the page once the user is known. *)
Login ==
  /\ live = "expired" /\ Click /\ live' = "open"
  /\ Load(user, db, srv)

--------------------------------------------------------------------------------
(* init *)

StillMine(copies, order) == SelectSeq(order, LAMBDA id : /\ copies[id] # Absent
                                                         /\ copies[id].owner = LocalId)

(* The first route, from the address. *)
Land(rest) ==
  \E to \in left.links :
    CASE to = "dashboard" -> LoadDashboard(dash, db, rest) /\ UNCHANGED <<board, club>>
      [] to = "teams" -> LoadTeamsView(club, db, rest) /\ UNCHANGED <<dash, board>>
      [] to = "profile" -> screen' = "profile" /\ calls' = rest /\ Elsewhere
      [] to = "demo" -> /\ calls' = Append(rest, Await("demo", Demo, db.games[Demo]))
                        /\ Elsewhere /\ UNCHANGED screen
      [] to \in Teams -> /\ screen' = "team" /\ Elsewhere
                         /\ calls' = Append(rest, Await("teamRead", to, db.teams[to]))
      [] OTHER -> /\ calls' = Append(rest, Await("opened", to, db.games[to]))
                  /\ Elsewhere /\ UNCHANGED screen

(* reconcileLocalData reads every game before it writes the first. *)
Adopt(games) == Await("adopt", <<>>, [k \in DOMAIN games |-> db.games[games[k]] @@ [id |-> games[k]]])
Reconcile(rest) ==
  IF user = NoUser THEN Land(rest)
  ELSE /\ calls' = Append(rest, Adopt(StillMine(db.games, Newest)))
       /\ Elsewhere /\ UNCHANGED screen

(* A session that has ended, or a server that does not answer, leaves the *)
(* cached user. *)
Known(i) ==
  /\ GoesOn(i, "known") /\ UNCHANGED <<db, srv, live, offline, left, held>>
  /\ IF Replied(i)
     THEN /\ user' = Me /\ calls' = Append(Without(i), Fetch("allowed", <<>>, "me", <<>>))
          /\ Elsewhere /\ UNCHANGED screen
     ELSE Reconcile(Without(i)) /\ UNCHANGED user
Allowed(i) ==
  /\ GoesOn(i, "allowed") /\ Idle
  /\ IF calls[i].ans = Denied
     THEN calls' = Without(i) /\ screen' = "denied" /\ Elsewhere
     ELSE Reconcile(Without(i))
(* The only way on from the message is to sign out. *)
DismissDenied ==
  /\ screen = "denied"
  /\ calls' = Append(calls, Fetch("signedOut", <<>>, "logout", <<>>))
  /\ ~\E i \in DOMAIN calls : calls[i].at = "signedOut"
  /\ Idle /\ Elsewhere /\ UNCHANGED screen

\* Mutant: the first action keeps naming nobody's identity.
AdoptRecord(i) ==
  LET games == calls[i].ans
      game == Head(games)
  IN /\ GoesOn(i, "adopt") /\ Elsewhere
     /\ UNCHANGED <<srv, user, live, offline, left, held, screen>>
     /\ IF games = <<>>
        THEN /\ calls' = Append(Without(i), Await("adoptTeams", StillMine(db.teams, ByName), db.teams))
             /\ UNCHANGED <<db>>
        ELSE /\ db' = SaveGame(db, game.id, [game EXCEPT !.owner = user], TRUE)
             /\ calls' = Append(Without(i), Await("adopt", <<>>, Tail(games)))
AdoptGame(i) ==
  LET games == calls[i].ans
      game == Head(games)
  IN /\ GoesOn(i, "adopt") /\ Elsewhere
     /\ UNCHANGED <<srv, user, live, offline, left, held, screen>>
     /\ IF games = <<>>
        THEN /\ calls' = Append(Without(i), Await("adoptTeams", StillMine(db.teams, ByName), db.teams))
             /\ UNCHANGED <<db>>
        ELSE /\ db' = SaveGame(db, game.id, [game EXCEPT !.owner = user, !.start = user], TRUE)
             /\ calls' = Append(Without(i), Await("adopt", <<>>, Tail(games)))
AdoptTeam(i) ==
  LET teams == calls[i].with
      team == calls[i].ans[Head(teams)]
  IN /\ GoesOn(i, "adoptTeams")
     /\ UNCHANGED <<srv, user, live, offline, left, held>>
     /\ IF teams = <<>> THEN Land(Without(i)) /\ UNCHANGED db
        ELSE /\ db' = SaveTeam(db, Head(teams), [team EXCEPT !.owner = user], TRUE)
             /\ calls' = Append(Without(i), Await("adopted", teams, calls[i].ans))
             /\ Elsewhere /\ UNCHANGED screen
TeamAdopted(i) ==
  LET teams == calls[i].with
      body == [id |-> Head(teams), ver |-> calls[i].ans[Head(teams)].ver]
  IN /\ GoesOn(i, "adopted") /\ Idle /\ Elsewhere /\ UNCHANGED screen
     /\ calls' = Append(Without(i),
                        Fetch("offered", [teams |-> teams, all |-> calls[i].ans], "pushTeam", body))
(* Whether the server took the team is not looked at. *)
TeamOffered(i) ==
  LET with == calls[i].with
  IN /\ GoesOn(i, "offered") /\ Idle /\ Elsewhere /\ UNCHANGED screen
     /\ calls' = Append(Without(i), Await("adoptTeams", Tail(with.teams), with.all))

--------------------------------------------------------------------------------
(* ensureDemoGame, then the demo game is opened like any other. *)

DemoRead(i) ==
  /\ GoesOn(i, "demo") /\ Idle /\ Elsewhere /\ UNCHANGED screen
  /\ calls' = Append(Without(i),
       IF calls[i].ans = Absent THEN Fetch("demoFetched", Demo, "asset", <<>>)
       ELSE Await("opened", Demo, db.games[Demo]))
DemoFetched(i) ==
  LET seed == [log |-> <<MaxEdits + 1>>, owner |-> LocalId, start |-> LocalId]
      store == IF Replied(i) THEN SaveGame(db, Demo, seed, TRUE) ELSE db
  IN /\ GoesOn(i, "demoFetched") /\ db' = store
     /\ calls' = Append(Without(i), Await("opened", Demo, store.games[Demo]))
     /\ Elsewhere /\ UNCHANGED <<srv, user, live, offline, left, held, screen>>

--------------------------------------------------------------------------------
(* Signing out and wiping. *)

Logout ==
  /\ user # NoUser /\ screen \notin {"boot", "denied"} /\ Click
  /\ calls' = Append(calls, Fetch("signedOut", <<>>, "logout", <<>>))
  /\ Elsewhere /\ UNCHANGED <<db, srv, user, live, offline, held, screen>>
(* In the finally of logout, however the request ended. *)
SignedOut(i) ==
  /\ GoesOn(i, "signedOut") /\ Load(NoUser, db, srv)
  /\ live' = IF live = "open" /\ Replied(i) THEN "expired" ELSE live
  /\ UNCHANGED <<left>>

DeleteAllLocalData ==
  /\ screen = "profile" /\ Click
  /\ db' = DeleteDatabase(db)
  /\ calls' = Append(calls, Await("wiped", <<>>, TRUE))
  /\ Elsewhere /\ UNCHANGED <<srv, user, live, offline, held, screen>>
Wiped(i) == GoesOn(i, "wiped") /\ Load(NoUser, db, srv) /\ UNCHANGED <<live, left>>

DeleteAllRemoteData ==
  /\ screen = "profile" /\ user # NoUser /\ Click
  /\ calls' = Append(calls, Fetch("allDeleted", <<>>, "deleteAll", <<>>))
  /\ Elsewhere /\ UNCHANGED <<db, srv, user, live, offline, held, screen>>
AllDeleted(i) ==
  /\ GoesOn(i, "allDeleted") /\ Idle /\ Elsewhere /\ UNCHANGED screen
  /\ calls' = IF Replied(i)
              THEN Append(Without(i), Fetch("signedOut", <<>>, "logout", <<>>)) ELSE Without(i)

(* loadProfile *)
ShowProfile ==
  /\ screen \notin {"profile", "boot", "denied"} /\ Click /\ screen' = "profile"
  /\ Elsewhere /\ UNCHANGED <<db, srv, user, live, offline, calls, held>>

SessionClicks ==
  Reload \/ Login \/ DismissDenied \/ Logout \/ DeleteAllLocalData \/ DeleteAllRemoteData
  \/ ShowProfile
SessionGoesOn(i) ==
  \/ Known(i) \/ Allowed(i) \/ AdoptGame(i) \/ AdoptTeam(i) \/ TeamAdopted(i) \/ TeamOffered(i)
  \/ DemoRead(i) \/ DemoFetched(i) \/ SignedOut(i) \/ Wiped(i) \/ AllDeleted(i)
================================================================================
