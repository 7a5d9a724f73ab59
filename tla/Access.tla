------------------------------- MODULE Access -------------------------------
(***************************************************************************)
(* Who may read and write what (services/PermissionService.js).  A user is *)
(* an email or NoUser; the browser's own identity, LocalId, is compared to *)
(* the owner only.  Roles of a team and direct permissions of a game are   *)
(* functions from users.                                                   *)
(***************************************************************************)
CONSTANTS NoUser, LocalId, NoTeam
ASSUME IdentitiesDiffer == NoUser # LocalId

Writers == {"admin", "scorekeeper"}

CanWriteTeam(user, team) ==
  \/ team.owner = LocalId
  \/ /\ user # NoUser
     /\ team.owner = user \/ team.role \in Writers

HasTeamReadAccess(user, team) ==
  \/ team.owner = LocalId
  \/ /\ user # NoUser
     /\ team.owner = user \/ team.role \in Writers \cup {"spectator"}

Owned(game, user) ==
  \/ user # NoUser /\ game.owner = user
  \/ game.owner = LocalId
  \/ game.demo

(* teams: the team records of the browser, NoTeam for one it has not got. *)
HasReadAccess(game, teams, user) ==
  \/ Owned(game, user)
  \/ game.public
  \/ /\ user # NoUser
     /\ \/ game.granted \in {"read", "write"}
        \/ \E t \in game.sides : teams[t] # NoTeam /\ HasTeamReadAccess(user, teams[t])

IsReadOnly(game, user, teams) ==
  /\ ~Owned(game, user)
  /\ ~(user # NoUser /\ game.granted = "write")
  /\ ~\E t \in game.sides : teams[t] # NoTeam /\ CanWriteTeam(user, teams[t])
================================================================================
