--------------------------- MODULE Library_proofs ---------------------------
(***************************************************************************)
(* Proofs about what a browser stores, for every library of games and      *)
(* teams and every order of clicks, requests, losses and answers: what the *)
(* server has never had leaves the browser only at a click.                *)
(***************************************************************************)
EXTENDS Browser_proofs

GameFields == {"log", "owner", "start", "dirty"}
CopyFields == {"log", "owner", "share", "gone"}

Keeps(d, e) == \A g \in Games : d.games[g] # Absent => e.games[g] # Absent

\* No record is Absent, and changing one field of it makes another record.
LEMMA RecordsAreThere ==
    /\ \A r : DOMAIN r = GameFields \/ DOMAIN r = CopyFields => r # Absent
    /\ \A r, v : DOMAIN r = GameFields => DOMAIN [r EXCEPT !.dirty = v] = GameFields
    /\ \A r, v : DOMAIN r = CopyFields => /\ DOMAIN [r EXCEPT !.log = v] = CopyFields
                                          /\ DOMAIN [r EXCEPT !.share = v] = CopyFields
  <1>1. DOMAIN Absent = {"absent"}
    BY DEF Absent
  <1>2. \A r : DOMAIN r = GameFields \/ DOMAIN r = CopyFields => r # Absent
    <2>1. GameFields # {"absent"} /\ CopyFields # {"absent"}
      BY DEF GameFields, CopyFields
    <2>2. QED
      BY <1>1, <2>1
  <1>3. QED
    BY <1>2

-----------------------------------------------------------------------------
(* The stores of the browser.                                              *)

\* One game of a store replaced.
LEMMA OneGame ==
    ASSUME NEW d, IsStore(d), NEW g, NEW r, g \in Games => DOMAIN r = GameFields
    PROVE  LET e == [d EXCEPT !.games[g] = r] IN IsStore(e) /\ Keeps(d, e)
  <1> DEFINE e == [d EXCEPT !.games[g] = r]
             m == d.games
             n == [m EXCEPT ![g] = r]
  <1>1. /\ DOMAIN d = {"games", "teams", "stats"} /\ DOMAIN m = Games
        /\ \A h \in Games : m[h] = Absent \/ DOMAIN m[h] = GameFields
    BY DEF IsStore, GameFields
  <1>2. DOMAIN e = {"games", "teams", "stats"} /\ e.games = n
    BY <1>1
  <1> HIDE DEF m
  <1>3. DOMAIN n = Games /\ \A h \in Games : n[h] = IF h = g THEN r ELSE m[h]
    BY <1>1
  <1> HIDE DEF n
  <1>4. IsStore(e)
    BY <1>1, <1>2, <1>3 DEF IsStore, GameFields
  <1>5. Keeps(d, e)
    BY <1>1, <1>2, <1>3, RecordsAreThere DEF Keeps, m
  <1>6. QED
    BY <1>4, <1>5

LEMMA SaveGameKeeps ==
    ASSUME NEW d, IsStore(d), NEW g, NEW record, NEW dirty
    PROVE  IsStore(SaveGame(d, g, record, dirty)) /\ Keeps(d, SaveGame(d, g, record, dirty))
  <1> DEFINE r == [log |-> record.log, owner |-> record.owner, start |-> record.start, dirty |-> dirty]
  <1>1. DOMAIN r = GameFields
    BY DEF GameFields
  <1>2. SaveGame(d, g, record, dirty) = [d EXCEPT !.games[g] = r]
    BY DEF SaveGame
  <1> HIDE DEF r
  <1>3. QED
    BY <1>1, <1>2, OneGame

\* Teams and statistics are another matter.
LEMMA OthersKeep ==
    ASSUME NEW d, IsStore(d)
    PROVE  /\ \A v : IsStore([d EXCEPT !.teams = v]) /\ Keeps(d, [d EXCEPT !.teams = v])
           /\ \A g, log : IsStore(SaveGameStats(d, g, log)) /\ Keeps(d, SaveGameStats(d, g, log))
  <1>1. \A v : IsStore([d EXCEPT !.teams = v]) /\ Keeps(d, [d EXCEPT !.teams = v])
    BY DEF IsStore, Keeps
  <1>2. ASSUME NEW g, NEW log
        PROVE  IsStore(SaveGameStats(d, g, log)) /\ Keeps(d, SaveGameStats(d, g, log))
    BY DEF IsStore, Keeps, SaveGameStats
  <1>3. QED
    BY <1>1, <1>2

LEMMA MarkCleanKeeps ==
    ASSUME NEW d, IsStore(d), NEW id
    PROVE  /\ IsStore(MarkClean(d, "games", id)) /\ Keeps(d, MarkClean(d, "games", id))
           /\ IsStore(MarkClean(d, "teams", id)) /\ Keeps(d, MarkClean(d, "teams", id))
  <1>1. IsStore(MarkClean(d, "games", id)) /\ Keeps(d, MarkClean(d, "games", id))
    <2>1. CASE d.games[id] = Absent
      BY <2>1 DEF MarkClean, Keeps
    <2>2. CASE d.games[id] # Absent
      <3> DEFINE r == d.games[id]
                 s == [r EXCEPT !.dirty = FALSE]
      <3>1. id \in Games => DOMAIN s = GameFields
        BY <2>2, RecordsAreThere DEF IsStore, GameFields
      <3>2. MarkClean(d, "games", id) = [d EXCEPT !.games[id] = s]
        BY <2>2 DEF MarkClean
      <3> HIDE DEF s
      <3>3. QED
        BY <3>1, <3>2, OneGame
    <2>3. QED
      BY <2>1, <2>2
  <1>2. IsStore(MarkClean(d, "teams", id)) /\ Keeps(d, MarkClean(d, "teams", id))
    BY DEF MarkClean, IsStore, Keeps
  <1>3. QED
    BY <1>1, <1>2

\* A record deleted, all of them deleted: still a store.
LEMMA DeleteKeepsShape ==
    ASSUME NEW d, IsStore(d), NEW g
    PROVE  IsStore(DeleteGame(d, g)) /\ IsStore(DeleteDatabase(d))
  <1>1. IsStore(DeleteGame(d, g))
    <2> DEFINE m == d.games
               n == [m EXCEPT ![g] = Absent]
    <2>1. /\ DOMAIN d = {"games", "teams", "stats"} /\ DOMAIN m = Games
          /\ \A h \in Games : m[h] = Absent \/ DOMAIN m[h] = {"log", "owner", "start", "dirty"}
      BY DEF IsStore
    <2>2. DOMAIN DeleteGame(d, g) = {"games", "teams", "stats"} /\ DeleteGame(d, g).games = n
      BY <2>1 DEF DeleteGame
    <2> HIDE DEF m
    <2>3. DOMAIN n = Games /\ \A h \in Games : n[h] = Absent \/ DOMAIN n[h] = {"log", "owner", "start", "dirty"}
      BY <2>1
    <2>4. QED
      BY <2>2, <2>3 DEF IsStore
  <1>2. IsStore(DeleteDatabase(d))
    BY DEF IsStore, DeleteDatabase
  <1>3. QED
    BY <1>1, <1>2

\* What the handlers write.
WritesDown ==
    \/ db' = db
    \/ \E g, record, dirty : db' = SaveGame(db, g, record, dirty)
    \/ \E v : db' = [db EXCEPT !.teams = v]
    \/ \E g, log : db' = SaveGameStats(db, g, log)
    \/ \E id : db' = MarkClean(db, "games", id) \/ db' = MarkClean(db, "teams", id)

LEMMA SaveTeamWrites ==
    ASSUME IsStore(db), NEW t, NEW record, NEW dirty, db' = SaveTeam(db, t, record, dirty)
    PROVE  WritesDown
  <1> DEFINE v == [db.teams EXCEPT ![t] = [ver |-> record.ver, owner |-> record.owner, dirty |-> dirty]]
  <1>1. db' = [db EXCEPT !.teams = v]
    BY DEF SaveTeam, IsStore
  <1> HIDE DEF v
  <1>2. QED
    BY <1>1 DEF WritesDown

LEMMA WrittenKeeps == ASSUME IsStore(db), WritesDown PROVE IsStore(db') /\ Keeps(db, db')
  <1>1. CASE db' = db
    BY <1>1 DEF Keeps
  <1>2. CASE \E g, record, dirty : db' = SaveGame(db, g, record, dirty)
    <2>1. PICK g, record, dirty : db' = SaveGame(db, g, record, dirty)
      BY <1>2
    <2>2. QED
      BY <2>1, SaveGameKeeps
  <1>3. CASE \E v : db' = [db EXCEPT !.teams = v]
    <2>1. PICK v : db' = [db EXCEPT !.teams = v]
      BY <1>3
    <2>2. QED
      BY <2>1, OthersKeep
  <1>4. CASE \E g, log : db' = SaveGameStats(db, g, log)
    BY <1>4, OthersKeep
  <1>5. CASE \E id : db' = MarkClean(db, "games", id) \/ db' = MarkClean(db, "teams", id)
    BY <1>5, MarkCleanKeeps
  <1>6. QED
    BY <1>1, <1>2, <1>3, <1>4, <1>5 DEF WritesDown

-----------------------------------------------------------------------------
(* The server: what it has once had it keeps, if only as a tombstone.      *)

LEMMA OneCopy ==
    ASSUME NEW s, IsServer(s), NEW g, NEW r, g \in Games => DOMAIN r = CopyFields
    PROVE  LET t == [s EXCEPT !.games[g] = r] IN IsServer(t) /\ Keeps(s, t)
  <1> DEFINE t == [s EXCEPT !.games[g] = r]
             m == s.games
             n == [m EXCEPT ![g] = r]
  <1>1. /\ DOMAIN s = {"games", "teams"} /\ DOMAIN m = Games
        /\ \A h \in Games : m[h] = Absent \/ DOMAIN m[h] = CopyFields
    BY DEF IsServer, CopyFields
  <1>2. DOMAIN t = {"games", "teams"} /\ t.games = n
    BY <1>1
  <1> HIDE DEF m
  <1>3. DOMAIN n = Games /\ \A h \in Games : n[h] = IF h = g THEN r ELSE m[h]
    BY <1>1
  <1> HIDE DEF n
  <1>4. IsServer(t)
    BY <1>1, <1>2, <1>3 DEF IsServer, CopyFields
  <1>5. Keeps(s, t)
    BY <1>1, <1>2, <1>3, RecordsAreThere DEF Keeps, m
  <1>6. QED
    BY <1>4, <1>5

LEMMA SameGames ==
    ASSUME NEW s, IsServer(s), NEW v
    PROVE  IsServer([s EXCEPT !.teams = v]) /\ Keeps(s, [s EXCEPT !.teams = v])
  BY DEF IsServer, Keeps

\* A copy keeps its shape when one field of it changes.
LEMMA CopyChanged ==
    ASSUME NEW s, IsServer(s), NEW g \in Games, s.games[g] # Absent, NEW v
    PROVE  /\ DOMAIN [s.games[g] EXCEPT !.log = v] = CopyFields
           /\ DOMAIN [s.games[g] EXCEPT !.share = v] = CopyFields
  BY RecordsAreThere DEF IsServer, CopyFields

LEMMA TombIsCopy == \A owner : DOMAIN GameTomb(owner) = CopyFields
  BY DEF GameTomb, CopyFields

LEMMA EffectKeeps ==
    ASSUME IsServer(srv), NEW c PROVE IsServer(Effect(c)) /\ Keeps(srv, Effect(c))
  <1>1. Keeps(srv, srv)
    BY DEF Keeps
  <1>2. CASE c.req = "push"
    <2> DEFINE g == c.body.id
               r == [log |-> c.body.log, owner |-> OwnerOf(srv.games[g]),
                     share |-> ShareOf(srv.games[g]), gone |-> FALSE]
    <2>1. DOMAIN r = CopyFields
      BY DEF CopyFields
    <2>2. Effect(c) = srv \/ Effect(c) = [srv EXCEPT !.games[g] = r]
      BY <1>2 DEF Effect, IsServer
    <2> HIDE DEF r
    <2>3. QED
      BY <1>1, <2>1, <2>2, OneCopy
  <1>3. CASE c.req = "delete"
    <2> DEFINE r == GameTomb(OwnerOf(srv.games[c.body]))
    <2>1. Effect(c) = srv \/ Effect(c) = [srv EXCEPT !.games[c.body] = r]
      BY <1>3 DEF Effect, IsServer
    <2>2. QED
      BY <1>1, <2>1, OneCopy, TombIsCopy
  <1>4. CASE c.req = "pushTeam" \/ c.req = "deleteTeam"
    <2>1. Effect(c) = srv \/ \E v : Effect(c) = [srv EXCEPT !.teams = v]
      BY <1>4 DEF Effect, IsServer
    <2>2. QED
      BY <1>1, <2>1, SameGames
  <1>5. CASE c.req = "deleteAll"
    <2> DEFINE n == Buried(srv.games, GameTomb(Me))
    <2>2. DOMAIN n = Games /\ \A g \in Games : n[g] = GameTomb(Me) \/ n[g] = srv.games[g]
      BY DEF Buried, IsServer
    <2>3. \A g \in Games : \/ n[g] = srv.games[g]
                           \/ DOMAIN n[g] = CopyFields
      BY <2>2, TombIsCopy
    <2>4. Effect(c) = srv \/ \E teams : Effect(c) = [games |-> n, teams |-> teams]
      BY <1>5 DEF Effect
    <2> HIDE DEF n
    <2>5. ASSUME NEW teams
          PROVE  IsServer([games |-> n, teams |-> teams]) /\ Keeps(srv, [games |-> n, teams |-> teams])
      <3>1. IsServer([games |-> n, teams |-> teams])
        BY <2>2, <2>3 DEF IsServer, CopyFields
      <3>2. Keeps(srv, [games |-> n, teams |-> teams])
        BY <2>3, RecordsAreThere DEF Keeps
      <3>3. QED
        BY <3>1, <3>2
    <2>6. QED
      BY <1>1, <2>4, <2>5
  <1>6. CASE c.req \notin Writes
    BY <1>1, <1>6 DEF Effect
  <1>7. QED
    BY <1>2, <1>3, <1>4, <1>5, <1>6 DEF Writes

-----------------------------------------------------------------------------
(* The functions under way that ask which games are gone.                  *)

\* What such a function is told is gone the server has had.
GoneCalls(K, s) ==
    \A k \in 1..Len(K) : K[k].at = "gone" =>
      /\ K[k].req = "goneGames"
      /\ K[k].ans \notin {Waiting, Failed, Denied} =>
           \A g \in Games : g \in K[k].ans => s.games[g] # Absent

Plain(L) == IsCalls(L) /\ \A k \in 1..Len(L) : L[k].at # "gone"

LEMMA GoneLater ==
    ASSUME NEW K, NEW s, NEW t, GoneCalls(K, s), Keeps(s, t) PROVE GoneCalls(K, t)
  BY DEF GoneCalls, Keeps

LEMMA GonePart ==
    ASSUME NEW K, NEW L, NEW s, GoneCalls(K, s),
           \A k \in 1..Len(L) : \E j \in 1..Len(K) : L[k] = K[j]
    PROVE  GoneCalls(L, s)
  <1>1. ASSUME NEW k \in 1..Len(L), L[k].at = "gone"
        PROVE  /\ L[k].req = "goneGames"
               /\ L[k].ans \notin {Waiting, Failed, Denied} =>
                    \A g \in Games : g \in L[k].ans => s.games[g] # Absent
    <2>1. PICK j \in 1..Len(K) : L[k] = K[j]
      OBVIOUS
    <2> DEFINE c == K[j]
    <2>2. c.at = "gone" => /\ c.req = "goneGames"
                           /\ c.ans \notin {Waiting, Failed, Denied} =>
                                \A g \in Games : g \in c.ans => s.games[g] # Absent
      BY DEF GoneCalls
    <2>3. L[k] = c
      BY <2>1
    <2> HIDE DEF c
    <2>4. QED
      BY <1>1, <2>2, <2>3
  <1>2. QED
    BY <1>1 DEF GoneCalls

LEMMA GoneRemoved ==
    ASSUME NEW K, IsCalls(K), NEW i \in 1..Len(K), NEW s, GoneCalls(K, s)
    PROVE  GoneCalls(RemoveAt(K, i), s)
  BY Removed, GonePart

LEMMA GoneJoined ==
    ASSUME NEW K, IsCalls(K), NEW L, IsCalls(L), NEW s, GoneCalls(K, s), GoneCalls(L, s)
    PROVE  GoneCalls(K \o L, s)
  <1> DEFINE J == K \o L
  <1>1. \A k \in 1..Len(J) : \/ \E j \in 1..Len(K) : J[k] = K[j]
                             \/ \E j \in 1..Len(L) : J[k] = L[j]
    BY Joined
  <1> HIDE DEF J
  <1>2. ASSUME NEW k \in 1..Len(J), J[k].at = "gone"
        PROVE  /\ J[k].req = "goneGames"
               /\ J[k].ans \notin {Waiting, Failed, Denied} =>
                    \A g \in Games : g \in J[k].ans => s.games[g] # Absent
    BY <1>1, <1>2 DEF GoneCalls
  <1>3. QED
    BY <1>2 DEF GoneCalls, J

LEMMA JoinedTwice ==
    ASSUME NEW K, NEW L, NEW M, IsCalls(K), IsCalls(L), IsCalls(M)
    PROVE  (K \o L) \o M = K \o (L \o M)
  <1> DEFINE S == ToSet(K) \cup ToSet(L) \cup ToSet(M)
  <1>1. K \in Seq(S) /\ L \in Seq(S) /\ M \in Seq(S)
    BY SeqMore DEF IsCalls
  <1> HIDE DEF S
  <1>2. QED
    BY <1>1

LEMMA PlainGone == ASSUME NEW L, Plain(L), NEW s PROVE GoneCalls(L, s)
  BY DEF Plain, GoneCalls

LEMMA PlainJoined == ASSUME NEW K, NEW L, Plain(K), Plain(L) PROVE Plain(K \o L)
  <1> DEFINE J == K \o L
  <1>1. /\ IsCalls(J)
        /\ \A k \in 1..Len(J) : \/ \E j \in 1..Len(K) : J[k] = K[j]
                               \/ \E j \in 1..Len(L) : J[k] = L[j]
    BY Joined DEF Plain
  <1> HIDE DEF J
  <1>2. \A k \in 1..Len(J) : J[k].at # "gone"
    BY <1>1 DEF Plain
  <1>3. QED
    BY <1>1, <1>2 DEF Plain, J

LEMMA PlainOne == ASSUME NEW x, DOMAIN x = CallFields, x.at # "gone" PROVE Plain(<<x>>)
  <1> DEFINE L == <<x>>
  <1>1. IsCalls(L)
    BY Single
  <1>2. Len(L) = 1 /\ L[1] = x
    OBVIOUS
  <1> HIDE DEF L
  <1>3. QED
    BY <1>1, <1>2 DEF Plain, L

LEMMA PlainNone == Plain(<<>>)
  BY Empty DEF Plain

-----------------------------------------------------------------------------
(* Handlers.                                                               *)

KeptInv ==
    /\ IsStore(db) /\ IsServer(srv)
    /\ "clicks" \in DOMAIN left /\ left.clicks \in Int
    /\ GoneCalls(calls, srv)

\* What a step must not do: UnsyncedIsKept.
NothingLost ==
    \A g \in Games : db.games[g] # Absent /\ db'.games[g] = Absent =>
      srv.games[g] # Absent \/ left'.clicks < left.clicks

Bounded == "clicks" \in DOMAIN left' /\ left'.clicks \in Int

\* calls' is K and some that do not ask which games are gone.
Adds(K) == \E L : Plain(L) /\ calls' = K \o L

LEMMA AddsNone == ASSUME NEW K, IsCalls(K), calls' = K PROVE Adds(K)
  BY NothingMore, PlainNone DEF Adds

LEMMA AddsOne ==
    ASSUME NEW K, IsCalls(K), NEW x, DOMAIN x = CallFields, x.at # "gone", calls' = Append(K, x)
    PROVE  Adds(K)
  <1>1. calls' = K \o <<x>>
    BY Appended
  <1>2. QED
    BY <1>1, PlainOne DEF Adds

LEMMA AddsAwait ==
    ASSUME NEW K, IsCalls(K), NEW at, at # "gone", NEW with, NEW ans,
           calls' = Append(K, Await(at, with, ans))
    PROVE  Adds(K)
  BY AddsOne, CallTyping

LEMMA AddsFetch ==
    ASSUME NEW K, IsCalls(K), NEW at, at # "gone", NEW with, NEW req, NEW body,
           calls' = Append(K, Fetch(at, with, req, body))
    PROVE  Adds(K)
  BY AddsOne, CallTyping

\* One of them, or none.
LEMMA AddsMaybe ==
    ASSUME NEW K, NEW x, DOMAIN x = CallFields, x.at # "gone", NEW p \in BOOLEAN,
           calls' = K \o IF p THEN <<x>> ELSE <<>>
    PROVE  Adds(K)
  <1>1. Plain(IF p THEN <<x>> ELSE <<>>)
    BY PlainOne, PlainNone
  <1>2. QED
    BY <1>1 DEF Adds

LEMMA CallsKeep ==
    ASSUME SpinInv, GoneCalls(calls, srv), Keeps(srv, srv'),
           Adds(calls) \/ \E i \in DOMAIN calls : Adds(Without(i))
    PROVE  GoneCalls(calls', srv')
  <1>1. ASSUME NEW K, IsCalls(K), GoneCalls(K, srv), Adds(K) PROVE GoneCalls(calls', srv')
    <2>1. PICK L : Plain(L) /\ calls' = K \o L
      BY <1>1 DEF Adds
    <2>2. GoneCalls(K, srv') /\ GoneCalls(L, srv')
      BY <1>1, <2>1, GoneLater, PlainGone
    <2>3. QED
      BY <1>1, <2>1, <2>2, GoneJoined DEF Plain
  <1>2. CASE Adds(calls)
    BY <1>1, <1>2 DEF SpinInv
  <1>3. ASSUME NEW i \in DOMAIN calls, Adds(Without(i)) PROVE GoneCalls(calls', srv')
    <2>1. i \in 1..Len(calls) /\ IsCalls(calls) /\ IsCalls(Without(i))
      BY Remaining
    <2>2. GoneCalls(Without(i), srv)
      BY <2>1, GoneRemoved DEF Without
    <2>3. QED
      BY <1>1, <1>3, <2>1, <2>2
  <1>4. QED
    BY <1>2, <1>3

LEMMA HandlerKeeps ==
    ASSUME SpinInv, KeptInv, Bounded, WritesDown, UNCHANGED srv,
           Adds(calls) \/ \E i \in DOMAIN calls : Adds(Without(i))
    PROVE  KeptInv' /\ NothingLost
  <1>1. Keeps(srv, srv') /\ IsServer(srv')
    BY DEF Keeps, KeptInv
  <1>2. IsStore(db') /\ Keeps(db, db')
    BY WrittenKeeps DEF KeptInv
  <1>3. GoneCalls(calls', srv')
    BY <1>1, CallsKeep DEF KeptInv
  <1>4. NothingLost
    BY <1>2 DEF NothingLost, Keeps
  <1>5. QED
    BY <1>1, <1>2, <1>3, <1>4 DEF KeptInv, Bounded

\* The bounds.
LEMMA BoundsKept ==
    ASSUME KeptInv
    PROVE  /\ UNCHANGED left => Bounded
           /\ Click => Bounded /\ left'.clicks < left.clicks
           /\ \A v : /\ left' = [left EXCEPT !.edits = v] => Bounded
                     /\ left' = [left EXCEPT !.faults = v] => Bounded
                     /\ left' = [left EXCEPT !.others = v] => Bounded
           /\ \A v, w : left' = [left EXCEPT !.others = v, !.edits = w] => Bounded
  <1>1. "clicks" \in DOMAIN left /\ left.clicks \in Int
    BY DEF KeptInv
  <1>2. ASSUME NEW field, field # "clicks", NEW v
        PROVE  LET r == [left EXCEPT ![field] = v] IN
                 "clicks" \in DOMAIN r /\ r.clicks = left.clicks
    BY <1>1, <1>2
  <1>3. ASSUME Click PROVE Bounded /\ left'.clicks < left.clicks
    BY <1>1, <1>3 DEF Click, Bounded
  <1>4. ASSUME NEW v, NEW w, left' = [left EXCEPT !.others = v, !.edits = w] PROVE Bounded
    <2> DEFINE r == [left EXCEPT !.others = v]
    <2>1. left' = [r EXCEPT !.edits = w]
      BY <1>4
    <2>2. "clicks" \in DOMAIN r /\ r.clicks = left.clicks
      BY <1>1
    <2> HIDE DEF r
    <2>3. QED
      BY <1>1, <2>1, <2>2 DEF Bounded
  <1>5. QED
    BY <1>1, <1>2, <1>3, <1>4 DEF Bounded

\* What opens a list.
LEMMA AddsTwo ==
    ASSUME NEW K, NEW L, NEW M, IsCalls(K), Plain(L), Plain(M), calls' = K \o L \o M
    PROVE  Adds(K)
  <1>1. IsCalls(L) /\ IsCalls(M)
    BY DEF Plain
  <1>2. calls' = K \o (L \o M)
    BY <1>1, JoinedTwice
  <1>3. Plain(L \o M)
    BY PlainJoined
  <1>4. QED
    BY <1>2, <1>3 DEF Adds

LEMMA LoadDashboardAdds ==
    ASSUME NEW d, NEW store, NEW K, IsCalls(K), LoadDashboard(d, store, K) \/ LoadGames(d, store, K)
    PROVE  Adds(K)
  <1>1. ASSUME NEW e, LoadGames(e, store, K) PROVE Adds(K)
    <2> DEFINE x == Await("revisions", Remotely(e), GetLocalRevisions(store))
               loading == [e EXCEPT !.loading = TRUE]
               y == Fetch("games", <<>>, "games", [query |-> loading.query, offset |-> loading.offset])
               M == IF Remotely(e) THEN NextBatch(loading) ELSE <<>>
    <2>1. calls' = K \o <<x>> \o M
      BY <1>1 DEF LoadGames
    <2>2. Plain(<<x>>) /\ Plain(<<y>>)
      BY CallTyping, PlainOne
    <2>3. M = <<y>> \/ M = <<>>
      BY DEF NextBatch
    <2> HIDE DEF x, M
    <2>4. Plain(<<x>>) /\ Plain(M)
      BY <2>2, <2>3, PlainNone
    <2> DEFINE L == <<x>>
    <2> HIDE DEF L
    <2>5. QED
      BY <2>1, <2>4, AddsTwo DEF L
  <1>2. QED
    BY <1>1 DEF LoadDashboard

LEMMA LoadTeamsAdds ==
    ASSUME NEW c, NEW store, NEW K, IsCalls(K), LoadTeamsView(c, store, K) \/ LoadTeams(c, store, K)
    PROVE  Adds(K)
  <1>1. ASSUME NEW e, LoadTeams(e, store, K) PROVE Adds(K)
    <2> DEFINE signedIn == user # NoUser
               x == Await("localTeams", signedIn, GetAllTeams(store))
               loading == [e EXCEPT !.loading = TRUE]
               y == Fetch("teams", <<>>, "teams", [query |-> loading.query, offset |-> loading.offset])
               M == IF signedIn THEN NextTeams(loading) ELSE <<>>
    <2>1. calls' = K \o <<x>> \o M
      BY <1>1 DEF LoadTeams
    <2>2. DOMAIN x = CallFields /\ x.at = "localTeams"
      BY DEF Await, CallFields
    <2>3. Plain(<<y>>)
      BY CallTyping, PlainOne
    <2>4. M = <<y>> \/ M = <<>>
      BY DEF NextTeams
    <2> HIDE DEF x, M
    <2>5. Plain(<<x>>) /\ Plain(M)
      BY <2>2, <2>3, <2>4, PlainOne, PlainNone
    <2> DEFINE L == <<x>>
    <2> HIDE DEF L
    <2>6. QED
      BY <2>1, <2>5, AddsTwo DEF L
  <1>2. QED
    BY <1>1 DEF LoadTeamsView

\* A click may delete.
LEMMA ClickKeeps ==
    ASSUME SpinInv, KeptInv, Click, IsStore(db'), UNCHANGED srv,
           Adds(calls) \/ \E i \in DOMAIN calls : Adds(Without(i))
    PROVE  KeptInv' /\ NothingLost
  <1>1. Keeps(srv, srv') /\ IsServer(srv')
    BY DEF Keeps, KeptInv
  <1>2. GoneCalls(calls', srv')
    BY <1>1, CallsKeep DEF KeptInv
  <1>3. Bounded /\ left'.clicks < left.clicks
    BY BoundsKept
  <1>4. QED
    BY <1>1, <1>2, <1>3 DEF KeptInv, Bounded, NothingLost

LEMMA NextBatchAdds ==
    ASSUME NEW d, NEW K, IsCalls(K), calls' = K \o NextBatch(d) PROVE Adds(K)
  <1>1. NextBatch(d) = <<>> \/ \E body : NextBatch(d) = <<Fetch("games", <<>>, "games", body)>>
    BY DEF NextBatch
  <1>2. Plain(NextBatch(d))
    BY <1>1, CallTyping, PlainOne, PlainNone
  <1>3. QED
    BY <1>2 DEF Adds

LEMMA DashboardClicksKeep ==
    ASSUME SpinInv, KeptInv, DashboardClicks PROVE KeptInv' /\ NothingLost
  <1>0. IsCalls(calls)
    BY DEF SpinInv
  <1>1. CASE DeleteGameFromList
    <2>1. Click /\ UNCHANGED srv
      BY <1>1 DEF DeleteGameFromList
    <2>2. IsStore(db')
      BY <1>1, DeleteKeepsShape DEF DeleteGameFromList, KeptInv
    <2>3. \E g : calls' = Append(calls, Await("deleted", g, TRUE))
      BY <1>1 DEF DeleteGameFromList
    <2>4. Adds(calls)
      BY <1>0, <2>3, AddsAwait
    <2>5. QED
      BY <2>1, <2>2, <2>4, ClickKeeps
  <1>2. CASE RefreshDashboard \/ HandleScroll \/ SyncGame
    <2>1. UNCHANGED srv /\ WritesDown /\ Bounded
      BY <1>2, BoundsKept DEF RefreshDashboard, HandleScroll, SyncGame, Idle, WritesDown
    <2>2. ASSUME RefreshDashboard PROVE Adds(calls)
      BY <1>0, <2>2, LoadDashboardAdds DEF RefreshDashboard
    <2>3. ASSUME HandleScroll PROVE Adds(calls)
      <3>1. UNCHANGED calls \/ \E d : calls' = calls \o NextBatch(d)
        BY <2>3 DEF HandleScroll
      <3>2. QED
        BY <1>0, <3>1, AddsNone, NextBatchAdds
    <2>4. ASSUME SyncGame PROVE Adds(calls)
      <3>1. \E one, to, record :
              \/ calls' = Append(calls, Fetch("pulled", one, "pull", one))
              \/ calls' = Append(calls, Await("toPush", to, record))
        BY <2>4 DEF SyncGame
      <3>2. QED
        BY <1>0, <3>1, AddsFetch, AddsAwait
    <2>5. Adds(calls)
      BY <1>2, <2>2, <2>3, <2>4
    <2>6. QED
      BY <2>1, <2>5, HandlerKeeps
  <1>3. QED
    BY <1>1, <1>2 DEF DashboardClicks

LEMMA SearchClicksKeep ==
    ASSUME SpinInv, KeptInv, SearchClicks PROVE KeptInv' /\ NothingLost
  <1>0. IsCalls(calls)
    BY DEF SpinInv
  <1>1. UNCHANGED srv /\ WritesDown /\ Bounded
    BY BoundsKept DEF SearchClicks, SearchGames, ApplyAdvancedSearch, ClearAdvancedSearch, SearchFor,
                      ToggleAdvancedSearch, Idle, WritesDown
  <1>2. UNCHANGED calls \/ \E d : LoadDashboard(d, db, calls)
    BY DEF SearchClicks, SearchGames, ApplyAdvancedSearch, ClearAdvancedSearch, SearchFor,
           ToggleAdvancedSearch
  <1>3. Adds(calls)
    BY <1>0, <1>2, AddsNone, LoadDashboardAdds
  <1>4. QED
    BY <1>1, <1>3, HandlerKeeps

\* What is purged the server has had.
LEMMA GoneAnsweredKeeps ==
    ASSUME SpinInv, KeptInv, NEW i \in DOMAIN calls, GoneAnswered(i) PROVE KeptInv' /\ NothingLost
  <1> DEFINE gone == IF Replied(i) THEN calls[i].ans ELSE {}
             x == Await("purged", gone, gone)
  <1>0. i \in 1..Len(calls) /\ IsCalls(Without(i))
    BY Remaining
  <1>1. /\ calls[i].at = "gone" /\ calls[i].ans # Waiting /\ UNCHANGED <<srv, left>>
        /\ db' = [db EXCEPT !.games = [g \in Games |-> IF g \in gone THEN Absent ELSE db.games[g]]]
        /\ calls' = Without(i) \o IF gone = {} THEN <<>> ELSE <<x>>
    BY DEF GoneAnswered, GoesOn, KeptInv, IsStore
  <1>2. \A g \in Games : g \in gone => srv.games[g] # Absent
    BY <1>0, <1>1 DEF KeptInv, GoneCalls, Replied
  <1>3. Plain(IF gone = {} THEN <<>> ELSE <<x>>)
    BY CallTyping, PlainOne, PlainNone
  <1>4. Adds(Without(i))
    BY <1>1, <1>3 DEF Adds
  <1> HIDE DEF gone, x
  <1>5. Keeps(srv, srv') /\ IsServer(srv') /\ Bounded
    BY <1>1, BoundsKept DEF Keeps, KeptInv
  <1>6. GoneCalls(calls', srv')
    BY <1>4, <1>5, CallsKeep DEF KeptInv
  <1>7. IsStore(db') /\ NothingLost
    BY <1>1, <1>2 DEF KeptInv, IsStore, NothingLost
  <1>8. QED
    BY <1>5, <1>6, <1>7 DEF KeptInv, Bounded

LEMMA IdsReadKeeps ==
    ASSUME SpinInv, KeptInv, NEW i \in DOMAIN calls, IdsRead(i) PROVE KeptInv' /\ NothingLost
  <1> DEFINE x == Fetch("gone", <<>>, "goneGames", calls[i].ans)
             L == IF calls[i].ans = {} THEN <<>> ELSE <<x>>
  <1>0. i \in 1..Len(calls) /\ IsCalls(calls) /\ IsCalls(Without(i))
    BY Remaining
  <1>1. calls' = Without(i) \o L /\ UNCHANGED <<db, srv, left>>
    BY DEF IdsRead, Idle
  <1>2. DOMAIN x = CallFields /\ x.req = "goneGames" /\ x.ans = Waiting
    BY DEF Fetch, CallFields
  <1> HIDE DEF x
  <1>3. IsCalls(<<x>>) /\ GoneCalls(<<x>>, srv)
    <2> DEFINE M == <<x>>
    <2>1. Len(M) = 1 /\ M[1] = x
      OBVIOUS
    <2> HIDE DEF M
    <2>2. GoneCalls(M, srv)
      BY <1>2, <2>1 DEF GoneCalls
    <2>3. QED
      BY <1>2, <2>2, Single DEF M
  <1>4. IsCalls(L) /\ GoneCalls(L, srv)
    BY <1>3, PlainNone, PlainGone DEF Plain
  <1> HIDE DEF L
  <1>5. GoneCalls(Without(i), srv)
    BY <1>0, GoneRemoved DEF Without, KeptInv
  <1>6. GoneCalls(calls', srv')
    BY <1>0, <1>1, <1>4, <1>5, GoneJoined
  <1>7. QED
    BY <1>1, <1>6 DEF KeptInv, NothingLost

LEMMA DashboardGoesOnKeeps ==
    ASSUME SpinInv, KeptInv, NEW i \in DOMAIN calls, DashboardGoesOn(i) PROVE KeptInv' /\ NothingLost
  <1>0. IsCalls(Without(i))
    BY Remaining
  <1>1. CASE IdsRead(i)
    BY <1>1, IdsReadKeeps
  <1>2. CASE GoneAnswered(i)
    BY <1>2, GoneAnsweredKeeps
  <1>3. ASSUME UNCHANGED srv, WritesDown, UNCHANGED left, Adds(Without(i)) PROVE KeptInv' /\ NothingLost
    BY <1>3, BoundsKept, HandlerKeeps
  <1>4. CASE RevisionsRead(i)
    BY <1>0, <1>3, <1>4, AddsAwait DEF RevisionsRead, Idle, WritesDown
  <1>5. CASE LocalsRead(i)
    <2> DEFINE x == Await("ids", <<>>, LocalGames(db))
    <2>1. /\ calls' = Without(i) \o IF calls[i].with THEN <<x>> ELSE <<>>
          /\ UNCHANGED <<db, srv, left>>
      BY <1>5 DEF LocalsRead, Idle
    <2>2. Plain(IF calls[i].with THEN <<x>> ELSE <<>>)
      BY CallTyping, PlainOne, PlainNone
    <2>3. QED
      BY <1>3, <2>1, <2>2 DEF Adds, WritesDown
  <1>6. CASE GamesFetched(i) \/ Purged(i)
    BY <1>0, <1>3, <1>6, AddsNone DEF GamesFetched, Purged, Idle, WritesDown
  <1>7. CASE Refreshes(i) \/ Unlisted(i)
    BY <1>0, <1>3, <1>7, LoadDashboardAdds DEF Refreshes, Unlisted, Idle, WritesDown
  <1>8. CASE Pulled(i)
    BY <1>0, <1>3, <1>8, AddsNone, AddsAwait DEF Pulled, WritesDown
  <1>9. CASE ToPush(i)
    <2>1. \/ LoadDashboard(dash, db, Without(i))
          \/ \E with, req, body : calls' = Append(Without(i), Fetch("pushed", with, req, body))
      BY <1>9 DEF ToPush
    <2>2. Adds(Without(i))
      BY <1>0, <2>1, AddsFetch, LoadDashboardAdds
    <2>3. QED
      BY <1>3, <1>9, <2>2 DEF ToPush, Idle, WritesDown
  <1>10. CASE Pushed(i)
    <2> DEFINE x == Await("reload", <<>>, TRUE)
    <2>1. /\ calls' = Without(i) \o IF Replied(i) THEN <<x>> ELSE <<>>
          /\ UNCHANGED <<srv, left>> /\ WritesDown
      BY <1>10 DEF Pushed, WritesDown
    <2>2. DOMAIN x = CallFields /\ x.at = "reload"
      BY DEF Await, CallFields
    <2> HIDE DEF x
    <2>3. Plain(<<x>>) /\ Plain(<<>>)
      BY <2>2, PlainOne, PlainNone
    <2>4. QED
      BY <1>3, <2>1, <2>3 DEF Adds
  <1>11. CASE GameDeleted(i)
    <2>1. \/ LoadDashboard(dash, db, Without(i))
          \/ \E with, req, body : calls' = Append(Without(i), Fetch("unlisted", with, req, body))
      BY <1>11 DEF GameDeleted
    <2>2. Adds(Without(i))
      BY <1>0, <2>1, AddsFetch, LoadDashboardAdds
    <2>3. QED
      BY <1>3, <1>11, <2>2 DEF GameDeleted, Idle, WritesDown
  <1>12. QED
    BY <1>1, <1>2, <1>4, <1>5, <1>6, <1>7, <1>8, <1>9, <1>10, <1>11 DEF DashboardGoesOn

-----------------------------------------------------------------------------
(* The game screen.                                                        *)

LEMMA TurnAwayAdds ==
    ASSUME SpinInv, NEW i \in DOMAIN calls, TurnAway(i) PROVE Adds(Without(i))
  <1> DEFINE x == Await("route", <<>>, TRUE)
             K == Append(Without(i), x)
  <1>0. IsCalls(Without(i))
    BY Remaining
  <1>1. LoadDashboard(dash, db, K)
    BY DEF TurnAway
  <1>2. DOMAIN x = CallFields /\ x.at = "route"
    BY DEF Await, CallFields
  <1> HIDE DEF x
  <1>3. K = Without(i) \o <<x>> /\ Plain(<<x>>)
    BY <1>0, <1>2, Appended, PlainOne
  <1> HIDE DEF K
  <1>4. IsCalls(K)
    BY <1>0, <1>3, Joined DEF Plain
  <1>5. PICK L : Plain(L) /\ calls' = K \o L
    BY <1>1, <1>4, LoadDashboardAdds DEF Adds
  <1> DEFINE M == <<x>>
  <1>6. IsCalls(M) /\ IsCalls(L) /\ Plain(M) /\ calls' = (Without(i) \o M) \o L
    BY <1>3, <1>5 DEF Plain
  <1> HIDE DEF M
  <1>7. calls' = Without(i) \o (M \o L) /\ Plain(M \o L)
    BY <1>0, <1>5, <1>6, JoinedTwice, PlainJoined
  <1>8. QED
    BY <1>7 DEF Adds

LEMMA ShowGameKeeps ==
    ASSUME SpinInv, KeptInv, NEW i \in DOMAIN calls, NEW record, NEW g, ShowGame(i, record, g),
           UNCHANGED <<srv, left>>
    PROVE  KeptInv' /\ NothingLost
  <1>0. IsCalls(Without(i))
    BY Remaining
  <1>1. WritesDown
    BY DEF ShowGame, WritesDown
  <1>2. \E with, ans : \/ calls' = Append(Without(i), Await("stored", with, ans))
                       \/ calls' = Append(Without(i), Await("permitted", with, ans))
    BY DEF ShowGame
  <1>3. Adds(Without(i))
    BY <1>0, <1>2, AddsAwait
  <1>4. QED
    BY <1>1, <1>3, BoundsKept, HandlerKeeps

LEMMA GameClicksKeep ==
    ASSUME SpinInv, KeptInv, GameClicks PROVE KeptInv' /\ NothingLost
  <1>0. IsCalls(calls)
    BY DEF SpinInv
  <1>1. ASSUME NEW g, OpenGame(g) \/ CreateGame(g) PROVE KeptInv' /\ NothingLost
    <2>1. UNCHANGED srv /\ WritesDown /\ Bounded
      BY <1>1, BoundsKept DEF OpenGame, CreateGame, WritesDown
    <2>2. \E at \in {"opened", "create"} : \E with, ans : calls' = Append(calls, Await(at, with, ans))
      BY <1>1 DEF OpenGame, CreateGame
    <2>3. Adds(calls)
      BY <1>0, <2>2, AddsAwait
    <2>4. QED
      BY <2>1, <2>3, HandlerKeeps
  <1>2. CASE LeaveGame
    <2>1. UNCHANGED srv /\ WritesDown /\ Bounded
      BY <1>2, BoundsKept DEF LeaveGame, WritesDown
    <2>2. Adds(calls)
      BY <1>0, <1>2, LoadDashboardAdds DEF LeaveGame
    <2>3. QED
      BY <2>1, <2>2, HandlerKeeps
  <1>3. CASE Score
    <2>1. UNCHANGED <<srv, calls>> /\ WritesDown
      BY <1>3 DEF Score, Dispatched, RunJob, WritesDown
    <2>2. Bounded
      BY <1>3, BoundsKept DEF Score, Dispatched
    <2>3. QED
      BY <1>0, <2>1, <2>2, AddsNone, HandlerKeeps
  <1>4. QED
    BY <1>1, <1>2, <1>3 DEF GameClicks

LEMMA GameMovesKeep ==
    ASSUME SpinInv, KeptInv, GameMoves PROVE KeptInv' /\ NothingLost
  <1>0. IsCalls(calls)
    BY DEF SpinInv
  <1>1. ASSUME GameWritten \/ StatsWritten \/ Acknowledged PROVE UNCHANGED <<srv, left>> /\ WritesDown
    <2>1. ASSUME GameWritten PROVE UNCHANGED <<srv, left>> /\ WritesDown
      BY <2>1 DEF GameWritten, WritesDown
    <2>2. ASSUME StatsWritten PROVE UNCHANGED <<srv, left>> /\ WritesDown
      BY <2>2 DEF StatsWritten, RunJob, WritesDown
    <2>3. ASSUME Acknowledged PROVE UNCHANGED <<srv, left>> /\ WritesDown
      BY <2>3 DEF Acknowledged, WritesDown
    <2>4. QED
      BY <1>1, <2>1, <2>2, <2>3
  <1>2. ASSUME GameWritten \/ StatsWritten \/ Acknowledged PROVE Adds(calls)
    <2>1. UNCHANGED calls \/ \E with, ans : calls' = Append(calls, Await("opened", with, ans))
      BY <1>2 DEF GameWritten, StatsWritten, Acknowledged
    <2>2. QED
      BY <1>0, <2>1, AddsNone, AddsAwait
  <1>3. CASE ServerTakes
    <2> DEFINE g == board.socket
               copy == IF Kept(srv.games[g]) THEN srv.games[g]
                       ELSE [log |-> <<>>, owner |-> Me, share |-> "none", gone |-> FALSE]
               r == [copy EXCEPT !.log = Append(@, Head(board.wire))]
    <2>1. UNCHANGED <<db, calls, left>> /\ srv' = [srv EXCEPT !.games[g] = r]
      BY <1>3 DEF ServerTakes
    <2>2. g \in Games => DOMAIN copy = CopyFields
      BY DEF Kept, KeptInv, IsServer, CopyFields
    <2> HIDE DEF copy
    <2>3. g \in Games => DOMAIN r = CopyFields
      BY <2>2
    <2> HIDE DEF r
    <2>4. IsServer(srv') /\ Keeps(srv, srv')
      BY <2>1, <2>3, OneCopy DEF KeptInv
    <2>5. GoneCalls(calls', srv')
      BY <2>1, <2>4, GoneLater DEF KeptInv
    <2>6. QED
      BY <2>1, <2>4, <2>5 DEF KeptInv, NothingLost
  <1>4. CASE GameWritten \/ StatsWritten \/ Acknowledged
    BY <1>1, <1>2, <1>4, BoundsKept, HandlerKeeps
  <1>5. QED
    BY <1>3, <1>4 DEF GameMoves

LEMMA GameGoesOnKeeps ==
    ASSUME SpinInv, KeptInv, NEW i \in DOMAIN calls, GameGoesOn(i) PROVE KeptInv' /\ NothingLost
  <1>0. IsCalls(Without(i))
    BY Remaining
  <1>1. ASSUME UNCHANGED srv, WritesDown, UNCHANGED left, Adds(Without(i)) PROVE KeptInv' /\ NothingLost
    BY <1>1, BoundsKept, HandlerKeeps
  <1>2. CASE Routed(i)
    BY <1>0, <1>1, <1>2, LoadDashboardAdds DEF Routed, Idle, WritesDown
  <1>3. CASE Opened(i)
    <2>1. \/ ShowGame(i, calls[i].ans, calls[i].with)
          \/ /\ UNCHANGED db
             /\ \E with, req, body : calls' = Append(Without(i), Fetch("downloaded", with, req, body))
      BY <1>3 DEF Opened
    <2>2. UNCHANGED <<srv, left>>
      BY <1>3 DEF Opened
    <2>3. QED
      BY <1>0, <1>1, <2>1, <2>2, ShowGameKeeps, AddsFetch DEF WritesDown
  <1>4. CASE Downloaded(i)
    <2>1. TurnAway(i) \/ \E with, ans : calls' = Append(Without(i), Await("stored", with, ans))
      BY <1>4 DEF Downloaded
    <2>2. Adds(Without(i))
      BY <1>0, <2>1, AddsAwait, TurnAwayAdds
    <2>3. QED
      BY <1>1, <1>4, <2>2 DEF Downloaded, WritesDown
  <1>5. CASE Stored(i)
    BY <1>5, ShowGameKeeps DEF Stored
  <1>6. CASE CheckPermissions(i)
    BY <1>0, <1>1, <1>6, AddsAwait DEF CheckPermissions, Idle, WritesDown
  <1>7. CASE CheckAccess(i)
    <2>1. TurnAway(i) \/ calls' = Without(i)
      BY <1>7 DEF CheckAccess
    <2>2. Adds(Without(i))
      BY <1>0, <2>1, AddsNone, TurnAwayAdds
    <2>3. QED
      BY <1>1, <1>7, <2>2 DEF CheckAccess, Idle, WritesDown
  <1>8. CASE GameCreated(i)
    <2>1. UNCHANGED srv /\ WritesDown /\ calls' = Without(i)
      BY <1>8 DEF GameCreated, Dispatched, RunJob, WritesDown
    <2>2. Bounded
      BY <1>8, BoundsKept DEF GameCreated, Dispatched
    <2>3. QED
      BY <1>0, <2>1, <2>2, AddsNone, HandlerKeeps
  <1>9. QED
    BY <1>2, <1>3, <1>4, <1>5, <1>6, <1>7, <1>8 DEF GameGoesOn

-----------------------------------------------------------------------------
(* The teams.                                                              *)

LEMMA NextTeamsAdds ==
    ASSUME NEW c, NEW K, IsCalls(K), calls' = K \o NextTeams(c) PROVE Adds(K)
  <1>1. NextTeams(c) = <<>> \/ \E body : NextTeams(c) = <<Fetch("teams", <<>>, "teams", body)>>
    BY DEF NextTeams
  <1>2. Plain(NextTeams(c))
    BY <1>1, CallTyping, PlainOne, PlainNone
  <1>3. QED
    BY <1>2 DEF Adds

\* What the clicks write and start.
LEMMA TeamClicksWrite ==
    ASSUME KeptInv, TeamClicks \/ TeamSearchClicks PROVE UNCHANGED srv /\ WritesDown /\ Bounded
  <1>1. ASSUME DeleteTeamShown PROVE UNCHANGED srv /\ WritesDown /\ Bounded
    <2>1. db' = [db EXCEPT !.teams = [db.teams EXCEPT ![club.shown.id] = Absent]]
      BY <1>1 DEF DeleteTeamShown, DeleteTeam, KeptInv, IsStore
    <2>2. UNCHANGED srv /\ Click
      BY <1>1 DEF DeleteTeamShown, StoreOnly
    <2>3. QED
      BY <2>1, <2>2, BoundsKept DEF WritesDown
  <1>2. ASSUME SaveTeamDialog PROVE UNCHANGED srv /\ WritesDown /\ Bounded
    <2>1. /\ UNCHANGED srv /\ left' = [left EXCEPT !.edits = left.edits - 1]
          /\ db' = SaveTeam(db, club.dialog, [ver |-> Edit, owner |-> SavedOwner], TRUE)
      BY <1>2 DEF SaveTeamDialog
    <2>2. IsStore(db)
      BY DEF KeptInv
    <2> DEFINE record == [ver |-> Edit, owner |-> SavedOwner]
    <2>3. db' = SaveTeam(db, club.dialog, record, TRUE)
      BY <2>1
    <2> HIDE DEF record
    <2>4. WritesDown
      BY <2>2, <2>3, SaveTeamWrites
    <2>5. QED
      BY <2>1, <2>4, BoundsKept
  <1>3. ASSUME NEW t, ShowTeam(t) \/ NewTeam(t) PROVE UNCHANGED srv /\ WritesDown /\ Bounded
    BY <1>3, BoundsKept DEF ShowTeam, NewTeam, StoreOnly, WritesDown
  <1>4. ASSUME ShowTeams \/ RefreshTeams \/ SyncTeam \/ EditTeam \/ AddTeamMember \/ RemoveTeamMember
        PROVE  UNCHANGED srv /\ WritesDown /\ Bounded
    BY <1>4, BoundsKept DEF ShowTeams, RefreshTeams, SyncTeam, EditTeam, AddTeamMember, RemoveTeamMember,
                            StoreOnly, WritesDown
  <1>5. ASSUME ScrollTeams \/ CloseTeamDialog \/ ToggleTeamsSearch \/ SearchTeams
        PROVE  UNCHANGED srv /\ WritesDown /\ Bounded
    BY <1>5, BoundsKept DEF ScrollTeams, CloseTeamDialog, ToggleTeamsSearch, SearchTeams, SearchTeamsFor,
                            Idle, StoreOnly, WritesDown
  <1>6. QED
    BY <1>1, <1>2, <1>3, <1>4, <1>5 DEF TeamClicks, TeamSearchClicks

LEMMA TeamClicksAdd ==
    ASSUME SpinInv, TeamClicks \/ TeamSearchClicks PROVE Adds(calls)
  <1>0. IsCalls(calls)
    BY DEF SpinInv
  <1>1. ASSUME ShowTeams \/ RefreshTeams \/ SearchTeams PROVE Adds(calls)
    <2>1. \E c, store : LoadTeamsView(c, store, calls) \/ LoadTeams(c, store, calls)
      BY <1>1 DEF ShowTeams, RefreshTeams, SearchTeams, SearchTeamsFor
    <2>2. QED
      BY <1>0, <2>1, LoadTeamsAdds
  <1>2. ASSUME ScrollTeams PROVE Adds(calls)
    <2>1. UNCHANGED calls \/ \E c : calls' = calls \o NextTeams(c)
      BY <1>2 DEF ScrollTeams
    <2>2. QED
      BY <1>0, <2>1, AddsNone, NextTeamsAdds
  <1>3. ASSUME SyncTeam PROVE Adds(calls)
    <2>1. \E with, body : calls' = Append(calls, Fetch("teamSent", with, "pushTeam", body))
      BY <1>3 DEF SyncTeam, Upload
    <2>2. QED
      BY <1>0, <2>1, AddsFetch
  <1>4. ASSUME EditTeam \/ AddTeamMember \/ RemoveTeamMember \/ CloseTeamDialog \/ ToggleTeamsSearch
               \/ \E t \in Teams : NewTeam(t)
        PROVE  Adds(calls)
    <2>1. UNCHANGED calls
      BY <1>4 DEF EditTeam, AddTeamMember, RemoveTeamMember, CloseTeamDialog, ToggleTeamsSearch, NewTeam
    <2>2. QED
      BY <1>0, <2>1, AddsNone
  <1>5. ASSUME NEW t, ShowTeam(t) PROVE Adds(calls)
    <2>1. UNCHANGED calls \/ \E with, ans : calls' = Append(calls, Await("teamRead", with, ans))
      BY <1>5 DEF ShowTeam
    <2>2. QED
      BY <1>0, <2>1, AddsNone, AddsAwait
  <1>6. ASSUME DeleteTeamShown \/ SaveTeamDialog PROVE Adds(calls)
    <2>1. \/ \E with : calls' = Append(calls, Await("teamDeleted", with, TRUE))
          \/ \E with, ans : calls' = Append(calls, Await("teamSaved", with, ans))
      BY <1>6 DEF DeleteTeamShown, SaveTeamDialog
    <2>2. QED
      BY <1>0, <2>1, AddsAwait
  <1>7. QED
    BY <1>1, <1>2, <1>3, <1>4, <1>5, <1>6 DEF TeamClicks, TeamSearchClicks

\* The uploads of the rows that are sent by themselves.
LEMMA UploadsPlain ==
    ASSUME NEW n \in Nat, NEW U, DOMAIN U = 1..n, U = [k \in 1..n |-> U[k]],
           \A k \in 1..n : DOMAIN U[k] = CallFields /\ U[k].at # "gone"
    PROVE  Plain(U)
  <1>1. U \in Seq(ToSet(U)) /\ Len(U) = n
    BY IsSeq
  <1>2. QED
    BY <1>1 DEF Plain, IsCalls

LEMMA LocalTeamsReadAdds ==
    ASSUME SpinInv, NEW i \in DOMAIN calls, LocalTeamsRead(i) PROVE Adds(Without(i))
  <1> DEFINE parsed == ParseQuery(club.query)
             found == IF Flagged(parsed, "remote") THEN {}
                      ELSE {t \in calls[i].ans : /\ MayReadTeam(t)
                                                 /\ MatchesTeam(TeamFacts[t.id], parsed)}
             e == [club EXCEPT !.local = found, !.loading = FALSE]
             read == RenderTeams(e, offline)
             sends == ToSend(read)
             U == [k \in DOMAIN sends |-> Upload(read, sends[k].id)]
             x == Await("teamIds", <<>>, LocalTeams(db))
             T == IF calls[i].with THEN <<x>> ELSE <<>>
  <1>1. calls' = Without(i) \o U \o T
    BY DEF LocalTeamsRead
  <1>2. DOMAIN x = CallFields /\ x.at = "teamIds"
    BY DEF Await, CallFields
  <1>3. ClubFields(e)
    BY ClubShape DEF ClubFields, NoTeams
  <1> HIDE DEF e, x
  <1>4. read.teams \in Seq(ToSet(read.teams))
    BY <1>3, TeamRows DEF ClubFields
  <1> HIDE DEF read
  <1>5. Len(sends) \in Nat /\ DOMAIN sends = 1..Len(sends)
    BY <1>4 DEF ToSend
  <1> HIDE DEF sends
  <1>6. \A k \in 1..Len(sends) : DOMAIN U[k] = CallFields /\ U[k].at = "teamSent"
    BY <1>5, CallTyping DEF Upload
  <1>7. DOMAIN U = 1..Len(sends) /\ U = [k \in 1..Len(sends) |-> U[k]]
    BY <1>5
  <1> HIDE DEF U
  <1>8. Plain(U)
    BY <1>5, <1>6, <1>7, UploadsPlain
  <1>9. Plain(T)
    BY <1>2, PlainOne, PlainNone
  <1> HIDE DEF T
  <1>10. IsCalls(Without(i))
    BY Remaining
  <1>11. QED
    BY <1>1, <1>8, <1>9, <1>10, AddsTwo

LEMMA TeamsGoOnKeeps ==
    ASSUME SpinInv, KeptInv, NEW i \in DOMAIN calls, TeamsGoOn(i) PROVE KeptInv' /\ NothingLost
  <1>0. IsCalls(Without(i))
    BY Remaining
  <1>1. ASSUME UNCHANGED srv, WritesDown, UNCHANGED left, Adds(Without(i)) PROVE KeptInv' /\ NothingLost
    BY <1>1, BoundsKept, HandlerKeeps
  <1>2. CASE LocalTeamsRead(i)
    <2>1. UNCHANGED <<srv, left>> /\ WritesDown
      BY <1>2 DEF LocalTeamsRead, Idle, WritesDown
    <2>2. QED
      BY <1>1, <1>2, <2>1, LocalTeamsReadAdds
  <1>3. CASE TeamsFetched(i) \/ TeamsPurged(i) \/ TeamClean(i)
    BY <1>0, <1>1, <1>3, AddsNone DEF TeamsFetched, TeamsPurged, TeamClean, Idle, WritesDown
  <1>4. CASE TeamIdsRead(i)
    <2> DEFINE x == Fetch("teamsGone", <<>>, "goneTeams", calls[i].ans)
    <2>1. /\ calls' = Without(i) \o IF calls[i].ans = {} THEN <<>> ELSE <<x>>
          /\ UNCHANGED <<srv, left>> /\ WritesDown
      BY <1>4 DEF TeamIdsRead, Idle, WritesDown
    <2>2. Plain(IF calls[i].ans = {} THEN <<>> ELSE <<x>>)
      BY CallTyping, PlainOne, PlainNone
    <2>3. QED
      BY <1>1, <2>1, <2>2 DEF Adds
  <1>5. CASE TeamsGone(i)
    <2> DEFINE gone == IF Replied(i) THEN calls[i].ans ELSE {}
               x == Await("teamsPurged", gone, gone)
               v == [t \in Teams |-> IF t \in gone THEN Absent ELSE db.teams[t]]
    <2>1. /\ calls' = Without(i) \o IF gone = {} THEN <<>> ELSE <<x>>
          /\ UNCHANGED <<srv, left>>
      BY <1>5 DEF TeamsGone, StoreOnly
    <2>2. db' = [db EXCEPT !.teams = v]
      BY <1>5 DEF TeamsGone, KeptInv, IsStore
    <2>3. Plain(IF gone = {} THEN <<>> ELSE <<x>>)
      BY CallTyping, PlainOne, PlainNone
    <2> HIDE DEF gone, x, v
    <2>4. WritesDown
      BY <2>2 DEF WritesDown
    <2>5. QED
      BY <1>1, <2>1, <2>3, <2>4 DEF Adds
  <1>6. CASE TeamSent(i)
    <2> DEFINE x == Await("teamClean", calls[i].with, TRUE)
    <2>1. /\ calls' = Without(i) \o IF calls[i].ans = "ok" THEN <<x>> ELSE <<>>
          /\ UNCHANGED <<srv, left>>
      BY <1>6 DEF TeamSent, StoreOnly
    <2>2. WritesDown
      BY <1>6 DEF TeamSent, WritesDown
    <2>3. DOMAIN x = CallFields /\ x.at = "teamClean"
      BY DEF Await, CallFields
    <2> HIDE DEF x
    <2>4. Adds(Without(i))
      BY <2>1, <2>3, AddsMaybe
    <2>5. QED
      BY <1>1, <2>1, <2>2, <2>4
  <1>7. CASE TeamRead(i) \/ TeamLoaded(i) \/ TeamDeleted(i) \/ TeamUnlisted(i) \/ TeamSaved(i)
    <2>1. UNCHANGED <<srv, left>> /\ WritesDown
      BY <1>7 DEF TeamRead, TeamLoaded, TeamDeleted, TeamUnlisted, TeamSaved, Idle, WritesDown
    <2>2. \/ calls' = Without(i)
          \/ \E c : LoadTeamsView(c, db, Without(i))
          \/ \E with, req, body : \/ calls' = Append(Without(i), Fetch("teamLoaded", with, req, body))
                                  \/ calls' = Append(Without(i), Fetch("teamUnlisted", with, req, body))
                                  \/ calls' = Append(Without(i), Fetch("teamPushed", with, req, body))
      <3>1. ASSUME TeamRead(i)
            PROVE  \/ calls' = Without(i)
                   \/ \E c : LoadTeamsView(c, db, Without(i))
                   \/ \E with, req, body : calls' = Append(Without(i), Fetch("teamLoaded", with, req, body))
        BY <3>1 DEF TeamRead
      <3>2. ASSUME TeamLoaded(i)
            PROVE  calls' = Without(i) \/ \E c : LoadTeamsView(c, db, Without(i))
        BY <3>2 DEF TeamLoaded
      <3>3. ASSUME TeamDeleted(i) \/ TeamUnlisted(i)
            PROVE  \/ \E c : LoadTeamsView(c, db, Without(i))
                   \/ \E with, req, body : calls' = Append(Without(i), Fetch("teamUnlisted", with, req, body))
        BY <3>3 DEF TeamDeleted, TeamUnlisted
      <3>4. ASSUME TeamSaved(i)
            PROVE  \/ \E c : LoadTeamsView(c, db, Without(i))
                   \/ \E with, req, body : calls' = Append(Without(i), Fetch("teamPushed", with, req, body))
        BY <3>4 DEF TeamSaved
      <3>5. QED
        BY <1>7, <3>1, <3>2, <3>3, <3>4
    <2>3. Adds(Without(i))
      BY <1>0, <2>2, AddsNone, AddsFetch, LoadTeamsAdds
    <2>4. QED
      BY <1>1, <2>1, <2>3
  <1>8. CASE TeamPushed(i)
    <2>1. UNCHANGED <<srv, left>> /\ WritesDown
      BY <1>8 DEF TeamPushed, StoreOnly, WritesDown
    <2>2. \E c, store : LoadTeamsView(c, store, Without(i))
      BY <1>8 DEF TeamPushed
    <2>3. QED
      BY <1>0, <1>1, <2>1, <2>2, LoadTeamsAdds
  <1>9. QED
    BY <1>2, <1>3, <1>4, <1>5, <1>6, <1>7, <1>8 DEF TeamsGoOn

-----------------------------------------------------------------------------
(* The page's life.                                                        *)

\* Whatever becomes of the requests in the air.
LEMMA LoadKeeps ==
    ASSUME KeptInv, NEW known, Load(known, db, srv), Bounded PROVE KeptInv' /\ NothingLost
  <1> DEFINE x == Fetch("known", <<>>, "whoami", <<>>)
  <1>1. calls' = <<x>> /\ db' = db
    BY DEF Load
  <1>2. srv' = srv \/ \E c : srv' = Effect(c)
    BY DEF Load
  <1>3. IsServer(srv')
    BY <1>2, EffectKeeps DEF KeptInv
  <1>4. Plain(<<x>>)
    BY CallTyping, PlainOne
  <1>5. GoneCalls(calls', srv')
    BY <1>1, <1>4, PlainGone
  <1>6. QED
    BY <1>1, <1>3, <1>5 DEF KeptInv, Bounded, NothingLost

LEMMA LandAdds == ASSUME NEW K, IsCalls(K), Land(K) PROVE Adds(K)
  <1>1. \/ calls' = K
        \/ LoadDashboard(dash, db, K) \/ LoadTeamsView(club, db, K)
        \/ \E with, ans : \/ calls' = Append(K, Await("demo", with, ans))
                         \/ calls' = Append(K, Await("teamRead", with, ans))
                         \/ calls' = Append(K, Await("opened", with, ans))
    BY DEF Land
  <1>2. QED
    BY <1>1, AddsNone, AddsAwait, LoadDashboardAdds, LoadTeamsAdds

LEMMA ReconcileAdds == ASSUME NEW K, IsCalls(K), Reconcile(K) PROVE Adds(K)
  <1>1. Land(K) \/ \E ans : calls' = Append(K, Await("adopt", <<>>, ans))
    BY DEF Reconcile, Adopt
  <1>2. QED
    BY <1>1, AddsAwait, LandAdds

LEMMA SessionClicksKeep ==
    ASSUME SpinInv, KeptInv, SessionClicks PROVE KeptInv' /\ NothingLost
  <1>0. IsCalls(calls)
    BY DEF SpinInv
  <1>1. CASE Reload \/ Login
    BY <1>1, LoadKeeps, BoundsKept DEF Reload, Login
  <1>2. CASE DeleteAllLocalData
    <2> DEFINE x == Await("wiped", <<>>, TRUE)
    <2>1. Click /\ UNCHANGED srv /\ db' = DeleteDatabase(db) /\ calls' = Append(calls, x)
      BY <1>2 DEF DeleteAllLocalData
    <2>2. DOMAIN x = CallFields /\ x.at = "wiped"
      BY DEF Await, CallFields
    <2> HIDE DEF x
    <2>3. Adds(calls)
      BY <1>0, <2>1, <2>2, AddsOne
    <2>4. IsStore(db')
      BY <2>1, DeleteKeepsShape DEF KeptInv
    <2>5. QED
      BY <2>1, <2>3, <2>4, ClickKeeps
  <1>3. CASE DismissDenied \/ Logout \/ DeleteAllRemoteData \/ ShowProfile
    <2>1. UNCHANGED srv /\ WritesDown /\ Bounded
      BY <1>3, BoundsKept DEF DismissDenied, Logout, DeleteAllRemoteData, ShowProfile, Idle, WritesDown
    <2>2. \/ UNCHANGED calls
          \/ \E with, req, body : \/ calls' = Append(calls, Fetch("signedOut", with, req, body))
                                  \/ calls' = Append(calls, Fetch("allDeleted", with, req, body))
      BY <1>3 DEF DismissDenied, Logout, DeleteAllRemoteData, ShowProfile
    <2>3. Adds(calls)
      BY <1>0, <2>2, AddsNone, AddsFetch
    <2>4. QED
      BY <2>1, <2>3, HandlerKeeps
  <1>4. QED
    BY <1>1, <1>2, <1>3 DEF SessionClicks

LEMMA SessionGoesOnKeeps ==
    ASSUME SpinInv, KeptInv, NEW i \in DOMAIN calls, SessionGoesOn(i) PROVE KeptInv' /\ NothingLost
  <1>0. IsCalls(Without(i))
    BY Remaining
  <1>1. ASSUME UNCHANGED srv, WritesDown, UNCHANGED left, Adds(Without(i)) PROVE KeptInv' /\ NothingLost
    BY <1>1, BoundsKept, HandlerKeeps
  <1>2. CASE Known(i)
    <2>1. UNCHANGED <<srv, left>> /\ WritesDown
      BY <1>2 DEF Known, WritesDown
    <2>2. \/ Reconcile(Without(i))
          \/ \E with, req, body : calls' = Append(Without(i), Fetch("allowed", with, req, body))
      BY <1>2 DEF Known
    <2>3. QED
      BY <1>0, <1>1, <2>1, <2>2, AddsFetch, ReconcileAdds
  <1>3. CASE Allowed(i)
    <2>1. UNCHANGED <<srv, left>> /\ WritesDown
      BY <1>3 DEF Allowed, Idle, WritesDown
    <2>2. calls' = Without(i) \/ Reconcile(Without(i))
      BY <1>3 DEF Allowed
    <2>3. QED
      BY <1>0, <1>1, <2>1, <2>2, AddsNone, ReconcileAdds
  <1>4. CASE AdoptGame(i)
    <2>1. UNCHANGED <<srv, left>> /\ WritesDown
      BY <1>4 DEF AdoptGame, WritesDown
    <2>2. \E with, ans : \/ calls' = Append(Without(i), Await("adoptTeams", with, ans))
                        \/ calls' = Append(Without(i), Await("adopt", with, ans))
      BY <1>4 DEF AdoptGame
    <2>3. QED
      BY <1>0, <1>1, <2>1, <2>2, AddsAwait
  <1>5. CASE AdoptTeam(i)
    <2> DEFINE teams == calls[i].with
               team == calls[i].ans[Head(teams)]
               record == [team EXCEPT !.owner = user]
    <2>1. UNCHANGED <<srv, left>> /\ (db' = db \/ db' = SaveTeam(db, Head(teams), record, TRUE))
      BY <1>5 DEF AdoptTeam
    <2>2. Land(Without(i)) \/ \E with, ans : calls' = Append(Without(i), Await("adopted", with, ans))
      BY <1>5 DEF AdoptTeam
    <2> HIDE DEF record, teams
    <2>3. WritesDown
      BY <2>1, SaveTeamWrites DEF WritesDown, KeptInv
    <2>4. Adds(Without(i))
      BY <1>0, <2>2, AddsAwait, LandAdds
    <2>5. QED
      BY <1>1, <2>1, <2>3, <2>4
  <1>6. CASE TeamAdopted(i) \/ TeamOffered(i) \/ DemoRead(i)
    <2>1. UNCHANGED <<srv, left>> /\ WritesDown
      BY <1>6 DEF TeamAdopted, TeamOffered, DemoRead, Idle, WritesDown
    <2>2. ASSUME TeamAdopted(i) \/ TeamOffered(i) PROVE Adds(Without(i))
      <3>1. \/ \E with, req, body : calls' = Append(Without(i), Fetch("offered", with, req, body))
            \/ \E with, ans : calls' = Append(Without(i), Await("adoptTeams", with, ans))
        BY <2>2 DEF TeamAdopted, TeamOffered
      <3>2. QED
        BY <1>0, <3>1, AddsFetch, AddsAwait
    <2>3. ASSUME DemoRead(i) PROVE Adds(Without(i))
      <3>1. \/ calls' = Append(Without(i), Fetch("demoFetched", Demo, "asset", <<>>))
            \/ calls' = Append(Without(i), Await("opened", Demo, db.games[Demo]))
        BY <2>3 DEF DemoRead
      <3>2. QED
        BY <1>0, <3>1, AddsFetch, AddsAwait
    <2>4. QED
      BY <1>1, <1>6, <2>1, <2>2, <2>3
  <1>7. CASE DemoFetched(i)
    <2> DEFINE seed == [log |-> <<MaxEdits + 1>>, owner |-> LocalId, start |-> LocalId]
               store == IF Replied(i) THEN SaveGame(db, Demo, seed, TRUE) ELSE db
    <2>1. /\ UNCHANGED <<srv, left>> /\ db' = store
          /\ calls' = Append(Without(i), Await("opened", Demo, store.games[Demo]))
      BY <1>7 DEF DemoFetched
    <2>2. WritesDown
      BY <2>1 DEF WritesDown
    <2> HIDE DEF store
    <2>3. QED
      BY <1>0, <1>1, <2>1, <2>2, AddsAwait
  <1>8. CASE SignedOut(i) \/ Wiped(i)
    BY <1>8, LoadKeeps, BoundsKept DEF SignedOut, Wiped
  <1>9. CASE AllDeleted(i)
    <2>1. UNCHANGED <<srv, left>> /\ WritesDown
      BY <1>9 DEF AllDeleted, Idle, WritesDown
    <2>2. calls' = Without(i) \/ calls' = Append(Without(i), Fetch("signedOut", <<>>, "logout", <<>>))
      BY <1>9 DEF AllDeleted
    <2>3. QED
      BY <1>0, <1>1, <2>1, <2>2, AddsNone, AddsFetch
  <1>10. QED
    BY <1>2, <1>3, <1>4, <1>5, <1>6, <1>7, <1>8, <1>9 DEF SessionGoesOn

-----------------------------------------------------------------------------
(* Backups and restores.                                                   *)

LEMMA BackupAdds ==
    ASSUME NEW K, IsCalls(K), NEW job,
           calls' = Append(K, Gather(job)) \/ calls' = Append(K, NextGame(job))
    PROVE  Adds(K)
  <1>1. Gather(job).at # "gone" /\ NextGame(job).at # "gone"
    BY DEF Gather, NextGame, Await
  <1>2. QED
    BY <1>1, BackupCalls, AddsOne

LEMMA BackupClicksKeep ==
    ASSUME SpinInv, KeptInv, BackupClicks PROVE KeptInv' /\ NothingLost
  <1>0. IsCalls(calls)
    BY DEF SpinInv
  <1>1. UNCHANGED srv /\ WritesDown
    BY DEF BackupClicks, StartBackup, FileDamaged, OpenRestoreModal, HandleRestoreFileSelect,
           ToggleRestoreItem, ToggleRestoreSelection, StartRestore, rest, WritesDown
  <1>2. UNCHANGED left \/ Click \/ left' = [left EXCEPT !.faults = left.faults - 1]
    BY DEF BackupClicks, StartBackup, FileDamaged, OpenRestoreModal, HandleRestoreFileSelect,
           ToggleRestoreItem, ToggleRestoreSelection, StartRestore
  <1>3. Bounded
    BY <1>2, BoundsKept
  <1>4. \/ UNCHANGED calls
        \/ \E with, ans : \/ calls' = Append(calls, Await("backup", with, ans))
                         \/ calls' = Append(calls, Await("scanned", with, ans))
                         \/ calls' = Append(calls, Await("restoring", with, ans))
    BY DEF BackupClicks, StartBackup, FileDamaged, OpenRestoreModal, HandleRestoreFileSelect,
           ToggleRestoreItem, ToggleRestoreSelection, StartRestore
  <1>5. Adds(calls)
    BY <1>0, <1>4, AddsNone, AddsAwait
  <1>6. QED
    BY <1>1, <1>3, <1>5, HandlerKeeps

LEMMA RestoreLineWrites ==
    ASSUME KeptInv, NEW i, RestoreLine(i) PROVE WritesDown
  <1> DEFINE line == Head(calls[i].ans)
  <1>1. \/ db' = db \/ db' = SaveGame(db, line.id, line.record, TRUE)
        \/ db' = SaveTeam(db, line.id, line.record, TRUE)
    BY DEF RestoreLine, Restored
  <1> HIDE DEF line
  <1>2. QED
    BY <1>1, SaveTeamWrites DEF WritesDown, KeptInv

LEMMA BackupGoesOnKeeps ==
    ASSUME SpinInv, KeptInv, NEW i \in DOMAIN calls, BackupGoesOn(i) PROVE KeptInv' /\ NothingLost
  <1>0. IsCalls(Without(i))
    BY Remaining
  <1>1. ASSUME UNCHANGED srv, WritesDown, UNCHANGED left, Adds(Without(i)) PROVE KeptInv' /\ NothingLost
    BY <1>1, BoundsKept, HandlerKeeps
  <1>2. ASSUME UNCHANGED <<db, srv, left>>,
               \/ calls' = Without(i)
               \/ \E job : \/ calls' = Append(Without(i), Gather(job))
                           \/ calls' = Append(Without(i), NextGame(job))
               \/ \E with, req, body : \/ calls' = Append(Without(i), Fetch("moreTeams", with, req, body))
                                       \/ calls' = Append(Without(i), Fetch("moreGames", with, req, body))
                                       \/ calls' = Append(Without(i), Fetch("fetched", with, req, body))
        PROVE  KeptInv' /\ NothingLost
    <2>1. Adds(Without(i))
      BY <1>0, <1>2, AddsNone, AddsFetch, BackupAdds
    <2>2. QED
      BY <1>1, <1>2, <2>1 DEF WritesDown
  <1>3. CASE BackupTeams(i)
    BY <1>2, <1>3 DEF BackupTeams, rest
  <1>4. CASE MoreTeams(i)
    BY <1>2, <1>4 DEF MoreTeams, rest
  <1>5. CASE BackupGames(i)
    BY <1>2, <1>5 DEF BackupGames, rest
  <1>6. CASE MoreGames(i)
    BY <1>2, <1>6 DEF MoreGames, rest
  <1>7. CASE CopyGame(i)
    BY <1>2, <1>7 DEF CopyGame, rest
  <1>8. CASE FetchGame(i)
    BY <1>2, <1>8 DEF FetchGame, rest
  <1>9. CASE BackupWritten(i) \/ Scanned(i)
    BY <1>2, <1>9 DEF BackupWritten, Scanned, rest
  <1>10. CASE RestoreLine(i)
    <2> DEFINE x == Await("restored", <<>>, TRUE)
    <2>1. UNCHANGED <<srv, left>> /\ WritesDown
      BY <1>10, RestoreLineWrites DEF RestoreLine
    <2>2. \/ calls' = Append(Without(i), x)
          \/ \E ans : calls' = Append(Without(i), Await("restoring", <<>>, ans))
      BY <1>10 DEF RestoreLine
    <2>3. DOMAIN x = CallFields /\ x.at = "restored"
      BY DEF Await, CallFields
    <2> HIDE DEF x
    <2>4. Adds(Without(i))
      BY <1>0, <2>2, <2>3, AddsOne, AddsAwait
    <2>5. QED
      BY <1>1, <2>1, <2>4
  <1>11. CASE RestoreEnds(i)
    BY <1>0, <1>1, <1>11, LoadDashboardAdds DEF RestoreEnds, Idle, WritesDown
  <1>12. QED
    BY <1>3, <1>4, <1>5, <1>6, <1>7, <1>8, <1>9, <1>10, <1>11 DEF BackupGoesOn

-----------------------------------------------------------------------------
(* The server answers, and others use it too.                              *)

\* The answer of one function, true to what is asked.
LEMMA AnswerKeeps ==
    ASSUME SpinInv, KeptInv, NEW i \in DOMAIN calls, NEW answer,
           calls' = [calls EXCEPT ![i].ans = answer],
           calls[i].req = "goneGames" /\ answer \notin {Waiting, Failed, Denied} =>
             \A g \in Games : g \in answer => srv.games[g] # Absent
    PROVE  GoneCalls(calls', srv)
  <1> DEFINE r == calls[i]
             s == [r EXCEPT !.ans = answer]
             L == [calls EXCEPT ![i].ans = answer]
  <1>1. /\ calls \in Seq(ToSet(calls)) /\ Len(calls) \in Nat /\ DOMAIN calls = 1..Len(calls)
        /\ DOMAIN r = CallFields
    BY DEF SpinInv, IsCalls
  <1>2. L[i] = s /\ DOMAIN L = 1..Len(calls) /\ L = [j \in 1..Len(calls) |-> L[j]]
        /\ \A j \in 1..Len(calls) : j # i => L[j] = calls[j]
    BY <1>1
  <1> HIDE DEF r
  <1>3. s.at = r.at /\ s.req = r.req /\ s.ans = answer
    BY <1>1 DEF CallFields
  <1> HIDE DEF s, L
  <1>4. Len(L) = Len(calls)
    BY <1>1, <1>2, IsSeq
  <1>5. ASSUME NEW k \in 1..Len(calls), L[k].at = "gone"
        PROVE  /\ L[k].req = "goneGames"
               /\ L[k].ans \notin {Waiting, Failed, Denied} =>
                    \A g \in Games : g \in L[k].ans => srv.games[g] # Absent
    <2>1. CASE k = i
      <3>1. L[k] = s /\ r.at = "gone"
        BY <1>2, <1>3, <1>5, <2>1
      <3>2. r.req = "goneGames"
        BY <2>1, <3>1 DEF KeptInv, GoneCalls, r
      <3>3. answer \notin {Waiting, Failed, Denied} =>
              \A g \in Games : g \in answer => srv.games[g] # Absent
        BY <3>2 DEF r
      <3>4. QED
        BY <1>3, <3>1, <3>2, <3>3
    <2>2. CASE k # i
      <3>1. L[k] = calls[k]
        BY <1>2, <2>2
      <3>2. QED
        BY <1>5, <3>1 DEF KeptInv, GoneCalls
    <2>3. QED
      BY <2>1, <2>2
  <1>6. QED
    BY <1>4, <1>5 DEF GoneCalls, L

LEMMA AnswersKeep ==
    ASSUME SpinInv, KeptInv, NEW i \in DOMAIN calls, Answers(i) PROVE KeptInv' /\ NothingLost
  <1>1. ASSUME NEW answer, calls' = [calls EXCEPT ![i].ans = answer], GoneCalls(calls', srv),
               srv' = srv \/ srv' = Effect(calls[i]), UNCHANGED db, Bounded
        PROVE  KeptInv' /\ NothingLost
    <2>1. IsServer(srv') /\ Keeps(srv, srv')
      BY <1>1, EffectKeeps DEF KeptInv, Keeps
    <2>2. GoneCalls(calls', srv')
      BY <1>1, <2>1, GoneLater
    <2>3. QED
      BY <1>1, <2>1, <2>2 DEF KeptInv, Bounded, NothingLost
  <1>2. CASE Serve(i)
    <2> DEFINE answer == Reply(calls[i])
    <2>1. /\ calls' = [calls EXCEPT ![i].ans = answer] /\ srv' = Effect(calls[i])
          /\ UNCHANGED <<db, left>>
      BY <1>2 DEF Serve
    <2>2. calls[i].req = "goneGames" /\ answer \notin {Waiting, Failed, Denied} =>
            \A g \in Games : g \in answer => srv.games[g] # Absent
      BY DEF Reply, CheckDeletions
    <2> HIDE DEF answer
    <2>3. GoneCalls(calls', srv)
      BY <2>1, <2>2, AnswerKeeps
    <2>4. QED
      BY <1>1, <2>1, <2>3, BoundsKept
  <1>3. CASE Lose(i)
    <2>1. /\ calls' = [calls EXCEPT ![i].ans = Failed] /\ UNCHANGED db
          /\ left' = [left EXCEPT !.faults = left.faults - 1]
          /\ srv' = srv \/ srv' = Effect(calls[i])
      BY <1>3 DEF Lose
    <2>2. GoneCalls(calls', srv)
      BY <2>1, AnswerKeeps
    <2>3. QED
      BY <1>1, <2>1, <2>2, BoundsKept
  <1>4. QED
    BY <1>2, <1>3 DEF Answers

LEMMA WorldKeeps == ASSUME KeptInv, World PROVE KeptInv' /\ NothingLost
  <1>1. UNCHANGED <<db, calls>>
    BY DEF World, OtherEdits, OtherCreates, OtherDeletes, OtherRevokes, OtherEditsTeam,
           OtherDeletesTeam, Other, SessionEnds, BackOnline
  <1>2. \/ UNCHANGED left \/ left' = [left EXCEPT !.others = left.others - 1]
        \/ left' = [left EXCEPT !.others = left.others - 1, !.edits = left.edits - 1]
    BY DEF World, OtherEdits, OtherCreates, OtherDeletes, OtherRevokes, OtherEditsTeam,
           OtherDeletesTeam, Other, SessionEnds, BackOnline
  <1>3. Bounded
    BY <1>2, BoundsKept
  <1>4. ASSUME NEW g \in Games, NEW r, DOMAIN r = CopyFields, srv' = [srv EXCEPT !.games[g] = r]
        PROVE  IsServer(srv') /\ Keeps(srv, srv')
    BY <1>4, OneCopy DEF KeptInv
  <1>5. ASSUME NEW g \in Games, OtherEdits(g) PROVE IsServer(srv') /\ Keeps(srv, srv')
    <2> DEFINE v == Append(srv.games[g].log, Edit)
               r == [srv.games[g] EXCEPT !.log = v]
    <2>1. srv' = [srv EXCEPT !.games[g] = r] /\ srv.games[g] # Absent
      BY <1>5 DEF OtherEdits, Kept, KeptInv, IsServer
    <2>2. DOMAIN r = CopyFields
      BY <2>1, CopyChanged DEF KeptInv
    <2> HIDE DEF r
    <2>3. QED
      BY <1>4, <2>1, <2>2
  <1>6. ASSUME NEW g \in Games, OtherRevokes(g) PROVE IsServer(srv') /\ Keeps(srv, srv')
    <2> DEFINE r == [srv.games[g] EXCEPT !.share = "none"]
    <2>1. srv' = [srv EXCEPT !.games[g] = r] /\ srv.games[g] # Absent
      BY <1>6 DEF OtherRevokes, Kept, KeptInv, IsServer
    <2>2. DOMAIN r = CopyFields
      BY <2>1, CopyChanged DEF KeptInv
    <2> HIDE DEF r
    <2>3. QED
      BY <1>4, <2>1, <2>2
  <1>7. ASSUME NEW g \in Games, OtherCreates(g) PROVE IsServer(srv') /\ Keeps(srv, srv')
    <2> DEFINE r == [log |-> <<Edit>>, owner |-> "other", share |-> "read", gone |-> FALSE]
    <2>1. srv' = [srv EXCEPT !.games[g] = r]
      BY <1>7 DEF OtherCreates
    <2>2. DOMAIN r = CopyFields
      BY DEF CopyFields
    <2> HIDE DEF r
    <2>3. QED
      BY <1>4, <2>1, <2>2
  <1>8. ASSUME NEW g \in Games, OtherDeletes(g) PROVE IsServer(srv') /\ Keeps(srv, srv')
    <2> DEFINE r == GameTomb(srv.games[g].owner)
    <2>1. srv' = [srv EXCEPT !.games[g] = r]
      BY <1>8 DEF OtherDeletes, KeptInv, IsServer
    <2>2. DOMAIN r = CopyFields
      BY TombIsCopy
    <2> HIDE DEF r
    <2>3. QED
      BY <1>4, <2>1, <2>2
  <1>9. ASSUME NEW t \in Teams, OtherEditsTeam(t) \/ OtherDeletesTeam(t)
        PROVE  IsServer(srv') /\ Keeps(srv, srv')
    <2>1. PICK v : srv' = [srv EXCEPT !.teams = v]
      <3>1. ASSUME OtherEditsTeam(t)
            PROVE  srv' = [srv EXCEPT !.teams = [srv.teams EXCEPT ![t].ver = Edit]]
        BY <3>1 DEF OtherEditsTeam, KeptInv, IsServer
      <3>2. ASSUME OtherDeletesTeam(t)
            PROVE  srv' = [srv EXCEPT !.teams = [srv.teams EXCEPT ![t] = TeamTomb(srv.teams[t].owner)]]
        BY <3>2 DEF OtherDeletesTeam, KeptInv, IsServer
      <3>3. QED
        BY <1>9, <3>1, <3>2
    <2>2. QED
      BY <2>1, SameGames DEF KeptInv
  <1>10. ASSUME SessionEnds \/ BackOnline PROVE IsServer(srv') /\ Keeps(srv, srv')
    BY <1>10 DEF SessionEnds, BackOnline, KeptInv, Keeps
  <1>11. IsServer(srv') /\ Keeps(srv, srv')
    BY <1>5, <1>6, <1>7, <1>8, <1>9, <1>10 DEF World
  <1>12. GoneCalls(calls', srv')
    BY <1>1, <1>11, GoneLater DEF KeptInv
  <1>13. QED
    BY <1>1, <1>3, <1>11, <1>12 DEF KeptInv, Bounded, NothingLost

-----------------------------------------------------------------------------
(* No answer takes away what the server has never heard of.                *)

LEMMA KeptInit == ASSUME Init PROVE KeptInv
  <1> DEFINE x == Fetch("known", <<>>, "whoami", <<>>)
  <1>1. PICK p \in Itineraries : left = p.left /\ db = p.world.db /\ srv = p.world.srv /\ calls = <<x>>
    BY DEF Init
  <1>2. Plain(<<x>>)
    BY CallTyping, PlainOne
  <1>3. GoneCalls(calls, srv)
    BY <1>1, <1>2, PlainGone
  <1>4. QED
    BY <1>1, <1>3, ItinerariesAssumption DEF KeptInv

LEMMA KeptStep == ASSUME SpinInv, KeptInv, [Next]_vars PROVE KeptInv' /\ NothingLost
  <1>1. CASE Clicks
    <2>1. ASSUME TeamClicks \/ TeamSearchClicks PROVE KeptInv' /\ NothingLost
      BY <2>1, TeamClicksWrite, TeamClicksAdd, HandlerKeeps
    <2>2. QED
      BY <1>1, <2>1, DashboardClicksKeep, SearchClicksKeep, GameClicksKeep, SessionClicksKeep,
         BackupClicksKeep DEF Clicks
  <1>2. ASSUME NEW i \in DOMAIN calls, GoOn(i) PROVE KeptInv' /\ NothingLost
    BY <1>2, DashboardGoesOnKeeps, GameGoesOnKeeps, TeamsGoOnKeeps, SessionGoesOnKeeps,
       BackupGoesOnKeeps DEF GoOn
  <1>3. ASSUME NEW i \in DOMAIN calls, Answers(i) PROVE KeptInv' /\ NothingLost
    BY <1>3, AnswersKeep
  <1>4. CASE Moves
    BY <1>4, GameMovesKeep DEF Moves
  <1>5. CASE World
    BY <1>5, WorldKeeps
  <1>6. CASE UNCHANGED lib
    BY <1>6 DEF lib, KeptInv, NothingLost
  <1>7. QED
    BY <1>1, <1>2, <1>3, <1>4, <1>5, <1>6 DEF Next, vars

(* What the server has never heard of leaves the browser only at the user's *)
(* click: a game the answer about deleted items names, however late that    *)
(* answer comes and whatever happened meanwhile, is one the server has had, *)
(* and no save, merge, restore or adoption removes a record.                *)
THEOREM NothingUnsyncedIsLost == Spec => UnsyncedIsKept
  <1> DEFINE Inv == SpinInv /\ KeptInv
  <1>1. Init => Inv
    BY SpinInit, KeptInit
  <1>2. Inv /\ [Next]_vars => Inv'
    BY SpinStep, KeptStep
  <1>3. Inv /\ [Next]_vars => [\A g \in Games : db.games[g] # Absent /\ db'.games[g] = Absent =>
                                 srv.games[g] # Absent \/ left'.clicks < left.clicks]_vars
    BY KeptStep DEF NothingLost
  <1>4. QED
    BY <1>1, <1>2, <1>3, PTL DEF Spec, UnsyncedIsKept

=============================================================================
