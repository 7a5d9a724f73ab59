--------------------------- MODULE Browser_proofs ---------------------------
(***************************************************************************)
(* Proofs about one browser, for every library of games and teams, every   *)
(* size of pages and lists, every answer and loss of a request, and every  *)
(* order of clicks: its spinners first, then its lineup dialog.            *)
(***************************************************************************)
EXTENDS Browser, TLAPS, WellFoundedInduction

CallFields == {"at", "with", "req", "body", "ans"}

\* A list of suspended functions.
IsCalls(K) == /\ K \in Seq(ToSet(K))
              /\ \A i \in 1..Len(K) : DOMAIN K[i] = CallFields

\* One of K is in one of the stages; one of K sends team t.
HasOne(K, stages) == \E k \in 1..Len(K) : K[k].at \in stages
Sending(K, t) == \E k \in 1..Len(K) : K[k].at = "teamSent" /\ K[k].with = t

\* L has all the functions of K, but perhaps not the i-th.
KeepsBut(K, L, i) == \A j \in 1..Len(K) : j # i =>
    \E k \in 1..Len(L) : L[k].at = K[j].at /\ L[k].with = K[j].with

LEMMA CallTyping ==
    ASSUME NEW at, NEW with, NEW req, NEW body, NEW ans
    PROVE  /\ DOMAIN Await(at, with, ans) = CallFields
           /\ Await(at, with, ans).at = at /\ Await(at, with, ans).with = with
           /\ DOMAIN Fetch(at, with, req, body) = CallFields
           /\ Fetch(at, with, req, body).at = at /\ Fetch(at, with, req, body).with = with
  BY DEF Await, Fetch, CallFields

\* What a list is made of.
LEMMA IsSeq ==
    ASSUME NEW n \in Nat, NEW K, DOMAIN K = 1..n, K = [i \in 1..n |-> K[i]]
    PROVE  K \in Seq(ToSet(K)) /\ Len(K) = n
  <1>1. K \in [1..n -> ToSet(K)]
    BY DEF ToSet
  <1>2. QED
    BY <1>1

LEMMA SeqMore ==
    ASSUME NEW S, NEW T, S \subseteq T, NEW s \in Seq(S) PROVE s \in Seq(T)
  <1>1. Len(s) \in Nat /\ DOMAIN s = 1..Len(s) /\ \A i \in 1..Len(s) : s[i] \in S
    OBVIOUS
  <1>2. s \in [1..Len(s) -> T]
    BY <1>1
  <1>3. QED
    BY <1>1, <1>2

LEMMA SeqSet ==
    ASSUME NEW S, NEW s \in Seq(S) PROVE s \in Seq(ToSet(s))
  <1>1. Len(s) \in Nat /\ DOMAIN s = 1..Len(s)
    OBVIOUS
  <1>2. s \in [1..Len(s) -> ToSet(s)]
    BY <1>1 DEF ToSet
  <1>3. QED
    BY <1>1, <1>2

LEMMA Joined ==
    ASSUME NEW K, NEW L, IsCalls(K), IsCalls(L)
    PROVE  /\ IsCalls(K \o L) /\ KeepsBut(K, K \o L, 0) /\ KeepsBut(L, K \o L, 0)
           /\ \A k \in 1..Len(K \o L) : \/ \E j \in 1..Len(K) : (K \o L)[k] = K[j]
                                      \/ \E j \in 1..Len(L) : (K \o L)[k] = L[j]
  <1> DEFINE S == ToSet(K) \cup ToSet(L)
  <1>1. K \in Seq(S) /\ L \in Seq(S)
    BY SeqMore DEF IsCalls
  <1>2. /\ Len(K) \in Nat /\ Len(L) \in Nat
        /\ \A i \in 1..Len(K) : DOMAIN K[i] = CallFields
        /\ \A i \in 1..Len(L) : DOMAIN L[i] = CallFields
    BY <1>1 DEF IsCalls
  <1> HIDE DEF S
  <1>3. /\ K \o L \in Seq(S) /\ Len(K \o L) = Len(K) + Len(L)
        /\ \A i \in 1..Len(K) : (K \o L)[i] = K[i]
        /\ \A i \in 1..Len(L) : (K \o L)[Len(K) + i] = L[i]
    BY <1>1
  <1>4. ASSUME NEW i \in 1..Len(K) + Len(L) PROVE DOMAIN (K \o L)[i] = CallFields
    <2>1. CASE i <= Len(K)
      BY <1>2, <1>3, <2>1
    <2>2. CASE i > Len(K)
      <3>1. i - Len(K) \in 1..Len(L) /\ i = Len(K) + (i - Len(K))
        BY <1>2, <2>2
      <3>2. QED
        BY <1>2, <1>3, <3>1
    <2>3. QED
      BY <1>2, <2>1, <2>2
  <1>5. IsCalls(K \o L)
    BY <1>3, <1>4, SeqSet DEF IsCalls
  <1>6. KeepsBut(K, K \o L, 0)
    <2>1. \A j \in 1..Len(K) : j \in 1..Len(K \o L)
      BY <1>2, <1>3
    <2>2. QED
      BY <1>3, <2>1 DEF KeepsBut
  <1>7. KeepsBut(L, K \o L, 0)
    <2>1. \A j \in 1..Len(L) : Len(K) + j \in 1..Len(K \o L)
      BY <1>2, <1>3
    <2>2. QED
      BY <1>3, <2>1 DEF KeepsBut
  <1>8. ASSUME NEW k \in 1..Len(K) + Len(L)
        PROVE  \/ \E j \in 1..Len(K) : (K \o L)[k] = K[j]
               \/ \E j \in 1..Len(L) : (K \o L)[k] = L[j]
    <2>1. CASE k <= Len(K)
      BY <1>2, <1>3, <2>1
    <2>2. CASE k > Len(K)
      <3>1. k - Len(K) \in 1..Len(L) /\ k = Len(K) + (k - Len(K))
        BY <1>2, <2>2
      <3>2. QED
        BY <1>3, <3>1
    <2>3. QED
      BY <1>2, <2>1, <2>2
  <1>9. QED
    BY <1>3, <1>5, <1>6, <1>7, <1>8

LEMMA Removed ==
    ASSUME NEW K, IsCalls(K), NEW i \in 1..Len(K)
    PROVE  /\ IsCalls(RemoveAt(K, i)) /\ KeepsBut(K, RemoveAt(K, i), i)
           /\ \A k \in 1..Len(RemoveAt(K, i)) : \E j \in 1..Len(K) : RemoveAt(K, i)[k] = K[j]
  <1> DEFINE S == ToSet(K)
             A == SubSeq(K, 1, i - 1)
             B == SubSeq(K, i + 1, Len(K))
             R == A \o B
  <1>1. K \in Seq(S) /\ Len(K) \in Nat /\ \A j \in 1..Len(K) : DOMAIN K[j] = CallFields
    BY DEF IsCalls
  <1> HIDE DEF S
  <1>2. A \in Seq(S) /\ B \in Seq(S)
    BY <1>1
  <1>3. /\ Len(A) = i - 1 /\ Len(B) = Len(K) - i
        /\ \A j \in 1..i - 1 : A[j] = K[j]
        /\ \A j \in 1..Len(K) - i : B[j] = K[j + i]
    BY <1>1
  <1> HIDE DEF A, B
  <1>4. /\ R \in Seq(S) /\ Len(R) = Len(K) - 1
        /\ \A j \in 1..i - 1 : R[j] = K[j]
        /\ \A j \in i..Len(K) - 1 : R[j] = B[j - (i - 1)]
    BY <1>1, <1>2, <1>3
  <1>5. \A j \in i..Len(K) - 1 : R[j] = K[j + 1]
    <2>1. \A j \in i..Len(K) - 1 : j - (i - 1) \in 1..Len(K) - i /\ j - (i - 1) + i = j + 1
      BY <1>1
    <2>2. QED
      BY <1>3, <1>4, <2>1
  <1> HIDE DEF R
  <1>6. \A j \in 1..Len(K) - 1 : R[j] = K[j] \/ R[j] = K[j + 1]
    BY <1>1, <1>4, <1>5
  <1>7. IsCalls(R)
    <2>1. \A j \in 1..Len(R) : DOMAIN R[j] = CallFields
      BY <1>1, <1>4, <1>6
    <2>2. QED
      BY <1>4, <2>1, SeqSet DEF IsCalls
  <1>8. KeepsBut(K, R, i)
    <2>1. ASSUME NEW j \in 1..Len(K), j # i
          PROVE  \E k \in 1..Len(R) : R[k] = K[j]
      <3>1. CASE j < i
        BY <1>1, <1>4, <3>1
      <3>2. CASE j > i
        <4>1. j - 1 \in i..Len(K) - 1 /\ j - 1 \in 1..Len(R) /\ (j - 1) + 1 = j
          BY <1>1, <1>4, <3>2
        <4>2. R[j - 1] = K[j]
          BY <1>5, <4>1
        <4>3. QED
          BY <4>1, <4>2
      <3>3. QED
        BY <1>1, <2>1, <3>1, <3>2
    <2>2. QED
      BY <2>1 DEF KeepsBut
  <1>9. RemoveAt(K, i) = R
    BY DEF RemoveAt, R, A, B
  <1>10. \A k \in 1..Len(R) : \E j \in 1..Len(K) : R[k] = K[j]
    <2>1. \A k \in 1..Len(R) : k \in 1..Len(K) - 1 /\ k \in 1..Len(K) /\ k + 1 \in 1..Len(K)
      BY <1>1, <1>4
    <2>2. QED
      BY <1>6, <2>1
  <1>11. QED
    BY <1>7, <1>8, <1>9, <1>10

LEMMA Single ==
    ASSUME NEW x, DOMAIN x = CallFields
    PROVE  IsCalls(<<x>>) /\ \A S : x.at \in S => HasOne(<<x>>, S)
  <1> DEFINE L == <<x>>
  <1>1. L \in Seq({x}) /\ Len(L) = 1 /\ L[1] = x
    OBVIOUS
  <1> HIDE DEF L
  <1>2. \A i \in 1..Len(L) : DOMAIN L[i] = CallFields
    BY <1>1
  <1>3. IsCalls(L) /\ 1 \in 1..Len(L)
    BY <1>1, <1>2, SeqSet DEF IsCalls
  <1>4. QED
    BY <1>1, <1>3 DEF HasOne, L

LEMMA Empty == IsCalls(<<>>)
  <1>1. <<>> \in Seq({}) /\ Len(<<>>) = 0
    OBVIOUS
  <1>2. QED
    BY <1>1, SeqSet DEF IsCalls

LEMMA NothingMore ==
    ASSUME NEW K, IsCalls(K) PROVE K \o <<>> = K
  BY DEF IsCalls

LEMMA Appended ==
    ASSUME NEW K, IsCalls(K), NEW x
    PROVE  Append(K, x) = K \o <<x>>
  <1>1. K \in Seq(ToSet(K) \cup {x})
    BY SeqMore DEF IsCalls
  <1>2. Len(K) \in Nat /\ <<x>> \in Seq(ToSet(K) \cup {x})
    BY <1>1
  <1> DEFINE S == ToSet(K) \cup {x}
             U == Append(K, x)
             V == K \o <<x>>
  <1> HIDE DEF S
  <1>3. /\ U \in Seq(S) /\ V \in Seq(S) /\ Len(U) = Len(K) + 1 /\ Len(V) = Len(K) + 1
        /\ \A i \in 1..Len(K) + 1 : U[i] = V[i]
    BY <1>1, <1>2 DEF S
  <1> HIDE DEF U, V
  <1>4. U = V
    BY <1>3
  <1>5. QED
    BY <1>4 DEF U, V

-----------------------------------------------------------------------------
(* Behind everything that spins there is a function under way.             *)

DashStages == {"games", "revisions", "locals"}
ClubStages == {"teams", "localTeams", "teamSent"}

\* Where the start of a page goes on, up to the first screen.
BootStages == {"known", "allowed", "adopt", "adoptTeams", "adopted", "offered", "demo",
               "demoFetched", "opened", "downloaded", "stored"}

DashSpins(d, K) ==
    /\ DOMAIN d = DOMAIN NoRows
    /\ d.fetching \in BOOLEAN /\ d.loading \in BOOLEAN
    /\ d.fetching => HasOne(K, {"games"})
    /\ d.loading => HasOne(K, {"revisions", "locals"})

ClubSpins(c, K) ==
    /\ DOMAIN c = DOMAIN NoTeams /\ c.limit \in Nat
    /\ c.fetching \in BOOLEAN /\ c.loading \in BOOLEAN
    /\ c.fetching => HasOne(K, {"teams"})
    /\ c.loading => HasOne(K, {"localTeams"})
    /\ \A t \in DOMAIN c.states : c.states[t] = "syncing" => Sending(K, t)

BootSpins(s, K) == s = "boot" => HasOne(K, BootStages)

SpinInv ==
    /\ IsCalls(calls)
    /\ DashSpins(dash, calls) /\ ClubSpins(club, calls) /\ BootSpins(screen, calls)

LEMMA SpinInvShows == ASSUME SpinInv PROVE SpinnersEnd
  <1>1. DOMAIN calls = 1..Len(calls)
    BY DEF SpinInv, IsCalls
  <1>2. screen = "boot" => calls # <<>>
    <2>1. ASSUME calls = <<>> PROVE Len(calls) = 0
      BY <2>1
    <2>2. QED
      BY <2>1 DEF SpinInv, BootSpins, HasOne
  <1>3. QED
    BY <1>1, <1>2 DEF SpinInv, DashSpins, ClubSpins, HasOne, Sending, SpinnersEnd, UnderWay

\* What goes on while the functions of other stages do.
LEMMA HasKept ==
    ASSUME NEW K, NEW L, NEW i, KeepsBut(K, L, i), NEW S, HasOne(K, S),
           i \in 1..Len(K) => K[i].at \notin S
    PROVE  HasOne(L, S)
  BY DEF KeepsBut, HasOne

LEMMA DashKept ==
    ASSUME NEW K, NEW L, NEW i, NEW d, KeepsBut(K, L, i), DashSpins(d, K),
           i \in 1..Len(K) => K[i].at \notin DashStages
    PROVE  DashSpins(d, L)
  BY HasKept DEF DashSpins, DashStages

LEMMA ClubKept ==
    ASSUME NEW K, NEW L, NEW i, NEW c, KeepsBut(K, L, i), ClubSpins(c, K),
           i \in 1..Len(K) => K[i].at \notin ClubStages
    PROVE  ClubSpins(c, L)
  <1>1. ASSUME NEW t, Sending(K, t) PROVE Sending(L, t)
    BY <1>1 DEF Sending, KeepsBut, ClubStages
  <1>2. QED
    BY <1>1, HasKept DEF ClubSpins, ClubStages

LEMMA BootKept ==
    ASSUME NEW K, NEW L, NEW i, NEW s, KeepsBut(K, L, i), BootSpins(s, K),
           i \in 1..Len(K) => K[i].at \notin BootStages
    PROVE  BootSpins(s, L)
  BY HasKept DEF BootSpins

LEMMA KeepsAll ==
    ASSUME NEW K, NEW L, NEW M, NEW i, KeepsBut(K, L, i), KeepsBut(L, M, 0), IsCalls(L)
    PROVE  KeepsBut(K, M, i)
  <1>1. \A k \in 1..Len(L) : k # 0
    OBVIOUS
  <1>2. QED
    BY <1>1 DEF KeepsBut

-----------------------------------------------------------------------------
(* The lists.                                                              *)

LEMMA RenderKeeps ==
    ASSUME NEW d, NEW unreachable, DOMAIN d = DOMAIN NoRows
    PROVE  /\ DOMAIN Render(d, unreachable) = DOMAIN NoRows
           /\ Render(d, unreachable).fetching = d.fetching
           /\ Render(d, unreachable).loading = d.loading
  BY DEF Render, NoRows

LEMMA RenderTeamsKeeps ==
    ASSUME NEW c, NEW unreachable, DOMAIN c = DOMAIN NoTeams
    PROVE  /\ DOMAIN RenderTeams(c, unreachable) = DOMAIN NoTeams
           /\ RenderTeams(c, unreachable).fetching = c.fetching
           /\ RenderTeams(c, unreachable).loading = c.loading
           /\ RenderTeams(c, unreachable).states = c.states
           /\ RenderTeams(c, unreachable).limit = c.limit
  BY DEF RenderTeams, NoTeams

\* A page is asked for by at most one function, which carries the flag.
LEMMA FetchingSpins ==
    ASSUME NEW d, NEW K, IsCalls(K), DashSpins(d, K)
    PROVE  /\ IsCalls(NextBatch(d)) /\ IsCalls(K \o NextBatch(d))
           /\ KeepsBut(K, K \o NextBatch(d), 0)
           /\ DashSpins(Fetching(d), K \o NextBatch(d))
  <1> DEFINE e == [d EXCEPT !.fetching = TRUE]
             x == Fetch("games", <<>>, "games", [query |-> d.query, offset |-> d.offset])
  <1>1. DOMAIN x = CallFields /\ x.at = "games"
    BY CallTyping
  <1> HIDE DEF x
  <1>2. NextBatch(d) = IF CanFetch(d) THEN <<x>> ELSE <<>>
    BY DEF NextBatch, x
  <1>3. IsCalls(NextBatch(d))
    BY <1>1, <1>2, Single, Empty
  <1>4. IsCalls(K \o NextBatch(d)) /\ KeepsBut(K, K \o NextBatch(d), 0)
    BY <1>3, Joined
  <1>5. CASE CanFetch(d)
    <2>1. HasOne(NextBatch(d), {"games"})
      BY <1>1, <1>2, <1>5, Single
    <2>2. HasOne(K \o NextBatch(d), {"games"})
      BY <1>3, <2>1, Joined, HasKept
    <2>3. DOMAIN e = DOMAIN NoRows /\ e.fetching = TRUE /\ e.loading = d.loading
      BY DEF DashSpins, NoRows
    <2>4. Fetching(d) = Render(e, offline)
      BY <1>5 DEF Fetching
    <2> HIDE DEF e
    <2>5. /\ DOMAIN Fetching(d) = DOMAIN NoRows /\ Fetching(d).fetching = TRUE
          /\ Fetching(d).loading = d.loading
      BY <2>3, <2>4, RenderKeeps
    <2>6. DashSpins(d, K \o NextBatch(d))
      BY <1>4, DashKept
    <2> DEFINE f == Fetching(d)
               L == K \o NextBatch(d)
    <2>7. DashSpins(f, L)
      <3>1. /\ HasOne(L, {"games"}) /\ DashSpins(d, L) /\ DOMAIN f = DOMAIN NoRows
            /\ f.fetching = TRUE /\ f.loading = d.loading
        BY <2>2, <2>5, <2>6
      <3> HIDE DEF f, L
      <3>2. QED
        BY <3>1 DEF DashSpins
    <2>8. QED
      BY <1>3, <1>4, <2>7
  <1>6. CASE ~CanFetch(d)
    <2>1. Fetching(d) = d
      BY <1>6 DEF Fetching
    <2>2. DashSpins(d, K \o NextBatch(d))
      BY <1>4, DashKept
    <2>3. QED
      BY <1>3, <1>4, <2>1, <2>2
  <1>7. QED
    BY <1>3, <1>4, <1>5, <1>6

\* Loading the games keeps what is behind them.
LEMMA LoadGamesSpins ==
    ASSUME NEW d, NEW store, NEW K, IsCalls(K), DashSpins(d, K), LoadGames(d, store, K)
    PROVE  IsCalls(calls)' /\ KeepsBut(K, calls', 0) /\ DashSpins(dash, calls)'
  <1> DEFINE e == [d EXCEPT !.loading = TRUE]
             x == Await("revisions", Remotely(d), GetLocalRevisions(store))
             L == K \o <<x>>
  <1>1. DOMAIN x = CallFields /\ x.at = "revisions"
    BY CallTyping
  <1>2. DOMAIN e = DOMAIN NoRows /\ e.loading = TRUE /\ e.fetching = d.fetching
    BY DEF DashSpins, NoRows
  <1>3. /\ dash' = IF Remotely(d) THEN Fetching(e) ELSE e
        /\ calls' = L \o IF Remotely(d) THEN NextBatch(e) ELSE <<>>
    BY DEF LoadGames
  <1> HIDE DEF e, x
  <1>4. IsCalls(<<x>>) /\ HasOne(<<x>>, {"revisions", "locals"})
    BY <1>1, Single
  <1>5. IsCalls(L) /\ KeepsBut(K, L, 0) /\ HasOne(L, {"revisions", "locals"})
    BY <1>4, Joined, HasKept
  <1> HIDE DEF L
  <1>6. DashSpins(d, L)
    BY <1>5, DashKept
  <1>7. DashSpins(e, L)
    BY <1>2, <1>5, <1>6 DEF DashSpins
  <1>8. CASE Remotely(d)
    <2>1. dash' = Fetching(e) /\ calls' = L \o NextBatch(e)
      BY <1>3, <1>8
    <2>2. /\ IsCalls(L \o NextBatch(e)) /\ KeepsBut(L, L \o NextBatch(e), 0)
          /\ DashSpins(Fetching(e), L \o NextBatch(e))
      BY <1>5, <1>7, FetchingSpins
    <2>3. QED
      BY <1>5, <2>1, <2>2, KeepsAll
  <1>9. CASE ~Remotely(d)
    <2>1. dash' = e /\ calls' = L \o <<>>
      BY <1>3, <1>9
    <2>2. IsCalls(calls') /\ KeepsBut(L, calls', 0)
      BY <1>5, <2>1, Joined, Empty
    <2>3. QED
      BY <1>5, <1>7, <2>1, <2>2, DashKept, KeepsAll
  <1>10. QED
    BY <1>8, <1>9

LEMMA EmptiedKeeps ==
    ASSUME NEW d, NEW K, DashSpins(d, K)
    PROVE  DashSpins(Emptied(d), K)
  BY DEF Emptied, DashSpins, NoRows

\* The list of games is opened.
LEMMA LoadDashboardSpins ==
    ASSUME NEW d, NEW store, NEW K, NEW c, IsCalls(K), DashSpins(d, K), ClubSpins(c, K),
           LoadDashboard(d, store, K), club' = c
    PROVE  SpinInv'
  <1> DEFINE e == [Emptied(d) EXCEPT !.games = <<>>, !.limit = FirstLimit]
  <1>1. screen' = "dashboard" /\ LoadGames(e, store, K)
    BY DEF LoadDashboard
  <1>2. DashSpins(e, K)
    BY EmptiedKeeps DEF DashSpins, NoRows
  <1> HIDE DEF e
  <1>3. IsCalls(calls)' /\ KeepsBut(K, calls', 0) /\ DashSpins(dash, calls)'
    BY <1>1, <1>2, LoadGamesSpins
  <1>4. ClubSpins(c, calls')
    BY <1>3, ClubKept
  <1>5. QED
    BY <1>1, <1>3, <1>4 DEF SpinInv, BootSpins

(* The same for the teams.                                                 *)

\* The rows are numbered.
LEMMA TeamRows ==
    ASSUME NEW c, NEW unreachable, DOMAIN c = DOMAIN NoTeams, c.limit \in Nat,
           NEW rows, rows = RenderTeams(c, unreachable).teams
    PROVE  rows \in Seq(ToSet(rows))
  <1> DEFINE has(t) == (\E m \in c.local : m.id = t) \/ \E i \in DOMAIN c.remote : c.remote[i].id = t
             ids == SelectSeq(ByName, has)
             shown == First(c.limit, ids)
  <1>1. Len(ids) \in Nat
    BY OrdersAssumption
  <1> HIDE DEF ids
  <1>2. Len(shown) \in Nat /\ DOMAIN shown = 1..Len(shown)
    BY <1>1 DEF First
  <1>3. rows = [i \in DOMAIN shown |-> TeamRow(c, shown[i], unreachable)]
    BY DEF RenderTeams, NoTeams, ids
  <1> HIDE DEF shown
  <1>4. DOMAIN rows = 1..Len(shown) /\ rows = [i \in 1..Len(shown) |-> rows[i]]
    BY <1>2, <1>3
  <1>5. QED
    BY <1>2, <1>4, IsSeq

LEMMA FetchingTeamsSpins ==
    ASSUME NEW c, NEW K, IsCalls(K), ClubSpins(c, K)
    PROVE  /\ IsCalls(NextTeams(c)) /\ IsCalls(K \o NextTeams(c))
           /\ KeepsBut(K, K \o NextTeams(c), 0)
           /\ ClubSpins(FetchingTeams(c), K \o NextTeams(c))
  <1> DEFINE e == [c EXCEPT !.fetching = TRUE]
             x == Fetch("teams", <<>>, "teams", [query |-> c.query, offset |-> c.offset])
             L == K \o NextTeams(c)
             f == FetchingTeams(c)
  <1>1. DOMAIN x = CallFields /\ x.at = "teams"
    BY CallTyping
  <1> HIDE DEF x
  <1>2. NextTeams(c) = IF CanFetch(c) THEN <<x>> ELSE <<>>
    BY DEF NextTeams, x
  <1>3. IsCalls(NextTeams(c))
    BY <1>1, <1>2, Single, Empty
  <1>4. IsCalls(L) /\ KeepsBut(K, L, 0) /\ KeepsBut(NextTeams(c), L, 0)
    BY <1>3, Joined
  <1> HIDE DEF L
  <1>5. ClubSpins(c, L)
    BY <1>4, ClubKept
  <1>6. ClubSpins(f, L)
    <2>1. CASE CanFetch(c)
      <3>1. HasOne(L, {"teams"})
        BY <1>1, <1>2, <1>4, <2>1, Single, HasKept
      <3>2. /\ DOMAIN e = DOMAIN NoTeams /\ e.fetching = TRUE /\ e.loading = c.loading
            /\ e.states = c.states /\ e.limit = c.limit
        BY DEF ClubSpins, NoTeams
      <3>3. f = RenderTeams(e, offline)
        BY <2>1 DEF FetchingTeams
      <3> HIDE DEF e, f
      <3>4. /\ DOMAIN f = DOMAIN NoTeams /\ f.fetching = TRUE /\ f.loading = c.loading
            /\ f.states = c.states /\ f.limit = c.limit
        BY <3>2, <3>3, RenderTeamsKeeps
      <3>5. QED
        BY <1>5, <3>1, <3>4 DEF ClubSpins
    <2>2. CASE ~CanFetch(c)
      <3>1. f = c
        BY <2>2 DEF FetchingTeams
      <3>2. QED
        BY <1>5, <3>1
    <2>3. QED
      BY <2>1, <2>2
  <1>7. QED
    BY <1>3, <1>4, <1>6 DEF L

LEMMA LoadTeamsSpins ==
    ASSUME NEW c, NEW store, NEW K, IsCalls(K), ClubSpins(c, K), LoadTeams(c, store, K)
    PROVE  IsCalls(calls)' /\ KeepsBut(K, calls', 0) /\ ClubSpins(club, calls)'
  <1> DEFINE e == [c EXCEPT !.loading = TRUE]
             x == Await("localTeams", user # NoUser, GetAllTeams(store))
             L == K \o <<x>>
  <1>1. DOMAIN x = CallFields /\ x.at = "localTeams"
    BY CallTyping
  <1>2. /\ DOMAIN e = DOMAIN NoTeams /\ e.loading = TRUE /\ e.fetching = c.fetching
        /\ e.states = c.states /\ e.limit = c.limit
    BY DEF ClubSpins, NoTeams
  <1>3. /\ club' = IF user # NoUser THEN FetchingTeams(e) ELSE e
        /\ calls' = L \o IF user # NoUser THEN NextTeams(e) ELSE <<>>
    BY DEF LoadTeams
  <1> HIDE DEF e, x
  <1>4. IsCalls(<<x>>) /\ HasOne(<<x>>, {"localTeams"})
    BY <1>1, Single
  <1>5. IsCalls(L) /\ KeepsBut(K, L, 0) /\ HasOne(L, {"localTeams"})
    BY <1>4, Joined, HasKept
  <1> HIDE DEF L
  <1>6. ClubSpins(c, L)
    BY <1>5, ClubKept
  <1>7. ClubSpins(e, L)
    BY <1>2, <1>5, <1>6 DEF ClubSpins
  <1>8. CASE user # NoUser
    <2>1. club' = FetchingTeams(e) /\ calls' = L \o NextTeams(e)
      BY <1>3, <1>8
    <2>2. /\ IsCalls(L \o NextTeams(e)) /\ KeepsBut(L, L \o NextTeams(e), 0)
          /\ ClubSpins(FetchingTeams(e), L \o NextTeams(e))
      BY <1>5, <1>7, FetchingTeamsSpins
    <2>3. QED
      BY <1>5, <2>1, <2>2, KeepsAll
  <1>9. CASE user = NoUser
    <2>1. club' = e /\ calls' = L \o <<>>
      BY <1>3, <1>9
    <2>2. IsCalls(calls') /\ KeepsBut(L, calls', 0)
      BY <1>5, <2>1, Joined, Empty
    <2>3. QED
      BY <1>5, <1>7, <2>1, <2>2, ClubKept, KeepsAll
  <1>10. QED
    BY <1>8, <1>9

\* The list of teams is opened: what was being sent is no longer shown as such.
LEMMA EmptiedTeamsKeeps ==
    ASSUME NEW c, NEW K, ClubSpins(c, K)
    PROVE  ClubSpins(EmptiedTeams(c), K)
  <1> DEFINE e == EmptiedTeams(c)
  <1>1. /\ DOMAIN e = DOMAIN NoTeams /\ e.loading = c.loading /\ e.fetching = c.fetching
        /\ e.states = <<>> /\ e.limit = FirstLimit
    BY DEF EmptiedTeams, ClubSpins, NoTeams
  <1> HIDE DEF e
  <1>2. DOMAIN e.states = {}
    BY <1>1
  <1>3. ClubSpins(e, K)
    BY <1>1, <1>2, LimitsAssumption DEF ClubSpins
  <1>4. QED
    BY <1>3 DEF e

LEMMA LoadTeamsViewSpins ==
    ASSUME NEW c, NEW store, NEW K, NEW d, IsCalls(K), ClubSpins(c, K), DashSpins(d, K),
           LoadTeamsView(c, store, K), dash' = d
    PROVE  SpinInv'
  <1> DEFINE e == EmptiedTeams(c)
             f == [e EXCEPT !.teams = <<>>]
  <1>1. screen' = "teams" /\ LoadTeams(f, store, K)
    BY DEF LoadTeamsView
  <1>2. ClubSpins(e, K)
    BY EmptiedTeamsKeeps
  <1> HIDE DEF e
  <1>3. /\ DOMAIN f = DOMAIN NoTeams /\ f.loading = e.loading /\ f.fetching = e.fetching
        /\ f.states = e.states /\ f.limit = e.limit
    BY <1>2 DEF ClubSpins, NoTeams
  <1> HIDE DEF f
  <1>4. ClubSpins(f, K)
    BY <1>2, <1>3 DEF ClubSpins
  <1>5. IsCalls(calls)' /\ KeepsBut(K, calls', 0) /\ ClubSpins(club, calls)'
    BY <1>1, <1>4, LoadTeamsSpins
  <1>6. DashSpins(d, calls')
    BY <1>5, DashKept
  <1>7. QED
    BY <1>1, <1>5, <1>6 DEF SpinInv, BootSpins

-----------------------------------------------------------------------------
(* Steps of several kinds.                                                 *)

LEMMA Remaining ==
    ASSUME SpinInv, NEW i \in DOMAIN calls
    PROVE  /\ i \in 1..Len(calls) /\ IsCalls(calls)
           /\ IsCalls(Without(i)) /\ KeepsBut(calls, Without(i), i)
  <1>1. DOMAIN calls = 1..Len(calls)
    BY DEF SpinInv, IsCalls
  <1>2. QED
    BY <1>1, Removed DEF SpinInv, Without

\* A function of no list goes on, as others or in others' place.
LEMMA GoesOnAs ==
    ASSUME SpinInv, NEW i \in DOMAIN calls, NEW L, IsCalls(L), calls' = Without(i) \o L,
           calls[i].at \notin DashStages, calls[i].at \notin ClubStages, UNCHANGED <<dash, club>>,
           screen' = "boot" => /\ screen = "boot"
                               /\ calls[i].at \in BootStages => HasOne(L, BootStages)
    PROVE  SpinInv'
  <1>1. /\ i \in 1..Len(calls) /\ IsCalls(Without(i)) /\ KeepsBut(calls, Without(i), i)
    BY Remaining
  <1>2. /\ IsCalls(calls)' /\ KeepsBut(Without(i), calls', 0) /\ KeepsBut(L, calls', 0)
    BY <1>1, Joined
  <1>3. KeepsBut(calls, calls', i)
    BY <1>1, <1>2, KeepsAll
  <1>4. DashSpins(dash, calls') /\ ClubSpins(club, calls')
    BY <1>3, DashKept, ClubKept DEF SpinInv
  <1>5. BootSpins(screen', calls')
    <2>1. CASE calls[i].at \in BootStages
      BY <1>2, <2>1, HasKept DEF BootSpins
    <2>2. CASE calls[i].at \notin BootStages
      BY <1>3, <2>2, HasKept DEF BootSpins, SpinInv
    <2>3. QED
      BY <2>1, <2>2
  <1>6. QED
    BY <1>2, <1>4, <1>5 DEF SpinInv

\* calls' is K with one more, in one of the stages.
Begins(K) == \E x : DOMAIN x = CallFields /\ calls' = Append(K, x)
BeginsIn(K, stages) == \E x : DOMAIN x = CallFields /\ x.at \in stages /\ calls' = Append(K, x)

LEMMA GoesOnTo ==
    ASSUME SpinInv, NEW i \in DOMAIN calls, NEW x, DOMAIN x = CallFields,
           calls' = Append(Without(i), x),
           calls[i].at \notin DashStages, calls[i].at \notin ClubStages, UNCHANGED <<dash, club>>,
           screen' = "boot" => /\ screen = "boot"
                               /\ calls[i].at \in BootStages => x.at \in BootStages
    PROVE  SpinInv'
  <1>1. calls' = Without(i) \o <<x>> /\ IsCalls(<<x>>)
    BY Remaining, Appended, Single
  <1>2. screen' = "boot" => /\ screen = "boot"
                            /\ calls[i].at \in BootStages => HasOne(<<x>>, BootStages)
    BY Single
  <1>3. QED
    BY <1>1, <1>2, GoesOnAs

LEMMA GoesOnApart ==
    ASSUME SpinInv, NEW i \in DOMAIN calls, Begins(Without(i)), UNCHANGED <<dash, club>>,
           calls[i].at \notin DashStages, calls[i].at \notin ClubStages,
           screen' = "boot" => screen = "boot" /\ calls[i].at \notin BootStages
    PROVE  SpinInv'
  BY GoesOnTo DEF Begins

LEMMA BootGoesOn ==
    ASSUME SpinInv, NEW i \in DOMAIN calls, BeginsIn(Without(i), BootStages), UNCHANGED <<dash, club>>,
           calls[i].at \notin DashStages, calls[i].at \notin ClubStages,
           screen' = "boot" => screen = "boot"
    PROVE  SpinInv'
  BY GoesOnTo DEF BeginsIn

LEMMA Finishes ==
    ASSUME SpinInv, NEW i \in DOMAIN calls, calls' = Without(i),
           calls[i].at \notin DashStages, calls[i].at \notin ClubStages, UNCHANGED <<dash, club>>,
           screen' = "boot" => screen = "boot" /\ calls[i].at \notin BootStages
    PROVE  SpinInv'
  <1>1. IsCalls(Without(i)) /\ KeepsBut(calls, Without(i), i)
    BY Remaining
  <1>2. DashSpins(dash, calls') /\ ClubSpins(club, calls')
    BY <1>1, DashKept, ClubKept DEF SpinInv
  <1>3. BootSpins(screen', calls')
    BY <1>1, HasKept DEF BootSpins, SpinInv
  <1>4. QED
    BY <1>1, <1>2, <1>3 DEF SpinInv

\* A click starts a function; nothing but the bounds and records changes.
LEMMA Starts ==
    ASSUME SpinInv, Begins(calls), UNCHANGED <<dash, club>>, screen' = "boot" => screen = "boot"
    PROVE  SpinInv'
  <1>1. PICK x : DOMAIN x = CallFields /\ calls' = Append(calls, x)
    BY DEF Begins
  <1>2. calls' = calls \o <<x>> /\ IsCalls(<<x>>) /\ IsCalls(calls)
    BY <1>1, Appended, Single DEF SpinInv
  <1>3. IsCalls(calls)' /\ KeepsBut(calls, calls', 0)
    BY <1>2, Joined
  <1>4. DashSpins(dash, calls') /\ ClubSpins(club, calls')
    BY <1>3, DashKept, ClubKept DEF SpinInv
  <1>5. BootSpins(screen', calls')
    BY <1>3, HasKept DEF BootSpins, SpinInv
  <1>6. QED
    BY <1>3, <1>4, <1>5 DEF SpinInv

LEMMA Silent ==
    ASSUME SpinInv, UNCHANGED <<calls, dash, club>>, screen' = "boot" => screen = "boot"
    PROVE  SpinInv'
  BY DEF SpinInv, BootSpins, DashSpins, ClubSpins, IsCalls, HasOne, Sending

\* What is left when a function that opens a list has ended.
LEMMA LeftOver ==
    ASSUME SpinInv, NEW i \in DOMAIN calls,
           calls[i].at \notin DashStages, calls[i].at \notin ClubStages
    PROVE  IsCalls(Without(i)) /\ DashSpins(dash, Without(i)) /\ ClubSpins(club, Without(i))
  BY Remaining, DashKept, ClubKept DEF SpinInv

LEMMA OpensList ==
    ASSUME SpinInv, NEW i \in DOMAIN calls, NEW store,
           calls[i].at \notin DashStages, calls[i].at \notin ClubStages,
           LoadDashboard(dash, store, Without(i)), UNCHANGED club
    PROVE  SpinInv'
  BY LeftOver, LoadDashboardSpins

-----------------------------------------------------------------------------
(* The list of games.                                                      *)

LEMMA SameDash ==
    ASSUME NEW d, NEW e, NEW K, DashSpins(d, K),
           DOMAIN e = DOMAIN NoRows, e.fetching = d.fetching, e.loading = d.loading
    PROVE  DashSpins(e, K)
  BY DEF DashSpins

\* A step of another part of the list, with the rows drawn anew or not.
LEMMA DashGoesOn ==
    ASSUME SpinInv, NEW i \in DOMAIN calls, NEW L, IsCalls(L), NEW d, NEW unreachable,
           calls' = Without(i) \o L, calls[i].at \in {"revisions", "locals", "games", "purged"},
           DOMAIN d = DOMAIN NoRows, d.fetching \in BOOLEAN, d.loading \in BOOLEAN,
           d.fetching => dash.fetching /\ calls[i].at # "games",
           d.loading => /\ dash.loading /\ calls[i].at # "locals"
                        /\ calls[i].at = "revisions" => HasOne(L, {"locals"}),
           dash' = d \/ dash' = Render(d, unreachable), UNCHANGED <<screen, club>>
    PROVE  SpinInv'
  <1>1. /\ i \in 1..Len(calls) /\ IsCalls(Without(i)) /\ KeepsBut(calls, Without(i), i)
    BY Remaining
  <1>2. /\ IsCalls(calls)' /\ KeepsBut(Without(i), calls', 0) /\ KeepsBut(L, calls', 0)
    BY <1>1, Joined
  <1>3. KeepsBut(calls, calls', i)
    BY <1>1, <1>2, KeepsAll
  <1>4. ClubSpins(club, calls') /\ BootSpins(screen, calls')
    BY <1>3, ClubKept, BootKept DEF SpinInv, ClubStages, BootStages
  <1>5. d.fetching => HasOne(calls', {"games"})
    BY <1>3, HasKept DEF SpinInv, DashSpins
  <1>6. d.loading => HasOne(calls', {"revisions", "locals"})
    <2>1. CASE calls[i].at = "revisions"
      <3>1. HasOne(L, {"locals"}) => HasOne(calls', {"locals"})
        BY <1>2, HasKept
      <3>2. HasOne(calls', {"locals"}) => HasOne(calls', {"revisions", "locals"})
        BY DEF HasOne
      <3>3. QED
        BY <2>1, <3>1, <3>2
    <2>2. CASE calls[i].at \notin {"revisions", "locals"}
      BY <1>3, <2>2, HasKept DEF SpinInv, DashSpins
    <2>3. QED
      BY <2>1, <2>2
  <1>7. DashSpins(d, calls')
    BY <1>5, <1>6 DEF DashSpins
  <1>8. DashSpins(dash', calls')
    BY <1>7, RenderKeeps, SameDash
  <1>9. QED
    BY <1>2, <1>4, <1>8 DEF SpinInv

LEMMA DashFields == SpinInv => DOMAIN dash = DOMAIN NoRows /\ dash.fetching \in BOOLEAN /\ dash.loading \in BOOLEAN
  BY DEF SpinInv, DashSpins

LEMMA DashboardClicksSpin ==
    ASSUME SpinInv, DashboardClicks, UNCHANGED club PROVE SpinInv'
  <1>0. IsCalls(calls) /\ DashSpins(dash, calls) /\ ClubSpins(club, calls) /\ BootSpins(screen, calls)
    BY DEF SpinInv
  <1>1. CASE RefreshDashboard
    <2>1. screen' = "dashboard" /\ LoadGames(Emptied(dash), db, calls)
      BY <1>1 DEF RefreshDashboard
    <2>2. IsCalls(calls)' /\ KeepsBut(calls, calls', 0) /\ DashSpins(dash, calls)'
      BY <1>0, <2>1, EmptiedKeeps, LoadGamesSpins
    <2>3. ClubSpins(club, calls')
      BY <1>0, <2>2, ClubKept
    <2>4. QED
      BY <2>1, <2>2, <2>3 DEF SpinInv, BootSpins
  <1>2. CASE HandleScroll
    <2> DEFINE d == [dash EXCEPT !.limit = @ + MoreLimit]
    <2>1. DOMAIN d = DOMAIN NoRows /\ d.fetching = dash.fetching /\ d.loading = dash.loading
      BY DashFields DEF NoRows
    <2>2. /\ screen' = "dashboard"
          /\ \/ dash' = Fetching(d) /\ calls' = calls \o NextBatch(d)
             \/ dash' = Render(d, offline) /\ UNCHANGED calls
      BY <1>2 DEF HandleScroll
    <2> HIDE DEF d
    <2>3. DashSpins(d, calls)
      BY <1>0, <2>1, SameDash
    <2>4. CASE dash' = Fetching(d) /\ calls' = calls \o NextBatch(d)
      <3>1. IsCalls(calls)' /\ KeepsBut(calls, calls', 0) /\ DashSpins(dash, calls)'
        BY <1>0, <2>3, <2>4, FetchingSpins
      <3>2. ClubSpins(club, calls')
        BY <1>0, <3>1, ClubKept
      <3>3. QED
        BY <2>2, <3>1, <3>2 DEF SpinInv, BootSpins
    <2>5. CASE dash' = Render(d, offline) /\ UNCHANGED calls
      <3>1. DashSpins(dash', calls)
        BY <2>1, <2>3, <2>5, RenderKeeps, SameDash
      <3>2. QED
        BY <1>0, <2>2, <2>5, <3>1 DEF SpinInv, BootSpins
    <2>6. QED
      BY <2>2, <2>4, <2>5
  <1>3. CASE SyncGame
    <2>1. UNCHANGED <<screen, dash>>
      BY <1>3 DEF SyncGame
    <2>2. \E one, to, record :
            \/ calls' = Append(calls, Fetch("pulled", one, "pull", one))
            \/ calls' = Append(calls, Await("toPush", to, record))
      BY <1>3 DEF SyncGame
    <2>3. Begins(calls)
      BY <2>2, CallTyping DEF Begins
    <2>4. QED
      BY <2>1, <2>3, Starts
  <1>4. CASE DeleteGameFromList
    <2>1. UNCHANGED <<screen, dash>> /\ \E g : calls' = Append(calls, Await("deleted", g, TRUE))
      BY <1>4 DEF DeleteGameFromList
    <2>2. Begins(calls)
      BY <2>1, CallTyping DEF Begins
    <2>3. QED
      BY <2>1, <2>2, Starts
  <1>5. QED
    BY <1>1, <1>2, <1>3, <1>4 DEF DashboardClicks

LEMMA SearchClicksSpin ==
    ASSUME SpinInv, SearchClicks, UNCHANGED club PROVE SpinInv'
  <1>0. IsCalls(calls) /\ DashSpins(dash, calls) /\ ClubSpins(club, calls) /\ BootSpins(screen, calls)
    BY DEF SpinInv
  <1>1. ASSUME NEW query, NEW panel, SearchFor(query, panel) PROVE SpinInv'
    <2> DEFINE d == [dash EXCEPT !.query = query, !.panel = panel]
    <2>1. DOMAIN d = DOMAIN NoRows /\ d.fetching = dash.fetching /\ d.loading = dash.loading
      BY DashFields DEF NoRows
    <2>2. LoadDashboard(d, db, calls)
      BY <1>1 DEF SearchFor
    <2> HIDE DEF d
    <2>3. DashSpins(d, calls)
      BY <1>0, <2>1, SameDash
    <2>4. QED
      BY <1>0, <2>2, <2>3, LoadDashboardSpins
  <1>2. CASE ToggleAdvancedSearch
    <2> DEFINE d == [dash EXCEPT !.panel = SyncAdvancedPanel(dash.query)]
    <2>1. DOMAIN d = DOMAIN NoRows /\ d.fetching = dash.fetching /\ d.loading = dash.loading
      BY DashFields DEF NoRows
    <2>2. dash' = d /\ UNCHANGED <<calls, screen>>
      BY <1>2 DEF ToggleAdvancedSearch
    <2> HIDE DEF d
    <2>3. DashSpins(dash', calls)
      BY <1>0, <2>1, <2>2, SameDash
    <2>4. QED
      BY <1>0, <2>2, <2>3 DEF SpinInv
  <1>3. CASE SearchGames \/ ApplyAdvancedSearch \/ ClearAdvancedSearch
    BY <1>1, <1>3 DEF SearchGames, ApplyAdvancedSearch, ClearAdvancedSearch
  <1>4. QED
    BY <1>2, <1>3 DEF SearchClicks

LEMMA DashboardGoesOnSpins ==
    ASSUME SpinInv, NEW i \in DOMAIN calls, DashboardGoesOn(i), UNCHANGED club PROVE SpinInv'
  <1>1. CASE RevisionsRead(i)
    <2> DEFINE x == Await("locals", calls[i].with, GetAllGames(db))
               d == [dash EXCEPT !.revs = calls[i].ans]
    <2>1. calls[i].at = "revisions" /\ calls' = Append(Without(i), x) /\ dash' = d /\ UNCHANGED screen
      BY <1>1 DEF RevisionsRead, GoesOn
    <2>2. DOMAIN x = CallFields /\ x.at = "locals"
      BY CallTyping
    <2>3. DOMAIN d = DOMAIN NoRows /\ d.fetching = dash.fetching /\ d.loading = dash.loading
      BY DashFields DEF NoRows
    <2> HIDE DEF x, d
    <2>4. calls' = Without(i) \o <<x>> /\ IsCalls(<<x>>) /\ HasOne(<<x>>, {"locals"})
      BY <2>1, <2>2, Remaining, Appended, Single
    <2>5. QED
      BY <2>1, <2>3, <2>4, DashFields, DashGoesOn
  <1>2. CASE LocalsRead(i)
    <2> DEFINE parsed == ParseQuery(dash.query)
               found == IF Flagged(parsed, "remote") THEN {}
                        ELSE {g \in calls[i].ans : MatchesGame(Summary(g.id), parsed)}
               d == [dash EXCEPT !.local = found, !.loading = FALSE]
               x == Await("ids", <<>>, LocalGames(db))
               L == IF calls[i].with THEN <<x>> ELSE <<>>
    <2>1. /\ calls[i].at = "locals" /\ calls' = Without(i) \o L /\ dash' = Render(d, offline)
          /\ UNCHANGED screen
      BY <1>2 DEF LocalsRead, GoesOn
    <2>2. DOMAIN x = CallFields
      BY CallTyping
    <2>3. DOMAIN d = DOMAIN NoRows /\ d.fetching = dash.fetching /\ d.loading = FALSE
      BY DashFields DEF NoRows
    <2> HIDE DEF x, d
    <2>4. IsCalls(L)
      BY <2>2, Single, Empty
    <2> HIDE DEF L
    <2>5. QED
      BY <2>1, <2>3, <2>4, DashFields, DashGoesOn
  <1>3. CASE GamesFetched(i)
    <2> DEFINE data == IF Replied(i) THEN calls[i].ans ELSE <<>>
               d == [dash EXCEPT !.remote = @ \o data, !.offset = @ + Len(data),
                                 !.more = @ /\ Len(data) >= PageSize, !.fetching = FALSE]
               L == <<>>
    <2>1. /\ calls[i].at = "games" /\ calls' = Without(i)
          /\ dash' = Render(d, offline \/ calls[i].ans = Failed) /\ UNCHANGED screen
      BY <1>3 DEF GamesFetched, GoesOn
    <2>2. DOMAIN d = DOMAIN NoRows /\ d.fetching = FALSE /\ d.loading = dash.loading
      BY DashFields DEF NoRows
    <2> HIDE DEF d
    <2>3. calls' = Without(i) \o <<>>
      BY <2>1, NothingMore, Remaining
    <2>4. QED
      BY <2>1, <2>2, <2>3, DashFields, Empty, DashGoesOn
  <1>4. CASE IdsRead(i)
    <2> DEFINE x == Fetch("gone", <<>>, "goneGames", calls[i].ans)
               L == IF calls[i].ans = {} THEN <<>> ELSE <<x>>
    <2>1. calls[i].at = "ids" /\ calls' = Without(i) \o L /\ UNCHANGED <<screen, dash>>
      BY <1>4 DEF IdsRead, GoesOn
    <2>2. IsCalls(L)
      BY CallTyping, Single, Empty
    <2> HIDE DEF L
    <2>3. QED
      BY <2>1, <2>2, GoesOnAs DEF DashStages, ClubStages, BootStages
  <1>5. CASE GoneAnswered(i)
    <2> DEFINE gone == IF Replied(i) THEN calls[i].ans ELSE {}
               x == Await("purged", gone, gone)
               L == IF gone = {} THEN <<>> ELSE <<x>>
    <2>1. calls[i].at = "gone" /\ calls' = Without(i) \o L /\ UNCHANGED <<screen, dash>>
      BY <1>5 DEF GoneAnswered, GoesOn
    <2>2. IsCalls(L)
      BY CallTyping, Single, Empty
    <2> HIDE DEF L
    <2>3. QED
      BY <2>1, <2>2, GoesOnAs DEF DashStages, ClubStages, BootStages
  <1>6. CASE Purged(i)
    <2> DEFINE gone == calls[i].ans
               d == [dash EXCEPT !.local = {g \in @ : g.id \notin gone},
                                 !.remote = SelectSeq(@, LAMBDA g : g.id \notin gone)]
    <2>1. /\ calls[i].at = "purged" /\ calls' = Without(i) /\ dash' = Render(d, offline)
          /\ UNCHANGED screen
      BY <1>6 DEF Purged, GoesOn
    <2>2. DOMAIN d = DOMAIN NoRows /\ d.fetching = dash.fetching /\ d.loading = dash.loading
      BY DashFields DEF NoRows
    <2> HIDE DEF d
    <2>3. calls' = Without(i) \o <<>>
      BY <2>1, NothingMore, Remaining
    <2>4. QED
      BY <2>1, <2>2, <2>3, DashFields, Empty, DashGoesOn
  <1>7. CASE Refreshes(i)
    BY <1>7, OpensList DEF Refreshes, GoesOn, DashStages, ClubStages
  <1>8. CASE Pulled(i)
    <2>1. calls[i].at = "pulled" /\ UNCHANGED <<screen, dash>>
      BY <1>8 DEF Pulled, GoesOn
    <2>2. calls' = Without(i) \/ calls' = Append(Without(i), Await("reload", <<>>, TRUE))
      BY <1>8 DEF Pulled
    <2>3. calls' = Without(i) \/ Begins(Without(i))
      BY <2>2, CallTyping DEF Begins
    <2>4. QED
      BY <2>1, <2>3, Finishes, GoesOnApart DEF DashStages, ClubStages, BootStages
  <1>9. CASE ToPush(i)
    <2>1. calls[i].at = "toPush"
      BY <1>9 DEF ToPush, GoesOn
    <2>2. CASE LoadDashboard(dash, db, Without(i))
      BY <2>1, <2>2, OpensList DEF DashStages, ClubStages
    <2>3. CASE UNCHANGED <<screen, dash>> /\ \E with, req, body :
                 calls' = Append(Without(i), Fetch("pushed", with, req, body))
      <3>1. Begins(Without(i))
        BY <2>3, CallTyping DEF Begins
      <3>2. QED
        BY <2>1, <2>3, <3>1, GoesOnApart DEF DashStages, ClubStages, BootStages
    <2>4. QED
      BY <1>9, <2>2, <2>3 DEF ToPush
  <1>10. CASE Pushed(i)
    <2> DEFINE x == Await("reload", <<>>, TRUE)
               L == IF Replied(i) THEN <<x>> ELSE <<>>
    <2>1. calls[i].at = "pushed" /\ calls' = Without(i) \o L /\ UNCHANGED <<screen, dash>>
      BY <1>10 DEF Pushed, GoesOn
    <2>2. IsCalls(L)
      BY CallTyping, Single, Empty
    <2> HIDE DEF L
    <2>3. QED
      BY <2>1, <2>2, GoesOnAs DEF DashStages, ClubStages, BootStages
  <1>11. CASE GameDeleted(i)
    <2>1. calls[i].at = "deleted"
      BY <1>11 DEF GameDeleted, GoesOn
    <2>2. CASE LoadDashboard(dash, db, Without(i))
      BY <2>1, <2>2, OpensList DEF DashStages, ClubStages
    <2>3. CASE UNCHANGED <<screen, dash>> /\ \E with, req, body :
                 calls' = Append(Without(i), Fetch("unlisted", with, req, body))
      <3>1. Begins(Without(i))
        BY <2>3, CallTyping DEF Begins
      <3>2. QED
        BY <2>1, <2>3, <3>1, GoesOnApart DEF DashStages, ClubStages, BootStages
    <2>4. QED
      BY <1>11, <2>2, <2>3 DEF GameDeleted
  <1>12. CASE Unlisted(i)
    BY <1>12, OpensList DEF Unlisted, GoesOn, DashStages, ClubStages
  <1>13. QED
    BY <1>1, <1>2, <1>3, <1>4, <1>5, <1>6, <1>7, <1>8, <1>9, <1>10, <1>11, <1>12 DEF DashboardGoesOn

-----------------------------------------------------------------------------
(* The game screen.                                                        *)

LEMMA TurnsAway ==
    ASSUME SpinInv, NEW i \in DOMAIN calls, TurnAway(i), UNCHANGED club,
           calls[i].at \notin DashStages, calls[i].at \notin ClubStages
    PROVE  SpinInv'
  <1> DEFINE x == Await("route", <<>>, TRUE)
             K == Append(Without(i), x)
  <1>1. LoadDashboard(dash, db, K)
    BY DEF TurnAway
  <1>2. DOMAIN x = CallFields
    BY DEF Await, CallFields
  <1>3. IsCalls(Without(i)) /\ DashSpins(dash, Without(i)) /\ ClubSpins(club, Without(i))
    BY LeftOver
  <1> HIDE DEF x
  <1>4. K = Without(i) \o <<x>> /\ IsCalls(<<x>>)
    BY <1>2, <1>3, Appended, Single
  <1> HIDE DEF K
  <1>5. IsCalls(K) /\ KeepsBut(Without(i), K, 0)
    BY <1>3, <1>4, Joined
  <1>6. DashSpins(dash, K) /\ ClubSpins(club, K)
    BY <1>3, <1>5, DashKept, ClubKept
  <1>7. QED
    BY <1>1, <1>5, <1>6, LoadDashboardSpins

\* A record is shown, or imported and read again.
LEMMA ShowsGame ==
    ASSUME SpinInv, NEW i \in DOMAIN calls, NEW record, NEW g, ShowGame(i, record, g), UNCHANGED club,
           calls[i].at \notin DashStages, calls[i].at \notin ClubStages
    PROVE  SpinInv'
  <1>1. CASE record.log = <<>>
    <2>1. /\ UNCHANGED <<screen, dash>>
          /\ \E with, ans : calls' = Append(Without(i), Await("stored", with, ans))
      BY <1>1 DEF ShowGame, page
    <2>2. BeginsIn(Without(i), BootStages)
      BY <2>1, CallTyping DEF BeginsIn, BootStages
    <2>3. QED
      BY <2>1, <2>2, BootGoesOn
  <1>2. CASE record.log # <<>>
    <2>1. /\ screen' = "game" /\ UNCHANGED dash
          /\ \E with, ans : calls' = Append(Without(i), Await("permitted", with, ans))
      BY <1>2 DEF ShowGame
    <2>2. Begins(Without(i))
      BY <2>1, CallTyping DEF Begins
    <2>3. QED
      BY <2>1, <2>2, GoesOnApart
  <1>3. QED
    BY <1>1, <1>2

LEMMA GameClicksSpin ==
    ASSUME SpinInv, GameClicks, UNCHANGED club PROVE SpinInv'
  <1>1. ASSUME NEW g, OpenGame(g) PROVE SpinInv'
    <2>1. UNCHANGED page /\ \E with, ans : calls' = Append(calls, Await("opened", with, ans))
      BY <1>1 DEF OpenGame
    <2>2. Begins(calls)
      BY <2>1, CallTyping DEF Begins
    <2>3. QED
      BY <2>1, <2>2, Starts DEF page
  <1>2. ASSUME NEW g, CreateGame(g) PROVE SpinInv'
    <2>1. UNCHANGED page /\ \E with, ans : calls' = Append(calls, Await("create", with, ans))
      BY <1>2 DEF CreateGame
    <2>2. Begins(calls)
      BY <2>1, CallTyping DEF Begins
    <2>3. QED
      BY <2>1, <2>2, Starts DEF page
  <1>3. CASE LeaveGame
    BY <1>3, LoadDashboardSpins DEF LeaveGame, SpinInv
  <1>4. CASE Score
    BY <1>4, Silent DEF Score, page
  <1>5. QED
    BY <1>1, <1>2, <1>3, <1>4 DEF GameClicks

LEMMA GameMovesSpin ==
    ASSUME SpinInv, GameMoves, UNCHANGED club PROVE SpinInv'
  <1>1. CASE StatsWritten
    <2>1. UNCHANGED page
      BY <1>1 DEF StatsWritten
    <2>2. \/ UNCHANGED calls
          \/ \E with, ans : calls' = Append(calls, Await("opened", with, ans))
      BY <1>1 DEF StatsWritten
    <2>3. UNCHANGED calls \/ Begins(calls)
      BY <2>2, CallTyping DEF Begins
    <2>4. QED
      BY <2>1, <2>3, Starts, Silent DEF page
  <1>2. CASE GameWritten
    BY <1>2, Silent DEF GameWritten, page
  <1>3. CASE ServerTakes
    BY <1>3, Silent DEF ServerTakes, page
  <1>4. CASE Acknowledged
    BY <1>4, Silent DEF Acknowledged, page
  <1>5. QED
    BY <1>1, <1>2, <1>3, <1>4 DEF GameMoves

LEMMA GameGoesOnSpins ==
    ASSUME SpinInv, NEW i \in DOMAIN calls, GameGoesOn(i), UNCHANGED club PROVE SpinInv'
  <1>1. CASE Routed(i)
    BY <1>1, OpensList DEF Routed, GoesOn, DashStages, ClubStages
  <1>2. CASE Opened(i)
    <2>1. calls[i].at = "opened"
      BY <1>2 DEF Opened, GoesOn
    <2>2. CASE ShowGame(i, calls[i].ans, calls[i].with)
      BY <2>1, <2>2, ShowsGame DEF DashStages, ClubStages
    <2>3. CASE UNCHANGED page /\ \E with, req, body :
                 calls' = Append(Without(i), Fetch("downloaded", with, req, body))
      <3>1. BeginsIn(Without(i), BootStages)
        BY <2>3, CallTyping DEF BeginsIn, BootStages
      <3>2. QED
        BY <2>1, <2>3, <3>1, BootGoesOn DEF DashStages, ClubStages, page
    <2>4. QED
      BY <1>2, <2>2, <2>3 DEF Opened
  <1>3. CASE Downloaded(i)
    <2>1. calls[i].at = "downloaded"
      BY <1>3 DEF Downloaded, GoesOn
    <2>2. CASE TurnAway(i)
      BY <2>1, <2>2, TurnsAway DEF DashStages, ClubStages
    <2>3. CASE UNCHANGED page /\ \E with, ans :
                 calls' = Append(Without(i), Await("stored", with, ans))
      <3>1. BeginsIn(Without(i), BootStages)
        BY <2>3, CallTyping DEF BeginsIn, BootStages
      <3>2. QED
        BY <2>1, <2>3, <3>1, BootGoesOn DEF DashStages, ClubStages, page
    <2>4. QED
      BY <1>3, <2>2, <2>3 DEF Downloaded
  <1>4. CASE Stored(i)
    BY <1>4, ShowsGame DEF Stored, GoesOn, DashStages, ClubStages
  <1>5. CASE CheckPermissions(i)
    <2>1. /\ calls[i].at = "permitted" /\ UNCHANGED page
          /\ \E with, ans : calls' = Append(Without(i), Await("access", with, ans))
      BY <1>5 DEF CheckPermissions, GoesOn
    <2>2. Begins(Without(i))
      BY <2>1, CallTyping DEF Begins
    <2>3. QED
      BY <2>1, <2>2, GoesOnApart DEF DashStages, ClubStages, BootStages, page
  <1>6. CASE CheckAccess(i)
    <2>1. calls[i].at = "access"
      BY <1>6 DEF CheckAccess, GoesOn
    <2>2. TurnAway(i) \/ (calls' = Without(i) /\ UNCHANGED page)
      BY <1>6 DEF CheckAccess
    <2>3. QED
      BY <2>1, <2>2, TurnsAway, Finishes DEF DashStages, ClubStages, BootStages, page
  <1>7. CASE GameCreated(i)
    <2>1. calls[i].at = "create" /\ calls' = Without(i) /\ UNCHANGED page
      BY <1>7 DEF GameCreated, GoesOn
    <2>2. QED
      BY <2>1, Finishes DEF DashStages, ClubStages, BootStages, page
  <1>8. QED
    BY <1>1, <1>2, <1>3, <1>4, <1>5, <1>6, <1>7 DEF GameGoesOn

-----------------------------------------------------------------------------
(* The teams.                                                              *)

ClubFields(c) == /\ DOMAIN c = DOMAIN NoTeams /\ c.limit \in Nat
                 /\ c.fetching \in BOOLEAN /\ c.loading \in BOOLEAN
\* c spins no more than the controller does.
NoMore(c) == /\ ClubFields(c) /\ c.states = club.states
             /\ c.fetching = club.fetching /\ c.loading = club.loading

\* All functions go on but perhaps the j-th, and those of L are new.
LEMMA ClubMoves ==
    ASSUME SpinInv, NEW j, NEW L, NEW c, NEW unreachable,
           IsCalls(calls)', KeepsBut(calls, calls', j), KeepsBut(L, calls', 0),
           j \in 1..Len(calls) => calls[j].at \notin DashStages /\ calls[j].at \notin BootStages,
           ClubFields(c),
           c.fetching => club.fetching /\ (j \in 1..Len(calls) => calls[j].at # "teams"),
           c.loading => club.loading /\ (j \in 1..Len(calls) => calls[j].at # "localTeams"),
           \A t \in DOMAIN c.states : c.states[t] = "syncing" =>
              \/ Sending(L, t)
              \/ /\ t \in DOMAIN club.states /\ club.states[t] = "syncing"
                 /\ j \in 1..Len(calls) => ~(calls[j].at = "teamSent" /\ calls[j].with = t),
           club' = c \/ club' = RenderTeams(c, unreachable), UNCHANGED dash,
           screen' = "boot" => screen = "boot"
    PROVE  SpinInv'
  <1>1. DashSpins(dash', calls')
    BY DashKept DEF SpinInv
  <1>2. BootSpins(screen', calls')
    BY HasKept DEF SpinInv, BootSpins
  <1>3. c.fetching => HasOne(calls', {"teams"})
    BY HasKept DEF SpinInv, ClubSpins
  <1>4. c.loading => HasOne(calls', {"localTeams"})
    BY HasKept DEF SpinInv, ClubSpins
  <1>5. ASSUME NEW t \in DOMAIN c.states, c.states[t] = "syncing" PROVE Sending(calls', t)
    <2>1. CASE Sending(L, t)
      <3>1. \A k \in 1..Len(L) : k # 0
        OBVIOUS
      <3>2. QED
        BY <2>1, <3>1 DEF Sending, KeepsBut
    <2>2. CASE /\ t \in DOMAIN club.states /\ club.states[t] = "syncing"
               /\ j \in 1..Len(calls) => ~(calls[j].at = "teamSent" /\ calls[j].with = t)
      <3>1. Sending(calls, t)
        BY <2>2 DEF SpinInv, ClubSpins
      <3>2. QED
        BY <2>2, <3>1 DEF Sending, KeepsBut
    <2>3. QED
      BY <1>5, <2>1, <2>2
  <1>6. ClubSpins(c, calls')
    BY <1>3, <1>4, <1>5 DEF ClubSpins, ClubFields
  <1>7. ClubSpins(club', calls')
    BY <1>6, RenderTeamsKeeps DEF ClubSpins
  <1>8. QED
    BY <1>1, <1>2, <1>7 DEF SpinInv

\* A function of the teams goes on, and draws the rows anew or not.
LEMMA ClubGoesOn ==
    ASSUME SpinInv, NEW i \in DOMAIN calls, NEW L, IsCalls(L), NEW c, NEW unreachable,
           calls' = Without(i) \o L,
           calls[i].at \notin DashStages, calls[i].at \notin BootStages, ClubFields(c),
           c.fetching => club.fetching /\ calls[i].at # "teams",
           c.loading => club.loading /\ calls[i].at # "localTeams",
           \A t \in DOMAIN c.states : c.states[t] = "syncing" =>
              \/ Sending(L, t)
              \/ /\ t \in DOMAIN club.states /\ club.states[t] = "syncing"
                 /\ ~(calls[i].at = "teamSent" /\ calls[i].with = t),
           club' = c \/ club' = RenderTeams(c, unreachable), UNCHANGED dash,
           screen' = "boot" => screen = "boot"
    PROVE  SpinInv'
  <1>1. /\ i \in 1..Len(calls) /\ IsCalls(Without(i)) /\ KeepsBut(calls, Without(i), i)
    BY Remaining
  <1>2. /\ IsCalls(calls)' /\ KeepsBut(Without(i), calls', 0) /\ KeepsBut(L, calls', 0)
    BY <1>1, Joined
  <1>3. KeepsBut(calls, calls', i)
    BY <1>1, <1>2, KeepsAll
  <1>4. QED
    BY <1>1, <1>2, <1>3, ClubMoves

\* The same of a function that has nothing to do with what spins.
LEMMA ClubEnds ==
    ASSUME SpinInv, NEW i \in DOMAIN calls, NEW c, NEW unreachable,
           calls' = Without(i), NoMore(c), club' = c \/ club' = RenderTeams(c, unreachable),
           calls[i].at \notin DashStages, calls[i].at \notin BootStages, calls[i].at \notin ClubStages,
           UNCHANGED dash, screen' = "boot" => screen = "boot"
    PROVE  SpinInv'
  <1>1. calls' = Without(i) \o <<>> /\ IsCalls(<<>>)
    BY Remaining, NothingMore, Empty
  <1>2. QED
    BY <1>1, ClubGoesOn DEF NoMore, ClubStages

LEMMA ClubShape == SpinInv => ClubFields(club)
  BY DEF SpinInv, ClubSpins, ClubFields

\* A click in the list or the dialog, which starts a function or none.
LEMMA ClubClicked ==
    ASSUME SpinInv, NEW c, NEW unreachable, UNCHANGED calls \/ Begins(calls),
           NoMore(c), club' = c \/ club' = RenderTeams(c, unreachable), UNCHANGED dash,
           screen' = "boot" => screen = "boot"
    PROVE  SpinInv'
  <1>1. IsCalls(calls)' /\ KeepsBut(calls, calls', 0)
    <2>1. CASE UNCHANGED calls
      BY <2>1 DEF SpinInv, KeepsBut, IsCalls
    <2>2. CASE Begins(calls)
      <3>1. PICK x : DOMAIN x = CallFields /\ calls' = Append(calls, x)
        BY <2>2 DEF Begins
      <3>2. calls' = calls \o <<x>> /\ IsCalls(<<x>>)
        BY <3>1, Appended, Single DEF SpinInv
      <3>3. QED
        BY <3>2, Joined DEF SpinInv
    <2>3. QED
      BY <2>1, <2>2
  <1>2. 0 \notin 1..Len(calls)
    BY DEF SpinInv, IsCalls
  <1>3. QED
    BY <1>1, <1>2, ClubMoves DEF NoMore

LEMMA MarkedShape ==
    ASSUME NEW c, NEW ids, NEW state, ClubFields(c)
    PROVE  /\ ClubFields(Marked(c, ids, state))
           /\ Marked(c, ids, state).fetching = c.fetching /\ Marked(c, ids, state).loading = c.loading
           /\ DOMAIN Marked(c, ids, state).states = ids \cup DOMAIN c.states
           /\ \A t \in ids : Marked(c, ids, state).states[t] = state
           /\ \A t \in DOMAIN c.states \ ids : Marked(c, ids, state).states[t] = c.states[t]
  BY DEF Marked, ClubFields, NoTeams

LEMMA TeamClicksSpin ==
    ASSUME SpinInv, TeamClicks, UNCHANGED dash PROVE SpinInv'
  <1>0. IsCalls(calls) /\ DashSpins(dash, calls) /\ ClubSpins(club, calls) /\ BootSpins(screen, calls)
    BY DEF SpinInv
  <1>1. ClubFields(club)
    BY ClubShape
  <1>2. CASE ShowTeams
    <2> DEFINE c == [club EXCEPT !.query = <<>>]
    <2>1. LoadTeamsView(c, db, calls)
      BY <1>2 DEF ShowTeams
    <2>2. NoMore(c)
      BY <1>1 DEF NoMore, ClubFields, NoTeams
    <2> HIDE DEF c
    <2>3. ClubSpins(c, calls)
      BY <1>0, <2>2 DEF ClubSpins, NoMore, ClubFields
    <2>4. QED
      BY <1>0, <2>1, <2>3, LoadTeamsViewSpins
  <1>3. CASE RefreshTeams
    <2>1. screen' = "teams" /\ LoadTeams(EmptiedTeams(club), db, calls)
      BY <1>3 DEF RefreshTeams
    <2>2. IsCalls(calls)' /\ KeepsBut(calls, calls', 0) /\ ClubSpins(club, calls)'
      BY <1>0, <2>1, EmptiedTeamsKeeps, LoadTeamsSpins
    <2>3. DashSpins(dash, calls')
      BY <1>0, <2>2, DashKept
    <2>4. QED
      BY <2>1, <2>2, <2>3 DEF SpinInv, BootSpins
  <1>4. CASE ScrollTeams
    <2> DEFINE c == [club EXCEPT !.limit = @ + MoreLimit]
    <2>1. /\ ClubFields(c) /\ c.states = club.states
          /\ c.fetching = club.fetching /\ c.loading = club.loading
      BY <1>1, LimitsAssumption DEF ClubFields, NoTeams
    <2>2. /\ screen' = "teams"
          /\ \/ club' = FetchingTeams(c) /\ calls' = calls \o NextTeams(c)
             \/ club' = RenderTeams(c, offline) /\ UNCHANGED calls
      BY <1>4 DEF ScrollTeams
    <2> HIDE DEF c
    <2>3. CASE club' = FetchingTeams(c) /\ calls' = calls \o NextTeams(c)
      <3>1. ClubSpins(c, calls)
        BY <1>0, <2>1 DEF ClubSpins, ClubFields
      <3>2. IsCalls(calls)' /\ KeepsBut(calls, calls', 0) /\ ClubSpins(club, calls)'
        BY <1>0, <2>3, <3>1, FetchingTeamsSpins
      <3>3. DashSpins(dash, calls')
        BY <1>0, <3>2, DashKept
      <3>4. QED
        BY <2>2, <3>2, <3>3 DEF SpinInv, BootSpins
    <2>4. CASE club' = RenderTeams(c, offline) /\ UNCHANGED calls
      BY <2>1, <2>2, <2>4, ClubClicked DEF NoMore
    <2>5. QED
      BY <2>2, <2>3, <2>4
  <1>5. CASE SyncTeam
    <2>1. PICK t \in Teams : club' = SyncStarted(club, {t}) /\ calls' = Append(calls, Upload(club, t))
      BY <1>5 DEF SyncTeam
    <2> DEFINE x == Upload(club, t)
               c == Marked(club, {t}, "syncing")
    <2>2. DOMAIN x = CallFields /\ x.at = "teamSent" /\ x.with = t
      BY CallTyping DEF Upload
    <2>3. /\ ClubFields(c) /\ c.fetching = club.fetching /\ c.loading = club.loading
          /\ DOMAIN c.states = {t} \cup DOMAIN club.states
          /\ \A u \in DOMAIN club.states \ {t} : c.states[u] = club.states[u]
      BY <1>1, MarkedShape
    <2>4. club' = RenderTeams(c, offline)
      BY <2>1 DEF SyncStarted
    <2> HIDE DEF x, c
    <2>5. calls' = calls \o <<x>> /\ IsCalls(<<x>>) /\ Sending(<<x>>, t)
      <3>1. calls' = calls \o <<x>> /\ IsCalls(<<x>>)
        BY <1>0, <2>1, <2>2, Appended, Single DEF x
      <3>2. Sending(<<x>>, t)
        <4> DEFINE S == <<x>>
        <4>1. Len(S) = 1 /\ S[1] = x
          OBVIOUS
        <4> HIDE DEF S
        <4>2. 1 \in 1..Len(S)
          BY <4>1
        <4>3. Sending(S, t)
          BY <2>2, <4>1, <4>2 DEF Sending
        <4>4. QED
          BY <4>3 DEF S
      <3>3. QED
        BY <3>1, <3>2
    <2>6. IsCalls(calls)' /\ KeepsBut(calls, calls', 0) /\ KeepsBut(<<x>>, calls', 0)
      BY <1>0, <2>5, Joined
    <2>7. UNCHANGED screen /\ 0 \notin 1..Len(calls)
      BY <1>0, <1>5 DEF SyncTeam, IsCalls
    <2>8. QED
      BY <2>3, <2>4, <2>5, <2>6, <2>7, ClubMoves
  <1>6. CASE DeleteTeamShown
    <2>1. /\ UNCHANGED <<screen, club>>
          /\ \E with, ans : calls' = Append(calls, Await("teamDeleted", with, ans))
      BY <1>6 DEF DeleteTeamShown
    <2>2. Begins(calls)
      BY <2>1, CallTyping DEF Begins
    <2>3. QED
      BY <2>1, <2>2, Starts
  <1>7. CASE SaveTeamDialog
    <2>1. /\ UNCHANGED <<screen, club>>
          /\ \E with, ans : calls' = Append(calls, Await("teamSaved", with, ans))
      BY <1>7 DEF SaveTeamDialog
    <2>2. Begins(calls)
      BY <2>1, CallTyping DEF Begins
    <2>3. QED
      BY <2>1, <2>2, Starts
  <1>8. CASE EditTeam \/ AddTeamMember \/ RemoveTeamMember \/ CloseTeamDialog
    <2>1. UNCHANGED <<calls, screen>>
      BY <1>8 DEF EditTeam, AddTeamMember, RemoveTeamMember, CloseTeamDialog
    <2>2. NoMore(club')
      <3>1. CASE EditTeam
        BY <1>1, <3>1 DEF EditTeam, NoMore, ClubFields, NoTeams
      <3>2. CASE AddTeamMember
        BY <1>1, <3>2 DEF AddTeamMember, NoMore, ClubFields, NoTeams
      <3>3. CASE RemoveTeamMember
        BY <1>1, <3>3 DEF RemoveTeamMember, NoMore, ClubFields, NoTeams
      <3>4. CASE CloseTeamDialog
        BY <1>1, <3>4 DEF CloseTeamDialog, NoMore, ClubFields, NoTeams
      <3>5. QED
        BY <1>8, <3>1, <3>2, <3>3, <3>4
    <2>3. QED
      BY <2>1, <2>2, ClubClicked
  <1>9. ASSUME NEW t, ShowTeam(t) PROVE SpinInv'
    <2>1. /\ screen' = "team"
          /\ \/ club' = [club EXCEPT !.shown = RowOf(club, t)] /\ UNCHANGED calls
             \/ UNCHANGED club /\ \E with, ans : calls' = Append(calls, Await("teamRead", with, ans))
      BY <1>9 DEF ShowTeam
    <2>2. UNCHANGED calls \/ Begins(calls)
      BY <2>1, CallTyping DEF Begins
    <2>3. NoMore(club')
      BY <1>1, <2>1 DEF NoMore, ClubFields, NoTeams
    <2>4. QED
      BY <2>1, <2>2, <2>3, ClubClicked
  <1>10. ASSUME NEW t, NewTeam(t) PROVE SpinInv'
    <2>1. UNCHANGED <<calls, screen>>
      BY <1>10 DEF NewTeam
    <2>2. NoMore(club')
      BY <1>1, <1>10 DEF NewTeam, NoMore, ClubFields, NoTeams
    <2>3. QED
      BY <2>1, <2>2, ClubClicked
  <1>11. QED
    BY <1>2, <1>3, <1>4, <1>5, <1>6, <1>7, <1>8, <1>9, <1>10 DEF TeamClicks

LEMMA TeamSearchClicksSpin ==
    ASSUME SpinInv, TeamSearchClicks, UNCHANGED dash PROVE SpinInv'
  <1>0. IsCalls(calls) /\ DashSpins(dash, calls) /\ ClubSpins(club, calls) /\ ClubFields(club)
    BY ClubShape DEF SpinInv
  <1>1. ASSUME NEW query, NEW panel, SearchTeamsFor(query, panel) PROVE SpinInv'
    <2> DEFINE c == [club EXCEPT !.query = query, !.panel = panel]
    <2>1. LoadTeamsView(c, db, calls)
      BY <1>1 DEF SearchTeamsFor
    <2>2. NoMore(c)
      BY <1>0 DEF NoMore, ClubFields, NoTeams
    <2> HIDE DEF c
    <2>3. ClubSpins(c, calls)
      BY <1>0, <2>2 DEF ClubSpins, NoMore, ClubFields
    <2>4. QED
      BY <1>0, <2>1, <2>3, LoadTeamsViewSpins
  <1>2. CASE ToggleTeamsSearch
    <2>1. UNCHANGED <<calls, screen>>
      BY <1>2 DEF ToggleTeamsSearch
    <2>2. NoMore(club')
      BY <1>0, <1>2 DEF ToggleTeamsSearch, NoMore, ClubFields, NoTeams
    <2>3. QED
      BY <2>1, <2>2, ClubClicked
  <1>3. QED
    BY <1>1, <1>2 DEF TeamSearchClicks, SearchTeams

\* Every row that is marked as being sent is sent.
LEMMA LocalTeamsReadSpins ==
    ASSUME SpinInv, NEW i \in DOMAIN calls, LocalTeamsRead(i), UNCHANGED dash PROVE SpinInv'
  <1> DEFINE parsed == ParseQuery(club.query)
             found == IF Flagged(parsed, "remote") THEN {}
                      ELSE {t \in calls[i].ans : /\ MayReadTeam(t)
                                                 /\ MatchesTeam(TeamFacts[t.id], parsed)}
             e == [club EXCEPT !.local = found, !.loading = FALSE]
             read == RenderTeams(e, offline)
             sends == ToSend(read)
             ids == {sends[k].id : k \in DOMAIN sends}
             c == Marked(read, ids, "syncing")
             U == [k \in DOMAIN sends |-> Upload(read, sends[k].id)]
             x == Await("teamIds", <<>>, LocalTeams(db))
             T == IF calls[i].with THEN <<x>> ELSE <<>>
  <1>1. /\ calls[i].at = "localTeams" /\ club' = RenderTeams(c, offline)
        /\ calls' = Without(i) \o U \o T /\ UNCHANGED <<screen, dash>>
    BY DEF LocalTeamsRead, GoesOn, SyncStarted, others
  <1>2. DOMAIN x = CallFields
    BY DEF Await, CallFields
  <1>3. /\ ClubFields(e) /\ e.fetching = club.fetching /\ e.loading = FALSE /\ e.states = club.states
    BY ClubShape DEF ClubFields, NoTeams
  <1> HIDE DEF e, x
  <1>4. /\ ClubFields(read) /\ read.fetching = club.fetching /\ read.loading = FALSE
        /\ read.states = club.states
    BY <1>3, RenderTeamsKeeps DEF ClubFields
  <1>5. read.teams \in Seq(ToSet(read.teams))
    BY <1>3, TeamRows DEF ClubFields
  <1> HIDE DEF read
  <1>6. Len(sends) \in Nat /\ DOMAIN sends = 1..Len(sends)
    BY <1>5 DEF ToSend
  <1> HIDE DEF sends
  <1>7. \A k \in 1..Len(sends) : /\ DOMAIN U[k] = CallFields /\ U[k].at = "teamSent"
                                 /\ U[k].with = sends[k].id
    BY <1>6, CallTyping DEF Upload
  <1>8. DOMAIN U = 1..Len(sends) /\ U = [k \in 1..Len(sends) |-> U[k]]
    BY <1>6
  <1> HIDE DEF U
  <1>9. IsCalls(U) /\ Len(U) = Len(sends)
    <2>1. U \in Seq(ToSet(U)) /\ Len(U) = Len(sends)
      BY <1>6, <1>8, IsSeq
    <2>2. QED
      BY <1>7, <2>1 DEF IsCalls
  <1>10. IsCalls(T)
    BY <1>2, Single, Empty
  <1> HIDE DEF T
  <1>11. /\ IsCalls(calls)' /\ KeepsBut(calls, calls', i) /\ KeepsBut(U, calls', 0)
    <2>1. /\ IsCalls(Without(i)) /\ KeepsBut(calls, Without(i), i)
      BY Remaining
    <2> DEFINE M == Without(i) \o U
    <2>2. IsCalls(M) /\ KeepsBut(Without(i), M, 0) /\ KeepsBut(U, M, 0)
      BY <1>9, <2>1, Joined
    <2>3. calls' = M \o T
      BY <1>1
    <2> HIDE DEF M
    <2>4. IsCalls(calls') /\ KeepsBut(M, calls', 0)
      BY <1>10, <2>2, <2>3, Joined
    <2>5. KeepsBut(calls, M, i)
      BY <2>1, <2>2, KeepsAll
    <2>6. KeepsBut(calls, calls', i) /\ KeepsBut(U, calls', 0)
      BY <2>2, <2>4, <2>5, KeepsAll
    <2>7. QED
      BY <2>4, <2>6
  <1>12. /\ ClubFields(c) /\ c.fetching = club.fetching /\ c.loading = FALSE
         /\ DOMAIN c.states = ids \cup DOMAIN club.states
         /\ \A t \in DOMAIN club.states \ ids : c.states[t] = club.states[t]
    BY <1>4, MarkedShape
  <1> HIDE DEF c
  <1>13. ASSUME NEW t \in ids PROVE Sending(U, t)
    <2>1. PICK k \in 1..Len(sends) : t = sends[k].id
      BY <1>6
    <2>2. QED
      BY <1>7, <1>9, <2>1 DEF Sending
  <1>14. \A t \in DOMAIN c.states : c.states[t] = "syncing" =>
           Sending(U, t) \/ (t \in DOMAIN club.states /\ club.states[t] = "syncing")
    BY <1>12, <1>13
  <1>15. i \in 1..Len(calls) /\ calls[i].at \notin DashStages /\ calls[i].at \notin BootStages
    BY <1>1, Remaining DEF DashStages, BootStages
  <1>16. QED
    BY <1>1, <1>11, <1>12, <1>14, <1>15, ClubMoves

LEMMA TeamsGoOnSpins ==
    ASSUME SpinInv, NEW i \in DOMAIN calls, TeamsGoOn(i), UNCHANGED dash PROVE SpinInv'
  <1>0. ClubFields(club)
    BY ClubShape
  <1>1. CASE LocalTeamsRead(i)
    BY <1>1, LocalTeamsReadSpins
  <1>2. CASE TeamsFetched(i)
    <2> DEFINE data == IF Replied(i) THEN calls[i].ans ELSE <<>>
               c == [club EXCEPT !.remote = @ \o data, !.offset = @ + Len(data),
                                 !.more = @ /\ Len(data) >= PageSize, !.fetching = FALSE]
    <2>1. /\ calls[i].at = "teams" /\ calls' = Without(i) /\ club' = RenderTeams(c, offline)
          /\ UNCHANGED screen
      BY <1>2 DEF TeamsFetched, GoesOn
    <2>2. ClubFields(c) /\ c.fetching = FALSE /\ c.loading = club.loading /\ c.states = club.states
      BY <1>0 DEF ClubFields, NoTeams
    <2> HIDE DEF c
    <2>3. calls' = Without(i) \o <<>> /\ IsCalls(<<>>)
      BY <2>1, NothingMore, Remaining, Empty
    <2>4. QED
      BY <2>1, <2>2, <2>3, ClubGoesOn DEF DashStages, BootStages
  <1>3. CASE TeamIdsRead(i)
    <2> DEFINE x == Fetch("teamsGone", <<>>, "goneTeams", calls[i].ans)
               L == IF calls[i].ans = {} THEN <<>> ELSE <<x>>
    <2>1. calls[i].at = "teamIds" /\ calls' = Without(i) \o L /\ UNCHANGED <<screen, club>>
      BY <1>3 DEF TeamIdsRead, GoesOn
    <2>2. IsCalls(L)
      BY CallTyping, Single, Empty
    <2> HIDE DEF L
    <2>3. QED
      BY <2>1, <2>2, GoesOnAs DEF DashStages, ClubStages, BootStages
  <1>4. CASE TeamsGone(i)
    <2> DEFINE gone == IF Replied(i) THEN calls[i].ans ELSE {}
               x == Await("teamsPurged", gone, gone)
               L == IF gone = {} THEN <<>> ELSE <<x>>
    <2>1. calls[i].at = "teamsGone" /\ calls' = Without(i) \o L /\ UNCHANGED <<screen, club>>
      BY <1>4 DEF TeamsGone, GoesOn
    <2>2. IsCalls(L)
      BY CallTyping, Single, Empty
    <2> HIDE DEF L
    <2>3. QED
      BY <2>1, <2>2, GoesOnAs DEF DashStages, ClubStages, BootStages
  <1>5. CASE TeamsPurged(i)
    <2> DEFINE gone == calls[i].ans
               c == [club EXCEPT !.local = {t \in @ : t.id \notin gone},
                                 !.remote = SelectSeq(@, LAMBDA t : t.id \notin gone)]
    <2>1. /\ calls[i].at = "teamsPurged" /\ calls' = Without(i) /\ club' = RenderTeams(c, offline)
          /\ UNCHANGED screen
      BY <1>5 DEF TeamsPurged, GoesOn
    <2>2. NoMore(c)
      BY <1>0 DEF NoMore, ClubFields, NoTeams
    <2> HIDE DEF c
    <2>3. QED
      BY <2>1, <2>2, ClubEnds DEF DashStages, ClubStages, BootStages
  <1>6. CASE TeamSent(i)
    <2> DEFINE t == calls[i].with
               ok == calls[i].ans = "ok"
               state == IF ok THEN "synced" ELSE "error"
               c == Marked(club, {t}, state)
               x == Await("teamClean", t, TRUE)
               L == IF ok THEN <<x>> ELSE <<>>
    <2>1. /\ calls[i].at = "teamSent" /\ calls' = Without(i) \o L
          /\ club' = c \/ club' = RenderTeams(c, offline)
          /\ UNCHANGED screen
      BY <1>6 DEF TeamSent, GoesOn
    <2>2. DOMAIN x = CallFields
      BY DEF Await, CallFields
    <2>3. state # "syncing" /\ calls[i].with = t
      OBVIOUS
    <2> HIDE DEF x, state, t
    <2>4. /\ ClubFields(c) /\ c.fetching = club.fetching /\ c.loading = club.loading
          /\ DOMAIN c.states = {t} \cup DOMAIN club.states
          /\ \A u \in {t} : c.states[u] = state
          /\ \A u \in DOMAIN club.states \ {t} : c.states[u] = club.states[u]
      BY <1>0, MarkedShape
    <2>5. IsCalls(L)
      BY <2>2, Single, Empty
    <2> HIDE DEF c, L
    <2>6. \A u \in DOMAIN c.states : c.states[u] = "syncing" =>
            u # t /\ u \in DOMAIN club.states /\ club.states[u] = "syncing"
      BY <2>3, <2>4
    <2>7. QED
      BY <2>1, <2>3, <2>4, <2>5, <2>6, ClubGoesOn DEF DashStages, BootStages
  <1>7. CASE TeamClean(i)
    <2>1. /\ calls[i].at = "teamClean" /\ calls' = Without(i) /\ club' = RenderTeams(club, offline)
          /\ UNCHANGED screen
      BY <1>7 DEF TeamClean, GoesOn
    <2>2. QED
      BY <1>0, <2>1, ClubEnds DEF NoMore, DashStages, ClubStages, BootStages
  <1>8. ASSUME NEW store, NEW c, LoadTeamsView(c, store, Without(i)),
               calls[i].at \notin DashStages, calls[i].at \notin ClubStages,
               c = club \/ c = [club EXCEPT !.shown = NoTeamShown, !.query = <<>>]
                 \/ c = [club EXCEPT !.dialog = NoTeamShown]
        PROVE  SpinInv'
    <2>1. NoMore(c)
      BY <1>0, <1>8 DEF NoMore, ClubFields, NoTeams
    <2>2. /\ LoadTeamsView(c, store, Without(i))
          /\ calls[i].at \notin DashStages /\ calls[i].at \notin ClubStages
      BY <1>8
    <2>3. ClubSpins(c, Without(i)) /\ IsCalls(Without(i)) /\ DashSpins(dash, Without(i))
      BY <2>1, <2>2, LeftOver DEF ClubSpins, NoMore, ClubFields
    <2>4. QED
      BY <2>2, <2>3, LoadTeamsViewSpins
  <1>9. CASE TeamRead(i)
    <2>1. calls[i].at = "teamRead"
      BY <1>9 DEF TeamRead, GoesOn
    <2>2. CASE calls[i].ans # Absent
      <3>1. /\ club' = [club EXCEPT !.shown = calls[i].ans @@ [id |-> calls[i].with]]
            /\ calls' = Without(i) /\ UNCHANGED screen
        BY <1>9, <2>2 DEF TeamRead
      <3>2. NoMore(club')
        BY <1>0, <3>1 DEF NoMore, ClubFields, NoTeams
      <3>3. QED
        BY <2>1, <3>1, <3>2, ClubEnds DEF DashStages, ClubStages, BootStages
    <2>3. CASE UNCHANGED <<screen, club>> /\ \E with, req, body :
                 calls' = Append(Without(i), Fetch("teamLoaded", with, req, body))
      <3>1. Begins(Without(i))
        BY <2>3, CallTyping DEF Begins
      <3>2. QED
        BY <2>1, <2>3, <3>1, GoesOnApart DEF DashStages, ClubStages, BootStages
    <2>4. CASE LoadTeamsView([club EXCEPT !.shown = NoTeamShown, !.query = <<>>], db, Without(i))
      BY <1>8, <2>1, <2>4 DEF DashStages, ClubStages
    <2>5. QED
      <3>1. CASE calls[i].ans = Absent /\ user # NoUser
        BY <1>9, <2>3, <3>1 DEF TeamRead
      <3>2. CASE calls[i].ans = Absent /\ user = NoUser
        BY <1>9, <2>4, <3>2 DEF TeamRead
      <3>3. QED
        BY <2>2, <3>1, <3>2
  <1>10. CASE TeamLoaded(i)
    <2>1. calls[i].at = "teamLoaded"
      BY <1>10 DEF TeamLoaded, GoesOn
    <2>2. CASE Replied(i)
      <3>1. /\ club' = [club EXCEPT !.shown = calls[i].ans @@ [id |-> calls[i].with]]
            /\ calls' = Without(i) /\ UNCHANGED screen
        BY <1>10, <2>2 DEF TeamLoaded
      <3>2. NoMore(club')
        BY <1>0, <3>1 DEF NoMore, ClubFields, NoTeams
      <3>3. QED
        BY <2>1, <3>1, <3>2, ClubEnds DEF DashStages, ClubStages, BootStages
    <2>3. CASE ~Replied(i)
      <3>1. LoadTeamsView([club EXCEPT !.shown = NoTeamShown, !.query = <<>>], db, Without(i))
        BY <1>10, <2>3 DEF TeamLoaded
      <3>2. QED
        BY <1>8, <2>1, <3>1 DEF DashStages, ClubStages
    <2>4. QED
      BY <2>2, <2>3
  <1>11. CASE TeamDeleted(i)
    <2>1. calls[i].at = "teamDeleted"
      BY <1>11 DEF TeamDeleted, GoesOn
    <2>2. CASE LoadTeamsView(club, db, Without(i))
      BY <1>8, <2>1, <2>2 DEF DashStages, ClubStages
    <2>3. CASE UNCHANGED <<screen, club>> /\ \E with, req, body :
                 calls' = Append(Without(i), Fetch("teamUnlisted", with, req, body))
      <3>1. Begins(Without(i))
        BY <2>3, CallTyping DEF Begins
      <3>2. QED
        BY <2>1, <2>3, <3>1, GoesOnApart DEF DashStages, ClubStages, BootStages
    <2>4. QED
      BY <1>11, <2>2, <2>3 DEF TeamDeleted
  <1>12. CASE TeamUnlisted(i)
    BY <1>8, <1>12 DEF TeamUnlisted, GoesOn, DashStages, ClubStages
  <1>13. CASE TeamSaved(i)
    <2>1. calls[i].at = "teamSaved"
      BY <1>13 DEF TeamSaved, GoesOn
    <2>2. CASE LoadTeamsView([club EXCEPT !.dialog = NoTeamShown], db, Without(i))
      BY <1>8, <2>1, <2>2 DEF DashStages, ClubStages
    <2>3. CASE UNCHANGED <<screen, club>> /\ \E with, req, body :
                 calls' = Append(Without(i), Fetch("teamPushed", with, req, body))
      <3>1. Begins(Without(i))
        BY <2>3, CallTyping DEF Begins
      <3>2. QED
        BY <2>1, <2>3, <3>1, GoesOnApart DEF DashStages, ClubStages, BootStages
    <2>4. QED
      BY <1>13, <2>2, <2>3 DEF TeamSaved
  <1>14. CASE TeamPushed(i)
    BY <1>8, <1>14 DEF TeamPushed, GoesOn, DashStages, ClubStages
  <1>15. QED
    BY <1>1, <1>2, <1>3, <1>4, <1>5, <1>6, <1>7, <1>9, <1>10, <1>11, <1>12, <1>13, <1>14 DEF TeamsGoOn

-----------------------------------------------------------------------------
(* The life of the page.                                                   *)

\* A new page has nothing under way but its own start.
LEMMA StartSpins ==
    ASSUME NEW K, K = <<Fetch("known", <<>>, "whoami", <<>>)>>
    PROVE  /\ IsCalls(K) /\ DashSpins(NoRows, K) /\ ClubSpins(NoTeams, K)
           /\ BootSpins("boot", K)
  <1> DEFINE x == Fetch("known", <<>>, "whoami", <<>>)
  <1>1. DOMAIN x = CallFields /\ x.at = "known"
    BY CallTyping
  <1> HIDE DEF x
  <1>2. K = <<x>>
    BY DEF x
  <1>3. IsCalls(<<x>>) /\ HasOne(<<x>>, BootStages)
    BY <1>1, Single DEF BootStages
  <1>4. DashSpins(NoRows, K)
    BY DEF DashSpins, NoRows
  <1>5. ClubSpins(NoTeams, K)
    <2> DEFINE none == <<>>
    <2>1. DOMAIN none = {}
      OBVIOUS
    <2>2. NoTeams.states = none
      BY DEF NoTeams
    <2>3. /\ NoTeams.limit \in Nat /\ NoTeams.fetching = FALSE /\ NoTeams.loading = FALSE
      BY LimitsAssumption DEF NoTeams
    <2>4. DOMAIN NoTeams.states = {}
      BY <2>1, <2>2
    <2>5. QED
      BY <2>3, <2>4 DEF ClubSpins
  <1>6. QED
    BY <1>2, <1>3, <1>4, <1>5 DEF BootSpins

LEMMA LoadSpins ==
    ASSUME NEW known, NEW store, NEW copies, Load(known, store, copies) PROVE SpinInv'
  <1>1. /\ screen' = "boot" /\ dash' = NoRows /\ club' = NoTeams
        /\ calls' = <<Fetch("known", <<>>, "whoami", <<>>)>>
    BY DEF Load
  <1>2. QED
    BY <1>1, StartSpins DEF SpinInv

LEMMA LandSpins ==
    ASSUME SpinInv, NEW i \in DOMAIN calls, Land(Without(i)),
           calls[i].at \notin DashStages, calls[i].at \notin ClubStages
    PROVE  SpinInv'
  <1>1. CASE LoadDashboard(dash, db, Without(i)) /\ UNCHANGED club
    BY <1>1, OpensList
  <1>2. CASE LoadTeamsView(club, db, Without(i)) /\ UNCHANGED dash
    BY <1>2, LeftOver, LoadTeamsViewSpins
  <1>3. CASE screen' = "profile" /\ calls' = Without(i) /\ UNCHANGED <<dash, club>>
    BY <1>3, Finishes
  <1>4. CASE /\ UNCHANGED <<dash, club, screen>>
             /\ \E with, ans : \/ calls' = Append(Without(i), Await("demo", with, ans))
                              \/ calls' = Append(Without(i), Await("opened", with, ans))
    <2>1. BeginsIn(Without(i), BootStages)
      BY <1>4, CallTyping DEF BeginsIn, BootStages
    <2>2. QED
      BY <1>4, <2>1, BootGoesOn
  <1>5. CASE /\ UNCHANGED <<dash, club>> /\ screen' = "team"
             /\ \E with, ans : calls' = Append(Without(i), Await("teamRead", with, ans))
    <2>1. Begins(Without(i))
      BY <1>5, CallTyping DEF Begins
    <2>2. QED
      BY <1>5, <2>1, GoesOnApart
  <1>6. QED
    BY <1>1, <1>2, <1>3, <1>4, <1>5 DEF Land, Elsewhere

LEMMA ReconcileSpins ==
    ASSUME SpinInv, NEW i \in DOMAIN calls, Reconcile(Without(i)),
           calls[i].at \notin DashStages, calls[i].at \notin ClubStages
    PROVE  SpinInv'
  <1>1. CASE Land(Without(i))
    BY <1>1, LandSpins
  <1>2. CASE /\ UNCHANGED <<dash, club, screen>>
             /\ \E games : calls' = Append(Without(i), Adopt(games))
    <2>1. \A games : DOMAIN Adopt(games) = CallFields /\ Adopt(games).at = "adopt"
      BY DEF Adopt, Await, CallFields
    <2>2. BeginsIn(Without(i), BootStages)
      BY <1>2, <2>1 DEF BeginsIn, BootStages
    <2>3. QED
      BY <1>2, <2>2, BootGoesOn
  <1>3. QED
    BY <1>1, <1>2 DEF Reconcile, Elsewhere

LEMMA SessionClicksSpin == ASSUME SpinInv, SessionClicks PROVE SpinInv'
  <1>1. CASE Reload
    BY <1>1, LoadSpins DEF Reload
  <1>2. CASE Login
    BY <1>2, LoadSpins DEF Login
  <1>3. CASE /\ UNCHANGED <<dash, club, screen>>
             /\ \/ \E at, with, req, body : calls' = Append(calls, Fetch(at, with, req, body))
                \/ \E at, with, ans : calls' = Append(calls, Await(at, with, ans))
    <2>1. Begins(calls)
      BY <1>3, CallTyping DEF Begins
    <2>2. QED
      BY <1>3, <2>1, Starts
  <1>4. CASE DismissDenied
    BY <1>3, <1>4 DEF DismissDenied, Elsewhere
  <1>5. CASE Logout
    BY <1>3, <1>5 DEF Logout, Elsewhere
  <1>6. CASE DeleteAllLocalData
    BY <1>3, <1>6 DEF DeleteAllLocalData, Elsewhere
  <1>7. CASE DeleteAllRemoteData
    BY <1>3, <1>7 DEF DeleteAllRemoteData, Elsewhere
  <1>8. CASE ShowProfile
    BY <1>8, Silent DEF ShowProfile, Elsewhere
  <1>9. QED
    BY <1>1, <1>2, <1>4, <1>5, <1>6, <1>7, <1>8 DEF SessionClicks

LEMMA SessionGoesOnSpins ==
    ASSUME SpinInv, NEW i \in DOMAIN calls, SessionGoesOn(i) PROVE SpinInv'
  <1>1. ASSUME calls[i].at \in BootStages, calls[i].at # "opened", UNCHANGED <<dash, club, screen>>,
               \/ \E at \in BootStages : \E with, req, body :
                     calls' = Append(Without(i), Fetch(at, with, req, body))
               \/ \E at \in BootStages : \E with, ans : calls' = Append(Without(i), Await(at, with, ans))
        PROVE  SpinInv'
    <2>1. BeginsIn(Without(i), BootStages)
      BY <1>1, CallTyping DEF BeginsIn
    <2>2. calls[i].at \notin DashStages /\ calls[i].at \notin ClubStages
      BY <1>1 DEF DashStages, ClubStages, BootStages
    <2>3. QED
      BY <1>1, <2>1, <2>2, BootGoesOn
  <1>2. CASE Known(i)
    <2>1. calls[i].at = "known"
      BY <1>2 DEF Known, GoesOn
    <2>2. CASE Replied(i)
      BY <1>1, <1>2, <2>1, <2>2 DEF Known, Elsewhere, BootStages
    <2>3. CASE Reconcile(Without(i))
      BY <2>1, <2>3, ReconcileSpins DEF DashStages, ClubStages
    <2>4. QED
      BY <1>2, <2>2, <2>3 DEF Known
  <1>3. CASE Allowed(i)
    <2>1. calls[i].at = "allowed"
      BY <1>3 DEF Allowed, GoesOn
    <2>2. CASE calls' = Without(i) /\ screen' = "denied" /\ Elsewhere
      BY <2>1, <2>2, Finishes DEF DashStages, ClubStages, Elsewhere
    <2>3. CASE Reconcile(Without(i))
      BY <2>1, <2>3, ReconcileSpins DEF DashStages, ClubStages
    <2>4. QED
      BY <1>3, <2>2, <2>3 DEF Allowed
  <1>4. CASE AdoptGame(i)
    BY <1>1, <1>4 DEF AdoptGame, GoesOn, Elsewhere, BootStages
  <1>5. CASE AdoptTeam(i)
    <2>1. calls[i].at = "adoptTeams"
      BY <1>5 DEF AdoptTeam, GoesOn
    <2>2. CASE Land(Without(i))
      BY <2>1, <2>2, LandSpins DEF DashStages, ClubStages
    <2>3. CASE calls[i].with # <<>>
      BY <1>1, <1>5, <2>1, <2>3 DEF AdoptTeam, Elsewhere, BootStages
    <2>4. QED
      BY <1>5, <2>2, <2>3 DEF AdoptTeam
  <1>6. CASE TeamAdopted(i)
    BY <1>1, <1>6 DEF TeamAdopted, GoesOn, Elsewhere, BootStages
  <1>7. CASE TeamOffered(i)
    BY <1>1, <1>7 DEF TeamOffered, GoesOn, Elsewhere, BootStages
  <1>8. CASE DemoRead(i)
    BY <1>1, <1>8 DEF DemoRead, GoesOn, Elsewhere, BootStages
  <1>9. CASE DemoFetched(i)
    BY <1>1, <1>9 DEF DemoFetched, GoesOn, Elsewhere, BootStages
  <1>10. CASE SignedOut(i)
    BY <1>10, LoadSpins DEF SignedOut
  <1>11. CASE Wiped(i)
    BY <1>11, LoadSpins DEF Wiped
  <1>12. CASE AllDeleted(i)
    <2>1. /\ calls[i].at = "allDeleted" /\ UNCHANGED <<dash, club, screen>>
          /\ \/ calls' = Without(i)
             \/ \E with, req, body : calls' = Append(Without(i), Fetch("signedOut", with, req, body))
      BY <1>12 DEF AllDeleted, GoesOn, Elsewhere
    <2>2. calls' = Without(i) \/ Begins(Without(i))
      BY <2>1, CallTyping DEF Begins
    <2>3. QED
      BY <2>1, <2>2, Finishes, GoesOnApart DEF DashStages, ClubStages, BootStages
  <1>13. QED
    BY <1>2, <1>3, <1>4, <1>5, <1>6, <1>7, <1>8, <1>9, <1>10, <1>11, <1>12 DEF SessionGoesOn

-----------------------------------------------------------------------------
(* Backups, answers and the rest of the world.                             *)

LEMMA BackupCalls ==
    \A job : DOMAIN Gather(job) = CallFields /\ DOMAIN NextGame(job) = CallFields
  BY DEF Gather, NextGame, Await, CallFields

LEMMA BackupClicksSpin == ASSUME SpinInv, BackupClicks PROVE SpinInv'
  <1>1. UNCHANGED <<screen, dash, club>>
    BY DEF BackupClicks, StartBackup, FileDamaged, OpenRestoreModal, HandleRestoreFileSelect,
           ToggleRestoreItem, ToggleRestoreSelection, StartRestore, rest
  <1>2. UNCHANGED calls \/ \E at, with, ans : calls' = Append(calls, Await(at, with, ans))
    BY DEF BackupClicks, StartBackup, FileDamaged, OpenRestoreModal, HandleRestoreFileSelect,
           ToggleRestoreItem, ToggleRestoreSelection, StartRestore
  <1>3. UNCHANGED calls \/ Begins(calls)
    BY <1>2, CallTyping DEF Begins
  <1>4. QED
    BY <1>1, <1>3, Starts, Silent

LEMMA BackupGoesOnSpins ==
    ASSUME SpinInv, NEW i \in DOMAIN calls, BackupGoesOn(i) PROVE SpinInv'
  <1>1. ASSUME calls[i].at \in {"backup", "moreTeams", "listed", "moreGames", "copied", "fetched",
                                "written", "scanned", "restoring"},
               UNCHANGED <<screen, dash, club>>,
               \/ calls' = Without(i)
               \/ \E job : \/ calls' = Append(Without(i), Gather(job))
                           \/ calls' = Append(Without(i), NextGame(job))
               \/ \E at, with, req, body : calls' = Append(Without(i), Fetch(at, with, req, body))
               \/ \E at, with, ans : calls' = Append(Without(i), Await(at, with, ans))
        PROVE  SpinInv'
    <2>1. ASSUME \E job : \/ calls' = Append(Without(i), Gather(job))
                        \/ calls' = Append(Without(i), NextGame(job))
          PROVE  Begins(Without(i))
      BY <2>1, BackupCalls DEF Begins
    <2>2. ASSUME \/ \E at, with, req, body : calls' = Append(Without(i), Fetch(at, with, req, body))
                 \/ \E at, with, ans : calls' = Append(Without(i), Await(at, with, ans))
          PROVE  Begins(Without(i))
      BY <2>2, CallTyping DEF Begins
    <2>3. calls' = Without(i) \/ Begins(Without(i))
      BY <1>1, <2>1, <2>2
    <2>4. QED
      BY <1>1, <2>3, Finishes, GoesOnApart DEF DashStages, ClubStages, BootStages
  <1>2. CASE BackupTeams(i)
    BY <1>1, <1>2 DEF BackupTeams, GoesOn, rest
  <1>3. CASE MoreTeams(i)
    BY <1>1, <1>3 DEF MoreTeams, GoesOn, rest
  <1>4. CASE BackupGames(i)
    BY <1>1, <1>4 DEF BackupGames, GoesOn, rest
  <1>5. CASE MoreGames(i)
    BY <1>1, <1>5 DEF MoreGames, GoesOn, rest
  <1>6. CASE CopyGame(i)
    BY <1>1, <1>6 DEF CopyGame, GoesOn, rest
  <1>7. CASE FetchGame(i)
    BY <1>1, <1>7 DEF FetchGame, GoesOn, rest
  <1>8. CASE BackupWritten(i)
    BY <1>1, <1>8 DEF BackupWritten, GoesOn, rest
  <1>9. CASE Scanned(i)
    BY <1>1, <1>9 DEF Scanned, GoesOn, rest
  <1>10. CASE RestoreLine(i)
    BY <1>1, <1>10 DEF RestoreLine, GoesOn
  <1>11. CASE RestoreEnds(i)
    BY <1>11, OpensList DEF RestoreEnds, GoesOn, DashStages, ClubStages
  <1>12. QED
    BY <1>2, <1>3, <1>4, <1>5, <1>6, <1>7, <1>8, <1>9, <1>10, <1>11 DEF BackupGoesOn

\* An answer, or its loss, leaves every function where it is.
LEMMA AnswersSpin ==
    ASSUME SpinInv, NEW i \in DOMAIN calls, NEW answer,
           calls' = [calls EXCEPT ![i].ans = answer], UNCHANGED <<screen, dash, club>>
    PROVE  SpinInv'
  <1> DEFINE L == [calls EXCEPT ![i].ans = answer]
  <1>1. /\ calls \in Seq(ToSet(calls)) /\ Len(calls) \in Nat /\ DOMAIN calls = 1..Len(calls)
        /\ \A j \in 1..Len(calls) : DOMAIN calls[j] = CallFields
    BY DEF SpinInv, IsCalls
  <1>2. /\ DOMAIN L = 1..Len(calls) /\ L = [j \in 1..Len(calls) |-> L[j]]
    BY <1>1
  <1>3. ASSUME NEW j \in 1..Len(calls)
        PROVE  DOMAIN L[j] = CallFields /\ L[j].at = calls[j].at /\ L[j].with = calls[j].with
    <2>1. CASE j = i
      <3> DEFINE r == calls[i]
                 s == [r EXCEPT !.ans = answer]
      <3>1. L[j] = s
        BY <2>1
      <3>2. DOMAIN r = CallFields
        BY <1>1, <2>1
      <3> HIDE DEF r
      <3>3. DOMAIN s = CallFields /\ s.at = r.at /\ s.with = r.with
        BY <3>2 DEF CallFields
      <3>4. QED
        BY <2>1, <3>1, <3>3 DEF r
    <2>2. CASE j # i
      BY <1>1, <2>2
    <2>3. QED
      BY <2>1, <2>2
  <1> HIDE DEF L
  <1>4. L \in Seq(ToSet(L)) /\ Len(L) = Len(calls)
    BY <1>1, <1>2, IsSeq
  <1>5. IsCalls(L) /\ KeepsBut(calls, L, 0)
    BY <1>3, <1>4 DEF IsCalls, KeepsBut
  <1>6. calls' = L /\ 0 \notin 1..Len(calls)
    BY <1>1 DEF L
  <1>7. DashSpins(dash, L) /\ ClubSpins(club, L) /\ BootSpins(screen, L)
    BY <1>5, <1>6, DashKept, ClubKept, BootKept DEF SpinInv
  <1>8. QED
    BY <1>5, <1>6, <1>7 DEF SpinInv

LEMMA WorldSpins == ASSUME SpinInv, World PROVE SpinInv'
  <1>1. UNCHANGED <<screen, dash, club>>
    BY DEF World
  <1>2. UNCHANGED calls
    BY DEF World, OtherEdits, OtherCreates, OtherDeletes, OtherRevokes, OtherEditsTeam,
           OtherDeletesTeam, Other, SessionEnds, BackOnline
  <1>3. QED
    BY <1>1, <1>2, Silent

-----------------------------------------------------------------------------
(* Behind everything that spins there is a function under way.             *)

LEMMA SpinInit == ASSUME Init PROVE SpinInv
  <1>1. /\ screen = "boot" /\ dash = NoRows /\ club = NoTeams
        /\ calls = <<Fetch("known", <<>>, "whoami", <<>>)>>
    BY DEF Init
  <1>2. QED
    BY <1>1, StartSpins DEF SpinInv

LEMMA ClicksSpin == ASSUME SpinInv, Clicks PROVE SpinInv'
  <1>1. CASE DashboardClicks /\ UNCHANGED club
    BY <1>1, DashboardClicksSpin
  <1>2. CASE SearchClicks /\ UNCHANGED club
    BY <1>2, SearchClicksSpin
  <1>3. CASE TeamSearchClicks
    <2>1. UNCHANGED dash
      BY <1>3 DEF TeamSearchClicks, SearchTeams, SearchTeamsFor, ToggleTeamsSearch, StoreOnly, others
    <2>2. QED
      BY <1>3, <2>1, TeamSearchClicksSpin
  <1>4. CASE GameClicks /\ UNCHANGED club
    BY <1>4, GameClicksSpin
  <1>5. CASE TeamClicks /\ UNCHANGED dash
    BY <1>5, TeamClicksSpin
  <1>6. CASE SessionClicks
    BY <1>6, SessionClicksSpin
  <1>7. CASE BackupClicks
    BY <1>7, BackupClicksSpin
  <1>8. QED
    BY <1>1, <1>2, <1>3, <1>4, <1>5, <1>6, <1>7 DEF Clicks

LEMMA GoOnSpins == ASSUME SpinInv, NEW i \in DOMAIN calls, GoOn(i) PROVE SpinInv'
  <1>1. CASE DashboardGoesOn(i) /\ UNCHANGED club
    BY <1>1, DashboardGoesOnSpins
  <1>2. CASE GameGoesOn(i) /\ UNCHANGED club
    BY <1>2, GameGoesOnSpins
  <1>3. CASE TeamsGoOn(i)
    <2>1. UNCHANGED dash
      BY <1>3 DEF TeamsGoOn, LocalTeamsRead, TeamsFetched, TeamIdsRead, TeamsGone, TeamsPurged,
                  TeamSent, TeamClean, TeamRead, TeamLoaded, TeamDeleted, TeamUnlisted, TeamSaved,
                  TeamPushed, StoreOnly, others
    <2>2. QED
      BY <1>3, <2>1, TeamsGoOnSpins
  <1>4. CASE SessionGoesOn(i)
    BY <1>4, SessionGoesOnSpins
  <1>5. CASE BackupGoesOn(i)
    BY <1>5, BackupGoesOnSpins
  <1>6. QED
    BY <1>1, <1>2, <1>3, <1>4, <1>5 DEF GoOn

LEMMA SpinStep == ASSUME SpinInv, [Next]_vars PROVE SpinInv'
  <1>1. CASE Clicks
    BY <1>1, ClicksSpin
  <1>2. ASSUME NEW i \in DOMAIN calls, GoOn(i) PROVE SpinInv'
    BY <1>2, GoOnSpins
  <1>3. ASSUME NEW i \in DOMAIN calls, Answers(i) PROVE SpinInv'
    <2>1. UNCHANGED <<screen, dash, club>>
      BY <1>3 DEF Answers
    <2>2. \E answer : calls' = [calls EXCEPT ![i].ans = answer]
      BY <1>3 DEF Answers, Serve, Lose
    <2>3. QED
      BY <2>1, <2>2, AnswersSpin
  <1>4. CASE Moves
    BY <1>4, GameMovesSpin DEF Moves
  <1>5. CASE World
    BY <1>5, WorldSpins
  <1>6. CASE UNCHANGED <<lib, screen, dash, board, club, vault, visits, raced>>
    BY <1>6, Silent DEF lib
  <1>7. CASE UNCHANGED vars
    BY <1>7, Silent DEF vars, lib
  <1>8. QED
    BY <1>1, <1>2, <1>3, <1>4, <1>5, <1>6, <1>7 DEF Next

(* Nothing spins for ever: whatever is clicked, fails, is lost or overtakes *)
(* it, behind a list that is being read or fetched, a team that is being    *)
(* sent and a page that is starting there is a function under way, which    *)
(* every path through the controllers takes down with its flag.             *)
THEOREM NothingSpinsAlone == Spec => []SpinnersEnd
  <1>1. Init => SpinInv
    BY SpinInit
  <1>2. SpinInv /\ [Next]_vars => SpinInv'
    BY SpinStep
  <1>3. SpinInv => SpinnersEnd
    BY SpinInvShows
  <1>4. QED
    BY <1>1, <1>2, <1>3, PTL DEF Spec

-----------------------------------------------------------------------------
(* The lineup dialog: nobody is in the lists twice.                        *)

Names == {"", "named", "typed"}
Person == [id : Nat, name : Names]
SlotOf == [starter : Person, current : Person, history : Seq(Person)]

\* Lists of starters and of substitutes, with every id once and below n.
OneEach(a, b) ==
    /\ \A j \in 1..Len(a) : \A k \in 1..Len(a) : a[j].id = a[k].id => j = k
    /\ \A j \in 1..Len(b) : \A k \in 1..Len(b) : b[j].id = b[k].id => j = k
    /\ \A j \in 1..Len(a) : \A k \in 1..Len(b) : a[j].id # b[k].id
Under(n) == {p \in Person : p.id < n}
Below(a, n) == \A k \in 1..Len(a) : a[k] \in Under(n)
IsLists(a, b, n) == /\ a \in Seq(Person) /\ b \in Seq(Person)
                    /\ OneEach(a, b) /\ Below(a, n) /\ Below(b, n)

StartersOf(roster) == [k \in 1..Len(roster) |-> roster[k].starter]
IsSheet(s, n) == /\ DOMAIN s = {"roster", "subs"} /\ s.roster \in Seq(SlotOf)
                 /\ IsLists(StartersOf(s.roster), s.subs, n)

\* The dialog while it is open: the rows as many as the players.
IsOpen(l) ==
    /\ IsLists(l.starters, l.subs, l.next)
    /\ DOMAIN l.rows = {"starters", "subs"} /\ IsLists(l.rows.starters, l.rows.subs, l.next)
    /\ Len(l.rows.starters) = Len(l.starters) /\ Len(l.rows.subs) = Len(l.subs)
    /\ l.dragged # <<>> => /\ l.dragged[1] \in Types
                           /\ l.dragged[2] \in 1..Len(Group(l, l.dragged[1]))

LineupFields == {"phase", "read", "starters", "subs", "rows", "dragged", "next"}
IsFresh(l) == DOMAIN l = LineupFields /\ l.next \in Nat /\ l.next >= 100
IsDialog(l) == /\ IsFresh(l)
               /\ l.phase = "opening" => IsSheet(l.read, l.next)
               /\ l.phase = "open" => IsOpen(l)
               /\ l.phase # "open" => l.dragged = <<>>
LineupInv == IsDialog(lineup) /\ IsSheet(sheet, lineup.next)

-----------------------------------------------------------------------------
(* The lists the dialog is made from.                                      *)

\* A set that holds 0 and the successor of every member holds Nat.
LEMMA SetInduction ==
    ASSUME NEW S, 0 \in S, \A n \in Nat : n \in S => n + 1 \in S
    PROVE  \A n \in Nat : n \in S
  <1> DEFINE T == {n \in Nat : n \notin S}
             R == OpToRel(<, Nat)
  <1>1. IsWellFoundedOn(R, Nat)
    BY NatLessThanWellFounded
  <1> SUFFICES ASSUME T # {} PROVE FALSE
    OBVIOUS
  <1>2. \A x, y \in Nat : y < x => <<y, x>> \in R
    BY DEF OpToRel
  <1> HIDE DEF R
  <1>3. PICK x \in T : \A y \in T : ~(<<y, x>> \in R)
    <2>1. T \subseteq Nat
      OBVIOUS
    <2>2. QED
      BY <1>1, <2>1, WFMin
  <1>4. x # 0 /\ x - 1 \in Nat
    OBVIOUS
  <1>5. x - 1 \in T
    BY <1>4
  <1>6. <<x - 1, x>> \in R
    BY <1>2, <1>4
  <1>7. QED
    BY <1>3, <1>5, <1>6

\* The recursive function that Among chooses.
OneMore(s, list, set, n) == IF list[n] \in set THEN Append(s, list[n]) ELSE s
IsAmong(f, list, set, m) ==
    f = [n \in 0..m |-> IF n = 0 THEN <<>> ELSE OneMore(f[n - 1], list, set, n)]

LEMMA AmongExists ==
    ASSUME NEW list, NEW set
    PROVE  \A m \in Nat : \E f : IsAmong(f, list, set, m)
  <1> DEFINE S == {m \in Nat : \E f : IsAmong(f, list, set, m)}
  <1>1. 0 \in S
    <2> DEFINE f == [n \in 0..0 |-> <<>>]
    <2>1. IsAmong(f, list, set, 0)
      BY DEF IsAmong
    <2>2. QED
      BY <2>1
  <1>2. ASSUME NEW m \in Nat, m \in S PROVE m + 1 \in S
    <2>1. PICK f : IsAmong(f, list, set, m)
      BY <1>2
    <2> DEFINE e == OneMore(f[m], list, set, m + 1)
               h == [n \in 0..m + 1 |-> IF n = m + 1 THEN e ELSE f[n]]
    <2>2. /\ f[0] = <<>>
          /\ \A n \in 1..m : f[n] = OneMore(f[n - 1], list, set, n)
      BY <2>1 DEF IsAmong
    <2> HIDE DEF e
    <2>3. /\ h[0] = <<>> /\ h[m + 1] = e /\ h[m] = f[m]
          /\ \A n \in 1..m : h[n] = f[n] /\ h[n - 1] = f[n - 1]
      BY <2>2
    <2>4. h = [n \in 0..m + 1 |-> h[n]]
      OBVIOUS
    <2> HIDE DEF h
    <2>5. h[m + 1] = OneMore(h[m + 1 - 1], list, set, m + 1)
      BY <2>3 DEF e
    <2>6. \A n \in 0..m + 1 :
            h[n] = IF n = 0 THEN <<>> ELSE OneMore(h[n - 1], list, set, n)
      <3>1. \A n \in 0..m + 1 : n = 0 \/ n \in 1..m \/ n = m + 1
        OBVIOUS
      <3>2. QED
        BY <2>2, <2>3, <2>5, <3>1
    <2>7. IsAmong(h, list, set, m + 1)
      BY <2>4, <2>6 DEF IsAmong
    <2>8. QED
      BY <2>7
  <1> HIDE DEF S
  <1>3. \A m \in Nat : m \in S
    BY <1>1, <1>2, SetInduction
  <1>4. QED
    BY <1>3 DEF S

\* All of s is in list, as far as n; nothing twice if list has nothing twice.
IsPartOf(s, list, set, n) ==
    /\ s \in Seq(set)
    /\ \A j \in 1..Len(s) : \E i \in 1..n : s[j] = list[i]
    /\ IsInjective(list) => \A j \in 1..Len(s) : \A k \in 1..Len(s) : s[j] = s[k] => j = k

LEMMA PartMore ==
    ASSUME NEW X, NEW list \in Seq(X), NEW set, NEW n \in Nat, n < Len(list),
           NEW s, IsPartOf(s, list, set, n), NEW e, e = list[n + 1]
    PROVE  /\ IsPartOf(s, list, set, n + 1)
           /\ e \in set => IsPartOf(Append(s, e), list, set, n + 1)
  <1>1. IsPartOf(s, list, set, n + 1)
    BY DEF IsPartOf
  <1>2. ASSUME e \in set PROVE IsPartOf(Append(s, e), list, set, n + 1)
    <2> DEFINE t == Append(s, e)
    <2>1. s \in Seq(set) /\ \A j \in 1..Len(s) : \E i \in 1..n : s[j] = list[i]
      BY DEF IsPartOf
    <2>2. /\ t \in Seq(set) /\ Len(s) \in Nat /\ Len(t) = Len(s) + 1 /\ t[Len(s) + 1] = e
          /\ \A j \in 1..Len(s) : t[j] = s[j]
      BY <1>2, <2>1
    <2> HIDE DEF t
    <2>3. \A j \in 1..Len(t) : j \in 1..Len(s) \/ j = Len(s) + 1
      BY <2>2
    <2>4. \A j \in 1..Len(t) : \E i \in 1..n + 1 : t[j] = list[i]
      <3>1. n + 1 \in 1..n + 1 /\ \A i \in 1..n : i \in 1..n + 1
        OBVIOUS
      <3>2. QED
        BY <2>1, <2>2, <2>3, <3>1
    <2>5. ASSUME IsInjective(list)
          PROVE  \A j \in 1..Len(t) : \A k \in 1..Len(t) : t[j] = t[k] => j = k
      <3>1. DOMAIN list = 1..Len(list) /\ n + 1 \in 1..Len(list) /\ \A i \in 1..n : i \in 1..Len(list) /\ i # n + 1
        OBVIOUS
      <3>2. \A j \in 1..Len(s) : s[j] # e
        BY <2>1, <2>5, <3>1 DEF IsInjective
      <3>3. \A j \in 1..Len(s) : \A k \in 1..Len(s) : s[j] = s[k] => j = k
        BY <2>5 DEF IsPartOf
      <3>4. QED
        BY <2>2, <2>3, <3>2, <3>3
    <2>6. QED
      BY <2>2, <2>4, <2>5 DEF IsPartOf, t
  <1>3. QED
    BY <1>1, <1>2

\* What Among returns.
LEMMA AmongIs ==
    ASSUME NEW X, NEW list \in Seq(X), NEW set
    PROVE  IsPartOf(Among(list, set), list, set, Len(list))
  <1> DEFINE m == Len(list)
             f == CHOOSE f : IsAmong(f, list, set, m)
             S == {n \in Nat : n <= m => IsPartOf(f[n], list, set, n)}
  <1>1. IsAmong(f, list, set, m)
    BY AmongExists
  <1>2. Among(list, set) = f[m]
    BY DEF Among, IsAmong, OneMore
  <1> HIDE DEF f
  <1>3. /\ f[0] = <<>>
        /\ \A n \in 1..m : f[n] = OneMore(f[n - 1], list, set, n)
    BY <1>1 DEF IsAmong
  <1>4. 0 \in S
    <2>1. IsPartOf(<<>>, list, set, 0)
      BY DEF IsPartOf
    <2>2. QED
      BY <1>3, <2>1
  <1>5. ASSUME NEW n \in Nat, n \in S PROVE n + 1 \in S
    <2> SUFFICES ASSUME n + 1 <= m PROVE IsPartOf(f[n + 1], list, set, n + 1)
      OBVIOUS
    <2> DEFINE s == f[n]
               e == list[n + 1]
    <2>1. IsPartOf(s, list, set, n) /\ n < m
      BY <1>5
    <2>2. f[n + 1] = IF e \in set THEN Append(s, e) ELSE s
      <3>1. n + 1 \in 1..m /\ n + 1 - 1 = n
        OBVIOUS
      <3>2. f[n + 1] = OneMore(f[n], list, set, n + 1)
        BY <1>3, <3>1
      <3>3. QED
        BY <3>2 DEF OneMore
    <2> HIDE DEF s
    <2>3. QED
      BY <2>1, <2>2, PartMore
  <1> HIDE DEF S
  <1>6. \A n \in Nat : n \in S
    BY <1>4, <1>5, SetInduction
  <1>7. QED
    BY <1>2, <1>6 DEF S

-----------------------------------------------------------------------------
(* The lists while they are edited: nobody comes twice.                    *)

\* e is in neither list.
IsNew(e, a, b) == /\ \A j \in 1..Len(a) : a[j].id # e.id
                  /\ \A j \in 1..Len(b) : b[j].id # e.id

LEMMA ListsEither ==
    ASSUME NEW a, NEW b, NEW n
    PROVE  /\ IsLists(a, b, n) => IsLists(b, a, n)
           /\ \A e : IsNew(e, a, b) => IsNew(e, b, a)
  BY DEF IsLists, OneEach, IsNew

LEMMA ListsBelow ==
    ASSUME NEW a, NEW b, NEW n \in Nat, NEW m \in Nat, n <= m, IsLists(a, b, n)
    PROVE  IsLists(a, b, m) /\ \A e : e.id = n => IsNew(e, a, b)
  <1>1. /\ \A j \in 1..Len(a) : a[j] \in Person /\ a[j].id < n
        /\ \A j \in 1..Len(b) : b[j] \in Person /\ b[j].id < n
    BY DEF IsLists, Below, Under
  <1>2. \A p \in Person : p.id \in Nat
    BY DEF Person
  <1>3. IsLists(a, b, m)
    BY <1>1, <1>2 DEF IsLists, Below, Under
  <1>4. QED
    BY <1>1, <1>2, <1>3 DEF IsNew

\* The row at i taken out.
LEMMA ListsLess ==
    ASSUME NEW a, NEW b, NEW n \in Nat, IsLists(a, b, n), NEW i \in 1..Len(a)
    PROVE  LET r == RemoveAt(a, i)
           IN /\ IsLists(r, b, n) /\ Len(r) = Len(a) - 1
              /\ a[i] \in Person /\ a[i].id < n /\ IsNew(a[i], r, b)
  <1> DEFINE r == RemoveAt(a, i)
             m == Len(a)
  <1>1. a \in Seq(Person) /\ m \in Nat /\ i \in 1..m
    BY DEF IsLists
  <1>2. r \in Seq(Person) /\ Len(r) = m - 1 /\ \A j \in 1..m - 1 : r[j] = IF j < i THEN a[j] ELSE a[j + 1]
    <2> DEFINE u == SubSeq(a, 1, i - 1)
               v == SubSeq(a, i + 1, m)
    <2>1. u \in Seq(Person) /\ Len(u) = i - 1 /\ \A j \in 1..i - 1 : u[j] = a[j]
      BY <1>1
    <2>2. v \in Seq(Person) /\ Len(v) = m - i /\ \A j \in 1..m - i : v[j] = a[i + j]
      BY <1>1
    <2>3. r = u \o v
      BY DEF RemoveAt
    <2> HIDE DEF u, v, r
    <2>4. r \in Seq(Person) /\ Len(r) = m - 1
      BY <1>1, <2>1, <2>2, <2>3
    <2>5. ASSUME NEW j \in 1..m - 1 PROVE r[j] = IF j < i THEN a[j] ELSE a[j + 1]
      <3>1. j < i => r[j] = u[j]
        BY <1>1, <2>1, <2>2, <2>3
      <3>2. ~(j < i) => r[j] = v[j - (i - 1)] /\ j - (i - 1) \in 1..m - i /\ i + (j - (i - 1)) = j + 1
        BY <1>1, <2>1, <2>2, <2>3
      <3>3. ~(j < i) => r[j] = a[j + 1]
        BY <2>2, <3>2
      <3>4. QED
        BY <1>1, <2>1, <3>1, <3>3
    <2>6. QED
      BY <2>4, <2>5
  <1> HIDE DEF r
  <1>3. \A j \in 1..Len(r) : \E k \in 1..m : r[j] = a[k] /\ k # i /\ k = IF j < i THEN j ELSE j + 1
    <2> SUFFICES ASSUME NEW j \in 1..m - 1
                 PROVE  \E k \in 1..m : r[j] = a[k] /\ k # i /\ k = IF j < i THEN j ELSE j + 1
      BY <1>2
    <2>1. CASE j < i
      BY <1>1, <1>2, <2>1
    <2>2. CASE ~(j < i)
      <3>1. j + 1 \in 1..m /\ j + 1 # i /\ r[j] = a[j + 1]
        BY <1>1, <1>2, <2>2
      <3>2. QED
        BY <2>2, <3>1
    <2>3. QED
      BY <2>1, <2>2
  <1>4. /\ \A j \in 1..m : \A k \in 1..m : a[j].id = a[k].id => j = k
        /\ \A j \in 1..Len(b) : \A k \in 1..Len(b) : b[j].id = b[k].id => j = k
        /\ \A j \in 1..m : \A k \in 1..Len(b) : a[j].id # b[k].id
        /\ b \in Seq(Person) /\ Below(b, n)
        /\ \A j \in 1..m : a[j] \in Under(n)
    BY DEF IsLists, OneEach, Below
  <1> HIDE DEF m
  <1>5. \A j \in 1..Len(r) : \A k \in 1..Len(r) : r[j].id = r[k].id => j = k
    <2> SUFFICES ASSUME NEW j \in 1..Len(r), NEW k \in 1..Len(r), r[j].id = r[k].id PROVE j = k
      OBVIOUS
    <2>1. PICK x \in 1..m : r[j] = a[x] /\ x = IF j < i THEN j ELSE j + 1
      BY <1>3
    <2>2. PICK y \in 1..m : r[k] = a[y] /\ y = IF k < i THEN k ELSE k + 1
      BY <1>3
    <2>3. x = y
      BY <1>4, <2>1, <2>2
    <2>4. j \in Nat /\ k \in Nat /\ i \in Nat
      BY <1>1, <1>2
    <2>5. QED
      BY <2>1, <2>2, <2>3, <2>4
  <1>6. /\ \A j \in 1..Len(r) : \A k \in 1..Len(b) : r[j].id # b[k].id
        /\ \A j \in 1..Len(r) : r[j] \in Under(n)
        /\ \A j \in 1..Len(r) : r[j].id # a[i].id
    <2>1. ASSUME NEW j \in 1..Len(r) PROVE \E k \in 1..m : r[j] = a[k] /\ k # i
      BY <1>3
    <2>2. ASSUME NEW j \in 1..Len(r), NEW k \in 1..Len(b) PROVE r[j].id # b[k].id
      BY <1>4, <2>1
    <2>3. ASSUME NEW j \in 1..Len(r) PROVE r[j] \in Under(n)
      BY <1>4, <2>1
    <2>4. ASSUME NEW j \in 1..Len(r) PROVE r[j].id # a[i].id
      BY <1>1, <1>4, <2>1
    <2>5. QED
      BY <2>2, <2>3, <2>4
  <1>7. IsLists(r, b, n)
    BY <1>2, <1>4, <1>5, <1>6 DEF IsLists, OneEach, Below
  <1>8. IsNew(a[i], r, b)
    BY <1>1, <1>4, <1>6 DEF IsNew
  <1>9. QED
    BY <1>1, <1>2, <1>4, <1>7, <1>8 DEF r, m, Under

\* A new player put in at i.
LEMMA ListsMore ==
    ASSUME NEW a, NEW b, NEW n \in Nat, IsLists(a, b, n), NEW e \in Person, e.id < n,
           IsNew(e, a, b), NEW i \in 1..Len(a) + 1
    PROVE  IsLists(InsertAt(a, i, e), b, n) /\ Len(InsertAt(a, i, e)) = Len(a) + 1
  <1> DEFINE r == InsertAt(a, i, e)
             m == Len(a)
  <1>1. a \in Seq(Person) /\ m \in Nat /\ i \in 1..m + 1
    BY DEF IsLists
  <1>2. /\ r \in Seq(Person) /\ Len(r) = m + 1
        /\ \A j \in 1..m + 1 : r[j] = IF j < i THEN a[j] ELSE IF j = i THEN e ELSE a[j - 1]
    <2> DEFINE u == SubSeq(a, 1, i - 1)
               v == SubSeq(a, i, m)
               w == u \o <<e>>
    <2>1. u \in Seq(Person) /\ Len(u) = i - 1 /\ \A j \in 1..i - 1 : u[j] = a[j]
      BY <1>1
    <2>2. v \in Seq(Person) /\ Len(v) = m + 1 - i /\ \A j \in 1..m + 1 - i : v[j] = a[i + j - 1]
      BY <1>1
    <2>3. r = w \o v
      BY DEF InsertAt
    <2> HIDE DEF u, v, r
    <2>4. w \in Seq(Person) /\ Len(w) = i /\ w[i] = e /\ \A j \in 1..i - 1 : w[j] = a[j]
      BY <1>1, <2>1
    <2> HIDE DEF w
    <2>5. r \in Seq(Person) /\ Len(r) = m + 1
      BY <1>1, <2>2, <2>3, <2>4
    <2>6. ASSUME NEW j \in 1..m + 1
          PROVE  r[j] = IF j < i THEN a[j] ELSE IF j = i THEN e ELSE a[j - 1]
      <3>1. j <= i => r[j] = w[j]
        BY <1>1, <2>2, <2>3, <2>4
      <3>2. j > i => r[j] = v[j - i] /\ j - i \in 1..m + 1 - i /\ i + (j - i) - 1 = j - 1
        BY <1>1, <2>2, <2>3, <2>4
      <3>3. j > i => r[j] = a[j - 1]
        BY <2>2, <3>2
      <3>4. QED
        BY <1>1, <2>4, <3>1, <3>3
    <2>7. QED
      BY <2>5, <2>6
  <1> HIDE DEF r
  <1>3. \A j \in 1..Len(r) : j # i => \E k \in 1..m : r[j] = a[k] /\ k = IF j < i THEN j ELSE j - 1
    <2> SUFFICES ASSUME NEW j \in 1..m + 1, j # i
                 PROVE  \E k \in 1..m : r[j] = a[k] /\ k = IF j < i THEN j ELSE j - 1
      BY <1>2
    <2>1. CASE j < i
      BY <1>1, <1>2, <2>1
    <2>2. CASE ~(j < i)
      <3>1. j - 1 \in 1..m /\ r[j] = a[j - 1]
        BY <1>1, <1>2, <2>2
      <3>2. QED
        BY <2>2, <3>1
    <2>3. QED
      BY <2>1, <2>2
  <1>4. /\ \A j \in 1..m : \A k \in 1..m : a[j].id = a[k].id => j = k
        /\ \A j \in 1..Len(b) : \A k \in 1..Len(b) : b[j].id = b[k].id => j = k
        /\ \A j \in 1..m : \A k \in 1..Len(b) : a[j].id # b[k].id
        /\ b \in Seq(Person) /\ Below(b, n)
        /\ \A j \in 1..m : a[j] \in Under(n) /\ a[j].id # e.id
        /\ \A k \in 1..Len(b) : b[k].id # e.id
    BY DEF IsLists, OneEach, Below, IsNew
  <1>5. i \in 1..Len(r) /\ r[i] = e /\ e \in Under(n)
    BY <1>1, <1>2 DEF Under
  <1> HIDE DEF m
  <1>6. \A j \in 1..Len(r) : \A k \in 1..Len(r) : r[j].id = r[k].id => j = k
    <2> SUFFICES ASSUME NEW j \in 1..Len(r), NEW k \in 1..Len(r), r[j].id = r[k].id PROVE j = k
      OBVIOUS
    <2>1. CASE j = i \/ k = i
      BY <1>3, <1>4, <1>5, <2>1
    <2>2. CASE j # i /\ k # i
      <3>1. PICK x \in 1..m : r[j] = a[x] /\ x = IF j < i THEN j ELSE j - 1
        BY <1>3, <2>2
      <3>2. PICK y \in 1..m : r[k] = a[y] /\ y = IF k < i THEN k ELSE k - 1
        BY <1>3, <2>2
      <3>3. x = y
        BY <1>4, <3>1, <3>2
      <3>4. j \in Nat /\ k \in Nat /\ i \in Nat
        BY <1>1, <1>2
      <3>5. QED
        BY <2>2, <3>1, <3>2, <3>3, <3>4
    <2>3. QED
      BY <2>1, <2>2
  <1>7. /\ \A j \in 1..Len(r) : \A k \in 1..Len(b) : r[j].id # b[k].id
        /\ \A j \in 1..Len(r) : r[j] \in Under(n)
    <2>1. ASSUME NEW j \in 1..Len(r) PROVE r[j] = e \/ \E k \in 1..m : r[j] = a[k]
      BY <1>3, <1>5
    <2>2. ASSUME NEW j \in 1..Len(r), NEW k \in 1..Len(b) PROVE r[j].id # b[k].id
      BY <1>4, <2>1
    <2>3. ASSUME NEW j \in 1..Len(r) PROVE r[j] \in Under(n)
      BY <1>4, <1>5, <2>1
    <2>4. QED
      BY <2>2, <2>3
  <1>8. IsLists(r, b, n)
    BY <1>2, <1>4, <1>6, <1>7 DEF IsLists, OneEach, Below
  <1>9. QED
    BY <1>2, <1>8 DEF r, m

\* A new player put in at the end is put in at the place after the last.
LEMMA ListsLonger ==
    ASSUME NEW a, NEW b, NEW n \in Nat, IsLists(a, b, n), NEW e \in Person, e.id = n
    PROVE  IsLists(Append(a, e), b, n + 1)
  <1>1. a \in Seq(Person) /\ Len(a) \in Nat
    BY DEF IsLists
  <1>2. InsertAt(a, Len(a) + 1, e) = Append(a, e)
    <2>1. SubSeq(a, 1, Len(a) + 1 - 1) = a /\ SubSeq(a, Len(a) + 1, Len(a)) = <<>>
      BY <1>1
    <2>2. \A s \in Seq(Person) : s \o <<>> = s
      OBVIOUS
    <2>3. Append(a, e) = a \o <<e>> /\ Append(a, e) \in Seq(Person)
      BY <1>1
    <2> DEFINE u == SubSeq(a, 1, Len(a) + 1 - 1)
               v == SubSeq(a, Len(a) + 1, Len(a))
    <2>4. InsertAt(a, Len(a) + 1, e) = u \o <<e>> \o v
      BY DEF InsertAt
    <2>5. u = a /\ v = <<>>
      BY <2>1
    <2> HIDE DEF u, v
    <2>6. QED
      BY <2>2, <2>3, <2>4, <2>5
  <1>3. IsLists(a, b, n + 1) /\ IsNew(e, a, b)
    BY ListsBelow
  <1>4. Len(a) + 1 \in 1..Len(a) + 1 /\ e.id < n + 1 /\ n + 1 \in Nat
    BY <1>1
  <1> DEFINE i == Len(a) + 1
             k == n + 1
  <1>5. i \in 1..Len(a) + 1 /\ k \in Nat /\ e.id < k /\ IsLists(a, b, k)
    BY <1>3, <1>4
  <1> HIDE DEF i, k
  <1>6. IsLists(InsertAt(a, i, e), b, k)
    BY <1>3, <1>5, ListsMore
  <1>7. QED
    BY <1>2, <1>6 DEF i, k

\* A part of each list.
LEMMA ListsPart ==
    ASSUME NEW a, NEW b, NEW n, IsLists(a, b, n)
    PROVE  IsLists(Named(a), Named(b), n)
  <1> DEFINE x == Named(a)
             y == Named(b)
  <1>1. /\ a \in Seq(Person) /\ b \in Seq(Person)
        /\ \A j \in 1..Len(a) : \A k \in 1..Len(a) : a[j].id = a[k].id => j = k
        /\ \A j \in 1..Len(b) : \A k \in 1..Len(b) : b[j].id = b[k].id => j = k
        /\ \A j \in 1..Len(a) : \A k \in 1..Len(b) : a[j].id # b[k].id
        /\ \A j \in 1..Len(a) : a[j] \in Under(n)
        /\ \A j \in 1..Len(b) : b[j] \in Under(n)
    BY DEF IsLists, OneEach, Below
  <1>2. ASSUME NEW c \in Seq(Person), \A j \in 1..Len(c) : \A k \in 1..Len(c) : c[j].id = c[k].id => j = k
        PROVE  /\ Named(c) \in Seq(Person)
               /\ \A j \in 1..Len(Named(c)) : \E i \in 1..Len(c) : Named(c)[j] = c[i]
               /\ \A j \in 1..Len(Named(c)) : \A k \in 1..Len(Named(c)) :
                    Named(c)[j].id = Named(c)[k].id => j = k
    <2> DEFINE set == {p \in ToSet(c) : p.name # ""}
               z == Among(c, set)
    <2>1. Named(c) = z
      BY DEF Named
    <2>2. IsPartOf(z, c, set, Len(c))
      BY AmongIs
    <2>3. set \subseteq Person
      <3>1. DOMAIN c = 1..Len(c) /\ \A i \in 1..Len(c) : c[i] \in Person
        OBVIOUS
      <3>2. QED
        BY <3>1 DEF ToSet
    <2>4. IsInjective(c)
      BY <1>2 DEF IsInjective
    <2> HIDE DEF set, z
    <2>5. /\ z \in Seq(set)
          /\ \A j \in 1..Len(z) : \E i \in 1..Len(c) : z[j] = c[i]
          /\ \A j \in 1..Len(z) : \A k \in 1..Len(z) : z[j] = z[k] => j = k
      BY <2>2, <2>4 DEF IsPartOf
    <2>6. z \in Seq(Person)
      <3>1. Len(z) \in Nat /\ DOMAIN z = 1..Len(z) /\ \A i \in 1..Len(z) : z[i] \in Person
        BY <2>3, <2>5
      <3>2. z \in [1..Len(z) -> Person]
        BY <2>5, <3>1
      <3>3. QED
        BY <3>1, <3>2
    <2>7. \A j \in 1..Len(z) : \A k \in 1..Len(z) : z[j].id = z[k].id => z[j] = z[k]
      BY <1>2, <2>5
    <2>8. QED
      BY <2>1, <2>5, <2>6, <2>7
  <1>3. /\ x \in Seq(Person)
        /\ \A j \in 1..Len(x) : \E i \in 1..Len(a) : x[j] = a[i]
        /\ \A j \in 1..Len(x) : \A k \in 1..Len(x) : x[j].id = x[k].id => j = k
    BY <1>1, <1>2
  <1>4. /\ y \in Seq(Person)
        /\ \A j \in 1..Len(y) : \E i \in 1..Len(b) : y[j] = b[i]
        /\ \A j \in 1..Len(y) : \A k \in 1..Len(y) : y[j].id = y[k].id => j = k
    BY <1>1, <1>2
  <1> HIDE DEF x, y
  <1>5. /\ \A j \in 1..Len(x) : \A k \in 1..Len(y) : x[j].id # y[k].id
        /\ \A j \in 1..Len(x) : x[j] \in Under(n)
        /\ \A j \in 1..Len(y) : y[j] \in Under(n)
    <2>1. ASSUME NEW j \in 1..Len(x) PROVE \E i \in 1..Len(a) : x[j] = a[i]
      BY <1>3
    <2>2. ASSUME NEW k \in 1..Len(y) PROVE \E i \in 1..Len(b) : y[k] = b[i]
      BY <1>4
    <2>3. ASSUME NEW j \in 1..Len(x), NEW k \in 1..Len(y) PROVE x[j].id # y[k].id
      <3>1. PICK i \in 1..Len(a) : x[j] = a[i]
        BY <2>1
      <3>2. PICK l \in 1..Len(b) : y[k] = b[l]
        BY <2>2
      <3>3. a[i].id # b[l].id
        BY <1>1
      <3>4. QED
        BY <3>1, <3>2, <3>3
    <2>4. \A j \in 1..Len(x) : x[j] \in Under(n)
      BY <1>1, <2>1, Zenon
    <2>5. \A j \in 1..Len(y) : y[j] \in Under(n)
      BY <1>1, <2>2, Zenon
    <2>6. QED
      BY <2>3, <2>4, <2>5, Zenon
  <1>6. IsLists(x, y, n)
    BY <1>3, <1>4, <1>5 DEF IsLists, OneEach, Below
  <1>7. QED
    BY <1>6 DEF x, y

-----------------------------------------------------------------------------
(* The dialog is opened: the sheet, and who of the team is missing in it.  *)

LEMMA SheetLater ==
    ASSUME NEW s, NEW n \in Nat, NEW m \in Nat, n <= m, IsSheet(s, n) PROVE IsSheet(s, m)
  BY ListsBelow DEF IsSheet

LEMMA StartersTyping ==
    ASSUME NEW roster \in Seq(SlotOf)
    PROVE  /\ StartersOf(roster) \in Seq(Person) /\ Len(StartersOf(roster)) = Len(roster)
           /\ \A k \in 1..Len(roster) : StartersOf(roster)[k] = roster[k].starter
  <1> DEFINE n == Len(roster)
             x == StartersOf(roster)
  <1>1. n \in Nat /\ \A k \in 1..n : roster[k] \in SlotOf
    OBVIOUS
  <1>2. \A k \in 1..n : roster[k].starter \in Person
    BY <1>1 DEF SlotOf
  <1> HIDE DEF n
  <1>3. x = [k \in 1..n |-> roster[k].starter]
    BY DEF StartersOf, n
  <1>4. x \in [1..n -> Person] /\ \A k \in 1..n : x[k] = roster[k].starter
    BY <1>2, <1>3
  <1> HIDE DEF x
  <1>5. QED
    BY <1>1, <1>4 DEF n, x

\* The players of the team that are not among the used ones.
LEMMA MissingTyping ==
    ASSUME NEW used
    PROVE  LET missing == Among(TeamPlayers, ToSet(TeamPlayers) \ used)
               z == Players(missing)
           IN /\ z \in Seq(Person)
              /\ \A k \in 1..Len(z) : z[k].id < 100 /\ z[k].id \notin used
              /\ \A j \in 1..Len(z) : \A k \in 1..Len(z) : z[j].id = z[k].id => j = k
  <1> DEFINE set == ToSet(TeamPlayers) \ used
             missing == Among(TeamPlayers, set)
             z == Players(missing)
             n == Len(missing)
  <1>1. TeamPlayers \in Seq(0..99) /\ IsInjective(TeamPlayers)
    BY LineupAssumption
  <1>2. \A p \in set : p \in 0..99 /\ p \notin used
    <2>1. \A S, t : t \in Seq(S) => DOMAIN t = 1..Len(t) /\ \A k \in 1..Len(t) : t[k] \in S
      OBVIOUS
    <2>2. ToSet(TeamPlayers) \subseteq 0..99
      <3>1. \A S, t : t \in Seq(S) => ToSet(t) \subseteq S
        BY <2>1 DEF ToSet
      <3>2. QED
        BY <1>1, <3>1
    <2>3. QED
      BY <2>2
  <1>3. IsPartOf(missing, TeamPlayers, set, Len(TeamPlayers))
    BY <1>1, AmongIs
  <1> HIDE DEF set, missing
  <1>4. /\ missing \in Seq(set)
        /\ \A j \in 1..n : \A k \in 1..n : missing[j] = missing[k] => j = k
    BY <1>1, <1>3 DEF IsPartOf
  <1>5. n \in Nat /\ DOMAIN missing = 1..n /\ \A k \in 1..n : missing[k] \in 0..99 /\ missing[k] \notin used
    BY <1>2, <1>4
  <1>6. z = [k \in 1..n |-> Player(missing[k])]
    BY <1>5 DEF Players
  <1>7. \A p \in 0..99 : Player(p) \in Person /\ Player(p).id = p
    BY DEF Player, Person, Names
  <1> HIDE DEF n, z
  <1>8. z \in [1..n -> Person] /\ \A k \in 1..n : z[k].id = missing[k]
    BY <1>5, <1>6, <1>7
  <1>9. z \in Seq(Person) /\ Len(z) = n
    BY <1>5, <1>8
  <1>10. ASSUME NEW k \in 1..n PROVE z[k].id < 100 /\ z[k].id \notin used
    <2>1. missing[k] \in 0..99 /\ missing[k] \notin used /\ z[k].id = missing[k]
      BY <1>5, <1>8
    <2>2. QED
      BY <2>1
  <1>11. \A j \in 1..n : \A k \in 1..n : z[j].id = z[k].id => j = k
    BY <1>4, <1>8
  <1>12. QED
    BY <1>9, <1>10, <1>11 DEF z, missing, set

\* New players put after the second list.
LEMMA ListsJoined ==
    ASSUME NEW a, NEW b, NEW n \in Nat, n >= 100, IsLists(a, b, n),
           NEW z \in Seq(Person), \A k \in 1..Len(z) : z[k].id < 100 /\ IsNew(z[k], a, b),
           \A j \in 1..Len(z) : \A k \in 1..Len(z) : z[j].id = z[k].id => j = k
    PROVE  IsLists(a, b \o z, n)
  <1> DEFINE w == b \o z
             m == Len(b)
  <1>1. /\ a \in Seq(Person) /\ b \in Seq(Person) /\ m \in Nat
        /\ \A j \in 1..Len(a) : \A k \in 1..Len(a) : a[j].id = a[k].id => j = k
        /\ \A j \in 1..m : \A k \in 1..m : b[j].id = b[k].id => j = k
        /\ \A j \in 1..Len(a) : \A k \in 1..m : a[j].id # b[k].id
        /\ Below(a, n)
        /\ \A j \in 1..m : b[j] \in Under(n)
    BY DEF IsLists, OneEach, Below
  <1>2. /\ w \in Seq(Person) /\ Len(w) = m + Len(z) /\ Len(z) \in Nat
        /\ \A j \in 1..m : w[j] = b[j]
        /\ \A j \in 1..Len(w) : j > m => j - m \in 1..Len(z) /\ w[j] = z[j - m]
    BY <1>1
  <1>3. \A k \in 1..Len(z) : z[k] \in Under(n)
    <2>1. ASSUME NEW p \in Person, p.id < 100 PROVE p \in Under(n)
      <3>1. p.id \in Nat
        BY DEF Person
      <3>2. p.id < n
        BY <2>1, <3>1
      <3>3. QED
        BY <3>2 DEF Under
    <2>2. QED
      BY <2>1
  <1>4. \A k \in 1..Len(z) : /\ \A j \in 1..Len(a) : a[j].id # z[k].id
                             /\ \A j \in 1..m : b[j].id # z[k].id
    BY DEF IsNew
  <1> HIDE DEF w, m
  <1>5. ASSUME NEW j \in 1..Len(w)
        PROVE  w[j] \in Under(n) /\ \A k \in 1..Len(a) : a[k].id # w[j].id
    <2>1. CASE j <= m
      <3>1. j \in 1..m /\ w[j] = b[j]
        BY <1>1, <1>2, <2>1
      <3>2. QED
        BY <1>1, <3>1
    <2>2. CASE j > m
      <3>1. j - m \in 1..Len(z) /\ w[j] = z[j - m]
        BY <1>2, <2>2
      <3>2. QED
        BY <1>3, <1>4, <3>1
    <2>3. QED
      BY <1>1, <1>2, <2>1, <2>2
  <1>6. ASSUME NEW j \in 1..Len(w), NEW k \in 1..Len(w), w[j].id = w[k].id PROVE j = k
    <2>1. \A i \in 1..Len(w) : \/ i \in 1..m /\ w[i] = b[i]
                               \/ i > m /\ i - m \in 1..Len(z) /\ w[i] = z[i - m]
      BY <1>1, <1>2
    <2>2. j \in Nat /\ k \in Nat
      BY <1>2
    <2>3. CASE j \in 1..m /\ k \in 1..m
      BY <1>1, <1>2, <1>6, <2>3
    <2>4. CASE j > m /\ k > m
      <3>1. j - m \in 1..Len(z) /\ k - m \in 1..Len(z) /\ w[j] = z[j - m] /\ w[k] = z[k - m]
        BY <1>2, <2>4
      <3> DEFINE u == j - m
                 v == k - m
      <3>2. u \in 1..Len(z) /\ v \in 1..Len(z) /\ z[u].id = z[v].id
        BY <1>6, <3>1
      <3> HIDE DEF u, v
      <3>3. u = v
        BY <3>2
      <3>4. QED
        BY <1>1, <2>2, <3>3 DEF u, v
    <2>5. ASSUME NEW x \in 1..Len(w), NEW y \in 1..Len(w), x \in 1..m, y > m, w[x].id = w[y].id
          PROVE  FALSE
      <3> DEFINE v == y - m
      <3>1. v \in 1..Len(z) /\ w[y] = z[v] /\ w[x] = b[x]
        BY <1>2, <2>5
      <3> HIDE DEF v
      <3>2. b[x].id # z[v].id
        BY <1>4, <2>5, <3>1
      <3>3. QED
        BY <2>5, <3>1, <3>2
    <2>7. QED
      BY <1>6, <2>1, <2>3, <2>4, <2>5
  <1>7. IsLists(a, w, n)
    BY <1>1, <1>2, <1>5, <1>6 DEF IsLists, OneEach, Below, m
  <1>8. QED
    BY <1>7 DEF w

LEMMA PersonTyping ==
    /\ \A n \in Nat : Blank(n) \in Person /\ Blank(n).id = n
    /\ \A p \in Person : p.id \in Nat
  <1>1. "" \in Names
    BY Zenon DEF Names
  <1>2. \A name \in Names, n \in Nat :
          [id |-> n, name |-> name] \in Person /\ [id |-> n, name |-> name].id = n
    BY DEF Person
  <1>3. \A n \in Nat : Blank(n) \in Person /\ Blank(n).id = n
    BY <1>1, <1>2, Zenon DEF Blank
  <1>4. QED
    BY <1>3 DEF Person

\* The starters of the sheet and blank rows to make up the count.
LEMMA ListsFilled ==
    ASSUME NEW a, NEW b, NEW n \in Nat, IsLists(a, b, n), NEW c \in Nat, NEW m \in Nat,
           Len(a) <= c, n <= m, c <= Len(a) \/ c <= m - n - 1,
           NEW s, s = [k \in 1..c |-> IF k \in 1..Len(a) THEN a[k] ELSE Blank(n + k)]
    PROVE  IsLists(s, b, m)
  <1> DEFINE l == Len(a)
  <1>1. /\ a \in Seq(Person) /\ b \in Seq(Person) /\ l \in Nat
        /\ \A j \in 1..l : \A k \in 1..l : a[j].id = a[k].id => j = k
        /\ \A j \in 1..Len(b) : \A k \in 1..Len(b) : b[j].id = b[k].id => j = k
        /\ \A j \in 1..l : \A k \in 1..Len(b) : a[j].id # b[k].id
        /\ \A j \in 1..l : a[j] \in Person /\ a[j].id < n
        /\ \A j \in 1..Len(b) : b[j] \in Person /\ b[j].id < n
    BY DEF IsLists, OneEach, Below, Under
  <1> HIDE DEF l
  <1>2. ASSUME NEW k \in 1..c
        PROVE  /\ s[k] \in Person /\ s[k].id \in Nat /\ s[k].id < m
               /\ k \in 1..l => s[k] = a[k] /\ s[k].id < n
               /\ k \notin 1..l => s[k].id = n + k
    <2>1. CASE k \in 1..l
      <3>1. s[k] = a[k]
        BY <2>1 DEF l
      <3>2. s[k].id < n /\ s[k] \in Person /\ s[k].id \in Nat
        BY <1>1, <2>1, <3>1, PersonTyping
      <3>3. QED
        BY <2>1, <3>1, <3>2
    <2>2. CASE k \notin 1..l
      <3>1. s[k] = Blank(n + k)
        BY <2>2 DEF l
      <3>2. n + k \in Nat
        OBVIOUS
      <3>3. n + k < m
        <4>1. c > l
          BY <1>1, <2>2
        <4>2. c <= m - n - 1
          BY <1>1, <4>1 DEF l
        <4>3. QED
          BY <4>2
      <3>4. QED
        BY <2>2, <3>1, <3>2, <3>3, PersonTyping
    <2>3. QED
      BY <2>1, <2>2
  <1>3. s \in Seq(Person) /\ Len(s) = c
    <2>1. s \in [1..c -> Person]
      BY <1>2
    <2>2. QED
      BY <2>1
  <1>4. ASSUME NEW j \in 1..c, NEW k \in 1..c, s[j].id = s[k].id PROVE j = k
    <2>1. CASE j \in 1..l /\ k \in 1..l
      BY <1>1, <1>2, <1>4, <2>1
    <2>2. CASE j \notin 1..l /\ k \notin 1..l
      BY <1>2, <1>4, <2>2
    <2>3. CASE (j \in 1..l /\ k \notin 1..l) \/ (j \notin 1..l /\ k \in 1..l)
      <3>1. j \in 1..l => s[j].id < n /\ s[k].id = n + k
        BY <1>2, <2>3
      <3>2. k \in 1..l => s[k].id < n /\ s[j].id = n + j
        BY <1>2, <2>3
      <3> DEFINE u == s[j].id
                 v == s[k].id
      <3>3. u \in Nat /\ v \in Nat /\ u = v
        BY <1>2, <1>4
      <3> HIDE DEF u, v
      <3>4. QED
        BY <2>3, <3>1, <3>2, <3>3 DEF u, v
    <2>4. QED
      BY <2>1, <2>2, <2>3
  <1>5. ASSUME NEW j \in 1..c, NEW k \in 1..Len(b) PROVE s[j].id # b[k].id
    <2>1. CASE j \in 1..l
      BY <1>1, <1>2, <2>1
    <2>2. CASE j \notin 1..l
      <3>1. s[j].id = n + j /\ b[k].id < n /\ b[k].id \in Nat
        BY <1>1, <1>2, <2>2, PersonTyping
      <3>2. QED
        BY <3>1
    <2>3. QED
      BY <2>1, <2>2
  <1>6. \A k \in 1..c : s[k] \in Under(m)
    BY <1>2 DEF Under
  <1>7. \A k \in 1..Len(b) : b[k] \in Under(m)
    <2>1. \A k \in 1..Len(b) : b[k].id \in Nat
      BY <1>1, PersonTyping
    <2>2. QED
      BY <1>1, <2>1 DEF Under
  <1>8. QED
    BY <1>1, <1>3, <1>4, <1>5, <1>6, <1>7 DEF IsLists, OneEach, Below

LEMMA InitialLists ==
    ASSUME NEW read, NEW n \in Nat, n >= 100, IsSheet(read, n)
    PROVE  IsLists(InitialLineup(read, n).starters, InitialLineup(read, n).subs, n + StarterCount + 1)
  <1> DEFINE roster == read.roster
             a == StartersOf(roster)
             b == read.subs
             used == {roster[k].starter.id : k \in DOMAIN roster} \cup {b[k].id : k \in DOMAIN b}
             z == Players(Among(TeamPlayers, ToSet(TeamPlayers) \ used))
             subs == b \o z
             count == IF Len(roster) > StarterCount THEN Len(roster) ELSE StarterCount
             s == [k \in 1..count |-> IF k \in DOMAIN roster THEN roster[k].starter ELSE Blank(n + k)]
             t == IF subs = <<>> THEN <<Blank(n)>> ELSE subs
             m == n + StarterCount + 1
  <1>1. InitialLineup(read, n) = [starters |-> s, subs |-> t]
    BY DEF InitialLineup
  <1>2. /\ roster \in Seq(SlotOf) /\ IsLists(a, b, n) /\ StarterCount \in Nat
        /\ a \in Seq(Person) /\ b \in Seq(Person)
    BY LineupAssumption DEF IsSheet, IsLists
  <1>3. Len(a) = Len(roster) /\ \A k \in 1..Len(roster) : a[k] = roster[k].starter
    BY <1>2, StartersTyping
  <1>4. /\ Len(roster) \in Nat /\ DOMAIN roster = 1..Len(roster)
        /\ DOMAIN b = 1..Len(b)
    BY <1>2
  <1>5. /\ z \in Seq(Person)
        /\ \A k \in 1..Len(z) : z[k].id < 100 /\ z[k].id \notin used
        /\ \A j \in 1..Len(z) : \A k \in 1..Len(z) : z[j].id = z[k].id => j = k
    BY MissingTyping
  <1>6. \A i : i \notin used => /\ \A k \in 1..Len(a) : a[k].id # i
                               /\ \A k \in 1..Len(b) : b[k].id # i
    BY <1>3, <1>4
  <1> HIDE DEF z, used
  <1>7. \A k \in 1..Len(z) : z[k].id < 100 /\ IsNew(z[k], a, b)
    BY <1>5, <1>6 DEF IsNew
  <1>8. IsLists(a, subs, n)
    BY <1>2, <1>5, <1>7, ListsJoined
  <1>9. count \in Nat /\ m \in Nat /\ Len(a) <= count /\ n <= m /\ (count <= Len(a) \/ count <= m - n - 1)
    BY <1>2, <1>3, <1>4
  <1>10. s = [k \in 1..count |-> IF k \in 1..Len(a) THEN a[k] ELSE Blank(n + k)]
    BY <1>3, <1>4
  <1> HIDE DEF a, b, subs, count, s, m
  <1>11. IsLists(s, subs, m)
    BY <1>8, <1>9, <1>10, ListsFilled
  <1>12. CASE subs # <<>>
    BY <1>1, <1>11, <1>12 DEF m
  <1>13. CASE subs = <<>>
    <2> DEFINE e == Blank(n)
    <2>1. e \in Person /\ e.id = n
      BY PersonTyping
    <2> HIDE DEF e
    <2>2. IsLists(subs, a, n)
      BY <1>8, ListsEither
    <2>3. IsLists(Append(subs, e), a, n + 1)
      BY <2>1, <2>2, ListsLonger
    <2>4. Append(subs, e) = <<e>>
      BY <1>13
    <2>5. IsLists(a, <<e>>, n + 1)
      BY <2>3, <2>4, ListsEither
    <2>6. IsLists(s, <<e>>, m)
      <3>1. <<e>> \in Seq(Person) /\ \A k \in 1..Len(<<e>>) : <<e>>[k] = e
        BY <2>1
      <3>2. \A k \in 1..Len(s) : s[k].id # e.id
        <4>1. \A k \in 1..Len(a) : a[k].id # e.id
          <5>1. Len(<<e>>) = 1 /\ 1 \in 1..Len(<<e>>) /\ <<e>>[1] = e
            OBVIOUS
          <5>2. QED
            BY <2>5, <5>1 DEF IsLists, OneEach
        <4>2. ASSUME NEW k \in 1..Len(s) PROVE s[k].id # e.id
          <5>1. k \in 1..count /\ k \in Nat /\ k > 0
            BY <1>9, <1>10
          <5>2. s[k] = IF k \in 1..Len(a) THEN a[k] ELSE Blank(n + k)
            BY <1>10, <5>1
          <5>3. Blank(n + k).id = n + k /\ n + k # n
            BY <5>1, PersonTyping
          <5>4. QED
            BY <2>1, <4>1, <5>2, <5>3
        <4>3. QED
          BY <4>2
      <3>3. e \in Under(m)
        BY <1>2, <2>1 DEF Under, m
      <3>4. Len(<<e>>) = 1
        OBVIOUS
      <3> DEFINE y == <<e>>
      <3>5. /\ y \in Seq(Person) /\ Len(y) = 1 /\ \A k \in 1..Len(y) : y[k] = e
            /\ \A j \in 1..Len(y) : \A k \in 1..Len(y) : j = k
        BY <3>1, <3>4
      <3> HIDE DEF y
      <3>6. IsLists(s, y, m)
        BY <1>11, <3>2, <3>3, <3>5 DEF IsLists, OneEach, Below
      <3>7. QED
        BY <3>6 DEF y
    <2>7. QED
      BY <1>1, <1>13, <2>6 DEF m, e
  <1>14. QED
    BY <1>12, <1>13

-----------------------------------------------------------------------------
(* The dialog.                                                             *)

LEMMA DialogFields == DOMAIN Closed = LineupFields /\ Closed.phase = "closed" /\ Closed.dragged = <<>>
  BY DEF Closed, LineupFields

\* Rendered anew, with nobody dragged.
LEMMA Rendered ==
    ASSUME NEW l, IsFresh(l), l.phase = "open", l.dragged = <<>>, IsLists(l.starters, l.subs, l.next)
    PROVE  IsDialog(RenderLists(l)) /\ RenderLists(l).next = l.next
  <1> DEFINE r == RenderLists(l)
             rows == [starters |-> l.starters, subs |-> l.subs]
  <1>1. r = [l EXCEPT !.rows = rows] /\ DOMAIN l = LineupFields
    BY DEF RenderLists, IsFresh
  <1>2. DOMAIN rows = {"starters", "subs"} /\ rows.starters = l.starters /\ rows.subs = l.subs
    OBVIOUS
  <1> HIDE DEF rows, r
  <1>3. /\ DOMAIN r = LineupFields /\ r.rows = rows /\ r.starters = l.starters /\ r.subs = l.subs
        /\ r.phase = l.phase /\ r.dragged = l.dragged /\ r.next = l.next
    BY <1>1 DEF LineupFields
  <1>4. QED
    BY <1>2, <1>3 DEF IsDialog, IsFresh, IsOpen, r

\* The rows scraped.
LEMMA ScrapedLists ==
    ASSUME NEW l, IsFresh(l), IsOpen(l)
    PROVE  LET r == Scraped(l)
           IN /\ IsFresh(r) /\ r.phase = l.phase /\ r.dragged = l.dragged /\ r.next = l.next /\ r.rows = l.rows
              /\ r.starters = l.rows.starters /\ r.subs = l.rows.subs
              /\ IsLists(r.starters, r.subs, r.next)
  <1> DEFINE r == Scraped(l)
  <1>1. r = [l EXCEPT !.starters = l.rows.starters, !.subs = l.rows.subs] /\ DOMAIN l = LineupFields
    BY DEF Scraped, IsFresh
  <1> HIDE DEF r
  <1>2. /\ DOMAIN r = LineupFields /\ r.rows = l.rows /\ r.starters = l.rows.starters
        /\ r.subs = l.rows.subs /\ r.phase = l.phase /\ r.dragged = l.dragged /\ r.next = l.next
    BY <1>1 DEF LineupFields
  <1>3. QED
    BY <1>2 DEF IsFresh, IsOpen, r

\* The two lists by their type.
Opposite(type) == IF type = "starter" THEN "sub" ELSE "starter"

LEMMA EitherGroup ==
    ASSUME NEW l, IsLists(l.starters, l.subs, l.next), NEW t \in Types
    PROVE  IsLists(Group(l, t), Group(l, Opposite(t)), l.next)
  BY ListsEither DEF Group, Opposite, Types

LEMMA GroupsAre ==
    ASSUME NEW l, NEW t \in Types, IsLists(Group(l, t), Group(l, Opposite(t)), l.next)
    PROVE  IsLists(l.starters, l.subs, l.next)
  BY ListsEither DEF Group, Opposite, Types

LEMMA WithGroupIs ==
    ASSUME NEW l, DOMAIN l = LineupFields, NEW t \in Types, NEW list
    PROVE  LET r == WithGroup(l, t, list)
           IN /\ DOMAIN r = LineupFields /\ r.next = l.next /\ r.phase = l.phase /\ r.dragged = l.dragged
              /\ Group(r, t) = list /\ Group(r, Opposite(t)) = Group(l, Opposite(t))
  <1>1. CASE t = "starter"
    BY <1>1 DEF WithGroup, Group, Opposite, LineupFields
  <1>2. CASE t = "sub"
    BY <1>2 DEF WithGroup, Group, Opposite, LineupFields
  <1>3. QED
    BY <1>1, <1>2 DEF Types

LEMMA Moved ==
    ASSUME NEW l, IsFresh(l), IsLists(l.starters, l.subs, l.next), NEW t \in Types, NEW u \in Types,
           NEW from \in 1..Len(Group(l, t)), NEW to \in Nat, to >= 1
    PROVE  LET r == MovePlayer(l, from, t, to, u)
           IN /\ DOMAIN r = LineupFields /\ r.next = l.next /\ r.phase = l.phase
              /\ IsLists(r.starters, r.subs, r.next)
  <1> DEFINE a == Group(l, t)
             b == Group(l, Opposite(t))
             item == a[from]
             less == RemoveAt(a, from)
             taken == WithGroup(l, t, less)
             target == Group(taken, u)
             place == IF to > Len(target) + 1 THEN Len(target) + 1 ELSE to
             more == InsertAt(target, place, item)
             r == WithGroup(taken, u, more)
             n == l.next
  <1>1. MovePlayer(l, from, t, to, u) = r
    BY DEF MovePlayer
  <1>2. n \in Nat /\ DOMAIN l = LineupFields /\ IsLists(a, b, n)
    BY EitherGroup DEF IsFresh
  <1>3. /\ DOMAIN taken = LineupFields /\ taken.next = n /\ taken.phase = l.phase
        /\ Group(taken, t) = less /\ Group(taken, Opposite(t)) = b
    BY <1>2, WithGroupIs
  <1> HIDE DEF n, a, b, taken
  <1>4. from \in 1..Len(a)
    BY DEF a
  <1>5. IsLists(less, b, n) /\ item \in Person /\ item.id < n /\ IsNew(item, less, b)
    BY <1>2, <1>4, ListsLess
  <1> HIDE DEF less, item
  <1>6. IsLists(target, Group(taken, Opposite(u)), n) /\ IsNew(item, target, Group(taken, Opposite(u)))
    <2>1. CASE u = t
      BY <1>3, <1>5, <2>1
    <2>2. CASE u # t
      <3>1. u = Opposite(t) /\ Opposite(u) = t
        BY <2>2 DEF Opposite, Types
      <3>2. QED
        BY <1>3, <1>5, <3>1, ListsEither
    <2>3. QED
      BY <2>1, <2>2
  <1> HIDE DEF target
  <1>7. target \in Seq(Person)
    BY <1>6 DEF IsLists
  <1>8. place \in 1..Len(target) + 1
    BY <1>7
  <1> HIDE DEF place
  <1>9. IsLists(more, Group(taken, Opposite(u)), n)
    BY <1>2, <1>5, <1>6, <1>8, ListsMore
  <1> HIDE DEF more
  <1>10. /\ DOMAIN r = LineupFields /\ r.next = n /\ r.phase = l.phase
         /\ Group(r, u) = more /\ Group(r, Opposite(u)) = Group(taken, Opposite(u))
    BY <1>3, WithGroupIs
  <1> HIDE DEF r
  <1>11. IsLists(r.starters, r.subs, r.next)
    BY <1>9, <1>10, GroupsAre
  <1>12. QED
    BY <1>1, <1>10, <1>11 DEF n

LEMMA OpenLineupKeeps == ASSUME LineupInv, OpenLineup \/ ShowLineup PROVE LineupInv'
  <1>1. CASE OpenLineup
    <2>1. lineup' = [lineup EXCEPT !.phase = "opening", !.read = sheet] /\ sheet' = sheet
      BY <1>1 DEF OpenLineup
    <2>2. /\ DOMAIN lineup' = LineupFields /\ lineup'.phase = "opening" /\ lineup'.read = sheet
          /\ lineup'.next = lineup.next /\ lineup'.dragged = lineup.dragged
      BY <2>1 DEF LineupInv, IsDialog, IsFresh, LineupFields
    <2>3. lineup.phase = "closed"
      BY <1>1 DEF OpenLineup
    <2>4. QED
      BY <2>1, <2>2, <2>3 DEF LineupInv, IsDialog, IsFresh
  <1>2. CASE ShowLineup
    <2> DEFINE n == lineup.next
               lists == InitialLineup(lineup.read, n)
               m == n + StarterCount + 1
               x == lists.starters
               y == lists.subs
               l == [lineup EXCEPT !.phase = "open", !.starters = x, !.subs = y, !.next = m]
    <2>1. lineup' = RenderLists(l) /\ sheet' = sheet /\ lineup.phase = "opening"
      BY <1>2 DEF ShowLineup
    <2>2. n \in Nat /\ n >= 100 /\ StarterCount \in Nat /\ IsSheet(lineup.read, n) /\ IsSheet(sheet, n)
          /\ DOMAIN lineup = LineupFields
      BY <2>1, LineupAssumption DEF LineupInv, IsDialog, IsFresh
    <2>3. IsLists(x, y, m)
      BY <2>2, InitialLists
    <2>4. m \in Nat /\ m >= 100 /\ n <= m
      BY <2>2
    <2>5. IsSheet(sheet, m)
      BY <2>2, <2>4, SheetLater
    <2> HIDE DEF m, x, y
    <2>6. /\ DOMAIN l = LineupFields /\ l.next = m /\ l.phase = "open" /\ l.starters = x /\ l.subs = y
          /\ l.dragged = lineup.dragged
      BY <2>2 DEF LineupFields
    <2> HIDE DEF l
    <2>7. lineup.dragged = <<>>
      BY <2>1 DEF LineupInv, IsDialog
    <2>8. IsDialog(RenderLists(l)) /\ RenderLists(l).next = m
      BY <2>3, <2>4, <2>6, <2>7, Rendered DEF IsFresh
    <2>9. QED
      BY <2>1, <2>5, <2>8 DEF LineupInv
  <1>3. QED
    BY <1>1, <1>2

\* What is typed changes a name, not who it is.
LEMMA Typing ==
    ASSUME NEW a, NEW b, NEW n, IsLists(a, b, n), NEW k \in 1..Len(a), NEW name \in Names
    PROVE  /\ IsLists([a EXCEPT ![k].name = name], b, n)
           /\ Len([a EXCEPT ![k].name = name]) = Len(a)
  <1> DEFINE p == [a[k] EXCEPT !.name = name]
             s == [a EXCEPT ![k] = p]
             m == Len(a)
  <1>1. [a EXCEPT ![k].name = name] = s
    OBVIOUS
  <1>2. /\ a \in Seq(Person) /\ b \in Seq(Person) /\ m \in Nat
        /\ \A i \in 1..m : \A j \in 1..m : a[i].id = a[j].id => i = j
        /\ \A i \in 1..Len(b) : \A j \in 1..Len(b) : b[i].id = b[j].id => i = j
        /\ \A i \in 1..m : \A j \in 1..Len(b) : a[i].id # b[j].id
        /\ Below(b, n)
        /\ \A i \in 1..m : a[i] \in Under(n)
    <2>1. /\ a \in Seq(Person) /\ b \in Seq(Person) /\ OneEach(a, b) /\ Below(a, n) /\ Below(b, n)
      BY DEF IsLists
    <2>2. m \in Nat
      BY <2>1
    <2> HIDE DEF p, s
    <2>3. QED
      BY <2>1, <2>2 DEF OneEach, Below
  <1>3. a[k] \in Person /\ a[k].id < n
    BY <1>2 DEF Under
  <1>4. p \in Person /\ p.id = a[k].id
    BY <1>3 DEF Person
  <1> HIDE DEF p
  <1>5. p \in Under(n)
    BY <1>3, <1>4 DEF Under
  <1>6. s \in Seq(Person) /\ Len(s) = m /\ \A i \in 1..m : s[i] = IF i = k THEN p ELSE a[i]
    <2>1. a \in Seq(Person) /\ k \in 1..m
      BY <1>2
    <2>2. QED
      BY <1>4, <2>1
  <1> HIDE DEF s
  <1>7. \A i \in 1..m : s[i].id = a[i].id /\ s[i] \in Under(n)
    <2>1. ASSUME NEW i \in 1..m PROVE s[i].id = a[i].id /\ s[i] \in Under(n)
      <3>1. CASE i = k
        BY <1>4, <1>5, <1>6, <3>1
      <3>2. CASE i # k
        BY <1>2, <1>6, <3>2
      <3>3. QED
        BY <3>1, <3>2
    <2>2. QED
      BY <2>1
  <1> HIDE DEF m
  <1>8. IsLists(s, b, n)
    BY <1>2, <1>6, <1>7 DEF IsLists, OneEach, Below
  <1>9. QED
    BY <1>1, <1>6, <1>8 DEF m

LEMMA TypeNameKeeps ==
    ASSUME LineupInv, NEW type \in Types, NEW k, NEW name \in Names, TypeName(type, k, name)
    PROVE  LineupInv'
  <1> DEFINE rows == lineup.rows
             a == rows.starters
             b == rows.subs
             x == [a EXCEPT ![k].name = name]
             y == [b EXCEPT ![k].name = name]
             n == lineup.next
  <1>1. /\ DOMAIN lineup = LineupFields /\ DOMAIN rows = {"starters", "subs"} /\ lineup.phase = "open"
        /\ IsLists(a, b, n) /\ IsLists(lineup.starters, lineup.subs, n)
        /\ Len(a) = Len(lineup.starters) /\ Len(b) = Len(lineup.subs)
        /\ lineup.dragged = <<>>
    BY DEF TypeName, Free, LineupInv, IsDialog, IsOpen, IsFresh
  <1>2. k \in DOMAIN Rows(type) /\ sheet' = sheet
    BY DEF TypeName
  <1>3. DOMAIN a = 1..Len(a) /\ DOMAIN b = 1..Len(b)
    <2> HIDE DEF a, b
    <2>1. a \in Seq(Person) /\ b \in Seq(Person)
      BY <1>1 DEF IsLists
    <2>2. QED
      BY <2>1
  <1>4. CASE type = "starter"
    <2>1. lineup' = [lineup EXCEPT !.rows.starters[k].name = name]
      BY <1>4 DEF TypeName
    <2>2. k \in 1..Len(a)
      BY <1>2, <1>3, <1>4 DEF Rows
    <2>3. IsLists(x, b, n) /\ Len(x) = Len(a)
      <3> HIDE DEF a, b
      <3>1. QED
        BY <1>1, <2>2, Typing
    <2>4. lineup' = [lineup EXCEPT !.rows = [rows EXCEPT !.starters = x]]
      BY <2>1
    <2> HIDE DEF x, rows
    <2>5. /\ DOMAIN lineup' = LineupFields /\ lineup'.next = n /\ lineup'.phase = "open"
          /\ lineup'.dragged = <<>> /\ lineup'.starters = lineup.starters /\ lineup'.subs = lineup.subs
          /\ lineup'.rows = [rows EXCEPT !.starters = x]
      BY <1>1, <2>4 DEF LineupFields
    <2>6. /\ DOMAIN lineup'.rows = {"starters", "subs"} /\ lineup'.rows.starters = x
          /\ lineup'.rows.subs = b
      BY <1>1, <2>5
    <2>7. QED
      BY <1>1, <1>2, <2>3, <2>5, <2>6 DEF LineupInv, IsDialog, IsOpen, IsFresh
  <1>5. CASE type = "sub"
    <2>1. lineup' = [lineup EXCEPT !.rows.subs[k].name = name]
      BY <1>5 DEF TypeName
    <2>2. k \in 1..Len(b)
      BY <1>2, <1>3, <1>5 DEF Rows
    <2>3. IsLists(a, y, n) /\ Len(y) = Len(b)
      <3> HIDE DEF a, b
      <3>1. IsLists(b, a, n)
        BY <1>1, ListsEither
      <3>2. IsLists(y, a, n) /\ Len(y) = Len(b)
        BY <2>2, <3>1, Typing
      <3>3. QED
        BY <3>2, ListsEither
    <2>4. lineup' = [lineup EXCEPT !.rows = [rows EXCEPT !.subs = y]]
      BY <2>1
    <2> HIDE DEF y, rows
    <2>5. /\ DOMAIN lineup' = LineupFields /\ lineup'.next = n /\ lineup'.phase = "open"
          /\ lineup'.dragged = <<>> /\ lineup'.starters = lineup.starters /\ lineup'.subs = lineup.subs
          /\ lineup'.rows = [rows EXCEPT !.subs = y]
      BY <1>1, <2>4 DEF LineupFields
    <2>6. /\ DOMAIN lineup'.rows = {"starters", "subs"} /\ lineup'.rows.starters = a
          /\ lineup'.rows.subs = y
      BY <1>1, <2>5
    <2>7. QED
      BY <1>1, <1>2, <2>3, <2>5, <2>6 DEF LineupInv, IsDialog, IsOpen, IsFresh
  <1>6. QED
    BY <1>4, <1>5 DEF Types

LEMMA DragKeeps ==
    ASSUME LineupInv, EndDrag \/ \E type \in Types, k \in Nat : StartDrag(type, k) PROVE LineupInv'
  <1>1. /\ DOMAIN lineup = LineupFields /\ IsOpen(lineup) /\ lineup.phase = "open" /\ sheet' = sheet
    BY DEF EndDrag, StartDrag, Free, LineupInv, IsDialog, IsFresh
  <1>2. ASSUME NEW d, lineup' = [lineup EXCEPT !.dragged = d],
               d # <<>> => d[1] \in Types /\ d[2] \in 1..Len(Group(lineup, d[1]))
        PROVE  LineupInv'
    <2>1. /\ DOMAIN lineup' = LineupFields /\ lineup'.next = lineup.next /\ lineup'.phase = "open"
          /\ lineup'.dragged = d /\ lineup'.starters = lineup.starters /\ lineup'.subs = lineup.subs
          /\ lineup'.rows = lineup.rows
      BY <1>1, <1>2 DEF LineupFields
    <2>2. \A t : Group(lineup', t) = Group(lineup, t)
      BY <2>1 DEF Group
    <2>3. IsOpen(lineup')
      BY <1>1, <1>2, <2>1, <2>2 DEF IsOpen
    <2>4. QED
      BY <1>1, <2>1, <2>3 DEF LineupInv, IsDialog, IsFresh
  <1>3. CASE EndDrag
    BY <1>2, <1>3 DEF EndDrag
  <1>4. ASSUME NEW type \in Types, NEW k \in Nat, StartDrag(type, k) PROVE LineupInv'
    <2> DEFINE d == <<type, k>>
    <2>1. lineup' = [lineup EXCEPT !.dragged = d] /\ k \in DOMAIN Rows(type)
      BY <1>4 DEF StartDrag
    <2>2. /\ DOMAIN lineup.rows.starters = 1..Len(lineup.rows.starters)
          /\ DOMAIN lineup.rows.subs = 1..Len(lineup.rows.subs)
          /\ Len(lineup.rows.starters) = Len(lineup.starters) /\ Len(lineup.rows.subs) = Len(lineup.subs)
      BY <1>1 DEF IsOpen, IsLists
    <2>3. k \in 1..Len(Group(lineup, type))
      BY <2>1, <2>2 DEF Rows, Group, Types
    <2>4. d[1] = type /\ d[2] = k
      OBVIOUS
    <2> HIDE DEF d
    <2>5. QED
      BY <1>2, <2>1, <2>3, <2>4
  <1>5. QED
    BY <1>3, <1>4

LEMMA DropKeeps ==
    ASSUME LineupInv, NEW type \in Types, NEW k \in Nat, k >= 1, Drop(type, k) PROVE LineupInv'
  <1> DEFINE from == lineup.dragged[2]
             t == lineup.dragged[1]
             r == MovePlayer(lineup, from, t, k, type)
             l == [r EXCEPT !.dragged = <<>>]
  <1>1. IsFresh(lineup) /\ IsOpen(lineup) /\ lineup.phase = "open" /\ lineup.dragged # <<>>
    BY DEF Drop, LineupInv, IsDialog
  <1>2. lineup' = RenderLists(l) /\ sheet' = sheet
    BY DEF Drop
  <1>3. t \in Types /\ from \in 1..Len(Group(lineup, t)) /\ IsLists(lineup.starters, lineup.subs, lineup.next)
    BY <1>1 DEF IsOpen
  <1> HIDE DEF t, from
  <1>4. /\ DOMAIN r = LineupFields /\ r.next = lineup.next /\ r.phase = lineup.phase
        /\ IsLists(r.starters, r.subs, r.next)
    BY <1>1, <1>3, Moved
  <1> HIDE DEF r
  <1>5. /\ DOMAIN l = LineupFields /\ l.next = lineup.next /\ l.phase = "open" /\ l.dragged = <<>>
        /\ l.starters = r.starters /\ l.subs = r.subs
    BY <1>1, <1>4 DEF LineupFields
  <1> HIDE DEF l
  <1>6. IsDialog(RenderLists(l)) /\ RenderLists(l).next = lineup.next
    BY <1>1, <1>4, <1>5, Rendered DEF IsFresh
  <1>7. QED
    BY <1>2, <1>6 DEF LineupInv

LEMMA AddPlayerKeeps == ASSUME LineupInv, NEW type \in Types, AddPlayer(type) PROVE LineupInv'
  <1> DEFINE s == Scraped(lineup)
             n == lineup.next
             list == Append(Group(s, type), Blank(s.next))
             r == WithGroup(s, type, list)
             m == n + 1
             l == [r EXCEPT !.next = @ + 1]
  <1>1. IsFresh(lineup) /\ IsOpen(lineup) /\ lineup.phase = "open" /\ lineup.dragged = <<>>
    BY DEF AddPlayer, Free, LineupInv, IsDialog
  <1>2. lineup' = RenderLists(l) /\ sheet' = sheet
    BY DEF AddPlayer
  <1>3. /\ IsFresh(s) /\ s.phase = "open" /\ s.dragged = <<>> /\ s.next = n /\ IsLists(s.starters, s.subs, n)
    BY <1>1, ScrapedLists
  <1> HIDE DEF s
  <1>4. n \in Nat /\ n >= 100 /\ DOMAIN s = LineupFields
    BY <1>1, <1>3 DEF IsFresh
  <1>5. IsLists(Group(s, type), Group(s, Opposite(type)), n)
    BY <1>3, EitherGroup
  <1>6. Blank(s.next) \in Person /\ Blank(s.next).id = n
    BY <1>3, <1>4, PersonTyping
  <1>7. IsLists(list, Group(s, Opposite(type)), m)
    BY <1>4, <1>5, <1>6, ListsLonger
  <1> HIDE DEF list
  <1>8. /\ DOMAIN r = LineupFields /\ r.next = n /\ r.phase = "open" /\ r.dragged = <<>>
        /\ Group(r, type) = list /\ Group(r, Opposite(type)) = Group(s, Opposite(type))
    BY <1>3, <1>4, WithGroupIs
  <1> HIDE DEF r
  <1>9. /\ DOMAIN l = LineupFields /\ l.next = m /\ l.phase = "open" /\ l.dragged = <<>>
        /\ l.starters = r.starters /\ l.subs = r.subs
    BY <1>8 DEF LineupFields
  <1>10. m \in Nat /\ m >= 100 /\ n <= m
    BY <1>4
  <1> HIDE DEF l, m
  <1>11. Group(l, type) = list /\ Group(l, Opposite(type)) = Group(s, Opposite(type))
    BY <1>8, <1>9 DEF Group
  <1>12. IsLists(l.starters, l.subs, l.next)
    BY <1>7, <1>9, <1>11, GroupsAre
  <1>13. IsDialog(RenderLists(l)) /\ RenderLists(l).next = m
    BY <1>9, <1>10, <1>12, Rendered DEF IsFresh
  <1>14. IsSheet(sheet, m)
    BY <1>4, <1>10, SheetLater DEF LineupInv
  <1>15. QED
    BY <1>2, <1>13, <1>14 DEF LineupInv

LEMMA RemoveSubKeeps == ASSUME LineupInv, NEW k \in Nat, RemoveSub(k) PROVE LineupInv'
  <1> DEFINE s == Scraped(lineup)
             list == RemoveAt(s.subs, k)
             l == [s EXCEPT !.subs = RemoveAt(@, k)]
             n == lineup.next
  <1>1. IsFresh(lineup) /\ IsOpen(lineup) /\ lineup.phase = "open" /\ lineup.dragged = <<>>
    BY DEF RemoveSub, Free, LineupInv, IsDialog
  <1>2. lineup' = RenderLists(l) /\ sheet' = sheet /\ k \in DOMAIN lineup.rows.subs
    BY DEF RemoveSub
  <1>3. /\ IsFresh(s) /\ s.phase = "open" /\ s.dragged = <<>> /\ s.next = n
        /\ s.subs = lineup.rows.subs /\ IsLists(s.starters, s.subs, n)
    BY <1>1, ScrapedLists
  <1> HIDE DEF s
  <1>4. n \in Nat /\ n >= 100 /\ DOMAIN s = LineupFields
    BY <1>1, <1>3 DEF IsFresh
  <1>5. k \in 1..Len(s.subs) /\ IsLists(s.subs, s.starters, n)
    BY <1>2, <1>3, ListsEither DEF IsLists
  <1>6. IsLists(s.starters, list, n)
    BY <1>4, <1>5, ListsLess, ListsEither
  <1>7. l = [s EXCEPT !.subs = list]
    OBVIOUS
  <1> HIDE DEF list, l
  <1>8. /\ DOMAIN l = LineupFields /\ l.next = n /\ l.phase = "open" /\ l.dragged = <<>>
        /\ l.starters = s.starters /\ l.subs = list
    BY <1>3, <1>4, <1>7 DEF LineupFields
  <1>9. IsDialog(RenderLists(l)) /\ RenderLists(l).next = n
    BY <1>4, <1>6, <1>8, Rendered DEF IsFresh
  <1>10. QED
    BY <1>2, <1>9 DEF LineupInv

LEMMA CloseKeeps == ASSUME LineupInv, CloseLineup \/ LineupSaved PROVE LineupInv'
  <1>1. CASE CloseLineup
    <2>1. lineup' = [Closed EXCEPT !.next = lineup.next] /\ sheet' = sheet
      BY <1>1 DEF CloseLineup
    <2>2. DOMAIN lineup' = LineupFields /\ lineup'.next = lineup.next /\ lineup'.phase = "closed"
          /\ lineup'.dragged = <<>>
      BY <2>1, DialogFields DEF LineupFields
    <2>3. QED
      BY <2>1, <2>2 DEF LineupInv, IsDialog, IsFresh
  <1>2. CASE LineupSaved
    <2>1. lineup' = [lineup EXCEPT !.phase = "closed"] /\ sheet' = sheet /\ lineup.phase = "saved"
      BY <1>2 DEF LineupSaved
    <2>2. /\ DOMAIN lineup' = LineupFields /\ lineup'.next = lineup.next /\ lineup'.phase = "closed"
          /\ lineup'.dragged = lineup.dragged
      BY <2>1 DEF LineupFields, LineupInv, IsDialog, IsFresh
    <2>3. QED
      BY <2>1, <2>2 DEF LineupInv, IsDialog, IsFresh
  <1>3. QED
    BY <1>1, <1>2

-----------------------------------------------------------------------------
(* The sheet is saved, or changed by another scorer.                       *)

\* A slot keeps its record.
SameSlot(old, new) == /\ IsPrefix(old.history, new.history)
                      /\ old.history = new.history => old.current.id = new.current.id
KeepsSlots(r, s) == \A k \in DOMAIN r, j \in DOMAIN s :
    r[k].starter.id = s[j].starter.id => SameSlot(r[k], s[j])
EachOnce(r) == \A j \in 1..Len(r) : \A k \in 1..Len(r) : r[j].starter.id = r[k].starter.id => j = k

LEMMA SlotIsSame == ASSUME NEW r \in SlotOf PROVE SameSlot(r, r)
  BY DEF SameSlot, IsPrefix, SlotOf

LEMMA SheetOnce == ASSUME NEW s, NEW n, IsSheet(s, n) PROVE EachOnce(s.roster)
  <1> DEFINE r == s.roster
             x == StartersOf(r)
  <1>1. r \in Seq(SlotOf) /\ \A j \in 1..Len(x) : \A k \in 1..Len(x) : x[j].id = x[k].id => j = k
    BY DEF IsSheet, IsLists, OneEach
  <1>2. Len(x) = Len(r) /\ \A k \in 1..Len(r) : x[k] = r[k].starter
    BY <1>1, StartersTyping
  <1> HIDE DEF x
  <1>3. QED
    BY <1>1, <1>2 DEF EachOnce

\* What save makes of a starter.
LEMMA SavedSlotIs ==
    ASSUME NEW roster \in Seq(SlotOf), EachOnce(roster), NEW p \in Person
    PROVE  LET new == SavedSlot(p, roster)
           IN /\ new \in SlotOf /\ new.starter = p
              /\ \A k \in 1..Len(roster) : roster[k].starter.id = p.id => SameSlot(roster[k], new)
  <1> DEFINE n == Len(roster)
             I == {i \in 1..n : roster[i].starter.id = p.id}
             mine == IF I # {} THEN Min(I) ELSE 0
             new == SavedSlot(p, roster)
  <1>1. n \in Nat /\ \A k \in 1..n : roster[k] \in SlotOf
    OBVIOUS
  <1>2. new = IF mine = 0 THEN Slot(p)
              ELSE [roster[mine] EXCEPT !.starter = p,
                      !.current = IF roster[mine].current.id = roster[mine].starter.id THEN p ELSE @]
    BY DEF SavedSlot, SelectInSeq
  <1> HIDE DEF new
  <1>3. CASE I = {}
    <2>1. mine = 0
      BY <1>3
    <2> HIDE DEF mine
    <2>2. new = Slot(p)
      BY <1>2, <2>1
    <2>3. new = [starter |-> p, current |-> p, history |-> <<>>] /\ <<>> \in Seq(Person)
      BY <2>2 DEF Slot
    <2>4. new \in SlotOf /\ new.starter = p
      BY <2>3 DEF SlotOf
    <2>5. QED
      BY <1>3, <2>4 DEF new
  <1>4. ASSUME NEW k \in 1..n, roster[k].starter.id = p.id
        PROVE  new \in SlotOf /\ new.starter = p /\ SameSlot(roster[k], new)
    <2> DEFINE old == roster[k]
               now == IF old.current.id = old.starter.id THEN p ELSE old.current
    <2>1. I = {k}
      BY <1>1, <1>4 DEF EachOnce
    <2>2. mine = k
      <3>1. I # {} /\ Min(I) = k
        BY <1>1, <2>1 DEF Min
      <3>2. QED
        BY <3>1
    <2> HIDE DEF mine
    <2>3. new = [old EXCEPT !.starter = p, !.current = now]
      BY <1>1, <1>2, <2>2
    <2>4. /\ old \in SlotOf /\ old.starter.id = p.id
      BY <1>1, <1>4
    <2> HIDE DEF old
    <2>5. now \in Person /\ now.id = old.current.id
      BY <2>4 DEF SlotOf
    <2> HIDE DEF now
    <2>6. new \in SlotOf /\ new.starter = p /\ new.history = old.history /\ new.current = now
      BY <2>3, <2>4 , <2>5 DEF SlotOf
    <2>7. SameSlot(old, new)
      BY <2>4, <2>5, <2>6 DEF SameSlot, IsPrefix, SlotOf
    <2>8. QED
      BY <2>6, <2>7 DEF old
  <1>5. CASE I # {}
    <2>1. PICK k \in 1..n : roster[k].starter.id = p.id
      BY <1>5
    <2>2. new \in SlotOf /\ new.starter = p
      BY <1>4, <2>1
    <2>3. QED
      BY <1>4, <2>2 DEF new
  <1>6. QED
    BY <1>3, <1>5

\* What the button has to store, and what it must leave of the slots.
SavesAsShown ==
    LET starters == Named(lineup.rows.starters)
        all == starters \o Named(lineup.rows.subs)
    IN /\ [k \in DOMAIN sheet'.roster |-> sheet'.roster[k].starter] = starters
       /\ sheet'.subs = Named(lineup.rows.subs)
       /\ \A j, k \in DOMAIN all : all[j].id = all[k].id => j = k

\* Two lists with nobody twice are one list with nobody twice.
LEMMA AllOnce ==
    ASSUME NEW a, NEW b, NEW n, IsLists(a, b, n)
    PROVE  \A j, k \in DOMAIN (a \o b) : (a \o b)[j].id = (a \o b)[k].id => j = k
  <1> DEFINE w == a \o b
             m == Len(a)
  <1>1. /\ a \in Seq(Person) /\ b \in Seq(Person) /\ m \in Nat
        /\ \A j \in 1..m : \A k \in 1..m : a[j].id = a[k].id => j = k
        /\ \A j \in 1..Len(b) : \A k \in 1..Len(b) : b[j].id = b[k].id => j = k
        /\ \A j \in 1..m : \A k \in 1..Len(b) : a[j].id # b[k].id
    BY DEF IsLists, OneEach
  <1>2. /\ DOMAIN w = 1..m + Len(b) /\ Len(b) \in Nat
        /\ \A j \in 1..m : w[j] = a[j]
        /\ \A j \in 1..m + Len(b) : j > m => j - m \in 1..Len(b) /\ w[j] = b[j - m]
    BY <1>1
  <1> HIDE DEF w, m
  <1>3. ASSUME NEW x \in DOMAIN w, NEW y \in DOMAIN w, x <= m, y > m, w[x].id = w[y].id PROVE FALSE
    <2> DEFINE v == y - m
    <2>1. v \in 1..Len(b) /\ w[y] = b[v] /\ x \in 1..m /\ w[x] = a[x]
      BY <1>1, <1>2, <1>3
    <2> HIDE DEF v
    <2>2. QED
      BY <1>1, <1>3, <2>1
  <1>4. ASSUME NEW j \in DOMAIN w, NEW k \in DOMAIN w, w[j].id = w[k].id PROVE j = k
    <2>1. j \in Nat /\ k \in Nat
      BY <1>1, <1>2
    <2>2. CASE j <= m /\ k <= m
      <3>1. j \in 1..m /\ k \in 1..m
        BY <1>1, <1>2, <2>2
      <3>2. QED
        BY <1>1, <1>2, <1>4, <3>1
    <2>3. CASE j > m /\ k > m
      <3> DEFINE u == j - m
                 v == k - m
      <3>1. u \in 1..Len(b) /\ v \in 1..Len(b) /\ w[j] = b[u] /\ w[k] = b[v]
        BY <1>1, <1>2, <2>3
      <3> HIDE DEF u, v
      <3>2. u = v
        BY <1>1, <1>4, <3>1
      <3>3. QED
        BY <1>1, <2>1, <3>2 DEF u, v
    <2>4. QED
      BY <1>1, <1>3, <1>4, <2>1, <2>2, <2>3
  <1>5. QED
    BY <1>4 DEF w

LEMMA SaveKeeps ==
    ASSUME LineupInv, SaveLineup
    PROVE  LineupInv' /\ SavesAsShown /\ KeepsSlots(sheet.roster, sheet'.roster)
  <1> DEFINE l == Scraped(lineup)
             n == lineup.next
             x == Named(lineup.rows.starters)
             y == Named(lineup.rows.subs)
             old == sheet.roster
             new == [k \in DOMAIN x |-> SavedSlot(x[k], old)]
             m == Len(x)
  <1>1. /\ IsFresh(lineup) /\ IsOpen(lineup) /\ IsSheet(sheet, n)
        /\ sheet' = SavedSheet(l) /\ lineup' = [Closed EXCEPT !.phase = "saved", !.next = n]
    BY DEF SaveLineup, Free, LineupInv, IsDialog
  <1>2. l.starters = lineup.rows.starters /\ l.subs = lineup.rows.subs
    BY <1>1, ScrapedLists
  <1>3. sheet' = [roster |-> new, subs |-> y]
    BY <1>1, <1>2 DEF SavedSheet
  <1>4. IsLists(x, y, n)
    BY <1>1, ListsPart DEF IsOpen
  <1>5. old \in Seq(SlotOf) /\ EachOnce(old)
    BY <1>1, SheetOnce DEF IsSheet
  <1> HIDE DEF x, y, old, l
  <1>6. x \in Seq(Person) /\ m \in Nat /\ DOMAIN x = 1..m /\ \A k \in 1..m : x[k] \in Person
    BY <1>4 DEF IsLists
  <1> HIDE DEF m
  <1>7. /\ DOMAIN new = 1..m
        /\ \A k \in 1..m : /\ new[k] \in SlotOf /\ new[k].starter = x[k]
                           /\ \A j \in 1..Len(old) : old[j].starter.id = x[k].id => SameSlot(old[j], new[k])
    <2>1. new = [k \in 1..m |-> SavedSlot(x[k], old)]
      BY <1>6
    <2>2. \A k \in 1..m : new[k] = SavedSlot(x[k], old) /\ x[k] \in Person
      BY <1>6, <2>1
    <2>3. DOMAIN new = 1..m
      BY <2>1
    <2> HIDE DEF new
    <2>4. QED
      BY <1>5, <2>2, <2>3, SavedSlotIs
  <1>8. new \in Seq(SlotOf) /\ Len(new) = m
    <2>1. new = [k \in 1..m |-> new[k]]
      BY <1>6
    <2> HIDE DEF new
    <2>2. new \in [1..m -> SlotOf]
      BY <1>7, <2>1
    <2>3. QED
      BY <1>6, <2>2
  <1> HIDE DEF new
  <1>9. sheet'.roster = new /\ sheet'.subs = y /\ DOMAIN sheet' = {"roster", "subs"}
    BY <1>3
  <1>10. x = [k \in 1..m |-> x[k]]
    BY <1>6 DEF m
  <1>11. StartersOf(new) = x
    <2>1. StartersOf(new) = [k \in 1..m |-> new[k].starter]
      BY <1>8 DEF StartersOf
    <2>2. \A k \in 1..m : new[k].starter = x[k]
      BY <1>7
    <2>3. [k \in 1..m |-> new[k].starter] = [k \in 1..m |-> x[k]]
      BY <2>2
    <2>4. QED
      BY <1>10, <2>1, <2>3
  <1>12. IsSheet(sheet', n)
    BY <1>4, <1>8, <1>9, <1>11 DEF IsSheet
  <1>13. /\ DOMAIN lineup' = LineupFields /\ lineup'.next = n /\ lineup'.phase = "saved"
         /\ lineup'.dragged = <<>>
    BY <1>1, DialogFields DEF LineupFields
  <1>14. LineupInv'
    BY <1>1, <1>12, <1>13 DEF LineupInv, IsDialog, IsFresh
  <1>15. SavesAsShown
    <2>1. [k \in DOMAIN new |-> new[k].starter] = x
      BY <1>7, <1>8, <1>11 DEF StartersOf
    <2>2. \A j, k \in DOMAIN (x \o y) : (x \o y)[j].id = (x \o y)[k].id => j = k
      BY <1>4, AllOnce
    <2>3. QED
      BY <1>9, <2>1, <2>2 DEF SavesAsShown, x, y
  <1>16. KeepsSlots(old, new)
    <2>1. DOMAIN old = 1..Len(old)
      BY <1>5
    <2>2. QED
      BY <1>7, <2>1 DEF KeepsSlots
  <1>17. QED
    BY <1>9, <1>14, <1>15, <1>16 DEF old

\* The slots rearranged, or one of them played by another: the starters stay.
LEMMA OthersKeepLineup ==
    ASSUME LineupInv,
           OtherReorders \/ \E k \in DOMAIN sheet.roster : \E p \in ToSet(sheet.subs) : OtherSubstitutes(k, p)
    PROVE  LineupInv' /\ KeepsSlots(sheet.roster, sheet'.roster)
  <1> DEFINE old == sheet.roster
             n == lineup.next
             m == Len(old)
             x == StartersOf(old)
             b == sheet.subs
  <1>1. /\ old \in Seq(SlotOf) /\ EachOnce(old) /\ IsLists(x, b, n) /\ DOMAIN sheet = {"roster", "subs"}
        /\ lineup' = lineup
    BY SheetOnce DEF LineupInv, IsSheet, OtherReorders, OtherSubstitutes
  <1>2. m \in Nat /\ DOMAIN old = 1..m /\ \A k \in 1..m : old[k] \in SlotOf
    BY <1>1
  <1>3. Len(x) = m /\ x \in Seq(Person) /\ \A k \in 1..m : x[k] = old[k].starter
    BY <1>1, StartersTyping
  <1>4. ASSUME sheet'.subs = b, DOMAIN sheet' = {"roster", "subs"}, sheet'.roster \in Seq(SlotOf),
               IsLists(StartersOf(sheet'.roster), b, n)
        PROVE  LineupInv'
    BY <1>1, <1>4 DEF LineupInv, IsSheet
  <1>5. CASE OtherReorders
    <2> DEFINE new == Reverse(old)
    <2>1. sheet' = [sheet EXCEPT !.roster = new]
      BY <1>5 DEF OtherReorders
    <2>2. new = [i \in 1..m |-> old[(m - i) + 1]]
      BY DEF Reverse
    <2> HIDE DEF new, x, old, m
    <2>3. \A i \in 1..m : (m - i) + 1 \in 1..m
      BY <1>2
    <2>4. DOMAIN new = 1..m /\ \A i \in 1..m : new[i] = old[(m - i) + 1] /\ new[i] \in SlotOf
      BY <1>2, <2>2, <2>3
    <2>5. new \in Seq(SlotOf) /\ Len(new) = m
      <3>1. new = [i \in 1..m |-> new[i]]
        BY <2>2, <2>4
      <3>2. new \in [1..m -> SlotOf]
        BY <2>4, <3>1
      <3>3. QED
        BY <1>2, <3>2
    <2>6. sheet'.roster = new /\ sheet'.subs = b /\ DOMAIN sheet' = {"roster", "subs"}
      BY <1>1, <2>1
    <2> DEFINE y == StartersOf(new)
    <2>7. Len(y) = m /\ y \in Seq(Person) /\ \A k \in 1..m : y[k] = new[k].starter
      BY <2>5, StartersTyping
    <2> HIDE DEF y
    <2>8. ASSUME NEW i \in 1..m PROVE y[i] = x[(m - i) + 1]
      <3> DEFINE u == (m - i) + 1
      <3>1. u \in 1..m /\ y[i] = new[i].starter /\ new[i] = old[u]
        BY <2>3, <2>4, <2>7
      <3> HIDE DEF u
      <3>2. y[i] = x[u]
        BY <1>3, <3>1
      <3>3. QED
        BY <3>2 DEF u
    <2>9. IsLists(y, b, n)
      <3>1. /\ b \in Seq(Person) /\ Below(b, n)
            /\ \A i \in 1..m : \A j \in 1..m : x[i].id = x[j].id => i = j
            /\ \A i \in 1..Len(b) : \A j \in 1..Len(b) : b[i].id = b[j].id => i = j
            /\ \A i \in 1..m : \A j \in 1..Len(b) : x[i].id # b[j].id
            /\ \A i \in 1..m : x[i] \in Under(n)
        BY <1>1, <1>3 DEF IsLists, OneEach, Below
      <3>2. ASSUME NEW i \in 1..m, NEW j \in 1..m, y[i].id = y[j].id PROVE i = j
        <4> DEFINE u == (m - i) + 1
                   v == (m - j) + 1
        <4>1. u \in 1..m /\ v \in 1..m /\ y[i] = x[u] /\ y[j] = x[v]
          BY <2>3, <2>8
        <4> HIDE DEF u, v
        <4>2. u = v
          BY <3>1, <3>2, <4>1
        <4>3. QED
          BY <1>2, <4>2 DEF u, v
      <3>3. ASSUME NEW i \in 1..m PROVE y[i] \in Under(n) /\ \A j \in 1..Len(b) : y[i].id # b[j].id
        <4> DEFINE u == (m - i) + 1
        <4>1. u \in 1..m /\ y[i] = x[u]
          BY <2>3, <2>8
        <4> HIDE DEF u
        <4>2. QED
          BY <3>1, <4>1
      <3>4. QED
        BY <2>7, <3>1, <3>2, <3>3 DEF IsLists, OneEach, Below
    <2>10. KeepsSlots(old, new)
      <3>1. ASSUME NEW k \in 1..m, NEW j \in 1..m, old[k].starter.id = new[j].starter.id
            PROVE  SameSlot(old[k], new[j])
        <4> DEFINE u == (m - j) + 1
        <4>1. u \in 1..m /\ new[j] = old[u]
          BY <2>3, <2>4
        <4> HIDE DEF u
        <4>2. u = k
          BY <1>1, <3>1, <4>1 DEF EachOnce, m
        <4>3. QED
          BY <1>2, <4>1, <4>2, SlotIsSame
      <3>2. QED
        BY <1>2, <2>4, <3>1 DEF KeepsSlots
    <2>11. QED
      BY <1>4, <2>5, <2>6, <2>9, <2>10 DEF y, old
  <1>6. ASSUME NEW k \in DOMAIN sheet.roster, NEW p \in ToSet(sheet.subs), OtherSubstitutes(k, p)
        PROVE  LineupInv' /\ KeepsSlots(sheet.roster, sheet'.roster)
    <2> DEFINE was == old[k]
               long == Append(was.history, was.current)
               slot == [was EXCEPT !.history = long, !.current = p]
               new == [old EXCEPT ![k] = slot]
    <2>1. sheet' = [sheet EXCEPT !.roster = new]
      BY <1>1, <1>2, <1>6 DEF OtherSubstitutes
    <2>2. was \in SlotOf
      BY <1>2
    <2>3. p \in Person
      <3>1. \A t : t \in Seq(Person) => ToSet(t) \subseteq Person
        <4>1. \A t : t \in Seq(Person) => DOMAIN t = 1..Len(t) /\ \A i \in 1..Len(t) : t[i] \in Person
          OBVIOUS
        <4>2. QED
          BY <4>1 DEF ToSet
      <3>2. QED
        BY <1>1, <3>1 DEF IsLists
    <2> HIDE DEF was
    <2>4. /\ slot \in SlotOf /\ slot.starter = was.starter /\ slot.history = long
      <3>1. /\ was.starter \in Person /\ was.current \in Person /\ was.history \in Seq(Person)
            /\ was = [starter |-> was.starter, current |-> was.current, history |-> was.history]
        BY <2>2 DEF SlotOf
      <3>2. long \in Seq(Person)
        BY <3>1
      <3> HIDE DEF long
      <3>3. QED
        BY <2>2, <2>3, <3>2 DEF SlotOf
    <2>5. SameSlot(was, slot)
      <3>1. was.history \in Seq(Person) /\ was.current \in Person
        BY <2>2 DEF SlotOf
      <3> DEFINE h == was.history
                 c == was.current
      <3> HIDE DEF h, c
      <3>2. IsPrefix(h, Append(h, c)) /\ h # Append(h, c)
        <4>1. h \in Seq(Person) /\ c \in Person
          BY <3>1 DEF h, c
        <4>2. Len(h) \in Nat /\ Len(Append(h, c)) = Len(h) + 1
          BY <4>1
        <4>3. SubSeq(h, 1, Len(h)) = h /\ SubSeq(Append(h, c), 1, Len(h)) = h
          BY <4>1
        <4> DEFINE g == Append(h, c)
        <4> HIDE DEF g
        <4>4. IsPrefix(h, g)
          BY <4>2, <4>3 DEF IsPrefix, g
        <4>5. h # g
          BY <4>2 DEF g
        <4>6. QED
          BY <4>4, <4>5 DEF g
      <3>3. QED
        BY <2>4, <3>2 DEF SameSlot, h, c
    <2> HIDE DEF slot, old
    <2>6. /\ DOMAIN new = 1..m /\ new \in Seq(SlotOf) /\ Len(new) = m
          /\ \A i \in 1..m : new[i] = IF i = k THEN slot ELSE old[i]
      BY <1>1, <1>2, <2>4 DEF old
    <2> HIDE DEF new
    <2>7. sheet'.roster = new /\ sheet'.subs = b /\ DOMAIN sheet' = {"roster", "subs"}
      BY <1>1, <2>1
    <2>8. \A i \in 1..m : new[i].starter = old[i].starter
      BY <2>4, <2>6 DEF was
    <2>9. StartersOf(new) = x
      <3>1. StartersOf(new) = [i \in 1..m |-> new[i].starter] /\ x = [i \in 1..m |-> old[i].starter]
        BY <2>6 DEF StartersOf
      <3>2. QED
        BY <2>8, <3>1
    <2>10. KeepsSlots(old, new)
      <3>1. ASSUME NEW i \in 1..m, NEW j \in 1..m, old[i].starter.id = new[j].starter.id
            PROVE  SameSlot(old[i], new[j])
        <4>1. i = j
          BY <1>1, <2>8, <3>1 DEF EachOnce
        <4>2. QED
          BY <1>2, <2>5, <2>6, <4>1, SlotIsSame DEF was
      <3>2. QED
        BY <1>2, <2>6, <3>1 DEF KeepsSlots
    <2>11. QED
      BY <1>1, <1>4, <2>6, <2>7, <2>9, <2>10 DEF old
  <1>7. QED
    BY <1>5, <1>6

-----------------------------------------------------------------------------
(* Every step.                                                             *)

LEMMA LineupStarts == ASSUME LineupInit PROVE LineupInv
  <1> DEFINE r == FirstRoster
             q == FirstSubs
             old == [k \in DOMAIN r |-> Slot(Player(r[k]))]
             b == Players(q)
             x == StartersOf(old)
  <1>1. /\ r \in Seq(0..99) /\ q \in Seq(0..99) /\ IsInjective(r \o q)
    BY LineupAssumption
  <1>2. \A S, t : t \in Seq(S) => /\ Len(t) \in Nat /\ DOMAIN t = 1..Len(t)
                                  /\ \A k \in 1..Len(t) : t[k] \in S
    OBVIOUS
  <1>3. sheet = [roster |-> old, subs |-> b] /\ lineup = Closed
    BY DEF LineupInit
  <1>4. \A p \in 0..99 : Player(p) \in Person /\ Player(p).id = p /\ Player(p) \in Under(100)
    BY DEF Player, Person, Names, Under
  <1>5. \A p \in Person : Slot(p) \in SlotOf /\ Slot(p).starter = p
    BY DEF Slot, SlotOf
  <1> DEFINE m == Len(r)
             l == Len(q)
  <1>6. /\ m \in Nat /\ DOMAIN r = 1..m /\ \A k \in 1..m : r[k] \in 0..99
        /\ l \in Nat /\ DOMAIN q = 1..l /\ \A k \in 1..l : q[k] \in 0..99
    BY <1>1, <1>2
  <1>7. old = [k \in 1..m |-> Slot(Player(r[k]))] /\ b = [k \in 1..l |-> Player(q[k])]
    BY <1>6 DEF Players
  <1> HIDE DEF old, b
  <1>8. old \in Seq(SlotOf) /\ Len(old) = m /\ \A k \in 1..m : old[k].starter = Player(r[k])
    <2>1. \A k \in 1..m : Slot(Player(r[k])) \in SlotOf /\ Slot(Player(r[k])).starter = Player(r[k])
      BY <1>4, <1>5, <1>6
    <2> HIDE DEF m
    <2>2. old \in [1..m -> SlotOf]
      BY <1>7, <2>1
    <2>3. QED
      BY <1>6, <1>7, <2>1, <2>2
  <1>9. Len(x) = m /\ x \in Seq(Person) /\ \A k \in 1..m : x[k] = Player(r[k])
    BY <1>8, StartersTyping
  <1>10. b \in Seq(Person) /\ Len(b) = l /\ \A k \in 1..l : b[k] = Player(q[k])
    <2> HIDE DEF l
    <2>1. b \in [1..l -> Person]
      BY <1>4, <1>6, <1>7
    <2>2. QED
      BY <1>6, <1>7, <2>1
  <1> HIDE DEF x
  <1>11. /\ \A j \in 1..m : \A k \in 1..m : r[j] = r[k] => j = k
         /\ \A j \in 1..l : \A k \in 1..l : q[j] = q[k] => j = k
         /\ \A j \in 1..m : \A k \in 1..l : r[j] # q[k]
    <2> DEFINE w == r \o q
    <2>1. /\ DOMAIN w = 1..m + l /\ \A j \in 1..m : w[j] = r[j] /\ j \in 1..m + l
          /\ \A k \in 1..l : w[m + k] = q[k] /\ m + k \in 1..m + l
      <3>1. r \in Seq(Nat) /\ q \in Seq(Nat)
        <4>1. 0..99 \subseteq Nat
          OBVIOUS
        <4>2. QED
          BY <1>1, <4>1, SeqMore
      <3>2. QED
        BY <3>1
    <2>2. \A j \in DOMAIN w : \A k \in DOMAIN w : w[j] = w[k] => j = k
      BY <1>1 DEF IsInjective
    <2> HIDE DEF w, m, l
    <2>3. ASSUME NEW j \in 1..m, NEW k \in 1..m, r[j] = r[k] PROVE j = k
      BY <2>1, <2>2, <2>3
    <2>4. ASSUME NEW j \in 1..l, NEW k \in 1..l, q[j] = q[k] PROVE j = k
      <3>1. m + j = m + k
        BY <2>1, <2>2, <2>4
      <3>2. QED
        BY <1>6, <3>1
    <2>5. ASSUME NEW j \in 1..m, NEW k \in 1..l, r[j] = q[k] PROVE FALSE
      <3>1. j = m + k
        BY <2>1, <2>2, <2>5
      <3>2. QED
        BY <1>6, <3>1
    <2>6. QED
      BY <2>3, <2>4, <2>5
  <1>12. /\ \A j \in 1..m : x[j].id = r[j] /\ x[j] \in Under(100)
         /\ \A j \in 1..l : b[j].id = q[j] /\ b[j] \in Under(100)
    BY <1>4, <1>6, <1>9, <1>10
  <1> HIDE DEF m, l
  <1>13. IsLists(x, b, 100)
    BY <1>9, <1>10, <1>11, <1>12 DEF IsLists, OneEach, Below
  <1>14. IsSheet(sheet, 100)
    BY <1>3, <1>8, <1>13 DEF IsSheet, x
  <1>15. lineup.next = 100
    BY <1>3 DEF Closed
  <1>16. QED
    BY <1>3, <1>14, <1>15, DialogFields DEF LineupInv, IsDialog, IsFresh

\* What a step of the dialog or of another scorer does.
LineupStays ==
    /\ lineup.phase = "open" /\ lineup'.phase = "saved" => SavesAsShown
    /\ KeepsSlots(sheet.roster, sheet'.roster)

LEMMA SheetStays == ASSUME LineupInv, sheet' = sheet PROVE KeepsSlots(sheet.roster, sheet'.roster)
  <1> DEFINE r == sheet.roster
  <1>1. r \in Seq(SlotOf) /\ EachOnce(r)
    BY SheetOnce DEF LineupInv, IsSheet
  <1> HIDE DEF r
  <1>2. DOMAIN r = 1..Len(r) /\ \A k \in 1..Len(r) : r[k] \in SlotOf
    BY <1>1
  <1>3. KeepsSlots(r, r)
    BY <1>1, <1>2, SlotIsSame DEF KeepsSlots, EachOnce
  <1>4. QED
    BY <1>3 DEF r

LEMMA EditStays ==
    ASSUME LineupInv, sheet' = sheet, LineupInv', lineup'.phase # "saved" PROVE LineupInv' /\ LineupStays
  BY SheetStays DEF LineupStays

\* Rendered is not saved.
LEMMA RenderedPhase ==
    ASSUME NEW l PROVE RenderLists(l).phase = l.phase
  BY DEF RenderLists

LEMMA LineupStep == ASSUME LineupInv, LineupNext PROVE LineupInv' /\ LineupStays
  <1>1. DOMAIN lineup = LineupFields
    BY DEF LineupInv, IsDialog, IsFresh
  <1>2. ASSUME NEW type \in Types, NEW k \in Nat, k >= 1, TypeName(type, k, "") \/ TypeName(type, k, "typed")
        PROVE  LineupInv' /\ LineupStays
    <2>1. "" \in Names /\ "typed" \in Names
      BY Zenon DEF Names
    <2>2. PICK name \in Names : TypeName(type, k, name)
      BY <1>2, <2>1, Zenon
    <2>3. LineupInv'
      BY <2>2, TypeNameKeeps
    <2>4. sheet' = sheet /\ lineup.phase = "open" /\ lineup'.phase = lineup.phase
      BY <1>1, <2>2 DEF TypeName, Free, LineupFields
    <2>5. QED
      BY <2>3, <2>4, EditStays
  <1>3. ASSUME NEW type \in Types, NEW k \in Nat, k >= 1, StartDrag(type, k) \/ Drop(type, k)
        PROVE  LineupInv' /\ LineupStays
    <2>1. LineupInv'
      BY <1>3, DragKeeps, DropKeeps
    <2>2. CASE StartDrag(type, k)
      <3>1. sheet' = sheet /\ lineup'.phase = lineup.phase /\ lineup.phase = "open"
        BY <1>1, <2>2 DEF StartDrag, Free, LineupFields
      <3>2. QED
        BY <2>1, <3>1, EditStays
    <2>3. CASE Drop(type, k)
      <3> DEFINE r == MovePlayer(lineup, lineup.dragged[2], lineup.dragged[1], k, type)
                 l == [r EXCEPT !.dragged = <<>>]
      <3>1. lineup' = RenderLists(l) /\ sheet' = sheet /\ lineup.phase = "open" /\ lineup.dragged # <<>>
        BY <2>3 DEF Drop
      <3>2. IsFresh(lineup) /\ IsOpen(lineup)
        BY <3>1 DEF LineupInv, IsDialog
      <3> DEFINE t == lineup.dragged[1]
                 from == lineup.dragged[2]
      <3>3. t \in Types /\ from \in 1..Len(Group(lineup, t)) /\ IsLists(lineup.starters, lineup.subs, lineup.next)
        BY <3>1, <3>2 DEF IsOpen
      <3>4. r = MovePlayer(lineup, from, t, k, type)
        OBVIOUS
      <3> HIDE DEF t, from, r
      <3>5. r.phase = "open"
        BY <1>3, <3>1, <3>2, <3>3, <3>4, Moved
      <3>6. l.phase = r.phase
        OBVIOUS
      <3> HIDE DEF l
      <3>7. lineup'.phase = "open"
        BY <3>1, <3>5, <3>6, RenderedPhase
      <3>8. QED
        BY <2>1, <3>1, <3>7, EditStays
    <2>4. QED
      BY <1>3, <2>2, <2>3
  <1>4. ASSUME NEW type \in Types, AddPlayer(type) PROVE LineupInv' /\ LineupStays
    <2>1. LineupInv'
      BY <1>4, AddPlayerKeeps
    <2> DEFINE s == Scraped(lineup)
               r == WithGroup(s, type, Append(Group(s, type), Blank(s.next)))
               l == [r EXCEPT !.next = @ + 1]
    <2>2. lineup' = RenderLists(l) /\ sheet' = sheet /\ lineup.phase = "open"
      BY <1>4 DEF AddPlayer, Free
    <2>3. s.phase = "open" /\ DOMAIN s = LineupFields
      BY <2>2, ScrapedLists DEF LineupInv, IsDialog, IsFresh
    <2> HIDE DEF s
    <2>4. r.phase = "open"
      BY <2>3, WithGroupIs
    <2> HIDE DEF r
    <2>5. l.phase = "open"
      BY <2>4
    <2> HIDE DEF l
    <2>6. lineup'.phase = "open"
      BY <2>2, <2>5, RenderedPhase
    <2>7. QED
      BY <2>1, <2>2, <2>6, EditStays
  <1>5. ASSUME NEW k \in Nat, RemoveSub(k) PROVE LineupInv' /\ LineupStays
    <2>1. LineupInv'
      BY <1>5, RemoveSubKeeps
    <2> DEFINE s == Scraped(lineup)
               l == [s EXCEPT !.subs = RemoveAt(@, k)]
    <2>2. lineup' = RenderLists(l) /\ sheet' = sheet /\ lineup.phase = "open"
      BY <1>5 DEF RemoveSub, Free
    <2>3. s.phase = "open"
      BY <2>2, ScrapedLists DEF LineupInv, IsDialog
    <2> HIDE DEF s
    <2>4. l.phase = "open"
      BY <2>3
    <2> HIDE DEF l
    <2>5. lineup'.phase = "open"
      BY <2>2, <2>4, RenderedPhase
    <2>6. QED
      BY <2>1, <2>2, <2>5, EditStays
  <1>6. CASE OpenLineup
    <2>1. sheet' = sheet /\ lineup'.phase = "opening"
      BY <1>1, <1>6 DEF OpenLineup, LineupFields
    <2>2. QED
      BY <1>6, <2>1, OpenLineupKeeps, EditStays
  <1>7. CASE ShowLineup
    <2> DEFINE lists == InitialLineup(lineup.read, lineup.next)
               l == [lineup EXCEPT !.phase = "open", !.starters = lists.starters, !.subs = lists.subs,
                                   !.next = @ + StarterCount + 1]
    <2>1. lineup' = RenderLists(l) /\ sheet' = sheet
      BY <1>7 DEF ShowLineup
    <2> HIDE DEF lists
    <2>2. l.phase = "open"
      BY <1>1 DEF LineupFields
    <2> HIDE DEF l
    <2>3. lineup'.phase = "open"
      BY <2>1, <2>2, RenderedPhase
    <2>4. QED
      BY <1>7, <2>1, <2>3, OpenLineupKeeps, EditStays
  <1>8. CASE EndDrag
    <2>1. sheet' = sheet /\ lineup'.phase = lineup.phase /\ lineup.phase = "open"
      BY <1>1, <1>8 DEF EndDrag, LineupFields
    <2>2. QED
      BY <1>8, <2>1, DragKeeps, EditStays
  <1>9. CASE CloseLineup \/ LineupSaved
    <2>1. sheet' = sheet /\ lineup'.phase = "closed"
      BY <1>1, <1>9, DialogFields DEF CloseLineup, LineupSaved, LineupFields
    <2>2. QED
      BY <1>9, <2>1, CloseKeeps, EditStays
  <1>10. CASE SaveLineup
    BY <1>10, SaveKeeps DEF LineupStays
  <1>11. ASSUME OtherReorders \/ \E k \in DOMAIN sheet.roster : \E p \in ToSet(sheet.subs) : OtherSubstitutes(k, p)
         PROVE  LineupInv' /\ LineupStays
    <2>1. lineup' = lineup
      BY <1>11 DEF OtherReorders, OtherSubstitutes
    <2>2. QED
      BY <1>11, <2>1, OthersKeepLineup DEF LineupStays
  <1> DEFINE last == Len(TeamPlayers) + StarterCount + 2
  <1>12. ASSUME NEW type \in Types, NEW k \in 1..last,
                \/ \E name \in {"", "typed"} : TypeName(type, k, name)
                \/ StartDrag(type, k) \/ Drop(type, k)
         PROVE  LineupInv' /\ LineupStays
    <2>1. k \in Nat /\ k >= 1
      OBVIOUS
    <2>2. ASSUME NEW name \in {"", "typed"}, TypeName(type, k, name)
          PROVE  TypeName(type, k, "") \/ TypeName(type, k, "typed")
      BY <2>2, Zenon
    <2>3. QED
      BY <1>2, <1>3, <1>12, <2>1, <2>2, Zenon
  <1>13. ASSUME NEW k \in 1..last, RemoveSub(k) PROVE LineupInv' /\ LineupStays
    <2>1. k \in Nat
      OBVIOUS
    <2>2. QED
      BY <1>5, <1>13, <2>1
  <1> HIDE DEF last
  <1>14. \/ OpenLineup \/ ShowLineup \/ EndDrag \/ CloseLineup \/ SaveLineup \/ LineupSaved
         \/ OtherReorders
         \/ \E type \in Types : AddPlayer(type)
         \/ \E type \in Types : \E k \in 1..last :
              \/ \E name \in {"", "typed"} : TypeName(type, k, name)
              \/ StartDrag(type, k) \/ Drop(type, k)
         \/ \E k \in 1..last : RemoveSub(k)
         \/ \E k \in DOMAIN sheet.roster : \E p \in ToSet(sheet.subs) : OtherSubstitutes(k, p)
    BY Zenon DEF LineupNext, last
  <1>15. QED
    BY <1>4, <1>6, <1>7, <1>8, <1>9, <1>10, <1>11, <1>12, <1>13, <1>14, Zenon

\* The invariant holds throughout, and every step saves and keeps.
LEMMA LineupHolds ==
    /\ Init => LineupInv
    /\ LineupInv /\ [Next]_vars => LineupInv' /\ LineupStays
  <1>1. Init => LineupInv
    BY LineupStarts DEF Init
  <1>2. ASSUME LineupInv, UNCHANGED lineupVars PROVE LineupInv' /\ LineupStays
    <2>1. lineup' = lineup /\ sheet' = sheet
      BY <1>2 DEF lineupVars
    <2>2. LineupInv'
      BY <1>2, <2>1 DEF LineupInv
    <2>3. QED
      BY <1>2, <2>1, <2>2, SheetStays DEF LineupStays
  <1>3. ASSUME LineupInv, [Next]_vars PROVE LineupInv' /\ LineupStays
    <2>1. CASE UNCHANGED vars
      BY <1>2, <1>3, <2>1 DEF vars
    <2>2. CASE Next
      <3>1. LineupNext \/ UNCHANGED lineupVars
        BY <2>2, Zenon DEF Next, Apart
      <3>2. QED
        BY <1>2, <1>3, <3>1, LineupStep
    <2>3. QED
      BY <1>3, <2>1, <2>2
  <1>4. QED
    BY <1>1, <1>3

(* SAVE in the lineup dialog stores the named rows as they stand and nobody *)
(* twice, for every roster, bench and team and after any dragging, adding   *)
(* and removing, whatever others did to the sheet meanwhile.                *)
THEOREM LineupsAreSavedAsShown == Spec => SavedAsShown
  <1>1. Init => LineupInv
    BY LineupHolds
  <1>2. LineupInv /\ [Next]_vars => LineupInv'
    BY LineupHolds
  <1>3. LineupInv /\ [Next]_vars =>
          [lineup.phase = "open" /\ lineup'.phase = "saved" =>
             LET starters == Named(lineup.rows.starters)
                 all == starters \o Named(lineup.rows.subs)
             IN /\ [k \in DOMAIN sheet'.roster |-> sheet'.roster[k].starter] = starters
                /\ sheet'.subs = Named(lineup.rows.subs)
                /\ \A j, k \in DOMAIN all : all[j].id = all[k].id => j = k]_vars
    BY LineupHolds DEF LineupStays, SavesAsShown
  <1>4. QED
    BY <1>1, <1>2, <1>3, PTL DEF Spec, SavedAsShown

(* A starter who stays keeps the record of the slot and who plays in it:    *)
(* the dialog saves over the sheet as it is then, finding each slot by its  *)
(* starter, whom no other slot has.                                         *)
THEOREM SlotsKeepTheirHistory == Spec => SlotsKeepHistory
  <1>1. Init => LineupInv
    BY LineupHolds
  <1>2. LineupInv /\ [Next]_vars => LineupInv'
    BY LineupHolds
  <1>3. LineupInv /\ [Next]_vars =>
          [\A k \in DOMAIN sheet.roster, j \in DOMAIN sheet'.roster :
             LET old == sheet.roster[k]
                 new == sheet'.roster[j]
             IN old.starter.id = new.starter.id =>
                  /\ IsPrefix(old.history, new.history)
                  /\ old.history = new.history => old.current.id = new.current.id]_vars
    BY LineupHolds DEF LineupStays, KeepsSlots, SameSlot
  <1>4. QED
    BY <1>1, <1>2, <1>3, PTL DEF Spec, SlotsKeepHistory

=============================================================================
