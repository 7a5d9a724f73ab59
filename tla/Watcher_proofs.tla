--------------------------- MODULE Watcher_proofs ---------------------------
(***************************************************************************)
(* One who only watches a game sees the server's log, up to some point:    *)
(* for every set of clients and actions, every size of channel and batch   *)
(* and every number of lost calls, as long as connections last, nobody     *)
(* replaces the server's log by his own and no broadcast finds the channel *)
(* full.                                                                    *)
(***************************************************************************)
EXTENDS GameSync_proofs

\* What the theorem is about: no connection is lost and no page loaded again,
\* nobody saves over the server's log, nobody acts before all have joined.
Undisturbed ==
    /\ MaxDrop = 0 /\ MaxReload = 0
    /\ "force" \notin CanResolve
    /\ ~ActEarly

\* The channel has room for the broadcast of what is in Raft.
RoomToBroadcast == proposing # Nothing => HasRoom

Watches(c) == Own[c] = <<>>

-----------------------------------------------------------------------------
(* What a watcher is about to see.                                         *)

\* log is the first part of st, and not empty.
Behind(log, st) ==
    /\ Len(log) \in 1..Len(st)
    /\ \A i \in 1..Len(log) : log[i] = st[i]

\* The actions that a request will bring to every client.
Brought(r) ==
    IF r.type = "broadcast"
    THEN {r.log[i] : i \in {j \in 1..Len(r.log) : j > Len(r.log) - r.num}}
    ELSE {}

\* What the first i messages, or requests, bring.
Given(inbox, i) == UNION {Brings(inbox[j]) : j \in 1..i}

Coming(channel, i) == UNION {Brought(channel[j]) : j \in 1..i}

\* m is an answer to JOIN, or an action that is the next one to a client who
\* has those of S.
NextMessage(st, S, m) ==
    \/ m = Ack
    \/ m.type = "SYNC_UPDATE" /\ \E h \in 1..Len(st) : m.actions = SubSeq(st, 2, h)
    \/ m.type = "ACTION" /\ \E p \in 1..Len(st) :
            m.action = st[p] /\ (p > 1 => st[p - 1] \in S)

\* The same for a broadcast.
NextBroadcast(S, r) ==
    r.type = "broadcast" =>
        LET p == Len(r.log) - r.num IN p >= 1 => r.log[p] \in S

Messages(st, S, inbox) ==
    \A i \in 1..Len(inbox) : NextMessage(st, S \cup Given(inbox, i - 1), inbox[i])

Broadcasted(S, channel) ==
    \A i \in 1..Len(channel) : NextBroadcast(S \cup Coming(channel, i - 1), channel[i])

AllGiven(log, inbox) == ToSet(log) \cup Given(inbox, Len(inbox))

\* A client with this log and these messages has, or will be brought, all of
\* st, each action after the one before it.
Feeds(log, inbox, st, channel) ==
    /\ Behind(log, st)
    /\ Messages(st, ToSet(log), inbox)
    /\ Broadcasted(AllGiven(log, inbox), channel)
    /\ ToSet(st) \subseteq AllGiven(log, inbox) \cup Coming(channel, Len(channel))

\* The session of one who has nothing to send.
Idle(k) ==
    /\ k.saving = <<>> /\ k.queue = <<>> /\ k.flight = <<>> /\ k.pending = {}
    /\ k.form = "none" /\ ~k.modal /\ ~k.resolving

Untouched == \A c \in Client : made[c] = 0

\* A request that only lets logs grow.  A watcher asks for no document.
FineRequest(st, r) ==
    /\ r.type # "save"
    /\ r.type = "broadcast" => Behind(r.log, st)
    /\ r.type = "join" /\ Watches(r.client) => r.base = Start
    /\ r.type = "load" => ~Watches(r.client)

\* The hub and the FSM, whoever watches.
Growing ==
    /\ Behind(<<Start>>, store)
    /\ gameData # NotLoaded => Behind(gameData, store)
    /\ proposing.type # "save"
    /\ \A i \in 1..Len(requests) : FineRequest(store, requests[i])
    /\ \A c \in Client : client[c].form # "save"
    /\ Untouched => /\ store = <<Start>>
                    /\ \A i \in 1..Len(requests) : requests[i].type # "broadcast"

\* A watcher's session, and what is on its way to it and from it.
Watching(c) ==
    /\ Idle(client[c])
    /\ Feeds(client[c].log, ws[c], store, requests)
    /\ \A i \in 1..Len(up[c]) : up[c][i] = Start
    /\ http[c]["document"] = Unsent
    /\ c \notin members => ws[c] = <<>> /\ client[c].last = Start /\ Untouched

WatchInv == Growing /\ \A c \in Client : Watches(c) => Watching(c)

-----------------------------------------------------------------------------
(* Logs that grow.                                                         *)

LEMMA BehindOn ==
    ASSUME NEW log, NEW st, NEW su, Behind(log, st), Behind(st, su),
           Len(st) \in Nat, Len(su) \in Nat
    PROVE  Behind(log, su)
  BY DEF Behind

LEMMA BehindElements ==
    ASSUME NEW log \in Seq(Action), NEW st \in Seq(Action), Behind(log, st)
    PROVE  ToSet(log) \subseteq ToSet(st)
  BY DEF Behind, ToSet

\* The FSM appends to the log, and no more than it is given.
LEMMA ExtendedGrows ==
    ASSUME NEW log \in Seq(Action), NEW acts \in Seq(Action)
    PROVE  /\ Len(Extended(log, acts)) \in Len(log)..Len(log) + Len(acts)
           /\ \A i \in 1..Len(log) : Extended(log, acts)[i] = log[i]
  <1> DEFINE g == [Fresh EXCEPT !.log = log]
             f == AfterActions(g, acts)
             n == Len(acts)
             S == {i \in Nat : i <= n => /\ Len(f[i].log) \in Len(log)..Len(log) + i
                                         /\ \A j \in 1..Len(log) : f[i].log[j] = log[j]}
  <1>1. g \in Game /\ g.log = log
    BY FreshTombstone DEF Game
  <1>2. f[0] = g /\ \A i \in 1..n : f[i] = ApplyAction(f[i - 1], acts[i])
    BY AfterActionsDef
  <1>3. \A i \in 0..n : f[i] \in Game
    BY <1>1, AfterActionsTyping
  <1>4. n \in Nat /\ Len(log) \in Nat
    OBVIOUS
  <1> HIDE DEF f, g
  <1>5. 0 \in S
    BY <1>1, <1>2, <1>4
  <1>6. ASSUME NEW i \in Nat, i \in S PROVE i + 1 \in S
    <2> SUFFICES ASSUME i + 1 <= n
                 PROVE  /\ Len(f[i + 1].log) \in Len(log)..Len(log) + (i + 1)
                        /\ \A j \in 1..Len(log) : f[i + 1].log[j] = log[j]
      OBVIOUS
    <2>1. /\ Len(f[i].log) \in Len(log)..Len(log) + i
          /\ \A j \in 1..Len(log) : f[i].log[j] = log[j]
      BY <1>4, <1>6
    <2>2. i + 1 \in 1..n /\ i \in 0..n /\ acts[i + 1] \in Action
      BY <1>4
    <2>3. f[i + 1] = ApplyAction(f[i], acts[i + 1])
      BY <1>2, <2>2
    <2>4. f[i] \in Game /\ f[i].log \in Seq(Action)
      BY <1>3, <2>2 DEF Game
    <2>5. f[i + 1].log = IF acts[i + 1] \in Recent(f[i].log)
                         THEN f[i].log ELSE Append(f[i].log, acts[i + 1])
      BY <2>2, <2>3, <2>4, ApplyActionTyping
    <2>6. CASE acts[i + 1] \in Recent(f[i].log)
      BY <1>4, <2>1, <2>5, <2>6
    <2>7. CASE acts[i + 1] \notin Recent(f[i].log)
      <3> DEFINE h == f[i].log
                 a == acts[i + 1]
      <3>1. h \in Seq(Action) /\ a \in Action
        BY <2>2, <2>4
      <3>2. f[i + 1].log = Append(h, a)
        BY <2>5, <2>7
      <3>3. Len(h) \in Len(log)..Len(log) + i /\ \A j \in 1..Len(log) : h[j] = log[j]
        BY <2>1
      <3> HIDE DEF h, a
      <3>4. /\ Len(Append(h, a)) = Len(h) + 1
            /\ \A j \in 1..Len(h) : Append(h, a)[j] = h[j]
        BY <3>1
      <3>5. QED
        BY <1>4, <3>2, <3>3, <3>4
    <2>8. QED
      BY <2>6, <2>7
  <1> HIDE DEF S
  <1>7. \A i \in Nat : i \in S
    BY <1>5, <1>6, SetInduction
  <1>8. n \in S
    BY <1>4, <1>7
  <1>9. Extended(log, acts) = f[n].log
    BY DEF Extended, f, g
  <1>10. QED
    BY <1>8, <1>9 DEF S

-----------------------------------------------------------------------------
(* Sets of what is brought.                                                *)

LEMMA BringsIs ==
    /\ Brings(Ack) = {}
    /\ \A a : Brings(ActionMsg(a)) = {a}
    /\ \A s : Brings(SyncUpdate(s)) = ToSet(s)
  BY DEF Brings, Ack, ActionMsg, SyncUpdate

LEMMA GivenNothing == \A q : Given(q, 0) = {} /\ Coming(q, 0) = {}
  BY DEF Given, Coming

\* The first message is taken from the inbox.
LEMMA GivenTail ==
    ASSUME NEW q \in Seq(WsMsg), q # <<>>, NEW i \in 0..Len(q) - 1
    PROVE  Given(q, i + 1) = Brings(Head(q)) \cup Given(Tail(q), i)
  <1>1. /\ Head(q) = q[1] /\ \A j \in 1..i : Tail(q)[j] = q[j + 1]
    OBVIOUS
  <1>2. Given(q, i + 1) \subseteq Brings(Head(q)) \cup Given(Tail(q), i)
    <2> SUFFICES ASSUME NEW j \in 1..i + 1, NEW x \in Brings(q[j]), j # 1
                 PROVE  \E l \in 1..i : x \in Brings(Tail(q)[l])
      BY <1>1 DEF Given
    <2>1. j - 1 \in 1..i /\ Tail(q)[j - 1] = q[j]
      BY <1>1
    <2>2. QED
      BY <2>1
  <1>3. Brings(Head(q)) \subseteq Given(q, i + 1)
    <2>1. 1 \in 1..i + 1
      OBVIOUS
    <2>2. QED
      BY <1>1, <2>1 DEF Given
  <1>4. Given(Tail(q), i) \subseteq Given(q, i + 1)
    <2>1. \A j \in 1..i : j + 1 \in 1..i + 1 /\ Tail(q)[j] = q[j + 1]
      BY <1>1
    <2>2. QED
      BY <2>1 DEF Given
  <1>5. QED
    BY <1>2, <1>3, <1>4

LEMMA ComingTail ==
    ASSUME NEW q \in Seq(Request), q # <<>>, NEW i \in 0..Len(q) - 1
    PROVE  Coming(q, i + 1) = Brought(Head(q)) \cup Coming(Tail(q), i)
  <1>1. /\ Head(q) = q[1] /\ \A j \in 1..i : Tail(q)[j] = q[j + 1]
    OBVIOUS
  <1>2. Coming(q, i + 1) \subseteq Brought(Head(q)) \cup Coming(Tail(q), i)
    <2> SUFFICES ASSUME NEW j \in 1..i + 1, NEW x \in Brought(q[j]), j # 1
                 PROVE  \E l \in 1..i : x \in Brought(Tail(q)[l])
      BY <1>1 DEF Coming
    <2>1. j - 1 \in 1..i /\ Tail(q)[j - 1] = q[j]
      BY <1>1
    <2>2. QED
      BY <2>1
  <1>3. Brought(Head(q)) \subseteq Coming(q, i + 1)
    <2>1. 1 \in 1..i + 1
      OBVIOUS
    <2>2. QED
      BY <1>1, <2>1 DEF Coming
  <1>4. Coming(Tail(q), i) \subseteq Coming(q, i + 1)
    <2>1. \A j \in 1..i : j + 1 \in 1..i + 1 /\ Tail(q)[j] = q[j + 1]
      BY <1>1
    <2>2. QED
      BY <2>1 DEF Coming
  <1>5. QED
    BY <1>2, <1>3, <1>4

\* One more.
LEMMA GivenAppend ==
    ASSUME NEW q \in Seq(WsMsg), NEW m \in WsMsg
    PROVE  /\ \A i \in 0..Len(q) : Given(Append(q, m), i) = Given(q, i)
           /\ Given(Append(q, m), Len(q) + 1) = Given(q, Len(q)) \cup Brings(m)
           /\ Append(q, m) \in Seq(WsMsg) /\ Len(Append(q, m)) = Len(q) + 1
  <1> DEFINE s == Append(q, m)
  <1>1. /\ \A j \in 1..Len(q) : s[j] = q[j]
        /\ s[Len(q) + 1] = m /\ Len(q) \in Nat /\ s \in Seq(WsMsg) /\ Len(s) = Len(q) + 1
    OBVIOUS
  <1> HIDE DEF s
  <1>2. ASSUME NEW i \in 0..Len(q) PROVE Given(s, i) = Given(q, i)
    <2>1. \A j \in 1..i : s[j] = q[j]
      BY <1>1
    <2>2. QED
      BY <2>1 DEF Given
  <1>3. 1..Len(q) + 1 = (1..Len(q)) \cup {Len(q) + 1}
    BY <1>1
  <1>4. Given(s, Len(q) + 1) = Given(q, Len(q)) \cup Brings(m)
    <2>1. Given(s, Len(q) + 1) = UNION {Brings(s[j]) : j \in (1..Len(q)) \cup {Len(q) + 1}}
      BY <1>3 DEF Given
    <2>2. Given(s, Len(q)) = UNION {Brings(s[j]) : j \in 1..Len(q)}
      BY DEF Given
    <2>3. Given(s, Len(q) + 1) = Given(s, Len(q)) \cup Brings(m)
      BY <1>1, <2>1, <2>2
    <2>4. QED
      BY <1>1, <1>2, <2>3
  <1>5. QED
    BY <1>1, <1>2, <1>4 DEF s

LEMMA ComingAppend ==
    ASSUME NEW q \in Seq(Request), NEW r \in Request
    PROVE  /\ \A i \in 0..Len(q) : Coming(Append(q, r), i) = Coming(q, i)
           /\ Coming(Append(q, r), Len(q) + 1) = Coming(q, Len(q)) \cup Brought(r)
           /\ Append(q, r) \in Seq(Request) /\ Len(Append(q, r)) = Len(q) + 1
           /\ \A i \in 1..Len(q) : Append(q, r)[i] = q[i]
           /\ Append(q, r)[Len(q) + 1] = r
  <1> DEFINE s == Append(q, r)
  <1>1. /\ \A j \in 1..Len(q) : s[j] = q[j]
        /\ s[Len(q) + 1] = r /\ Len(q) \in Nat /\ s \in Seq(Request) /\ Len(s) = Len(q) + 1
    OBVIOUS
  <1> HIDE DEF s
  <1>2. ASSUME NEW i \in 0..Len(q) PROVE Coming(s, i) = Coming(q, i)
    <2>1. \A j \in 1..i : s[j] = q[j]
      BY <1>1
    <2>2. QED
      BY <2>1 DEF Coming
  <1>3. 1..Len(q) + 1 = (1..Len(q)) \cup {Len(q) + 1}
    BY <1>1
  <1>4. Coming(s, Len(q) + 1) = Coming(q, Len(q)) \cup Brought(r)
    <2>1. Coming(s, Len(q) + 1) = UNION {Brought(s[j]) : j \in (1..Len(q)) \cup {Len(q) + 1}}
      BY <1>3 DEF Coming
    <2>2. Coming(s, Len(q)) = UNION {Brought(s[j]) : j \in 1..Len(q)}
      BY DEF Coming
    <2>3. Coming(s, Len(q) + 1) = Coming(s, Len(q)) \cup Brought(r)
      BY <1>1, <2>1, <2>2
    <2>4. QED
      BY <1>1, <1>2, <2>3
  <1>5. QED
    BY <1>1, <1>2, <1>4 DEF s
-----------------------------------------------------------------------------
(* The channel moves, and what a watcher will be brought stays.            *)

\* The same but for who waits for the answer.
SameRequest(r, s) ==
    /\ r.type = s.type
    /\ r.type = "broadcast" => r.log = s.log /\ r.num = s.num
    /\ r.type # "broadcast" => r.client = s.client
    /\ r.type = "join" => r.base = s.base

SameChannel(q, s) ==
    Len(q) = Len(s) /\ \A i \in 1..Len(q) : SameRequest(q[i], s[i])

LEMMA FeedsSame ==
    ASSUME NEW log, NEW inbox, NEW st, NEW q, NEW s,
           Feeds(log, inbox, st, q), SameChannel(q, s)
    PROVE  Feeds(log, inbox, st, s)
  <1>1. \A i \in 1..Len(q) : Brought(s[i]) = Brought(q[i])
    BY DEF SameChannel, SameRequest, Brought
  <1>2. ASSUME Len(q) \in Nat, NEW i \in 0..Len(q) PROVE Coming(s, i) = Coming(q, i)
    <2>1. \A j \in 1..i : Brought(s[j]) = Brought(q[j])
      BY <1>1, <1>2
    <2>2. QED
      BY <2>1 DEF Coming
  <1>3. QED
    BY <1>2 DEF SameChannel, SameRequest, Feeds, Broadcasted, NextBroadcast

\* A request that is no broadcast is put in the channel.
LEMMA FeedsRequest ==
    ASSUME NEW log, NEW inbox, NEW st, NEW q \in Seq(Request), NEW r \in Request,
           Feeds(log, inbox, st, q), r.type # "broadcast"
    PROVE  Feeds(log, inbox, st, Append(q, r))
  <1> DEFINE s == Append(q, r)
             A == AllGiven(log, inbox)
  <1>1. /\ \A i \in 0..Len(q) : Coming(s, i) = Coming(q, i)
        /\ Coming(s, Len(q) + 1) = Coming(q, Len(q)) \cup Brought(r)
        /\ Len(s) = Len(q) + 1 /\ Len(q) \in Nat
        /\ \A i \in 1..Len(q) : s[i] = q[i]
        /\ s[Len(q) + 1] = r
    BY ComingAppend
  <1>2. Brought(r) = {}
    BY DEF Brought
  <1>3. Broadcasted(A, q) /\ ToSet(st) \subseteq A \cup Coming(q, Len(q))
    BY DEF Feeds
  <1> HIDE DEF s, A
  <1>4. Broadcasted(A, s)
    <2> SUFFICES ASSUME NEW i \in 1..Len(s)
                 PROVE  NextBroadcast(A \cup Coming(s, i - 1), s[i])
      BY DEF Broadcasted
    <2>1. CASE i \in 1..Len(q)
      <3>1. i - 1 \in 0..Len(q)
        BY <1>1, <2>1
      <3>2. QED
        BY <1>1, <1>3, <2>1, <3>1 DEF Broadcasted
    <2>2. CASE i = Len(q) + 1
      BY <1>1, <2>2 DEF NextBroadcast
    <2>3. QED
      BY <1>1, <2>1, <2>2
  <1>5. ToSet(st) \subseteq A \cup Coming(s, Len(s))
    BY <1>1, <1>2, <1>3
  <1>6. QED
    BY <1>4, <1>5 DEF Feeds, s, A

\* The log grows by what is broadcast.
LEMMA FeedsBroadcast ==
    ASSUME NEW log \in Seq(Action), NEW inbox, NEW st \in Seq(Action), NEW su \in Seq(Action),
           NEW q \in Seq(Request), Feeds(log, inbox, st, q), Behind(st, su),
           NEW r \in Request, r.type = "broadcast", r.log = su, r.num \in Nat,
           Len(su) <= Len(st) + r.num
    PROVE  Feeds(log, inbox, su, Append(q, r))
  <1> DEFINE s == Append(q, r)
             A == AllGiven(log, inbox)
  <1>1. /\ \A i \in 0..Len(q) : Coming(s, i) = Coming(q, i)
        /\ Coming(s, Len(q) + 1) = Coming(q, Len(q)) \cup Brought(r)
        /\ Len(s) = Len(q) + 1 /\ Len(q) \in Nat
        /\ \A i \in 1..Len(q) : s[i] = q[i]
        /\ s[Len(q) + 1] = r
    BY ComingAppend
  <1>2. /\ Len(st) \in 1..Len(su) /\ \A i \in 1..Len(st) : st[i] = su[i]
        /\ Len(st) \in Nat /\ Len(su) \in Nat
    BY DEF Behind
  <1>3. /\ Broadcasted(A, q) /\ ToSet(st) \subseteq A \cup Coming(q, Len(q))
        /\ Behind(log, st) /\ Messages(st, ToSet(log), inbox)
    BY DEF Feeds
  <1> HIDE DEF s, A
  <1>4. Broadcasted(A, s)
    <2> SUFFICES ASSUME NEW i \in 1..Len(s)
                 PROVE  NextBroadcast(A \cup Coming(s, i - 1), s[i])
      BY DEF Broadcasted
    <2>1. CASE i \in 1..Len(q)
      <3>1. i - 1 \in 0..Len(q)
        BY <1>1, <2>1
      <3>2. QED
        BY <1>1, <1>3, <2>1, <3>1 DEF Broadcasted
    <2>2. CASE i = Len(q) + 1
      <3> DEFINE p == Len(su) - r.num
      <3>1. ASSUME p >= 1 PROVE su[p] \in A \cup Coming(q, Len(q))
        <4>1. p \in 1..Len(st)
          BY <1>2, <3>1
        <4>2. su[p] = st[p] /\ st[p] \in ToSet(st)
          BY <1>2, <4>1 DEF ToSet
        <4>3. QED
          BY <1>3, <4>2
      <3>2. i - 1 = Len(q) /\ Coming(s, i - 1) = Coming(q, Len(q)) /\ s[i] = r
        BY <1>1, <2>2
      <3>3. QED
        BY <3>1, <3>2 DEF NextBroadcast
    <2>3. QED
      BY <1>1, <2>1, <2>2
  <1>5. ToSet(su) \subseteq A \cup Coming(s, Len(s))
    <2> SUFFICES ASSUME NEW i \in 1..Len(su) PROVE su[i] \in A \cup Coming(s, Len(s))
      BY DEF ToSet
    <2>1. CASE i <= Len(st)
      <3>1. su[i] \in ToSet(st)
        BY <1>2, <2>1 DEF ToSet
      <3>2. QED
        BY <1>1, <1>3, <3>1
    <2>2. CASE i > Len(st)
      <3>1. i > Len(su) - r.num
        BY <1>2, <2>2
      <3>2. su[i] \in Brought(r)
        BY <3>1 DEF Brought
      <3>3. QED
        BY <1>1, <3>2
    <2>3. QED
      BY <1>2, <2>1, <2>2
  <1>6. Messages(su, ToSet(log), inbox)
    <2> SUFFICES ASSUME NEW i \in 1..Len(inbox), NEW S, NextMessage(st, S, inbox[i])
                 PROVE  NextMessage(su, S, inbox[i])
      BY <1>3 DEF Messages
    <2> DEFINE m == inbox[i]
    <2> HIDE DEF m
    <2>1. NextMessage(st, S, m)
      BY DEF m
    <2>2. ASSUME m.type = "SYNC_UPDATE", NEW h \in 1..Len(st), m.actions = SubSeq(st, 2, h)
          PROVE  NextMessage(su, S, m)
      <3>1. h \in 1..Len(su)
        BY <1>2
      <3>2. SubSeq(st, 2, h) = SubSeq(su, 2, h)
        BY <1>2
      <3>3. QED
        BY <2>2, <3>1, <3>2 DEF NextMessage
    <2>3. ASSUME m.type = "ACTION", NEW p \in 1..Len(st), m.action = st[p],
                 p > 1 => st[p - 1] \in S
          PROVE  NextMessage(su, S, m)
      <3>1. p \in 1..Len(su) /\ su[p] = st[p]
        BY <1>2
      <3>2. p > 1 => su[p - 1] = st[p - 1]
        BY <1>2
      <3>3. QED
        BY <2>3, <3>1, <3>2 DEF NextMessage
    <2>4. m = Ack => NextMessage(su, S, m)
      BY DEF NextMessage
    <2>5. NextMessage(su, S, m)
      BY <2>1, <2>2, <2>3, <2>4 DEF NextMessage
    <2>6. QED
      BY <2>5 DEF m
  <1>7. Behind(log, su)
    BY <1>2, <1>3, BehindOn
  <1>8. QED
    BY <1>4, <1>5, <1>6, <1>7 DEF Feeds, s, A

\* The hub takes a request that is no broadcast; it may send an answer.
LEMMA FeedsTaken ==
    ASSUME NEW log, NEW inbox \in Seq(WsMsg), NEW st, NEW q \in Seq(Request), q # <<>>,
           Feeds(log, inbox, st, q), Head(q).type # "broadcast"
    PROVE  Feeds(log, inbox, st, Tail(q))
  <1> DEFINE A == AllGiven(log, inbox)
  <1>1. /\ Len(Tail(q)) = Len(q) - 1 /\ Len(q) \in Nat \ {0}
        /\ \A i \in 1..Len(q) - 1 : Tail(q)[i] = q[i + 1]
    OBVIOUS
  <1>2. Brought(Head(q)) = {}
    BY DEF Brought
  <1>3. \A i \in 0..Len(q) - 1 : Coming(Tail(q), i) = Coming(q, i + 1)
    BY <1>2, ComingTail
  <1>4. Broadcasted(A, q) /\ ToSet(st) \subseteq A \cup Coming(q, Len(q))
    BY DEF Feeds
  <1> HIDE DEF A
  <1>5. Broadcasted(A, Tail(q))
    <2> SUFFICES ASSUME NEW i \in 1..Len(q) - 1
                 PROVE  NextBroadcast(A \cup Coming(Tail(q), i - 1), Tail(q)[i])
      BY <1>1 DEF Broadcasted
    <2>1. i - 1 \in 0..Len(q) - 1 /\ i - 1 + 1 = i
      BY <1>1
    <2>2. Coming(Tail(q), i - 1) = Coming(q, i)
      BY <1>3, <2>1
    <2>3. i + 1 \in 1..Len(q) /\ (i + 1) - 1 = i
      BY <1>1
    <2>4. NextBroadcast(A \cup Coming(q, i), q[i + 1])
      BY <1>4, <2>3 DEF Broadcasted
    <2>5. QED
      BY <1>1, <2>2, <2>4
  <1>6. ToSet(st) \subseteq A \cup Coming(Tail(q), Len(Tail(q)))
    <2>1. Len(q) - 1 \in 0..Len(q) - 1 /\ Len(q) - 1 + 1 = Len(q)
      BY <1>1
    <2>2. Coming(Tail(q), Len(Tail(q))) = Coming(q, Len(q))
      BY <1>1, <1>3, <2>1
    <2>3. QED
      BY <1>4, <2>2
  <1>7. QED
    BY <1>5, <1>6 DEF Feeds, A

\* A message that is next for one who has all the others is put in the inbox.
LEMMA FeedsMessage ==
    ASSUME NEW log, NEW inbox \in Seq(WsMsg), NEW st, NEW q,
           Feeds(log, inbox, st, q), NEW m \in WsMsg,
           NextMessage(st, AllGiven(log, inbox), m)
    PROVE  Feeds(log, Append(inbox, m), st, q)
  <1> DEFINE s == Append(inbox, m)
             A == AllGiven(log, inbox)
  <1>1. /\ \A i \in 0..Len(inbox) : Given(s, i) = Given(inbox, i)
        /\ Given(s, Len(inbox) + 1) = Given(inbox, Len(inbox)) \cup Brings(m)
        /\ Len(s) = Len(inbox) + 1 /\ Len(inbox) \in Nat
        /\ \A i \in 1..Len(inbox) : s[i] = inbox[i]
        /\ s[Len(inbox) + 1] = m
    BY GivenAppend
  <1> HIDE DEF s
  <1>2. AllGiven(log, s) = A \cup Brings(m)
    BY <1>1 DEF AllGiven
  <1>3. /\ Broadcasted(A, q) /\ ToSet(st) \subseteq A \cup Coming(q, Len(q))
        /\ Behind(log, st) /\ Messages(st, ToSet(log), inbox)
    BY DEF Feeds
  <1>4. Messages(st, ToSet(log), s)
    <2> SUFFICES ASSUME NEW i \in 1..Len(s)
                 PROVE  NextMessage(st, ToSet(log) \cup Given(s, i - 1), s[i])
      BY DEF Messages
    <2>1. CASE i \in 1..Len(inbox)
      <3>1. i - 1 \in 0..Len(inbox)
        BY <1>1, <2>1
      <3>2. QED
        BY <1>1, <1>3, <2>1, <3>1 DEF Messages
    <2>2. CASE i = Len(inbox) + 1
      <3>1. i - 1 = Len(inbox) /\ Given(s, i - 1) = Given(inbox, Len(inbox)) /\ s[i] = m
        BY <1>1, <2>2
      <3>2. QED
        BY <3>1 DEF AllGiven
    <2>3. QED
      BY <1>1, <2>1, <2>2
  <1> HIDE DEF A
  <1>5. Broadcasted(A \cup Brings(m), q)
    BY <1>3 DEF Broadcasted, NextBroadcast
  <1>6. ToSet(st) \subseteq A \cup Brings(m) \cup Coming(q, Len(q))
    BY <1>3
  <1>7. Feeds(log, s, st, q)
    BY <1>2, <1>3, <1>4, <1>5, <1>6 DEF Feeds
  <1>8. QED
    BY <1>7 DEF s

LEMMA FromTheEnd ==
    ASSUME NEW m \in Nat, NEW n \in Nat, n <= m, NEW i \in 1..m, i > m - n
    PROVE  \E j \in 1..n : m - n + j = i
  <1>1. i - (m - n) \in 1..n /\ m - n + (i - (m - n)) = i
    OBVIOUS
  <1>2. QED
    BY <1>1

LEMMA Joining ==
    ASSUME NEW S, NEW s \in Seq(S), NEW u \in Seq(S)
    PROVE  /\ s \o u \in Seq(S) /\ Len(s \o u) = Len(s) + Len(u)
           /\ \A i \in 1..Len(s) : (s \o u)[i] = s[i]
           /\ \A i \in 1..Len(u) : (s \o u)[Len(s) + i] = u[i]
  OBVIOUS

\* The hub passes a broadcast on.
LEMMA FeedsPassedOn ==
    ASSUME NEW log, NEW inbox \in Seq(WsMsg), NEW st, Len(st) \in Nat,
           NEW q \in Seq(Request), q # <<>>, Feeds(log, inbox, st, q),
           NEW b, b = Head(q), b.type = "broadcast", NEW lb, lb = b.log, Behind(lb, st)
    PROVE  Feeds(log, inbox \o BroadcastMsgs(b), st, Tail(q))
  <1> DEFINE n == IF b.num > Len(lb) THEN Len(lb) ELSE b.num
             ms == BroadcastMsgs(b)
             A == AllGiven(log, inbox)
             t == inbox \o ms
             B == Brought(b)
  <1>1. /\ b \in Request /\ lb \in Seq(Action) /\ b.num \in Nat
        /\ q[1] = b /\ 1 \in 1..Len(q)
    <2>1. b \in Request /\ q[1] = b /\ 1 \in 1..Len(q)
      OBVIOUS
    <2>2. QED
      BY <2>1, RequestTyping
  <1>2. /\ ms \in Seq(WsMsg) /\ Len(ms) = n /\ n \in 0..Len(lb) /\ Len(lb) \in Nat
        /\ \A i \in 1..n : ms[i] = ActionMsg(lb[Len(lb) - n + i])
    <2>1. ms = [i \in 1..n |-> ActionMsg(lb[Len(lb) - n + i])]
      BY DEF BroadcastMsgs
    <2>2. n \in 0..Len(lb) /\ Len(lb) \in Nat
      BY <1>1
    <2>3. ms \in Seq(WsMsg)
      BY <1>1, BroadcastMsgsTyping
    <2> HIDE DEF n, ms
    <2>4. Len(ms) = n
      BY <2>1, <2>2
    <2>5. QED
      BY <2>1, <2>2, <2>3, <2>4
  <1>3. /\ Len(lb) \in 1..Len(st) /\ \A i \in 1..Len(lb) : lb[i] = st[i]
    BY DEF Behind
  <1>4. Len(lb) - n >= 1 => lb[Len(lb) - n] \in A
    <2>1. NextBroadcast(A \cup Coming(q, 0), b)
      <3>1. Broadcasted(A, q) /\ 1 - 1 = 0
        BY DEF Feeds
      <3> HIDE DEF A
      <3>2. NextBroadcast(A \cup Coming(q, 1 - 1), q[1])
        BY <1>1, <3>1 DEF Broadcasted
      <3>3. QED
        BY <1>1, <3>1, <3>2
    <2>2. NextBroadcast(A, b)
      BY <2>1, GivenNothing
    <2>3. QED
      BY <1>1, <2>2 DEF NextBroadcast
  <1>5. B = {lb[i] : i \in {j \in 1..Len(lb) : j > Len(lb) - n}}
    <2>1. B = {lb[i] : i \in {j \in 1..Len(lb) : j > Len(lb) - b.num}}
      BY DEF Brought
    <2>2. {j \in 1..Len(lb) : j > Len(lb) - n} = {j \in 1..Len(lb) : j > Len(lb) - b.num}
      BY <1>1
    <2>3. QED
      BY <2>1, <2>2
  <1>6. /\ Broadcasted(A, q) /\ ToSet(st) \subseteq A \cup Coming(q, Len(q))
        /\ Behind(log, st) /\ Messages(st, ToSet(log), inbox)
    BY DEF Feeds
  <1> HIDE DEF n, ms, B
  <1>7. /\ Len(inbox) \in Nat /\ t \in Seq(WsMsg) /\ Len(t) = Len(inbox) + n
        /\ \A i \in 1..Len(inbox) : t[i] = inbox[i]
        /\ \A i \in 1..n : t[Len(inbox) + i] = ms[i]
    <2>1. Len(inbox) \in Nat
      OBVIOUS
    <2>2. QED
      BY <1>2, <2>1, Joining
  <1> HIDE DEF t
  <1>71. n \in Nat /\ n <= Len(lb) /\ Len(lb) \in Nat /\ Len(inbox) \in Nat /\ Len(t) = Len(inbox) + n
    BY <1>2, <1>7
  <1>8. \A i \in 0..Len(inbox) : Given(t, i) = Given(inbox, i)
    <2> SUFFICES ASSUME NEW i \in 0..Len(inbox) PROVE Given(t, i) = Given(inbox, i)
      OBVIOUS
    <2>1. \A j \in 1..i : t[j] = inbox[j]
      BY <1>7
    <2>2. QED
      BY <2>1 DEF Given
  <1>9. \A i \in 1..n : Brings(t[Len(inbox) + i]) = {lb[Len(lb) - n + i]}
    <2>1. \A i \in 1..n : t[Len(inbox) + i] = ActionMsg(lb[Len(lb) - n + i])
      BY <1>2, <1>7
    <2>2. QED
      BY <2>1, BringsIs
  <1>10. \A j \in 1..n : \A i \in Len(inbox) + j..Len(t) : lb[Len(lb) - n + j] \in Given(t, i)
    <2> SUFFICES ASSUME NEW j \in 1..n, NEW i \in Len(inbox) + j..Len(t)
                 PROVE  lb[Len(lb) - n + j] \in Given(t, i)
      OBVIOUS
    <2>1. Len(inbox) + j \in 1..i
      BY <1>2, <1>7
    <2>2. lb[Len(lb) - n + j] \in Brings(t[Len(inbox) + j])
      BY <1>9
    <2>3. QED
      BY <2>1, <2>2 DEF Given
  <1>11. \A i \in Len(inbox)..Len(t) : Given(inbox, Len(inbox)) \subseteq Given(t, i)
    <2>1. \A i \in Len(inbox)..Len(t) : Given(t, Len(inbox)) \subseteq Given(t, i)
      BY <1>7 DEF Given
    <2>2. Len(inbox) \in 0..Len(inbox)
      BY <1>7
    <2>3. QED
      BY <1>8, <2>1, <2>2
  <1>12. A \cup B \subseteq AllGiven(log, t)
    <2>1. Len(t) \in Len(inbox)..Len(t)
      BY <1>2, <1>7
    <2>2. A \subseteq AllGiven(log, t)
      BY <1>11, <2>1 DEF AllGiven
    <2>3. ASSUME NEW i \in 1..Len(lb), i > Len(lb) - n PROVE lb[i] \in AllGiven(log, t)
      <3>2. PICK j \in 1..n : Len(lb) - n + j = i
        BY <1>71, <2>3, FromTheEnd
      <3>3. Len(t) \in Len(inbox) + j..Len(t)
        BY <1>71
      <3>4. lb[i] \in Given(t, Len(t))
        BY <1>10, <3>2, <3>3
      <3>5. QED
        BY <3>4 DEF AllGiven
    <2>4. QED
      BY <1>5, <2>2, <2>3
  <1>13. AllGiven(log, t) \subseteq A \cup B
    <2> SUFFICES ASSUME NEW i \in 1..Len(t), NEW x \in Brings(t[i])
                 PROVE  x \in A \cup B
      BY DEF AllGiven, Given
    <2>1. CASE i <= Len(inbox)
      BY <1>7, <2>1 DEF AllGiven, Given
    <2>2. CASE i > Len(inbox)
      <3> DEFINE j == i - Len(inbox)
      <3>1. j \in 1..n /\ Len(inbox) + j = i
        BY <1>2, <1>7, <2>2
      <3> HIDE DEF j
      <3>2. x = lb[Len(lb) - n + j]
        BY <1>9, <3>1
      <3>3. Len(lb) - n + j \in 1..Len(lb) /\ Len(lb) - n + j > Len(lb) - n
        BY <1>2, <3>1
      <3>4. QED
        BY <1>5, <3>2, <3>3
    <2>3. QED
      BY <1>7, <2>1, <2>2
  <1>14. AllGiven(log, t) = A \cup B
    BY <1>12, <1>13
  <1>15. Messages(st, ToSet(log), t)
    <2> SUFFICES ASSUME NEW i \in 1..Len(t)
                 PROVE  NextMessage(st, ToSet(log) \cup Given(t, i - 1), t[i])
      BY DEF Messages
    <2>1. CASE i <= Len(inbox)
      <3>1. i \in 1..Len(inbox) /\ i - 1 \in 0..Len(inbox)
        BY <1>7, <2>1
      <3>2. NextMessage(st, ToSet(log) \cup Given(inbox, i - 1), inbox[i])
        BY <1>6, <3>1 DEF Messages
      <3>3. QED
        BY <1>7, <1>8, <3>1, <3>2
    <2>2. CASE i > Len(inbox)
      <3> DEFINE j == i - Len(inbox)
                 p == Len(lb) - n + j
                 S == ToSet(log) \cup Given(t, i - 1)
      <3>1. /\ j \in 1..n /\ Len(inbox) + j = i /\ p \in 1..Len(lb)
            /\ i - 1 \in Len(inbox)..Len(t) /\ p - 1 = Len(lb) - n + (j - 1)
            /\ j \in Nat /\ p \in Nat
        BY <1>71, <2>2
      <3>2. A \subseteq S
        BY <1>11, <3>1 DEF AllGiven
      <3>3. t[i] = ActionMsg(lb[p])
        <4> HIDE DEF j
        <4>1. QED
          BY <1>2, <1>7, <3>1
      <3> HIDE DEF S
      <3>4. p > 1 => lb[p - 1] \in S
        <4>1. CASE j = 1
          <5>1. p - 1 = Len(lb) - n
            BY <1>71, <4>1
          <5> HIDE DEF p
          <5>2. QED
            BY <1>71, <1>4, <3>1, <3>2, <5>1
        <4>2. CASE j > 1
          <5>1. j - 1 \in 1..n /\ i - 1 \in Len(inbox) + (j - 1)..Len(t)
            BY <1>71, <3>1, <4>2
          <5>2. lb[p - 1] \in Given(t, i - 1)
            BY <1>10, <3>1, <5>1
          <5>3. QED
            BY <5>2 DEF S
        <4>3. QED
          BY <3>1, <4>1, <4>2
      <3> HIDE DEF p
      <3>5. p \in 1..Len(st) /\ lb[p] = st[p] /\ (p > 1 => lb[p - 1] = st[p - 1])
        <4>1. p \in 1..Len(lb)
          BY <3>1
        <4>2. p > 1 => p - 1 \in 1..Len(lb)
          BY <1>71, <4>1
        <4>3. Len(lb) <= Len(st) /\ Len(st) \in Nat
          BY <1>3
        <4>4. p \in 1..Len(st)
          BY <1>71, <4>1, <4>3
        <4>5. QED
          BY <1>3, <4>1, <4>2, <4>4
      <3> HIDE DEF p
      <3>6. NextMessage(st, S, t[i])
        BY <3>3, <3>4, <3>5 DEF NextMessage, ActionMsg
      <3>7. QED
        BY <3>6 DEF S
    <2>3. QED
      BY <1>7, <2>1, <2>2
  <1>16. /\ Len(Tail(q)) = Len(q) - 1 /\ Len(q) \in Nat \ {0}
         /\ \A i \in 1..Len(q) - 1 : Tail(q)[i] = q[i + 1]
    OBVIOUS
  <1>17. \A i \in 0..Len(q) - 1 : Coming(q, i + 1) = B \cup Coming(Tail(q), i)
    BY ComingTail DEF B
  <1> HIDE DEF A
  <1>18. Broadcasted(A \cup B, Tail(q))
    <2> SUFFICES ASSUME NEW i \in 1..Len(q) - 1
                 PROVE  NextBroadcast(A \cup B \cup Coming(Tail(q), i - 1), Tail(q)[i])
      BY <1>16 DEF Broadcasted
    <2>1. i - 1 \in 0..Len(q) - 1 /\ i - 1 + 1 = i /\ i + 1 \in 1..Len(q) /\ (i + 1) - 1 = i
      BY <1>16
    <2>2. Coming(q, i) = B \cup Coming(Tail(q), i - 1)
      BY <1>17, <2>1
    <2>3. NextBroadcast(A \cup Coming(q, i), q[i + 1])
      BY <1>6, <2>1 DEF Broadcasted
    <2>4. A \cup Coming(q, i) = A \cup B \cup Coming(Tail(q), i - 1)
      BY <2>2
    <2>5. QED
      BY <1>16, <2>3, <2>4
  <1>19. ToSet(st) \subseteq A \cup B \cup Coming(Tail(q), Len(Tail(q)))
    <2>1. Len(q) - 1 \in 0..Len(q) - 1 /\ Len(q) - 1 + 1 = Len(q)
      BY <1>16
    <2>2. Coming(q, Len(q)) = B \cup Coming(Tail(q), Len(Tail(q)))
      BY <1>16, <1>17, <2>1
    <2>3. QED
      BY <1>6, <2>2
  <1>20. Feeds(log, t, st, Tail(q))
    BY <1>6, <1>14, <1>15, <1>18, <1>19 DEF Feeds
  <1>21. QED
    BY <1>20 DEF t, ms

-----------------------------------------------------------------------------
(* What a watcher does with a message.                                     *)

LEMMA Queueless == ASSUME NEW k, k.queue = <<>> PROVE ProcessQueue(k) = k
  BY DEF ProcessQueue

\* The next action is taken, whether the log has it or not.
LEMMA NextTaken ==
    ASSUME NEW log \in Seq(Action), NEW st \in Seq(Action), Distinct(st), Behind(log, st),
           NEW p \in 1..Len(st), p > 1 => st[p - 1] \in ToSet(log)
    PROVE  /\ Behind(Dispatched(log, st[p]), st)
           /\ ToSet(Dispatched(log, st[p])) = ToSet(log) \cup {st[p]}
           /\ Dispatched(log, st[p]) \in Seq(Action)
  <1>1. /\ Len(log) \in 1..Len(st) /\ \A i \in 1..Len(log) : log[i] = st[i]
        /\ Len(log) \in Nat /\ Len(st) \in Nat /\ st[p] \in Action
    BY DEF Behind
  <1>2. p <= Len(log) + 1
    <2>1. CASE p = 1
      BY <1>1, <2>1
    <2>2. CASE p > 1
      <3>1. PICK i \in 1..Len(log) : log[i] = st[p - 1]
        BY <2>2 DEF ToSet
      <3>2. i \in 1..Len(st) /\ p - 1 \in 1..Len(st) /\ st[i] = st[p - 1]
        BY <1>1, <2>2, <3>1
      <3>3. i = p - 1
        BY <3>2 DEF Distinct
      <3>4. QED
        BY <1>1, <3>1, <3>3
    <2>3. QED
      BY <2>1, <2>2
  <1>3. CASE Contains(log, st[p])
    <2>1. Dispatched(log, st[p]) = log
      BY <1>3 DEF Dispatched
    <2>2. st[p] \in ToSet(log)
      BY <1>3 DEF Contains, ToSet
    <2>3. QED
      BY <2>1, <2>2
  <1>4. CASE ~Contains(log, st[p])
    <2> DEFINE l == Append(log, st[p])
    <2>1. Dispatched(log, st[p]) = l
      BY <1>4 DEF Dispatched
    <2>2. p = Len(log) + 1
      <3>1. ~(p <= Len(log))
        <4>1. p <= Len(log) => p \in 1..Len(log) /\ log[p] = st[p]
          BY <1>1
        <4>2. QED
          BY <1>4, <4>1 DEF Contains
      <3>2. QED
        BY <1>1, <1>2, <3>1
    <2>3. /\ Len(l) = Len(log) + 1 /\ l \in Seq(Action)
          /\ \A i \in 1..Len(log) : l[i] = log[i]
          /\ l[Len(log) + 1] = st[p]
      BY <1>1
    <2>4. ToSet(l) = ToSet(log) \cup {st[p]}
      BY <1>1, ToSetFacts
    <2> HIDE DEF l
    <2>5. Behind(l, st)
      BY <1>1, <2>2, <2>3 DEF Behind
    <2>6. QED
      BY <2>1, <2>3, <2>4, <2>5
  <1>5. QED
    BY <1>3, <1>4

\* Nothing is pending: an action goes into the log and nowhere else.
LEMMA IdleActions ==
    ASSUME NEW k \in Session, Idle(k), NEW a \in Action
    PROVE  \A l \in {CatchUp(k, a), HandleAction(k, a)} :
              /\ l \in Session /\ Idle(l)
              /\ l.connected = k.connected /\ l.log = Dispatched(k.log, a)
  <1> DEFINE pending == k.pending \ {a}
             last == IF pending = {} THEN a ELSE k.last
             log == Dispatched(k.log, a)
             taken == IF a \in k.pending THEN k.log ELSE log
             status == IF pending = {} THEN "synced" ELSE k.status
             u == [k EXCEPT !.pending = pending, !.last = last, !.log = log]
             v == [k EXCEPT !.pending = pending, !.last = last, !.log = taken,
                            !.status = status]
  <1>1. k.pending = {} /\ pending = {} /\ taken = log
    BY DEF Idle
  <1>2. u = CatchUp(k, a) /\ v = HandleAction(k, a)
    BY DEF CatchUp, HandleAction
  <1>3. u \in Session /\ v \in Session
    BY <1>2, CatchUpMoves, HandleActionMoves DEF Moves
  <1> HIDE DEF pending, last, log, taken, status
  <1>4. Idle(u) /\ u.connected = k.connected /\ u.log = log
    BY <1>1 DEF Session, Idle
  <1>5. Idle(v) /\ v.connected = k.connected /\ v.log = log
    BY <1>1 DEF Session, Idle
  <1> HIDE DEF u, v
  <1>6. QED
    BY <1>2, <1>3, <1>4, <1>5 DEF log

LEMMA IdleCatchUp ==
    ASSUME NEW k \in Session, Idle(k), NEW st \in Seq(Action), Distinct(st),
           Behind(k.log, st), NEW p \in 1..Len(st), st[p - 1] \in ToSet(k.log)
    PROVE  LET l == CatchUp(k, st[p])
           IN  /\ l \in Session /\ Idle(l) /\ l.connected = k.connected
               /\ Behind(l.log, st) /\ ToSet(l.log) = ToSet(k.log) \cup {st[p]}
  <1>1. k.log \in Seq(Action) /\ st[p] \in Action
    BY DEF Session
  <1>2. /\ CatchUp(k, st[p]) \in Session /\ Idle(CatchUp(k, st[p]))
        /\ CatchUp(k, st[p]).connected = k.connected
        /\ CatchUp(k, st[p]).log = Dispatched(k.log, st[p])
    BY <1>1, IdleActions
  <1>3. /\ Behind(Dispatched(k.log, st[p]), st)
        /\ ToSet(Dispatched(k.log, st[p])) = ToSet(k.log) \cup {st[p]}
    <2> DEFINE log == k.log
    <2>1. log \in Seq(Action) /\ Behind(log, st) /\ st[p - 1] \in ToSet(log)
      BY <1>1
    <2> HIDE DEF log
    <2>2. /\ Behind(Dispatched(log, st[p]), st)
          /\ ToSet(Dispatched(log, st[p])) = ToSet(log) \cup {st[p]}
      BY <2>1, NextTaken
    <2>3. QED
      BY <2>2 DEF log
  <1>4. QED
    BY <1>2, <1>3

\* So does what a JOIN missed.
LEMMA IdleCatchesUp ==
    ASSUME NEW k \in Session, Idle(k), NEW st \in Seq(Action), Distinct(st),
           Behind(k.log, st), NEW h \in 1..Len(st)
    PROVE  LET acts == SubSeq(st, 2, h)
               u == CaughtUp(k, acts)[Len(acts)]
           IN  /\ u \in Session /\ Idle(u) /\ u.connected = k.connected
               /\ Behind(u.log, st) /\ ToSet(u.log) = ToSet(k.log) \cup ToSet(acts)
  <1> DEFINE acts == SubSeq(st, 2, h)
             f == CaughtUp(k, acts)
             n == Len(acts)
             Done(i) == {st[j] : j \in 2..i + 1}
             Fine(i) == /\ f[i] \in Session /\ Idle(f[i]) /\ f[i].connected = k.connected
                        /\ Behind(f[i].log, st) /\ ToSet(f[i].log) = ToSet(k.log) \cup Done(i)
             S == {i \in Nat : i <= n => Fine(i)}
  <1>1. /\ n = h - 1 /\ n \in Nat /\ acts \in Seq(Action)
        /\ \A i \in 1..n : acts[i] = st[i + 1]
    OBVIOUS
  <1> HIDE DEF acts
  <1>2. IsCaughtUp(f, k, acts, n)
    <2>1. \E g : IsCaughtUp(g, k, acts, n)
      BY <1>1, CaughtUpExists
    <2>2. QED
      BY <2>1 DEF CaughtUp, IsCaughtUp
  <1> HIDE DEF f
  <1>3. f[0] = k /\ \A i \in 1..n : f[i] = CatchUp(f[i - 1], acts[i])
    BY <1>1, <1>2 DEF IsCaughtUp
  <1> HIDE DEF n
  <1>4. k.log \in Seq(Action) /\ st[1] \in ToSet(k.log)
    <2>1. k.log \in Seq(Action)
      BY DEF Session
    <2>2. 1 \in 1..Len(k.log) /\ k.log[1] = st[1]
      BY <2>1 DEF Behind
    <2>3. QED
      BY <2>1, <2>2 DEF ToSet
  <1>5. 0 \in S
    <2>1. Done(0) = {}
      OBVIOUS
    <2>2. Fine(0)
      BY <1>3, <2>1
    <2>3. QED
      BY <2>2
  <1>6. ASSUME NEW i \in Nat, i \in S PROVE i + 1 \in S
    <2> SUFFICES ASSUME i + 1 <= n PROVE Fine(i + 1)
      OBVIOUS
    <2>1. Fine(i) /\ i + 1 \in 1..n
      BY <1>1, <1>6
    <2>2. i + 2 \in 1..Len(st) /\ acts[i + 1] = st[i + 2] /\ (i + 2) - 1 = i + 1
      <3>1. acts[i + 1] = st[(i + 1) + 1] /\ (i + 1) + 1 = i + 2
        BY <1>1, <2>1
      <3>2. i + 1 <= h - 1 /\ h <= Len(st) /\ Len(st) \in Nat
        BY <1>1
      <3>3. QED
        BY <3>1, <3>2
    <2>3. f[i] \in Session /\ Idle(f[i]) /\ Behind(f[i].log, st)
      BY <2>1
    <2>4. f[i + 1] = CatchUp(f[i], st[i + 2])
      BY <1>3, <2>1, <2>2
    <2>5. st[i + 1] \in ToSet(f[i].log)
      <3>1. CASE i = 0
        BY <1>4, <2>1, <3>1
      <3>2. CASE i > 0
        <4>1. i + 1 \in 2..i + 1
          BY <3>2
        <4>2. QED
          BY <2>1, <4>1
      <3>3. QED
        BY <3>1, <3>2
    <2>6. /\ f[i + 1] \in Session /\ Idle(f[i + 1]) /\ f[i + 1].connected = f[i].connected
          /\ Behind(f[i + 1].log, st)
          /\ ToSet(f[i + 1].log) = ToSet(f[i].log) \cup {st[i + 2]}
      <3> DEFINE u == f[i]
      <3>1. u \in Session /\ Idle(u) /\ Behind(u.log, st)
        BY <2>3
      <3>2. i + 2 \in 1..Len(st) /\ st[(i + 2) - 1] \in ToSet(u.log)
        BY <2>2, <2>5
      <3> HIDE DEF u
      <3>3. LET l == CatchUp(u, st[i + 2])
            IN  /\ l \in Session /\ Idle(l) /\ l.connected = u.connected
                /\ Behind(l.log, st) /\ ToSet(l.log) = ToSet(u.log) \cup {st[i + 2]}
        BY <3>1, <3>2, IdleCatchUp
      <3>4. QED
        BY <2>4, <3>3 DEF u
    <2>7. Done(i + 1) = Done(i) \cup {st[i + 2]}
      <3>1. 2..(i + 1) + 1 = (2..i + 1) \cup {i + 2}
        OBVIOUS
      <3>2. QED
        BY <3>1
    <2> HIDE DEF Done
    <2>8. QED
      BY <2>1, <2>6, <2>7
  <1> HIDE DEF S, Fine
  <1>7. \A i \in Nat : i \in S
    BY <1>5, <1>6, SetInduction
  <1>8. Fine(n)
    BY <1>1, <1>7 DEF S
  <1>9. Done(n) = ToSet(acts)
    <2>1. ToSet(acts) = {acts[i] : i \in 1..n}
      BY <1>1 DEF ToSet, n
    <2>2. \A i \in 1..n : acts[i] = st[i + 1] /\ i + 1 \in 2..n + 1
      BY <1>1
    <2>3. \A j \in 2..n + 1 : j - 1 \in 1..n /\ acts[j - 1] = st[j]
      BY <1>1
    <2>4. QED
      BY <2>1, <2>2, <2>3
  <1>10. QED
    BY <1>8, <1>9 DEF Fine, f, acts, n

LEMMA IdleReceives ==
    ASSUME NEW k \in Session, Idle(k), NEW st \in Seq(Action), Distinct(st),
           Behind(k.log, st), NEW m \in WsMsg, NextMessage(st, ToSet(k.log), m)
    PROVE  LET l == HandleMessage(k, m)
           IN  /\ l \in Session /\ Idle(l) /\ l.connected = k.connected
               /\ Behind(l.log, st) /\ ToSet(l.log) = ToSet(k.log) \cup Brings(m)
  <1> DEFINE l == HandleMessage(k, m)
  <1>1. l \in Session
    BY HandleMessageMoves DEF Moves
  <1>2. CASE m = Ack
    <2> DEFINE u == [k EXCEPT !.syncing = FALSE,
                              !.status = IF k.pending = {} THEN "synced" ELSE @]
    <2>1. l = ProcessQueue(u)
      BY <1>2 DEF HandleMessage, HandleAck, Ack
    <2>2. u.queue = <<>> /\ Idle(u) /\ u.connected = k.connected /\ u.log = k.log
      BY DEF Idle, Session
    <2> HIDE DEF u
    <2>3. l = u
      BY <2>1, <2>2, Queueless
    <2>4. QED
      BY <1>1, <1>2, <2>2, <2>3, BringsIs
  <1>3. CASE m.type = "SYNC_UPDATE" /\ \E h \in 1..Len(st) : m.actions = SubSeq(st, 2, h)
    <2>1. PICK h \in 1..Len(st) : m.actions = SubSeq(st, 2, h)
      BY <1>3
    <2> DEFINE u == CaughtUp(k, m.actions)[Len(m.actions)]
               v == [u EXCEPT !.syncing = FALSE, !.status = "synced"]
    <2>2. /\ u \in Session /\ Idle(u) /\ u.connected = k.connected
          /\ Behind(u.log, st) /\ ToSet(u.log) = ToSet(k.log) \cup ToSet(m.actions)
      BY <2>1, IdleCatchesUp
    <2>3. l = ProcessQueue(v)
      BY <1>3 DEF HandleMessage, HandleSyncUpdate
    <2> HIDE DEF u
    <2>4. v.queue = <<>> /\ Idle(v) /\ v.connected = u.connected /\ v.log = u.log
      BY <2>2 DEF Idle, Session
    <2> HIDE DEF v
    <2>5. l = v
      BY <2>3, <2>4, Queueless
    <2>6. Brings(m) = ToSet(m.actions)
      BY <1>3 DEF Brings
    <2>7. QED
      BY <1>1, <2>2, <2>4, <2>5, <2>6
  <1>4. CASE m.type = "ACTION" /\ \E p \in 1..Len(st) :
                 m.action = st[p] /\ (p > 1 => st[p - 1] \in ToSet(k.log))
    <2>1. PICK p \in 1..Len(st) : m.action = st[p] /\ (p > 1 => st[p - 1] \in ToSet(k.log))
      BY <1>4
    <2>2. l = HandleAction(k, st[p]) /\ Brings(m) = {st[p]} /\ st[p] \in Action
      BY <1>4, <2>1 DEF HandleMessage, Brings
    <2>3. Idle(l) /\ l.connected = k.connected /\ l.log = Dispatched(k.log, st[p])
      BY <2>2, IdleActions
    <2>4. k.log \in Seq(Action)
      BY DEF Session
    <2>5. Behind(l.log, st) /\ ToSet(l.log) = ToSet(k.log) \cup {st[p]}
      BY <2>1, <2>3, <2>4, NextTaken
    <2>6. QED
      BY <1>1, <2>2, <2>3, <2>5
  <1>5. QED
    BY <1>2, <1>3, <1>4 DEF NextMessage

\* The first message is taken out of the inbox and into the log.
LEMMA FeedsReceived ==
    ASSUME NEW log, NEW inbox \in Seq(WsMsg), inbox # <<>>, NEW st, NEW q,
           Feeds(log, inbox, st, q), NEW l, Behind(l, st),
           ToSet(l) = ToSet(log) \cup Brings(Head(inbox))
    PROVE  Feeds(l, Tail(inbox), st, q)
  <1> DEFINE t == Tail(inbox)
             B == Brings(Head(inbox))
  <1>1. /\ Len(t) = Len(inbox) - 1 /\ Len(inbox) \in Nat \ {0}
        /\ \A i \in 1..Len(inbox) - 1 : t[i] = inbox[i + 1]
    OBVIOUS
  <1>2. \A i \in 0..Len(inbox) - 1 : Given(inbox, i + 1) = B \cup Given(t, i)
    BY GivenTail
  <1>3. /\ Broadcasted(AllGiven(log, inbox), q)
        /\ ToSet(st) \subseteq AllGiven(log, inbox) \cup Coming(q, Len(q))
        /\ Messages(st, ToSet(log), inbox)
    BY DEF Feeds
  <1> HIDE DEF t, B
  <1>4. AllGiven(l, t) = AllGiven(log, inbox)
    <2>1. Len(t) \in 0..Len(inbox) - 1 /\ Len(t) + 1 = Len(inbox)
      BY <1>1
    <2>2. Given(inbox, Len(inbox)) = B \cup Given(t, Len(t))
      BY <1>2, <2>1
    <2>3. QED
      BY <2>2 DEF AllGiven, B
  <1>5. Messages(st, ToSet(l), t)
    <2> SUFFICES ASSUME NEW i \in 1..Len(t)
                 PROVE  NextMessage(st, ToSet(l) \cup Given(t, i - 1), t[i])
      BY DEF Messages
    <2>1. /\ i - 1 \in 0..Len(inbox) - 1 /\ i - 1 + 1 = i /\ i + 1 \in 1..Len(inbox)
          /\ (i + 1) - 1 = i /\ t[i] = inbox[i + 1]
      BY <1>1
    <2>2. Given(inbox, i) = B \cup Given(t, i - 1)
      BY <1>2, <2>1
    <2>3. NextMessage(st, ToSet(log) \cup Given(inbox, i), inbox[i + 1])
      BY <1>3, <2>1 DEF Messages
    <2>4. ToSet(log) \cup Given(inbox, i) = ToSet(l) \cup Given(t, i - 1)
      BY <2>2 DEF B
    <2>5. QED
      BY <2>1, <2>3, <2>4
  <1>6. Feeds(l, t, st, q)
    BY <1>3, <1>4, <1>5 DEF Feeds
  <1>7. QED
    BY <1>6 DEF t

-----------------------------------------------------------------------------
(* The dialog's request is nothing the sync manager touches.               *)

LEMMA QueueForm ==
    ASSUME NEW k \in Session PROVE ProcessQueue(k).form = k.form
  <1> DEFINE n == Least(Len(k.queue), BatchSize)
             rest == SubSeq(k.queue, n + 1, Len(k.queue))
             batch == SubSeq(k.queue, 1, n)
             ends == [k EXCEPT !.queue = rest, !.draining = TRUE,
                               !.connected = FALSE, !.reconnect = FALSE]
             posts == [k EXCEPT !.queue = rest, !.draining = TRUE,
                                !.flight = batch, !.stale = FALSE]
             idle == k.syncing \/ k.draining \/ ~k.connected \/ k.queue = <<>>
  <1>1. ProcessQueue(k) = IF idle THEN k ELSE IF k.retries > MaxRetries THEN ends ELSE posts
    BY DEF ProcessQueue
  <1> HIDE DEF rest, batch
  <1>2. ends.form = k.form /\ posts.form = k.form
    BY DEF Session
  <1> HIDE DEF ends, posts, idle
  <1>3. QED
    BY <1>1, <1>2

LEMMA EnqueueForm ==
    ASSUME NEW k \in Session, NEW msg \in Queued
    PROVE  Enqueue(k, msg) \in Session /\ Enqueue(k, msg).form = k.form
  <1> DEFINE l == [k EXCEPT !.queue = Append(@, msg)]
  <1>1. Append(k.queue, msg) \in Seq(Queued)
    BY DEF Session
  <1>2. l \in Session /\ l.form = k.form
    BY <1>1 DEF Session
  <1>3. Enqueue(k, msg) = ProcessQueue(l)
    BY DEF Enqueue
  <1> HIDE DEF l
  <1>4. ProcessQueue(l) \in Session
    BY <1>2, ProcessQueueMoves DEF Moves
  <1>5. QED
    BY <1>2, <1>3, <1>4, QueueForm

LEMMA SendForm ==
    ASSUME NEW k \in Session, k.saving # <<>> PROVE SendAction(k).form = k.form
  <1> DEFINE a == Head(k.saving)
             l == [k EXCEPT !.saving = Tail(@), !.pending = @ \cup {a}, !.last = a]
             msg == [act |-> a, base |-> k.last]
  <1>1. /\ a \in Action /\ Tail(k.saving) \in Seq(Action)
        /\ k.pending \cup {a} \in SUBSET Action /\ a \in Rev /\ k.last \in Rev
    BY DEF Session, Rev
  <1>2. msg \in Queued
    BY <1>1 DEF Queued
  <1> HIDE DEF a
  <1>3. l \in Session /\ l.form = k.form
    BY <1>1 DEF Session
  <1>4. SendAction(k) = Enqueue(l, msg)
    BY DEF SendAction, a
  <1> HIDE DEF l, msg
  <1>5. QED
    BY <1>2, <1>3, <1>4, EnqueueForm

LEMMA FastForwardForm ==
    ASSUME NEW k \in Session, NEW base \in Rev, NEW acts \in Seq(Action), acts # <<>>
    PROVE  FastForward(k, base, acts).form = k.form
  <1> DEFINE msgs == [i \in 1..Len(acts) |->
                        [act |-> acts[i], base |-> IF i = 1 THEN base ELSE acts[i - 1]]]
             l == [k EXCEPT !.queue = <<>>, !.stale = TRUE,
                            !.pending = @ \cup ToSet(acts), !.last = Last(acts)]
             first == Enqueue(l, Head(msgs))
             m == [first EXCEPT !.queue = @ \o Tail(msgs)]
  <1>1. Head(msgs) \in Queued
    <2>1. 1 \in 1..Len(acts) /\ acts[1] \in Action
      OBVIOUS
    <2>2. Head(msgs) = [act |-> acts[1], base |-> base]
      BY <2>1
    <2>3. QED
      BY <2>1, <2>2 DEF Queued
  <1> HIDE DEF msgs
  <1>2. /\ k.pending \cup ToSet(acts) \in SUBSET Action /\ Last(acts) \in Rev
        /\ <<>> \in Seq(Queued)
    BY ToSetFacts DEF Session, Last, Rev
  <1>3. l \in Session /\ l.form = k.form
    BY <1>2 DEF Session
  <1> HIDE DEF l
  <1>4. first \in Session /\ first.form = k.form
    BY <1>1, <1>3, EnqueueForm
  <1> HIDE DEF first
  <1>5. m.form = first.form
    BY <1>4 DEF Session
  <1>6. FastForward(k, base, acts) = m
    BY DEF FastForward, m, first, l, msgs
  <1> HIDE DEF m
  <1>7. QED
    BY <1>4, <1>5, <1>6

LEMMA ConflictForm ==
    ASSUME NEW k \in Session, NEW base \in Rev PROVE HandleConflict(k, base).form = k.form
  <1> DEFINE told == [k EXCEPT !.syncing = FALSE, !.status = "conflict"]
             ahead == After(k.log, base)
             asks == [told EXCEPT !.modal = TRUE]
             same == [told EXCEPT !.last = base, !.status = "synced"]
             busy == [told EXCEPT !.resolving = TRUE]
             answered == k.form = "load" \/ k.modal \/ k.resolving
             foreign == ~Contains(k.log, base) /\ (base # NoRev \/ k.log = <<>>)
  <1>1. HandleConflict(k, base) =
          IF answered THEN told ELSE IF foreign THEN asks
          ELSE IF ahead = <<>> THEN same ELSE FastForward(busy, base, ahead)
    BY DEF HandleConflict
  <1>2. ahead \in Seq(Action)
    BY AfterTyping DEF Session
  <1> HIDE DEF ahead, answered, foreign
  <1>3. told.form = k.form /\ asks.form = k.form /\ same.form = k.form /\ busy.form = k.form
    BY DEF Session
  <1>4. busy \in Session
    BY DEF Session, SyncStatus
  <1> HIDE DEF told, asks, same, busy
  <1>5. ahead # <<>> => FastForward(busy, base, ahead).form = k.form
    BY <1>2, <1>3, <1>4, FastForwardForm
  <1>6. QED
    BY <1>1, <1>3, <1>5

LEMMA CaughtUpForm ==
    ASSUME NEW k \in Session, NEW acts \in Seq(Action)
    PROVE  CaughtUp(k, acts)[Len(acts)].form = k.form
  <1> DEFINE f == CaughtUp(k, acts)
             n == Len(acts)
             S == {i \in Nat : i <= n => f[i] \in Session /\ f[i].form = k.form}
  <1>1. n \in Nat
    OBVIOUS
  <1>2. IsCaughtUp(f, k, acts, n)
    <2>1. \E h : IsCaughtUp(h, k, acts, n)
      BY <1>1, CaughtUpExists
    <2>2. QED
      BY <2>1 DEF CaughtUp, IsCaughtUp
  <1> HIDE DEF f
  <1>3. f[0] = k /\ \A i \in 1..n : f[i] = CatchUp(f[i - 1], acts[i])
    BY <1>1, <1>2 DEF IsCaughtUp
  <1>4. 0 \in S
    BY <1>3
  <1>5. ASSUME NEW i \in Nat, i \in S PROVE i + 1 \in S
    <2> SUFFICES ASSUME i + 1 <= n
                 PROVE  f[i + 1] \in Session /\ f[i + 1].form = k.form
      OBVIOUS
    <2>1. f[i] \in Session /\ f[i].form = k.form /\ i + 1 \in 1..n
      BY <1>1, <1>5
    <2>2. f[i + 1] = CatchUp(f[i], acts[i + 1]) /\ acts[i + 1] \in Action
      BY <1>3, <2>1
    <2> DEFINE u == f[i]
               a == acts[i + 1]
               pending == u.pending \ {a}
               last == IF pending = {} THEN a ELSE u.last
               log == Dispatched(u.log, a)
    <2>3. CatchUp(u, a) = [u EXCEPT !.pending = pending, !.last = last, !.log = log]
      BY DEF CatchUp
    <2>4. u \in Session /\ CatchUp(u, a) \in Session
      BY <2>1, <2>2, CatchUpMoves DEF Moves
    <2> HIDE DEF u, pending, last, log
    <2>5. CatchUp(u, a).form = u.form
      BY <2>3, <2>4 DEF Session
    <2>6. QED
      BY <2>1, <2>2, <2>4, <2>5 DEF u
  <1> HIDE DEF S
  <1>6. \A i \in Nat : i \in S
    BY <1>4, <1>5, SetInduction
  <1>7. n \in S
    BY <1>1, <1>6
  <1>8. QED
    BY <1>7 DEF S, f

LEMMA MessageForm ==
    ASSUME NEW k \in Session, NEW m \in WsMsg
    PROVE  HandleMessage(k, m).form = k.form
  <1>1. CASE m.type = "ACK"
    <2> DEFINE status == IF k.pending = {} THEN "synced" ELSE k.status
               u == [k EXCEPT !.syncing = FALSE, !.status = status]
    <2>1. HandleMessage(k, m) = ProcessQueue(u)
      BY <1>1 DEF HandleMessage, HandleAck
    <2>2. status \in SyncStatus
      BY DEF Session, SyncStatus
    <2> HIDE DEF status
    <2>3. u \in Session /\ u.form = k.form
      BY <2>2 DEF Session
    <2> HIDE DEF u
    <2>4. QED
      BY <2>1, <2>3, QueueForm
  <1>2. CASE m.type = "ACTION"
    <2> DEFINE a == m.action
               pending == k.pending \ {a}
               last == IF pending = {} THEN a ELSE k.last
               taken == IF a \in k.pending THEN k.log ELSE Dispatched(k.log, a)
               status == IF pending = {} THEN "synced" ELSE k.status
    <2>1. HandleMessage(k, m) = [k EXCEPT !.pending = pending, !.last = last, !.log = taken,
                                          !.status = status]
      BY <1>2 DEF HandleMessage, HandleAction
    <2> HIDE DEF pending, last, taken, status
    <2>2. QED
      BY <2>1 DEF Session
  <1>3. CASE m.type = "SYNC_UPDATE"
    <2> DEFINE u == CaughtUp(k, m.actions)[Len(m.actions)]
               v == [u EXCEPT !.syncing = FALSE, !.status = "synced"]
    <2>1. m.actions \in Seq(Action)
      BY <1>3, MessageTyping
    <2>2. u \in Session /\ u.form = k.form
      BY <2>1, CaughtUpMoves, CaughtUpForm DEF Moves
    <2>3. HandleMessage(k, m) = ProcessQueue(v)
      BY <1>3 DEF HandleMessage, HandleSyncUpdate
    <2> HIDE DEF u
    <2>4. v \in Session /\ v.form = u.form
      BY <2>2 DEF Session, SyncStatus
    <2> HIDE DEF v
    <2>5. QED
      BY <2>2, <2>3, <2>4, QueueForm
  <1>4. CASE m.type = "CONFLICT"
    <2>1. HandleMessage(k, m) = HandleConflict(k, m.base) /\ m.base \in Rev
      BY <1>4, MessageTyping DEF HandleMessage
    <2>2. QED
      BY <2>1, ConflictForm
  <1>5. QED
    BY <1>1, <1>2, <1>3, <1>4, MessageTyping

LEMMA AnswerForm ==
    ASSUME NEW k \in Session, NEW m \in ActionAnswer \ {Unsent, Taken}
    PROVE  HttpAnswer(k, m).form = k.form
  <1> DEFINE u == Landed(k)
             h == HandleMessage(u, m)
             handled == [h EXCEPT !.retries = 0]
             l == [handled EXCEPT !.draining = FALSE]
  <1>1. u \in Session /\ u.form = k.form
    BY LandedTyping DEF Landed, Session
  <1>2. PutBack(k).form = k.form
    BY DEF PutBack, Session
  <1>3. m # Busy => h \in Session /\ h.form = k.form
    BY <1>1, NetMsgs, HandleMessageMoves, MessageForm DEF Moves
  <1> HIDE DEF h
  <1>4. m # Busy => /\ handled \in Session /\ handled.form = k.form
                    /\ l \in Session /\ l.form = k.form
    BY <1>3 DEF Session
  <1>5. HttpAnswer(k, m) = IF k.stale THEN u ELSE IF m = Busy THEN PutBack(k)
                           ELSE IF handled.stale THEN handled ELSE ProcessQueue(l)
    BY DEF HttpAnswer, h
  <1> HIDE DEF handled, l, u
  <1>6. QED
    BY <1>1, <1>2, <1>4, <1>5, QueueForm

LEMMA OtherForms ==
    ASSUME NEW k \in Session
    PROVE  /\ \A a : Act(k, a).form = k.form
           /\ RetryTimer(k).form = k.form /\ Resume(k).form = k.form
           /\ HttpError(k).form = k.form
           /\ \A log : Overwrite(k, log).form = "none"
           /\ ForceSaved(k).form = "none" /\ FormFails(k).form = "none"
           /\ BeginOverwrite(k).form = "load" /\ Fork(k).form = k.form
           /\ SocketOpens(k).form = k.form
  <1>1. (\A a : Act(k, a).form = k.form) /\ SocketOpens(k).form = k.form
    BY DEF Act, Session, SocketOpens
  <1>2. RetryTimer(k).form = k.form
    <2> DEFINE l == [k EXCEPT !.timer = FALSE]
    <2>1. l \in Session /\ l.form = k.form
      BY DEF Session
    <2> HIDE DEF l
    <2>2. ProcessQueue(l).form = k.form
      BY <2>1, QueueForm
    <2>3. QED
      BY <2>2 DEF RetryTimer, l
  <1>3. Resume(k).form = k.form
    <2> DEFINE l == [k EXCEPT !.resolving = FALSE]
    <2>1. l \in Session /\ l.form = k.form
      BY DEF Session
    <2> HIDE DEF l
    <2>2. ProcessQueue(l).form = k.form
      BY <2>1, QueueForm
    <2>3. QED
      BY <2>2 DEF Resume, l
  <1>4. HttpError(k).form = k.form
    <2> DEFINE b == PutBack(k)
    <2>1. b.form = k.form /\ DOMAIN b = DOMAIN k /\ Landed(k).form = k.form
      BY DEF PutBack, Landed, Session
    <2>2. b \in Session
      BY PutBackTyping DEF Answered
    <2> HIDE DEF b
    <2>3. [b EXCEPT !.retries = @ + 1, !.status = "unsynced"].form = b.form
      BY <2>2 DEF Session
    <2>4. QED
      BY <2>1, <2>3 DEF HttpError, b
  <1>5. /\ \A log : Overwrite(k, log).form = "none"
        /\ ForceSaved(k).form = "none" /\ FormFails(k).form = "none"
    BY DEF Overwrite, ForceSaved, FormFails, Session
  <1>6. BeginOverwrite(k).form = "load" /\ Fork(k).form = k.form
    BY DEF BeginOverwrite, Fork, Session
  <1>7. QED
    BY <1>1, <1>2, <1>3, <1>4, <1>5, <1>6

-----------------------------------------------------------------------------
(* What stays as it was.                                                   *)

\* The actions of a game fit in the reach of the duplicate scan.
FewActions == IsFiniteSet(Action) /\ Cardinality(Action) <= MaxScan

LEMMA StoreDistinct ==
    ASSUME FewActions, SyncInv, FreshInv
    PROVE  store \in Seq(Action) /\ Distinct(store)
  <1>1. store \in Seq(Action)
    BY LoadedIs
  <1>2. Spaced(store)
    BY DEF FreshInv, FreshHub, Kept
  <1>3. QED
    BY <1>1, <1>2, SpacedDistinct DEF FewActions

LEMMA TypesAre ==
    ASSUME SyncInv
    PROVE  /\ client \in [Client -> Session] /\ ws \in [Client -> Seq(WsMsg)]
           /\ up \in [Client -> Seq(Rev)] /\ HttpOK
           /\ requests \in Seq(Request) /\ store \in Seq(Action)
           /\ \A c \in Client : c \in members <=> client[c].connected
           /\ made \in [Client -> Nat]
           /\ gameData \in Seq(Action) \cup {NotLoaded}
           /\ members \subseteq Client
  BY DEF SyncInv, TypeInv, TypeOK, ClientTypeOK, NetTypeOK, HubTypeOK

\* Nobody waits for the answer any more, and nothing else changes.
LEMMA OrphanedSame ==
    ASSUME requests \in Seq(Request), NEW types, "broadcast" \notin types, NEW c
    PROVE  SameChannel(requests, Orphaned(types, c))
  <1> DEFINE o == Orphaned(types, c)
  <1>1. DOMAIN requests = 1..Len(requests) /\ Len(requests) \in Nat
    OBVIOUS
  <1>2. \A i \in 1..Len(requests) :
           o[i] = IF requests[i].type \in types /\ requests[i].client = c
                  THEN [requests[i] EXCEPT !.live = FALSE] ELSE requests[i]
    BY <1>1 DEF Orphaned
  <1>3. Len(o) = Len(requests)
    <2>1. DOMAIN o = 1..Len(requests)
      BY <1>1 DEF Orphaned
    <2>2. o = [i \in 1..Len(requests) |-> o[i]]
      BY <1>1 DEF Orphaned
    <2> HIDE DEF o
    <2>3. QED
      BY <1>1, <2>1, <2>2
  <1> HIDE DEF o
  <1>4. ASSUME NEW i \in 1..Len(requests) PROVE SameRequest(requests[i], o[i])
    <2> DEFINE r == requests[i]
               s == [r EXCEPT !.live = FALSE]
    <2>1. o[i] = IF r.type \in types /\ r.client = c THEN s ELSE r
      BY <1>2
    <2>2. r \in Request
      OBVIOUS
    <2> HIDE DEF r
    <2>3. r.type \in types => /\ s.type = r.type /\ s.client = r.client
                              /\ r.type = "join" => s.base = r.base
                              /\ r.type # "broadcast"
      BY <2>2 DEF Request
    <2> HIDE DEF s
    <2>4. SameRequest(r, o[i])
      BY <2>1, <2>3 DEF SameRequest
    <2>5. QED
      BY <2>4 DEF r
  <1>5. QED
    BY <1>3, <1>4 DEF SameChannel, o

LEMMA SameItself == \A q : SameChannel(q, q)
  BY DEF SameChannel, SameRequest

LEMMA FineSame ==
    ASSUME NEW st, NEW q, NEW s, SameChannel(q, s),
           \A i \in 1..Len(q) : FineRequest(st, q[i])
    PROVE  \A i \in 1..Len(s) : FineRequest(st, s[i])
  BY DEF SameChannel, SameRequest, FineRequest

LEMMA FineAppend ==
    ASSUME NEW st, NEW q \in Seq(Request), NEW r \in Request, FineRequest(st, r),
           \A i \in 1..Len(q) : FineRequest(st, q[i])
    PROVE  \A i \in 1..Len(Append(q, r)) : FineRequest(st, Append(q, r)[i])
  <1> DEFINE s == Append(q, r)
  <1>1. /\ Len(s) = Len(q) + 1 /\ Len(q) \in Nat /\ s[Len(q) + 1] = r
        /\ \A i \in 1..Len(q) : s[i] = q[i]
    OBVIOUS
  <1> HIDE DEF s
  <1>2. ASSUME NEW i \in 1..Len(s) PROVE FineRequest(st, s[i])
    BY <1>1
  <1>3. QED
    BY <1>2 DEF s

\* The channel but for orphans, and with one request more perhaps, that is no
\* broadcast.
ChannelKept ==
    \/ SameChannel(requests, requests')
    \/ \E r \in Request : /\ r.type # "broadcast" /\ FineRequest(store, r)
                          /\ requests' = Append(requests, r)

LEMMA ChannelKeeps ==
    ASSUME SyncInv, Growing, ChannelKept
    PROVE  /\ \A i \in 1..Len(requests') : FineRequest(store, requests'[i])
           /\ \A log, inbox, st : Feeds(log, inbox, st, requests) => Feeds(log, inbox, st, requests')
           /\ (\A i \in 1..Len(requests) : requests[i].type # "broadcast") =>
                 \A i \in 1..Len(requests') : requests'[i].type # "broadcast"
  <1>1. requests \in Seq(Request) /\ \A i \in 1..Len(requests) : FineRequest(store, requests[i])
    BY TypesAre DEF Growing
  <1>2. CASE SameChannel(requests, requests')
    <2>1. \A i \in 1..Len(requests') : FineRequest(store, requests'[i])
      BY <1>1, <1>2, FineSame
    <2>2. \A log, inbox, st : Feeds(log, inbox, st, requests) => Feeds(log, inbox, st, requests')
      BY <1>2, FeedsSame
    <2>3. (\A i \in 1..Len(requests) : requests[i].type # "broadcast") =>
             \A i \in 1..Len(requests') : requests'[i].type # "broadcast"
      BY <1>2 DEF SameChannel, SameRequest
    <2>4. QED
      BY <2>1, <2>2, <2>3
  <1>3. CASE \E r \in Request : /\ r.type # "broadcast" /\ FineRequest(store, r)
                                /\ requests' = Append(requests, r)
    <2>1. PICK r \in Request : /\ r.type # "broadcast" /\ FineRequest(store, r)
                               /\ requests' = Append(requests, r)
      BY <1>3
    <2>2. \A i \in 1..Len(requests') : FineRequest(store, requests'[i])
      BY <1>1, <2>1, FineAppend
    <2>3. \A log, inbox, st : Feeds(log, inbox, st, requests) => Feeds(log, inbox, st, requests')
      BY <1>1, <2>1, FeedsRequest
    <2>4. ASSUME \A i \in 1..Len(requests) : requests[i].type # "broadcast",
                 NEW i \in 1..Len(requests')
          PROVE  requests'[i].type # "broadcast"
      <3>1. /\ Len(requests') = Len(requests) + 1 /\ Len(requests) \in Nat
            /\ \A j \in 1..Len(requests) : requests'[j] = requests[j]
            /\ requests'[Len(requests) + 1] = r
        BY <1>1, <2>1, ComingAppend
      <3>2. i \in 1..Len(requests) \/ i = Len(requests) + 1
        BY <3>1
      <3>3. QED
        BY <2>1, <2>4, <3>1, <3>2
    <2>5. QED
      BY <2>2, <2>3, <2>4
  <1>4. QED
    BY <1>2, <1>3 DEF ChannelKept

\* One acts only when all have joined.
MadeKept == UNCHANGED made \/ (~Untouched' /\ \A c \in Client : c \in members)

\* Neither the logs nor the channel change for whoever watches.
LEMMA GrowingKept ==
    ASSUME SyncInv, Growing, ChannelKept, MadeKept, UNCHANGED store,
           gameData' # NotLoaded => gameData' = gameData, proposing'.type # "save",
           \A c \in Client : client'[c].form # "save"
    PROVE  Growing'
  <1>1. \A i \in 1..Len(requests') : FineRequest(store, requests'[i])
    BY ChannelKeeps
  <1>2. Untouched' => Untouched
    BY DEF MadeKept, Untouched
  <1>3. Untouched' => \A i \in 1..Len(requests') : requests'[i].type # "broadcast"
    BY <1>2, ChannelKeeps DEF Growing
  <1>4. QED
    BY <1>1, <1>2, <1>3 DEF Growing

LEMMA WatchingKept ==
    ASSUME SyncInv, Growing, ChannelKept, MadeKept, UNCHANGED store, NEW c \in Client, Watching(c),
           UNCHANGED <<client[c], ws[c], http[c]["document"]>>,
           up'[c] = up[c] \/ (up'[c] = Tail(up[c]) /\ up[c] # <<>>),
           c \in members <=> c \in members'
    PROVE  Watching(c)'
  <1>1. Feeds(client[c].log, ws[c], store, requests')
    BY ChannelKeeps DEF Watching
  <1>2. \A i \in 1..Len(up'[c]) : up'[c][i] = Start
    <2>1. up[c] \in Seq(Rev) /\ \A i \in 1..Len(up[c]) : up[c][i] = Start
      BY TypesAre DEF Watching
    <2> DEFINE q == up[c]
    <2>2. q # <<>> => /\ Len(Tail(q)) = Len(q) - 1 /\ Len(q) \in Nat
                      /\ \A i \in 1..Len(q) - 1 : Tail(q)[i] = q[i + 1]
      BY <2>1
    <2> HIDE DEF q
    <2>3. q # <<>> => \A i \in 1..Len(Tail(q)) : Tail(q)[i] = Start
      BY <2>1, <2>2 DEF q
    <2>4. QED
      BY <2>1, <2>3 DEF q
  <1>3. c \notin members' => ws'[c] = <<>> /\ client'[c].last = Start /\ Untouched'
    BY DEF MadeKept, Untouched, Watching
  <1>4. Idle(client'[c]) /\ http'[c]["document"] = Unsent
    BY DEF Watching
  <1>5. QED
    BY <1>1, <1>2, <1>3, <1>4 DEF Watching

\* A step that watchers do not take and do not see.
LEMMA WatchKept ==
    ASSUME SyncInv, WatchInv, ChannelKept, MadeKept, UNCHANGED store,
           gameData' # NotLoaded => gameData' = gameData, proposing'.type # "save",
           \A c \in Client : client'[c].form # "save",
           \A c \in Client : Watches(c) =>
              /\ UNCHANGED <<client[c], ws[c], http[c]["document"]>>
              /\ up'[c] = up[c] \/ (up'[c] = Tail(up[c]) /\ up[c] # <<>>)
              /\ c \in members <=> c \in members'
    PROVE  WatchInv'
  <1>1. Growing'
    BY GrowingKept DEF WatchInv
  <1>2. ASSUME NEW c \in Client, Watches(c) PROVE Watching(c)'
    BY <1>2, WatchingKept DEF WatchInv
  <1>3. QED
    BY <1>1, <1>2 DEF WatchInv, Watches

-----------------------------------------------------------------------------
(* A step of a browser.                                                    *)

LEMMA FormsKept ==
    ASSUME SyncInv, WatchInv, NEW d \in Client, NEW k,
           k.form # "save", client' = [client EXCEPT ![d] = k]
    PROVE  \A c \in Client : client'[c].form # "save"
  <1>1. \A c \in Client : client'[c] = IF c = d THEN k ELSE client[c]
    BY TypesAre
  <1>2. QED
    BY <1>1 DEF WatchInv, Growing

\* One who does not only watch.
LEMMA WriterMoves ==
    ASSUME SyncInv, WatchInv, NEW d \in Client, ~Watches(d), NEW k \in Session,
           k.form # "save", NEW inbox, Session1(d, k, inbox),
           UNCHANGED quiet, MadeKept, \A c \in Client : c # d => http'[c] = http[c]
    PROVE  WatchInv'
  <1>1. /\ client \in [Client -> Session] /\ ws \in [Client -> Seq(WsMsg)]
        /\ up \in [Client -> Seq(Rev)] /\ requests \in Seq(Request)
    BY TypesAre
  <1>2. ChannelKept
    <2>1. "broadcast" \notin {"join"}
      OBVIOUS
    <2>2. SameChannel(requests, Orphaned({"join"}, d)) /\ SameChannel(requests, requests)
      BY <1>1, <2>1, OrphanedSame, SameItself
    <2>3. requests' = Orphaned({"join"}, d) \/ requests' = requests
      BY DEF Session1
    <2>4. QED
      BY <2>2, <2>3 DEF ChannelKept
  <1>3. client' = [client EXCEPT ![d] = k]
    BY DEF Session1
  <1>4. \A c \in Client : client'[c].form # "save"
    BY <1>3, FormsKept
  <1>5. ASSUME NEW c \in Client, Watches(c)
        PROVE  /\ client'[c] = client[c] /\ ws'[c] = ws[c] /\ up'[c] = up[c]
               /\ http'[c] = http[c] /\ (c \in members <=> c \in members')
    <2>1. c # d
      BY <1>5
    <2>2. client'[c] = client[c] /\ http'[c] = http[c]
      BY <1>1, <1>3, <2>1
    <2>3. ws'[c] = ws[c] /\ up'[c] = up[c] /\ (c \in members <=> c \in members')
      BY <1>1, <2>1 DEF Session1
    <2>4. QED
      BY <2>2, <2>3
  <1>6. UNCHANGED store /\ gameData' = gameData /\ proposing'.type # "save"
    BY DEF quiet, WatchInv, Growing
  <1>7. QED
    BY <1>2, <1>4, <1>5, <1>6, WatchKept

\* A watcher, whose connection stays.
LEMMA WatcherMoves ==
    ASSUME SyncInv, WatchInv, NEW d \in Client, Watches(d), NEW k \in Session, Idle(k),
           k.connected = client[d].connected, NEW inbox, Session1(d, k, inbox),
           UNCHANGED <<quiet, http, made>>,
           Feeds(k.log, inbox, store, requests),
           d \notin members => inbox = <<>> /\ k.last = Start
    PROVE  WatchInv'
  <1>1. /\ client \in [Client -> Session] /\ ws \in [Client -> Seq(WsMsg)]
        /\ up \in [Client -> Seq(Rev)] /\ requests \in Seq(Request)
    BY TypesAre
  <1>2. /\ client' = [client EXCEPT ![d] = k] /\ ws' = [ws EXCEPT ![d] = inbox]
        /\ up' = up /\ members' = members /\ requests' = requests
    BY DEF Session1
  <1>3. UNCHANGED <<store, gameData, proposing>> /\ UNCHANGED http /\ UNCHANGED made
    BY DEF quiet
  <1>4. ChannelKept /\ MadeKept
    BY <1>2, <1>3, SameItself DEF ChannelKept, MadeKept
  <1>5. k.form # "save"
    BY DEF Idle
  <1>6. \A c \in Client : client'[c].form # "save"
    BY <1>2, <1>5, FormsKept
  <1>7. proposing'.type # "save" /\ gameData' = gameData
    BY <1>3 DEF WatchInv, Growing
  <1>8. Growing'
    BY <1>3, <1>4, <1>6, <1>7, GrowingKept DEF WatchInv
  <1>9. ASSUME NEW c \in Client, Watches(c) PROVE Watching(c)'
    <2>1. Watching(c) /\ Growing
      BY <1>9 DEF WatchInv
    <2>2. CASE c = d
      <3>1. client'[d] = k /\ ws'[d] = inbox
        BY <1>1, <1>2
      <3>2. Feeds(client'[d].log, ws'[d], store', requests')
        BY <1>2, <1>3, <3>1
      <3>3. d \notin members' => Untouched'
        BY <1>2, <1>3, <2>1, <2>2 DEF Watching, Untouched
      <3>4. QED
        BY <1>2, <1>3, <2>1, <2>2, <3>1, <3>2, <3>3 DEF Watching
    <2>3. CASE c # d
      <3>1. client'[c] = client[c] /\ ws'[c] = ws[c]
        BY <1>1, <1>2, <2>3
      <3>2. QED
        BY <1>2, <1>3, <1>4, <2>1, <3>1, WatchingKept
    <2>4. QED
      BY <2>2, <2>3
  <1>10. QED
    BY <1>8, <1>9 DEF WatchInv, Watches

LEMMA WatcherIdles ==
    ASSUME SyncInv, WatchInv, NEW c \in Client, Watches(c)
    PROVE  /\ Watching(c) /\ Idle(client[c]) /\ http[c]["document"] = Unsent
           /\ http[c]["action"] = Unsent
  <1>1. Watching(c)
    BY DEF WatchInv
  <1>2. CallOK(c, client[c], http[c]["action"], requests, proposing, committed)
    BY DEF SyncInv, CallInv
  <1>3. QED
    BY <1>1, <1>2 DEF CallOK, Watching, Idle

LEMMA UserActsWatch ==
    ASSUME Undisturbed, SyncInv, WatchInv, NEW d \in Client, UserActs(d) PROVE WatchInv'
  <1>1. /\ client[d] \in Session /\ made \in [Client -> Nat]
        /\ \A c \in Client : c \in members <=> client[c].connected
    BY TypesAre
  <1>2. /\ made[d] \in Nat /\ made[d] < Len(Own[d]) /\ made' = [made EXCEPT ![d] = @ + 1]
    BY <1>1 DEF UserActs
  <1>3. ~Watches(d)
    BY <1>2 DEF Watches
  <1>4. MadeKept
    <2>1. \A c \in Client : c \in members
      BY <1>1 DEF UserActs, Undisturbed, Joined
    <2>2. made'[d] # 0
      BY <1>1, <1>2
    <2>3. QED
      BY <2>1, <2>2 DEF MadeKept, Untouched
  <1> DEFINE a == Own[d][made[d] + 1]
             k == Act(client[d], a)
  <1>5. k \in Session /\ k.form # "save"
    <2>1. Own[d] \in Seq(Action)
      BY GameSyncAssumption
    <2>2. a \in Action
      BY <1>2, <2>1
    <2>3. client[d].form # "save"
      BY DEF WatchInv, Growing
    <2> HIDE DEF a
    <2>4. k.form = client[d].form
      BY <1>1, OtherForms
    <2>5. QED
      BY <1>1, <2>2, <2>3, <2>4, ActTyping
  <1>6. Session1(d, k, ws[d]) /\ UNCHANGED quiet /\ http' = http
    BY DEF UserActs, Steps
  <1> HIDE DEF k
  <1>7. QED
    BY <1>3, <1>4, <1>5, <1>6, WriterMoves

\* The handlers that only run in a browser with something to send or to ask.
LEMMA HandlersWatch ==
    ASSUME Undisturbed, SyncInv, WatchInv, NEW d \in Client,
           \/ ActionSaved(d) \/ ResolvingEnds(d) \/ ChoosesOverwrite(d)
           \/ ChoosesForceSave(d) \/ ChoosesFork(d)
    PROVE  WatchInv'
  <1>1. client[d] \in Session
    BY TypesAre
  <1>2. ~Watches(d)
    <2>1. Idle(client[d]) => FALSE
      BY DEF Idle, ActionSaved, ResolvingEnds, ChoosesOverwrite, ChoosesForceSave, ChoosesFork
    <2>2. QED
      BY <2>1, WatcherIdles
  <1>3. client[d].form # "save"
    BY DEF WatchInv, Growing
  <1>4. ASSUME NEW k, k \in Session, k.form # "save", Steps(d, k),
               UNCHANGED <<quiet, http, made, faults>>
        PROVE  WatchInv'
    <2>1. MadeKept /\ UNCHANGED quiet /\ http' = http
      BY <1>4 DEF MadeKept
    <2>2. Session1(d, k, ws[d])
      BY <1>4 DEF Steps
    <2>3. QED
      BY <1>2, <1>4, <2>1, <2>2, WriterMoves
  <1>5. CASE ActionSaved(d)
    <2>1. SendAction(client[d]) \in Session /\ SendAction(client[d]).form # "save"
      BY <1>1, <1>3, <1>5, SendActionMoves, SendForm DEF ActionSaved, Moves
    <2>2. QED
      BY <1>4, <1>5, <2>1 DEF ActionSaved
  <1>6. CASE ResolvingEnds(d)
    <2>1. Resume(client[d]) \in Session /\ Resume(client[d]).form # "save"
      BY <1>1, <1>3, FlagMoves, OtherForms DEF Moves
    <2>2. QED
      BY <1>4, <1>6, <2>1 DEF ResolvingEnds
  <1>7. CASE ChoosesOverwrite(d)
    <2>1. BeginOverwrite(client[d]) \in Session /\ BeginOverwrite(client[d]).form # "save"
      BY <1>1, <1>3, FlagMoves, OtherForms DEF Moves
    <2>2. QED
      BY <1>4, <1>7, <2>1 DEF ChoosesOverwrite
  <1>8. CASE ChoosesForceSave(d)
    BY <1>8 DEF ChoosesForceSave, Undisturbed
  <1>9. CASE ChoosesFork(d)
    <2>1. Fork(client[d]) \in Session /\ Fork(client[d]).form # "save"
      BY <1>1, <1>3, FlagMoves, OtherForms DEF Moves
    <2>2. QED
      BY <1>4, <1>9, <2>1 DEF ChoosesFork
  <1>10. QED
    BY <1>5, <1>6, <1>7, <1>8, <1>9

\* No fault of these kinds.
LEMMA NoFault ==
    ASSUME Undisturbed, SyncInv, NEW d \in Client
    PROVE  ~Drops(d) /\ ~Reloads(d)
  <1>1. faults \in [DOMAIN FaultBound -> Nat]
    BY DEF SyncInv, TypeInv, TypeOK
  <1>2. /\ "drop" \in DOMAIN FaultBound /\ "reload" \in DOMAIN FaultBound
        /\ FaultBound["drop"] = 0 /\ FaultBound["reload"] = 0
    BY DEF FaultBound, Undisturbed
  <1>3. faults["drop"] \in Nat /\ faults["reload"] \in Nat
    BY <1>1, <1>2
  <1>4. ~(faults["drop"] < 0) /\ ~(faults["reload"] < 0)
    BY <1>3
  <1>5. QED
    BY <1>2, <1>4 DEF Drops, Reloads, Fault

LEMMA RetryWatch ==
    ASSUME SyncInv, WatchInv, NEW d \in Client, RetryFires(d) PROVE WatchInv'
  <1> DEFINE k == RetryTimer(client[d])
  <1>1. client[d] \in Session
    BY TypesAre
  <1>2. Session1(d, k, ws[d]) /\ UNCHANGED <<quiet, http, made>> /\ UNCHANGED quiet /\ http' = http
        /\ MadeKept
    BY DEF RetryFires, Steps, MadeKept
  <1>3. CASE ~Watches(d)
    <2>1. k \in Session /\ k.form = client[d].form
      BY <1>1, FlagMoves, OtherForms DEF Moves
    <2>2. k.form # "save"
      BY <2>1 DEF WatchInv, Growing
    <2> HIDE DEF k
    <2>3. QED
      BY <1>2, <1>3, <2>1, <2>2, WriterMoves
  <1>4. CASE Watches(d)
    <2> DEFINE l == [client[d] EXCEPT !.timer = FALSE]
    <2>1. Idle(client[d]) /\ Watching(d)
      BY <1>4, WatcherIdles
    <2>2. /\ l \in Session /\ Idle(l) /\ l.connected = client[d].connected
          /\ l.log = client[d].log /\ l.last = client[d].last /\ l.queue = <<>>
      BY <1>1, <2>1 DEF Session, Idle
    <2>3. k = l
      BY <2>2, Queueless DEF RetryTimer
    <2> HIDE DEF k, l
    <2>4. Feeds(l.log, ws[d], store, requests)
      BY <2>1, <2>2 DEF Watching
    <2>5. d \notin members => ws[d] = <<>> /\ l.last = Start
      BY <2>1, <2>2 DEF Watching
    <2>6. QED
      BY <1>2, <1>4, <2>2, <2>3, <2>4, <2>5, WatcherMoves
  <1>5. QED
    BY <1>3, <1>4

LEMMA ReceiveWatch ==
    ASSUME FewActions, SyncInv, FreshInv, WatchInv, NEW d \in Client, Receive(d)
    PROVE  WatchInv'
  <1> DEFINE m == Head(ws[d])
             k == HandleMessage(client[d], m)
  <1>1. /\ client[d] \in Session /\ ws[d] \in Seq(WsMsg) /\ ws[d] # <<>>
        /\ m \in WsMsg /\ 1 \in 1..Len(ws[d]) /\ ws[d][1] = m
    BY TypesAre DEF Receive
  <1>2. /\ Session1(d, k, Tail(ws[d])) /\ UNCHANGED <<quiet, http, made>>
        /\ UNCHANGED quiet /\ http' = http /\ MadeKept
    BY DEF Receive, MadeKept
  <1>3. CASE ~Watches(d)
    <2>1. k \in Session /\ k.form = client[d].form
      BY <1>1, HandleMessageMoves, MessageForm DEF Moves
    <2>2. k.form # "save"
      BY <2>1 DEF WatchInv, Growing
    <2> HIDE DEF k
    <2>3. QED
      BY <1>2, <1>3, <2>1, <2>2, WriterMoves
  <1>4. CASE Watches(d)
    <2>1. Idle(client[d]) /\ Watching(d)
      BY <1>4, WatcherIdles
    <2>2. /\ Feeds(client[d].log, ws[d], store, requests) /\ Behind(client[d].log, store)
          /\ d \in members
      BY <1>1, <2>1 DEF Watching, Feeds
    <2>3. NextMessage(store, ToSet(client[d].log), m)
      <3>1. NextMessage(store, ToSet(client[d].log) \cup Given(ws[d], 1 - 1), ws[d][1])
        BY <1>1, <2>2 DEF Feeds, Messages
      <3>2. Given(ws[d], 1 - 1) = {}
        BY GivenNothing
      <3>3. QED
        BY <1>1, <3>1, <3>2
    <2>4. store \in Seq(Action) /\ Distinct(store)
      BY StoreDistinct
    <2>5. /\ k \in Session /\ Idle(k) /\ k.connected = client[d].connected
          /\ Behind(k.log, store) /\ ToSet(k.log) = ToSet(client[d].log) \cup Brings(m)
      <3> DEFINE u == client[d]
      <3>1. u \in Session /\ Idle(u) /\ Behind(u.log, store) /\ NextMessage(store, ToSet(u.log), m)
        BY <1>1, <2>1, <2>2, <2>3
      <3> HIDE DEF u, m
      <3>2. LET l == HandleMessage(u, m)
            IN  /\ l \in Session /\ Idle(l) /\ l.connected = u.connected
                /\ Behind(l.log, store) /\ ToSet(l.log) = ToSet(u.log) \cup Brings(m)
        BY <1>1, <2>4, <3>1, IdleReceives
      <3>3. QED
        BY <3>2 DEF u
    <2> HIDE DEF k
    <2>6. Feeds(k.log, Tail(ws[d]), store, requests)
      BY <1>1, <2>2, <2>5, FeedsReceived
    <2>7. QED
      BY <1>2, <1>4, <2>2, <2>5, <2>6, WatcherMoves
  <1>5. QED
    BY <1>3, <1>4

LEMMA ConnectsWatch ==
    ASSUME SyncInv, WatchInv, NEW d \in Client, Connects(d) PROVE WatchInv'
  <1> DEFINE k == SocketOpens(client[d])
             j == JoinRevision(client[d])
  <1>1. /\ client \in [Client -> Session] /\ up \in [Client -> Seq(Rev)]
        /\ \A c \in Client : c \in members <=> client[c].connected
    BY TypesAre
  <1>2. /\ client' = [client EXCEPT ![d] = k] /\ up' = [up EXCEPT ![d] = <<j>>]
        /\ members' = members \cup {d} /\ UNCHANGED <<quiet, requests, ws, http, made, faults>>
    BY DEF Connects
  <1>3. k.form = client[d].form
    BY <1>1, OtherForms
  <1>4. k.form # "save"
    BY <1>3 DEF WatchInv, Growing
  <1>5. ASSUME Watches(d) PROVE Idle(k) /\ k.log = client[d].log /\ j = Start
    <2>1. Watching(d) /\ Idle(client[d]) /\ d \notin members
      BY <1>1, <1>5, WatcherIdles DEF Connects
    <2>2. Idle(k) /\ k.log = client[d].log
      BY <1>1, <2>1 DEF SocketOpens, Session, Idle
    <2>3. j = Start
      BY <2>1 DEF JoinRevision, Idle, Watching
    <2>4. QED
      BY <2>2, <2>3
  <1> HIDE DEF k, j
  <1>6. UNCHANGED <<store, gameData, proposing>> /\ UNCHANGED <<requests, ws, http, made>>
    BY <1>2 DEF quiet
  <1>7. ChannelKept /\ MadeKept
    BY <1>6, SameItself DEF ChannelKept, MadeKept
  <1>8. \A c \in Client : client'[c].form # "save"
    BY <1>2, <1>4, FormsKept
  <1>9. Growing'
    BY <1>6, <1>7, <1>8, GrowingKept DEF WatchInv, Growing
  <1>10. ASSUME NEW c \in Client, Watches(c) PROVE Watching(c)'
    <2>1. Watching(c) /\ Growing
      BY <1>10 DEF WatchInv
    <2>2. CASE c = d
      <3>1. client'[d] = k /\ up'[d] = <<j>> /\ d \in members'
        BY <1>1, <1>2
      <3>2. \A i \in 1..Len(up'[d]) : up'[d][i] = Start
        BY <1>5, <1>10, <2>2, <3>1
      <3>3. Feeds(client'[d].log, ws'[d], store', requests')
        BY <1>5, <1>6, <1>10, <2>1, <2>2, <3>1 DEF Watching
      <3>4. http'[d]["document"] = Unsent /\ Idle(client'[d])
        BY <1>5, <1>6, <1>10, <2>1, <2>2, <3>1 DEF Watching
      <3>5. QED
        BY <2>2, <3>1, <3>2, <3>3, <3>4 DEF Watching
    <2>3. CASE c # d
      <3>1. /\ client'[c] = client[c] /\ up'[c] = up[c] /\ (c \in members <=> c \in members')
            /\ ws'[c] = ws[c] /\ http'[c]["document"] = http[c]["document"]
        BY <1>1, <1>2, <1>6, <2>3
      <3>2. QED
        BY <1>6, <1>7, <2>1, <3>1, WatchingKept
    <2>4. QED
      BY <2>2, <2>3
  <1>11. QED
    BY <1>9, <1>10 DEF WatchInv, Watches

\* A call comes in at the server: one request more, or none.
LEMMA SubmitWatch ==
    ASSUME SyncInv, WatchInv, NEW r \in Request, r.type # "broadcast", FineRequest(store, r),
           requests' = requests \/ Submit(r),
           UNCHANGED <<quiet, members, ws, client, made, faults>>,
           \A c \in Client : Watches(c) => http'[c]["document"] = http[c]["document"],
           \A c \in Client : \/ up'[c] = up[c]
                             \/ up'[c] = Tail(up[c]) /\ up[c] # <<>>
    PROVE  WatchInv'
  <1>1. ChannelKept
    BY SameItself DEF ChannelKept, Submit
  <1>2. /\ UNCHANGED <<store, gameData, proposing>> /\ UNCHANGED <<members, ws, client>>
        /\ MadeKept
    BY DEF quiet, MadeKept
  <1>3. (\A c \in Client : client'[c].form # "save") /\ proposing'.type # "save"
    BY <1>2 DEF WatchInv, Growing
  <1>4. QED
    BY <1>1, <1>2, <1>3, WatchKept

LEMMA PostArrivesWatch ==
    ASSUME SyncInv, WatchInv, NEW d \in Client, PostArrives(d) PROVE WatchInv'
  <1> DEFINE batch == client[d].flight
             r == [type |-> "action", client |-> d, base |-> batch[1].base,
                   acts |-> [i \in 1..Len(batch) |-> batch[i].act], live |-> TRUE]
  <1>1. batch \in Seq(Queued) /\ batch # <<>>
    BY TypesAre DEF Session, PostArrives
  <1>2. r \in Request
    <2>1. \A i \in 1..Len(batch) : batch[i] \in Queued
      BY <1>1
    <2>2. batch[1].base \in Rev /\ \A i \in 1..Len(batch) : batch[i].act \in Action
      BY <1>1, <2>1 DEF Queued
    <2> DEFINE acts == [i \in 1..Len(batch) |-> batch[i].act]
    <2>3. acts \in Seq(Action)
      BY <1>1, <2>2
    <2> HIDE DEF acts, batch
    <2>4. QED
      BY <2>2, <2>3 DEF Request, acts, batch
  <1>3. r.type = "action"
    OBVIOUS
  <1>4. FineRequest(store, r)
    BY <1>3 DEF FineRequest
  <1>5. requests' = requests \/ Submit(r)
    BY DEF PostArrives
  <1> HIDE DEF r
  <1>6. UNCHANGED <<quiet, members, ws, client, made, faults>> /\ up' = up
    BY DEF PostArrives
  <1>7. \A c \in Client : http'[c]["document"] = http[c]["document"]
    <2>1. \E m \in {Taken, Busy} : SetsHttp(d, "action", m)
      BY DEF PostArrives, SetsHttp
    <2>2. PICK m \in {Taken, Busy} : SetsHttp(d, "action", m)
      BY <2>1
    <2>3. m \in AnswerFor("action") /\ "action" \in Kind /\ "document" \in Kind
      BY DEF AnswerFor, ActionAnswer, Kind
    <2>4. \A c \in Client, j \in Kind : c # d \/ j # "action" => http'[c][j] = http[c][j]
      BY <2>2, <2>3, TypesAre, HttpSet
    <2>5. QED
      BY <2>3, <2>4
  <1>8. QED
    BY <1>2, <1>3, <1>4, <1>5, <1>6, <1>7, SubmitWatch

LEMMA FormArrivesWatch ==
    ASSUME SyncInv, WatchInv, NEW d \in Client, FormArrives(d) PROVE WatchInv'
  <1> DEFINE r == [type |-> "load", client |-> d, live |-> TRUE]
  <1>1. client[d].form = "load"
    <2>1. client[d].form \in {"none", "load", "save"} /\ client[d].form # "none"
      BY TypesAre DEF Session, FormArrives
    <2>2. QED
      BY <2>1 DEF WatchInv, Growing
  <1>2. ~Watches(d)
    BY <1>1, WatcherIdles DEF Idle
  <1>3. r \in Request /\ r.type = "load" /\ r.client = d
    BY DEF Request
  <1>4. FineRequest(store, r)
    BY <1>2, <1>3 DEF FineRequest
  <1>5. requests' = requests \/ Submit(r)
    BY <1>1 DEF FormArrives
  <1> HIDE DEF r
  <1>6. UNCHANGED <<quiet, members, ws, client, made, faults>> /\ up' = up
    BY DEF FormArrives
  <1>7. ASSUME NEW c \in Client, Watches(c) PROVE http'[c]["document"] = http[c]["document"]
    <2>1. \E m : http' = [http EXCEPT ![d]["document"] = m]
      BY DEF FormArrives
    <2>2. http \in [Client -> [Kind -> HttpState]] /\ c # d
      BY <1>2, <1>7, TypesAre DEF HttpOK
    <2>3. QED
      BY <2>1, <2>2
  <1>8. QED
    BY <1>3, <1>4, <1>5, <1>6, <1>7, SubmitWatch

LEMMA ReadPumpWatch ==
    ASSUME SyncInv, WatchInv, NEW d \in Client, ReadPump(d) PROVE WatchInv'
  <1> DEFINE r == [type |-> "join", client |-> d, base |-> Head(up[d]), live |-> TRUE]
  <1>1. up \in [Client -> Seq(Rev)] /\ up[d] \in Seq(Rev) /\ up[d] # <<>>
    BY TypesAre DEF ReadPump, ReadJoin
  <1>2. Head(up[d]) \in Rev /\ Head(up[d]) = up[d][1] /\ 1 \in 1..Len(up[d])
    BY <1>1
  <1>3. r \in Request /\ r.type = "join" /\ r.client = d /\ r.base = up[d][1]
    BY <1>2 DEF Request
  <1>4. Watches(d) => up[d][1] = Start
    BY <1>2, WatcherIdles DEF Watching
  <1>5. Submit(r) /\ up' = [up EXCEPT ![d] = Tail(@)]
        /\ UNCHANGED <<quiet, members, ws, client, made, faults>> /\ http' = http
    BY DEF ReadPump, ReadJoin, quiet
  <1> HIDE DEF r
  <1>6. FineRequest(store, r)
    BY <1>3, <1>4 DEF FineRequest
  <1>7. \A c \in Client : up'[c] = IF c = d THEN Tail(up[c]) ELSE up[c]
    BY <1>1, <1>5
  <1>8. \A c \in Client : \/ up'[c] = up[c]
                          \/ up'[c] = Tail(up[c]) /\ up[c] # <<>>
    BY <1>1, <1>7
  <1>9. QED
    BY <1>3, <1>5, <1>6, <1>8, SubmitWatch

LEMMA PostAnsweredWatch ==
    ASSUME SyncInv, WatchInv, NEW d \in Client, PostAnswered(d) PROVE WatchInv'
  <1> DEFINE m == http[d]["action"]
             k == HttpAnswer(client[d], m)
  <1>1. ~Watches(d)
    BY WatcherIdles DEF PostAnswered
  <1>2. client[d] \in Session /\ HttpOK
    BY TypesAre
  <1>3. m \in ActionAnswer \ {Unsent, Taken}
    BY <1>2 DEF HttpOK, PostAnswered
  <1>4. client[d].draining
    <2>1. CallOK(d, client[d], m, requests, proposing, committed)
      BY DEF SyncInv, CallInv
    <2>2. QED
      BY <1>3, <2>1 DEF CallOK
  <1>5. k \in Session /\ k.form = client[d].form
    BY <1>2, <1>3, <1>4, HttpAnswerTyping, AnswerForm DEF Answered
  <1>6. k.form # "save"
    BY <1>5 DEF WatchInv, Growing
  <1>7. Session1(d, k, ws[d]) /\ UNCHANGED quiet /\ MadeKept
    BY DEF PostAnswered, Steps, MadeKept
  <1> HIDE DEF k, m
  <1>8. \A c \in Client : c # d => http'[c] = http[c]
    BY <1>2 DEF PostAnswered, HttpOK
  <1>9. QED
    BY <1>1, <1>5, <1>6, <1>7, <1>8, WriterMoves

LEMMA FormAnsweredWatch ==
    ASSUME SyncInv, WatchInv, NEW d \in Client, FormAnswered(d) PROVE WatchInv'
  <1> DEFINE m == http[d]["document"]
  <1>1. ~Watches(d)
    BY WatcherIdles DEF FormAnswered
  <1>2. client[d] \in Session /\ HttpOK /\ m \in DocumentAnswer
    BY TypesAre DEF HttpOK
  <1>3. PICK k : /\ k \in Session /\ k.form = "none" /\ Steps(d, k)
    <2>1. m.type = "GAME" => m.log \in Seq(Action)
      BY <1>2 DEF DocumentAnswer, Unsent, Taken, Busy, Saved
    <2>2. m.type = "GAME" => /\ Overwrite(client[d], m.log) \in Session
                             /\ Overwrite(client[d], m.log).form = "none"
      BY <1>2, <2>1, OverwriteTyping, OtherForms
    <2>3. /\ ForceSaved(client[d]) \in Session /\ ForceSaved(client[d]).form = "none"
          /\ FormFails(client[d]) \in Session /\ FormFails(client[d]).form = "none"
      BY <1>2, FlagMoves, OtherForms DEF Moves
    <2>4. \/ m.type = "GAME"  /\ Steps(d, Overwrite(client[d], m.log))
          \/ m.type = "SAVED" /\ Steps(d, ForceSaved(client[d]))
          \/ m.type = "429"   /\ Steps(d, FormFails(client[d]))
      BY DEF FormAnswered
    <2> HIDE DEF m
    <2>5. QED
      BY <2>2, <2>3, <2>4
  <1>4. Session1(d, k, ws[d]) /\ UNCHANGED quiet /\ MadeKept /\ k.form # "save"
    BY <1>3 DEF FormAnswered, Steps, MadeKept
  <1>5. \A c \in Client : c # d => http'[c] = http[c]
    BY <1>2 DEF FormAnswered, HttpOK
  <1>6. QED
    BY <1>1, <1>3, <1>4, <1>5, WriterMoves

\* A call is given up.
LEMMA AbandonWatch ==
    ASSUME SyncInv, WatchInv, NEW d \in Client, ~Watches(d), NEW k, k.form # "save",
           client' = [client EXCEPT ![d] = k], NEW kind, http' = [http EXCEPT ![d][kind] = Unsent],
           NEW types, "broadcast" \notin types, "none" \notin types,
           requests' = Orphaned(types, d),
           NEW others, "broadcast" \notin others, "none" \notin others,
           proposing' = OrphanedProposal(others, d),
           UNCHANGED <<store, gameData, committed, members, ws, up, made>>
    PROVE  WatchInv'
  <1>1. /\ client \in [Client -> Session] /\ requests \in Seq(Request) /\ HttpOK
        /\ proposing \in Request \cup {Nothing}
    BY TypesAre DEF SyncInv, TypeInv, TypeOK, HubTypeOK
  <1>2. ChannelKept
    BY <1>1, OrphanedSame DEF ChannelKept
  <1>3. proposing'.type # "save"
    <2>1. IF proposing = Nothing THEN proposing' = Nothing
          ELSE Left(proposing, proposing', others, d)
      BY <1>1, OrphanedProposalIs
    <2>2. QED
      BY <2>1 DEF Left, WatchInv, Growing
  <1>4. /\ UNCHANGED <<store, gameData>> /\ UNCHANGED <<members, ws, up>> /\ MadeKept
    BY DEF MadeKept
  <1>5. \A c \in Client : client'[c].form # "save"
    BY FormsKept
  <1>6. \A c \in Client : c # d => client'[c] = client[c] /\ http'[c] = http[c]
    BY <1>1 DEF HttpOK
  <1>7. ASSUME NEW c \in Client, Watches(c)
        PROVE  /\ UNCHANGED <<client[c], ws[c], http[c]["document"]>>
               /\ up'[c] = up[c] /\ (c \in members <=> c \in members')
    BY <1>4, <1>6, <1>7
  <1>8. QED
    BY <1>2, <1>3, <1>4, <1>5, <1>7, WatchKept

LEMMA FailsWatch ==
    ASSUME SyncInv, WatchInv, NEW d \in Client, PostFails(d) \/ FormLost(d) PROVE WatchInv'
  <1>1. client[d] \in Session /\ client[d].form # "save"
    BY TypesAre DEF WatchInv, Growing
  <1>2. ~Watches(d)
    BY WatcherIdles DEF Idle, PostFails, FormLost
  <1>3. CASE PostFails(d)
    <2>1. HttpError(client[d]).form # "save"
      BY <1>1, OtherForms
    <2>2. client' = [client EXCEPT ![d] = HttpError(client[d])]
      BY <1>3 DEF PostFails
    <2>3. QED
      BY <1>2, <1>3, <2>1, <2>2, AbandonWatch DEF PostFails
  <1>4. CASE FormLost(d)
    <2>1. FormFails(client[d]).form # "save"
      BY <1>1, OtherForms
    <2>2. client' = [client EXCEPT ![d] = FormFails(client[d])]
      BY <1>4 DEF FormLost
    <2>3. QED
      BY <1>2, <1>4, <2>1, <2>2, AbandonWatch DEF FormLost
  <1>5. QED
    BY <1>3, <1>4

-----------------------------------------------------------------------------
(* A step of the hub, and of the FSM.                                      *)

LEMMA StoreBehind ==
    ASSUME SyncInv, Growing
    PROVE  /\ Len(store) \in Nat \ {0} /\ store[1] = Start
           /\ Behind(store, store) /\ Behind(Loaded, store)
  <1>1. store \in Seq(Action) /\ Behind(<<Start>>, store)
    BY TypesAre DEF Growing
  <1>2. Len(<<Start>>) = 1 /\ <<Start>>[1] = Start /\ 1 \in 1..1
    OBVIOUS
  <1>3. Len(store) \in Nat \ {0} /\ store[1] = Start
    BY <1>1, <1>2 DEF Behind
  <1>4. Behind(store, store)
    BY <1>3 DEF Behind
  <1>5. QED
    BY <1>3, <1>4 DEF Growing, Loaded

LEMMA FineTail ==
    ASSUME NEW q \in Seq(Request), q # <<>>, NEW st, \A i \in 1..Len(q) : FineRequest(st, q[i])
    PROVE  /\ \A i \in 1..Len(Tail(q)) : FineRequest(st, Tail(q)[i])
           /\ (\A i \in 1..Len(q) : q[i].type # "broadcast") =>
                 \A i \in 1..Len(Tail(q)) : Tail(q)[i].type # "broadcast"
  <1>1. /\ Len(Tail(q)) = Len(q) - 1 /\ Len(q) \in Nat \ {0}
        /\ \A i \in 1..Len(q) - 1 : Tail(q)[i] = q[i + 1]
    OBVIOUS
  <1>2. \A i \in 1..Len(Tail(q)) : i + 1 \in 1..Len(q) /\ Tail(q)[i] = q[i + 1]
    BY <1>1
  <1>3. QED
    BY <1>2

\* The hub takes a request.
LEMMA GrowingTaken ==
    ASSUME SyncInv, Growing, NEW type, Next1(type), UNCHANGED <<store, client, made>>,
           Behind(gameData', store), proposing'.type # "save"
    PROVE  Growing'
  <1>1. requests \in Seq(Request) /\ requests # <<>> /\ requests' = Tail(requests)
    BY FirstIs
  <1>2. /\ \A i \in 1..Len(requests') : FineRequest(store, requests'[i])
        /\ (\A i \in 1..Len(requests) : requests[i].type # "broadcast") =>
              \A i \in 1..Len(requests') : requests'[i].type # "broadcast"
    BY <1>1, FineTail DEF Growing
  <1>3. UNCHANGED store /\ UNCHANGED client /\ UNCHANGED made
    OBVIOUS
  <1>4. Untouched' => Untouched
    BY <1>3 DEF Untouched
  <1>5. QED
    BY <1>2, <1>3, <1>4 DEF Growing

\* A request that is no broadcast, and the answer to a JOIN perhaps.
LEMMA TakenWatch ==
    ASSUME SyncInv, WatchInv, NEW type, type # "broadcast", Next1(type),
           UNCHANGED <<store, client, made, faults, members, up>>,
           Behind(gameData', store), proposing'.type # "save",
           \A c \in Client : Watches(c) =>
              /\ http'[c]["document"] = http[c]["document"]
              /\ \/ ws'[c] = ws[c]
                 \/ /\ c \in members
                    /\ \E m \in WsMsg : /\ NextMessage(store, AllGiven(client[c].log, ws[c]), m)
                                        /\ ws'[c] = Append(ws[c], m)
    PROVE  WatchInv'
  <1>1. /\ requests \in Seq(Request) /\ requests # <<>> /\ requests' = Tail(requests)
        /\ Head(requests).type # "broadcast"
    BY FirstIs
  <1>2. /\ UNCHANGED store /\ UNCHANGED client /\ UNCHANGED made /\ UNCHANGED members
        /\ UNCHANGED up
    OBVIOUS
  <1>3. Growing'
    BY <1>2, GrowingTaken DEF WatchInv
  <1>4. ASSUME NEW c \in Client, Watches(c) PROVE Watching(c)'
    <2>1. Watching(c)
      BY <1>4 DEF WatchInv
    <2>2. ws[c] \in Seq(WsMsg)
      BY TypesAre
    <2>3. Feeds(client[c].log, ws[c], store, requests')
      BY <1>1, <2>1, <2>2, FeedsTaken DEF Watching
    <2>4. Feeds(client[c].log, ws'[c], store, requests')
      <3>1. CASE ws'[c] = ws[c]
        BY <2>3, <3>1
      <3>2. CASE ws'[c] # ws[c]
        <4>1. PICK m \in WsMsg : /\ NextMessage(store, AllGiven(client[c].log, ws[c]), m)
                                 /\ ws'[c] = Append(ws[c], m)
          BY <1>4, <3>2
        <4>2. QED
          BY <2>2, <2>3, <4>1, FeedsMessage
      <3>3. QED
        BY <3>1, <3>2
    <2>5. c \notin members' => ws'[c] = <<>> /\ client'[c].last = Start /\ Untouched'
      BY <1>2, <1>4, <2>1 DEF Watching, Untouched
    <2>6. Idle(client'[c]) /\ http'[c]["document"] = Unsent
      BY <1>2, <1>4, <2>1 DEF Watching
    <2>7. \A i \in 1..Len(up'[c]) : up'[c][i] = Start
      BY <1>2, <2>1 DEF Watching
    <2>8. QED
      BY <1>2, <2>4, <2>5, <2>6, <2>7 DEF Watching
  <1>5. QED
    BY <1>3, <1>4 DEF WatchInv, Watches

\* What a JOIN from the first revision is answered.
LEMMA JoinIsNext ==
    ASSUME NEW st \in Seq(Action), Distinct(st), Len(st) >= 1, st[1] = Start,
           NEW log \in Seq(Action), Behind(log, st), NEW S
    PROVE  NextMessage(st, S, JoinAnswer(log, Start))
  <1>1. /\ Len(log) \in 1..Len(st) /\ \A i \in 1..Len(log) : log[i] = st[i]
        /\ Len(log) \in Nat /\ Len(st) \in Nat
    BY DEF Behind
  <1>2. 1 \in 1..Len(log) /\ log[1] = Start /\ Start \in Action
    BY <1>1, SyncProtocolAssumption
  <1>3. Contains(log, Start)
    BY <1>2 DEF Contains
  <1> DEFINE p == IndexOf(log, Start)
  <1>4. p = 1
    <2>1. p \in 1..Len(log) /\ log[p] = Start
      <3>1. p # 0 /\ p \in 0..Len(log) /\ (p # 0 => log[p] = Start)
        BY <1>3, IndexOfIs
      <3>2. QED
        BY <1>1, <3>1
    <2> HIDE DEF p
    <2>2. p \in 1..Len(st) /\ 1 \in 1..Len(st) /\ st[p] = st[1]
      BY <1>1, <2>1
    <2>3. QED
      BY <2>2 DEF Distinct
  <1>5. After(log, Start) = SubSeq(st, 2, Len(log))
    <2>1. After(log, Start) = SubSeq(log, 2, Len(log))
      BY <1>4 DEF After
    <2>2. SubSeq(log, 2, Len(log)) = SubSeq(st, 2, Len(log))
      BY <1>1
    <2>3. QED
      BY <2>1, <2>2
  <1>6. \/ JoinAnswer(log, Start) = Ack
        \/ JoinAnswer(log, Start) = SyncUpdate(SubSeq(st, 2, Len(log)))
    BY <1>3, <1>5 DEF JoinAnswer
  <1>7. QED
    BY <1>1, <1>6 DEF NextMessage, SyncUpdate

LEMMA HubJoinWatch ==
    ASSUME FewActions, SyncInv, FreshInv, WatchInv, HubJoin, UNCHANGED <<client, made, faults>>
    PROVE  WatchInv'
  <1> DEFINE r == Head(requests)
  <1>1. /\ Next1("join")
        /\ gameData' = Loaded
        /\ ws' = IF r.live /\ r.client \in members
                 THEN [ws EXCEPT ![r.client] = Append(@, JoinAnswer(Loaded, r.base))]
                 ELSE ws
        /\ UNCHANGED <<store, proposing, members, committed, up, http>>
    BY DEF HubJoin
  <1>2. /\ r = requests[1] /\ 1 \in 1..Len(requests) /\ r.type = "join"
    BY <1>1, FirstIs
  <1>3. Watches(r.client) => r.base = Start
    BY <1>2 DEF WatchInv, Growing, FineRequest
  <1>4. Behind(Loaded, store) /\ Len(store) >= 1 /\ store[1] = Start
    BY StoreBehind DEF WatchInv
  <1>5. /\ Loaded \in Seq(Action) /\ store \in Seq(Action) /\ Distinct(store)
        /\ ws \in [Client -> Seq(WsMsg)]
    BY LoadedIs, StoreDistinct, TypesAre
  <1> HIDE DEF r
  <1>6. ASSUME NEW c \in Client, Watches(c)
        PROVE  /\ http'[c]["document"] = http[c]["document"]
               /\ \/ ws'[c] = ws[c]
                  \/ /\ c \in members
                     /\ \E m \in WsMsg : /\ NextMessage(store, AllGiven(client[c].log, ws[c]), m)
                                         /\ ws'[c] = Append(ws[c], m)
    <2>1. CASE r.live /\ r.client \in members /\ r.client = c
      <3> DEFINE m == JoinAnswer(Loaded, r.base)
      <3>1. ws'[c] = Append(ws[c], m) /\ c \in members
        BY <1>1, <1>5, <2>1
      <3>2. m = JoinAnswer(Loaded, Start) /\ m \in WsMsg
        BY <1>3, <1>5, <1>6, <2>1, JoinAnswerTyping
      <3> HIDE DEF m
      <3>3. NextMessage(store, AllGiven(client[c].log, ws[c]), m)
        BY <1>4, <1>5, <3>2, JoinIsNext
      <3>4. QED
        BY <1>1, <3>1, <3>2, <3>3
    <2>2. CASE ~(r.live /\ r.client \in members /\ r.client = c)
      BY <1>1, <1>5, <2>2
    <2>3. QED
      BY <2>1, <2>2
  <1>7. proposing'.type # "save"
    BY <1>1 DEF WatchInv, Growing
  <1>8. UNCHANGED <<store, client, made, faults, members, up>>
    BY <1>1
  <1>9. QED
    BY <1>1, <1>4, <1>6, <1>7, <1>8, TakenWatch

LEMMA HubActionWatch ==
    ASSUME SyncInv, WatchInv, HubAction, UNCHANGED <<client, made, faults>> PROVE WatchInv'
  <1> DEFINE r == Head(requests)
             log == IF AtHead(r, Loaded) THEN Loaded ELSE store
             verdict == Verdict(r, log)
  <1>1. /\ Next1("action") /\ gameData' = log
        /\ proposing' = IF verdict = "propose" THEN r ELSE Nothing
        /\ \/ http' = http
           \/ Answer(r, "action", Ack)
           \/ Answer(r, "action", Conflict(Revision(log)))
        /\ UNCHANGED <<store, members, committed, ws, up>>
    BY DEF HubAction
  <1>2. r \in Request /\ r.type = "action"
    BY <1>1, FirstIs
  <1>3. r.client \in Client /\ r.live \in BOOLEAN
    BY <1>2, RequestTyping
  <1>4. log \in Seq(Action) /\ Behind(log, store)
    BY LoadedIs, StoreBehind DEF WatchInv
  <1>5. /\ Ack \in AnswerFor("action") /\ Conflict(Revision(log)) \in AnswerFor("action")
        /\ "action" \in Kind /\ "document" \in Kind /\ "action" # "document"
    <2>1. Revision(log) \in Rev
      BY <1>4, RevisionTyping
    <2> HIDE DEF log
    <2>2. QED
      BY <2>1 DEF AnswerFor, ActionAnswer, Conflict, Kind
  <1>6. HttpOK
    BY TypesAre
  <1>7. proposing'.type # "save"
    BY <1>1, <1>2 DEF Nothing
  <1> HIDE DEF r, log, verdict
  <1>8. \A c \in Client : http'[c]["document"] = http[c]["document"]
    BY <1>1, <1>3, <1>5, <1>6, AnswerSets
  <1>9. UNCHANGED <<store, client, made, faults, members, up>> /\ ws' = ws
    BY <1>1
  <1>10. QED
    BY <1>1, <1>4, <1>7, <1>8, <1>9, TakenWatch

LEMMA HubLoadWatch ==
    ASSUME SyncInv, WatchInv, HubLoad, UNCHANGED <<client, made, faults>> PROVE WatchInv'
  <1> DEFINE r == Head(requests)
  <1>1. /\ Next1("load") /\ gameData' = Loaded /\ Answer(r, "document", Document(Loaded))
        /\ UNCHANGED <<store, proposing, members, committed, ws, up>>
    BY DEF HubLoad
  <1>2. /\ r \in Request /\ r.type = "load" /\ r = requests[1] /\ 1 \in 1..Len(requests)
    BY <1>1, FirstIs
  <1>3. r.client \in Client /\ r.live \in BOOLEAN /\ ~Watches(r.client)
    BY <1>2, RequestTyping DEF WatchInv, Growing, FineRequest
  <1>4. Document(Loaded) \in AnswerFor("document") /\ "document" \in Kind
    BY LoadedIs DEF AnswerFor, DocumentAnswer, Document, Kind
  <1>5. HttpOK /\ Behind(Loaded, store)
    BY TypesAre, StoreBehind DEF WatchInv
  <1> HIDE DEF r
  <1>6. \A c \in Client : Watches(c) => http'[c]["document"] = http[c]["document"]
    BY <1>1, <1>3, <1>4, <1>5, AnswerSets
  <1>7. proposing'.type # "save"
    BY <1>1 DEF WatchInv, Growing
  <1>8. UNCHANGED <<store, client, made, faults, members, up>> /\ ws' = ws
    BY <1>1
  <1>9. QED
    BY <1>1, <1>5, <1>6, <1>7, <1>8, TakenWatch

LEMMA HubSaveNever ==
    ASSUME SyncInv, WatchInv PROVE ~HubSave /\ ~FSMAppliesSave
  <1>1. ASSUME HubSave PROVE FALSE
    <2>1. Next1("save")
      BY <1>1 DEF HubSave
    <2>2. requests[1].type = "save" /\ 1 \in 1..Len(requests)
      BY <2>1, FirstIs
    <2>3. QED
      BY <2>2 DEF WatchInv, Growing, FineRequest
  <1>2. QED
    BY <1>1 DEF FSMAppliesSave, WatchInv, Growing

LEMMA HubBroadcastWatch ==
    ASSUME SyncInv, WatchInv, HubBroadcast, UNCHANGED <<client, made, faults>> PROVE WatchInv'
  <1> DEFINE b == Head(requests)
  <1>1. /\ Next1("broadcast") /\ gameData' = b.log
        /\ ws' = [c \in Client |-> IF c \in members THEN ws[c] \o BroadcastMsgs(b) ELSE ws[c]]
        /\ UNCHANGED <<store, proposing, members, committed, up, http>>
    BY DEF HubBroadcast
  <1>2. /\ requests \in Seq(Request) /\ requests # <<>> /\ requests' = Tail(requests)
        /\ b.type = "broadcast" /\ b = requests[1] /\ 1 \in 1..Len(requests)
    BY <1>1, FirstIs
  <1>3. Behind(b.log, store) /\ ~Untouched
    BY <1>2 DEF WatchInv, Growing, FineRequest
  <1>4. Len(store) \in Nat /\ ws \in [Client -> Seq(WsMsg)]
    BY TypesAre
  <1>5. b = Head(requests)
    OBVIOUS
  <1> HIDE DEF b
  <1>6. UNCHANGED <<store, client, made>> /\ UNCHANGED members /\ UNCHANGED <<up, http>>
    BY <1>1
  <1>7. Growing'
    BY <1>1, <1>3, <1>6, GrowingTaken DEF WatchInv, Growing
  <1>8. ASSUME NEW c \in Client, Watches(c) PROVE Watching(c)'
    <2>1. Watching(c)
      BY <1>8 DEF WatchInv
    <2>2. c \in members
      BY <1>3, <2>1 DEF Watching
    <2>3. ws'[c] = ws[c] \o BroadcastMsgs(b) /\ ws[c] \in Seq(WsMsg)
      BY <1>1, <1>4, <2>2
    <2>4. Feeds(client[c].log, ws[c], store, requests)
      BY <2>1 DEF Watching
    <2>5. Feeds(client[c].log, ws[c] \o BroadcastMsgs(b), store, Tail(requests))
      BY <1>2, <1>3, <1>4, <1>5, <2>3, <2>4, FeedsPassedOn
    <2>6. QED
      BY <1>2, <1>6, <2>1, <2>2, <2>3, <2>5 DEF Watching
  <1>9. QED
    BY <1>7, <1>8 DEF WatchInv, Watches

\* At the start there is nothing to be brought.
LEMMA FeedsStart ==
    ASSUME NEW log \in Seq(Action), Behind(log, <<Start>>)
    PROVE  Feeds(log, <<>>, <<Start>>, <<>>)
  <1>1. Len(log) = 1 /\ log[1] = Start /\ Len(<<Start>>) = 1 /\ <<Start>>[1] = Start
    BY DEF Behind
  <1>2. ToSet(<<Start>>) = {Start} /\ Start \in ToSet(log)
    BY <1>1 DEF ToSet
  <1>3. Messages(<<Start>>, ToSet(log), <<>>) /\ Broadcasted(AllGiven(log, <<>>), <<>>)
    BY DEF Messages, Broadcasted
  <1>4. QED
    BY <1>2, <1>3 DEF Feeds, AllGiven

\* When nobody has acted there is nothing to append.
LEMMA UntouchedStays ==
    ASSUME FewActions, SyncInv, FreshInv, Growing, Untouched, proposing.type = "action",
           NEW acts \in Seq(Action), acts = proposing.acts
    PROVE  Extended(store, acts) = store
  <1> DEFINE log == Extended(store, acts)
  <1>1. store = <<Start>> /\ store \in Seq(Action) /\ made \in [Client -> Nat]
    BY TypesAre DEF Growing
  <1>2. AllMade \subseteq {Start}
    BY DEF AllMade, Untouched
  <1>3. ToSet(acts) \subseteq {Start}
    BY <1>2, HubKnows DEF FreshRequest
  <1>4. /\ log \in Seq(Action) /\ ToSet(log) = ToSet(store) \cup ToSet(acts)
        /\ Spaced(store) => Spaced(log)
    BY <1>1, ExtendedIs
  <1>5. Len(log) >= 1 /\ log[1] = Start
    <2>1. Len(store) = 1 /\ store[1] = Start
      BY <1>1
    <2>2. Len(log) \in Len(store)..Len(store) + Len(acts) /\ \A i \in 1..Len(store) : log[i] = store[i]
      BY <1>1, ExtendedGrows
    <2> HIDE DEF log
    <2>3. QED
      BY <2>1, <2>2
  <1>6. Spaced(store)
    BY DEF FreshInv, FreshHub, Kept
  <1> HIDE DEF log
  <1>7. Distinct(log)
    BY <1>4, <1>6, SpacedDistinct DEF FewActions
  <1>8. ToSet(store) = {Start}
    BY <1>1 DEF ToSet
  <1>9. \A i \in 1..Len(log) : log[i] = Start
    <2>1. \A i \in 1..Len(log) : log[i] \in ToSet(log)
      BY <1>4 DEF ToSet
    <2>2. ToSet(log) \subseteq {Start}
      BY <1>3, <1>4, <1>8
    <2>3. QED
      BY <2>1, <2>2
  <1>10. Len(log) = 1
    <2>1. ASSUME Len(log) >= 2 PROVE FALSE
      <3>1. 1 \in 1..Len(log) /\ 2 \in 1..Len(log)
        BY <1>4, <2>1
      <3>2. QED
        BY <1>7, <1>9, <3>1 DEF Distinct
    <2>2. Len(log) \in Nat
      BY <1>4
    <2>3. Len(log) >= 1
      BY <1>5
    <2>4. ~(Len(log) >= 2)
      BY <2>1
    <2> DEFINE n == Len(log)
    <2> HIDE DEF n
    <2>5. n \in Nat /\ n >= 1 /\ ~(n >= 2)
      BY <2>2, <2>3, <2>4 DEF n
    <2>6. n = 1
      BY <2>5
    <2>7. QED
      BY <2>6 DEF n
  <1>11. log = <<Start>>
    BY <1>4, <1>5, <1>10
  <1>12. QED
    BY <1>1, <1>11 DEF log

LEMMA FineOn ==
    ASSUME NEW st, NEW su, NEW r, FineRequest(st, r), Behind(st, su),
           Len(st) \in Nat, Len(su) \in Nat
    PROVE  FineRequest(su, r)
  BY BehindOn DEF FineRequest

\* The log grows, and the channel is told.
LEMMA AppliedWatch ==
    ASSUME SyncInv, WatchInv, NEW su \in Seq(Action), store' = su, Behind(store, su),
           NEW r \in Request, r.type = "broadcast", r.log = su, r.num \in Nat,
           Len(su) <= Len(store) + r.num, requests' = Append(requests, r),
           ~Untouched, proposing' = Nothing, UNCHANGED <<gameData, members, ws, up, client, made>>,
           \A c \in Client : http'[c]["document"] = http[c]["document"]
    PROVE  WatchInv'
  <1>1. /\ requests \in Seq(Request) /\ store \in Seq(Action) /\ client \in [Client -> Session]
        /\ gameData \in Seq(Action) \cup {NotLoaded}
    BY TypesAre
  <1>2. Len(store) \in Nat /\ Len(su) \in Nat
    BY <1>1
  <1>3. /\ UNCHANGED client /\ UNCHANGED made /\ UNCHANGED members /\ UNCHANGED ws
        /\ UNCHANGED up /\ UNCHANGED gameData
    OBVIOUS
  <1>4. Growing'
    <2>1. Behind(su, su)
      BY <1>2 DEF Behind
    <2>2. FineRequest(su, r)
      BY <2>1 DEF FineRequest
    <2>3. \A i \in 1..Len(requests) : FineRequest(su, requests[i])
      BY <1>2, FineOn DEF WatchInv, Growing
    <2>4. \A i \in 1..Len(requests') : FineRequest(su, requests'[i])
      BY <1>1, <2>2, <2>3, FineAppend
    <2>5. Behind(<<Start>>, su) /\ (gameData # NotLoaded => Behind(gameData, su))
      BY <1>2, BehindOn DEF WatchInv, Growing
    <2>6. ~Untouched'
      BY <1>3 DEF Untouched
    <2>7. proposing'.type # "save" /\ \A c \in Client : client'[c].form # "save"
      BY <1>3 DEF Nothing, WatchInv, Growing
    <2>8. QED
      BY <1>3, <2>4, <2>5, <2>6, <2>7 DEF Growing
  <1>5. ASSUME NEW c \in Client, Watches(c) PROVE Watching(c)'
    <2>1. Watching(c)
      BY <1>5 DEF WatchInv
    <2>2. client[c].log \in Seq(Action)
      BY <1>1 DEF Session
    <2>3. Feeds(client[c].log, ws[c], store, requests)
      BY <2>1 DEF Watching
    <2> DEFINE log == client[c].log
               inbox == ws[c]
               q == requests
               st == store
    <2>4. log \in Seq(Action) /\ q \in Seq(Request) /\ st \in Seq(Action)
          /\ Feeds(log, inbox, st, q) /\ Behind(st, su) /\ Len(su) <= Len(st) + r.num
      BY <1>1, <2>2, <2>3
    <2> HIDE DEF log, inbox, q, st
    <2>5. Feeds(log, inbox, su, Append(q, r))
      BY <2>4, FeedsBroadcast
    <2>6. Feeds(client[c].log, ws[c], store, requests)'
      BY <1>3, <2>5 DEF log, inbox, q
    <2>7. QED
      BY <1>3, <2>1, <2>6 DEF Watching, Untouched
  <1>6. QED
    BY <1>4, <1>5 DEF WatchInv, Watches

LEMMA FSMAppliesActionWatch ==
    ASSUME FewActions, SyncInv, FreshInv, RoomToBroadcast, WatchInv,
           FSMAppliesAction, UNCHANGED <<client, made, faults>>
    PROVE  WatchInv'
  <1> DEFINE r == proposing
             acts == r.acts
             log == Extended(store, acts)
             b == [type |-> "broadcast", log |-> log, num |-> Len(acts)]
  <1>1. r \in Request /\ r.type = "action" /\ HttpOK
    BY DEF SyncInv, TypeInv, TypeOK, HubTypeOK, FSMAppliesAction, Nothing
  <1>2. r.client \in Client /\ r.live \in BOOLEAN /\ acts \in Seq(Action)
    BY <1>1, RequestTyping
  <1>3. /\ store' = log /\ Answer(r, "action", Ack) /\ proposing' = Nothing
        /\ IF log # store THEN Broadcasts(log, Len(acts)) ELSE UNCHANGED requests
        /\ UNCHANGED <<gameData, members, ws, up>>
    BY DEF FSMAppliesAction
  <1>4. /\ "action" \in Kind /\ "document" \in Kind /\ "action" # "document"
        /\ Ack \in AnswerFor("action")
    BY DEF Kind, AnswerFor, ActionAnswer
  <1>5. \A d \in Client : http'[d]["document"] = http[d]["document"]
    <2> HIDE DEF log
    <2>1. QED
      BY <1>1, <1>2, <1>3, <1>4, AnswerSets
  <1>6. proposing # Nothing
    BY <1>1 DEF Nothing
  <1>7. store \in Seq(Action) /\ client \in [Client -> Session]
    BY TypesAre
  <1>8. CASE log = store
    <2>1. UNCHANGED store /\ requests' = requests
      BY <1>3, <1>8
    <2>2. ChannelKept
      BY <2>1, SameItself DEF ChannelKept
    <2>3. MadeKept
      BY DEF MadeKept
    <2>4. proposing'.type # "save"
      BY <1>3 DEF Nothing
    <2>5. \A c \in Client : client'[c].form # "save"
      BY DEF WatchInv, Growing
    <2>6. ASSUME NEW c \in Client
          PROVE  /\ UNCHANGED <<client[c], ws[c], http[c]["document"]>>
                 /\ up'[c] = up[c] /\ c \in members <=> c \in members'
      BY <1>3, <1>5
    <2>7. QED
      BY <1>3, <2>1, <2>2, <2>3, <2>4, <2>5, <2>6, WatchKept
  <1>9. CASE log # store
    <2>1. requests' = Append(requests, b)
      BY <1>3, <1>6, <1>9 DEF Broadcasts, RoomToBroadcast
    <2>2. ~Untouched
      BY <1>1, <1>2, <1>9, UntouchedStays DEF WatchInv
    <2>3. log \in Seq(Action)
      BY <1>2, <1>7, ExtendedIs
    <2>4. /\ Len(log) \in Len(store)..Len(store) + Len(acts)
          /\ \A i \in 1..Len(store) : log[i] = store[i]
      BY <1>2, <1>7, ExtendedGrows
    <2>5. Len(store) \in Nat \ {0} /\ Len(acts) \in Nat
      BY <1>2, StoreBehind DEF WatchInv
    <2> HIDE DEF acts, log, r
    <2>6. Behind(store, log) /\ Len(log) <= Len(store) + Len(acts) /\ Len(log) \in Nat
      BY <2>4, <2>5 DEF Behind
    <2>7. b \in Request /\ b.type = "broadcast" /\ b.log = log /\ b.num = Len(acts)
      BY <2>3, <2>5 DEF Request
    <2> HIDE DEF b
    <2>8. QED
      BY <1>3, <1>5, <2>1, <2>2, <2>3, <2>5, <2>6, <2>7, AppliedWatch
  <1>10. QED
    BY <1>8, <1>9

\* The hub forgets its game when nobody is there, and so nobody has acted.
LEMMA HubIdlesWatch ==
    ASSUME SyncInv, WatchInv, HubIdles, UNCHANGED <<client, made, faults>> PROVE WatchInv'
  <1>1. /\ proposing' = proposing /\ members = {} /\ gameData' = NotLoaded /\ requests' = <<>>
        /\ UNCHANGED store /\ UNCHANGED client /\ UNCHANGED made /\ UNCHANGED members
        /\ UNCHANGED <<ws, up, http>>
    BY DEF HubIdles, net
  <1>2. Growing'
    BY <1>1 DEF WatchInv, Growing, Untouched
  <1>3. ASSUME NEW c \in Client, Watches(c) PROVE Watching(c)'
    <2>1. Watching(c) /\ store \in Seq(Action) /\ client \in [Client -> Session]
      BY <1>3, TypesAre DEF WatchInv
    <2>2. ws[c] = <<>> /\ Untouched
      BY <1>1, <2>1 DEF Watching
    <2>3. store = <<Start>> /\ Feeds(client[c].log, <<>>, store, requests)
      BY <2>1, <2>2 DEF Watching, WatchInv, Growing
    <2> DEFINE log == client[c].log
    <2>4. Behind(log, store) /\ log \in Seq(Action)
      BY <2>1, <2>3 DEF Feeds, Session
    <2>5. Feeds(log, <<>>, store, <<>>)
      <3> HIDE DEF log
      <3>1. QED
        BY <2>3, <2>4, FeedsStart
    <2>6. QED
      BY <1>1, <2>1, <2>2, <2>5 DEF Watching, Untouched
  <1>4. QED
    BY <1>2, <1>3 DEF WatchInv, Watches

-----------------------------------------------------------------------------
(* Whoever watches is behind.                                              *)

LEMMA InitWatch == Init => WatchInv
  <1> SUFFICES ASSUME Init PROVE WatchInv
    OBVIOUS
  <1>1. /\ store = <<Start>> /\ gameData = NotLoaded /\ requests = <<>> /\ proposing = Nothing
        /\ \A c \in Client : made[c] = 0
    BY DEF Init, HubInit
  <1>2. <<Start>> \in Seq(Action) /\ Behind(<<Start>>, <<Start>>)
    BY SyncProtocolAssumption DEF Behind
  <1>3. ASSUME NEW c \in Client
        PROVE  /\ Idle(client[c]) /\ client[c].log = <<Start>> /\ client[c].last = Start
               /\ ws[c] = <<>> /\ up[c] = <<>> /\ http[c]["document"] = Unsent
    <2>1. /\ client[c] = Opened(<<Start>>) /\ ws[c] = <<>> /\ up[c] = <<>>
          /\ http[c]["document"] = Unsent
      BY DEF Init, ClientInit, NetInit, Kind
    <2>2. Revision(<<Start>>) = Start
      BY DEF Revision, Last
    <2>3. QED
      BY <2>1, <2>2 DEF Opened, Idle
  <1>4. Growing
    <2>1. \A c \in Client : client[c].form # "save"
      BY <1>3 DEF Idle
    <2>2. QED
      BY <1>1, <1>2, <2>1 DEF Growing, Nothing
  <1>5. Untouched
    BY <1>1 DEF Untouched
  <1>6. ASSUME NEW c \in Client PROVE Watching(c)
    <2>1. Feeds(client[c].log, ws[c], store, requests)
      BY <1>1, <1>2, <1>3, FeedsStart
    <2>2. \A i \in 1..Len(up[c]) : up[c][i] = Start
      BY <1>3
    <2>3. QED
      BY <1>3, <1>5, <2>1, <2>2 DEF Watching
  <1>7. QED
    BY <1>4, <1>6 DEF WatchInv

LEMMA NextWatch ==
    ASSUME Undisturbed, FewActions, SyncInv, FreshInv, RoomToBroadcast, WatchInv, [Next]_vars
    PROVE  WatchInv'
  <1>1. CASE HubStep
    <2>1. UNCHANGED <<client, made, faults>>
      BY <1>1 DEF HubStep
    <2>2. ~HubSave
      BY HubSaveNever
    <2>3. QED
      BY <1>1, <2>1, <2>2, HubJoinWatch, HubActionWatch, HubLoadWatch, HubBroadcastWatch
      DEF HubStep, HubRuns
  <1>2. CASE RaftStep
    BY <1>2, FSMAppliesActionWatch, HubSaveNever DEF RaftStep, FSMApplies
  <1>3. CASE IdleTicker
    BY <1>3, HubIdlesWatch DEF IdleTicker
  <1>4. ASSUME NEW c \in Client, ReadPump(c) PROVE WatchInv'
    BY <1>4, ReadPumpWatch
  <1>5. ASSUME NEW c \in Client, Drops(c) \/ Reloads(c) PROVE FALSE
    BY <1>5, NoFault
  <1>6. ASSUME NEW c \in Client, UserActs(c) PROVE WatchInv'
    BY <1>6, UserActsWatch
  <1>7. ASSUME NEW c \in Client,
               \/ ActionSaved(c) \/ ResolvingEnds(c)
               \/ ChoosesOverwrite(c) \/ ChoosesForceSave(c) \/ ChoosesFork(c)
        PROVE  WatchInv'
    BY <1>7, HandlersWatch
  <1>8. ASSUME NEW c \in Client, RetryFires(c) \/ Receive(c) \/ Connects(c) PROVE WatchInv'
    BY <1>8, RetryWatch, ReceiveWatch, ConnectsWatch
  <1>9. ASSUME NEW c \in Client, PostArrives(c) \/ PostAnswered(c) \/ PostFails(c)
        PROVE  WatchInv'
    BY <1>9, PostArrivesWatch, PostAnsweredWatch, FailsWatch
  <1>10. ASSUME NEW c \in Client, FormArrives(c) \/ FormAnswered(c) \/ FormLost(c)
         PROVE  WatchInv'
    BY <1>10, FormArrivesWatch, FormAnsweredWatch, FailsWatch
  <1>11. CASE UNCHANGED vars
    <2>1. /\ UNCHANGED <<ws, up, http>> /\ UNCHANGED client /\ UNCHANGED made
          /\ UNCHANGED <<store, gameData, requests, proposing, members>>
      BY <1>11 DEF vars, net, hubVars
    <2>2. QED
      BY <2>1 DEF WatchInv, Growing, Watching, Untouched
  <1>12. QED
    BY <1>1, <1>2, <1>3, <1>4, <1>5, <1>6, <1>7, <1>8, <1>9, <1>10, <1>11 DEF Next

\* As long as connections last, nobody forces his own log on the server,
\* nobody acts before all have joined, the actions fit in the duplicate scan
\* and no broadcast is dropped, the log of one who only watches is a prefix
\* of the server's: an answer to JOIN and the broadcasts that overtake it or
\* that it overtakes never leave a gap, an action out of order or one twice.
THEOREM WatchersFollow ==
    ASSUME UniqueOwn, FewActions, Undisturbed
    PROVE  Spec /\ []RoomToBroadcast => []WatcherIsBehind
  <1> DEFINE Inv == SyncInv /\ FreshInv /\ WatchInv
  <1>1. Init => Inv
    BY InitSafe, InitFresh, InitWatch
  <1>2. Inv /\ RoomToBroadcast /\ [Next]_vars => Inv'
    BY NextSafe, NextFresh, NextWatch
  <1>3. Inv => WatcherIsBehind
    <2> SUFFICES ASSUME Inv, NEW c \in Client, Watches(c) PROVE IsPrefix(client[c].log, store)
      BY DEF WatcherIsBehind, Watches
    <2> DEFINE log == client[c].log
               st == store
    <2>1. log \in Seq(Action) /\ st \in Seq(Action)
      BY TypesAre DEF Session
    <2>2. Behind(log, st)
      BY DEF WatchInv, Watching, Feeds
    <2> HIDE DEF log, st
    <2>3. Len(log) \in Nat /\ Len(log) <= Len(st) /\ Len(st) \in Nat
      BY <2>1, <2>2 DEF Behind
    <2>4. SubSeq(log, 1, Len(log)) = SubSeq(st, 1, Len(log))
      BY <2>1, <2>2, <2>3 DEF Behind
    <2>5. QED
      BY <2>3, <2>4 DEF IsPrefix, log, st
  <1>4. QED
    BY <1>1, <1>2, <1>3, PTL DEF Spec

=============================================================================
