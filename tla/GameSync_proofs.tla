-------------------------- MODULE GameSync_proofs --------------------------
(***************************************************************************)
(* Proofs about the browsers and the hub of one game, for every set of    *)
(* clients and actions, every size of channel and batch, every bound on    *)
(* faults and every way of resolving conflicts.                            *)
(***************************************************************************)
EXTENDS GameSync, ActionLog_proofs, FiniteSetTheorems

-----------------------------------------------------------------------------
(* What the handlers of a browser keep, for every session (SyncClient).    *)

\* What the answers to the two kinds of request may be.
ActionAnswer == {Unsent, Taken, Ack, Busy} \cup [type : {"CONFLICT"}, base : Rev]

DocumentAnswer == {Unsent, Taken, Busy, Saved} \cup [type : {"GAME"}, log : Seq(Action)]

-----------------------------------------------------------------------------
(* Sequences.                                                              *)

\* The position of the first a, and 0 if there is none.
LEMMA IndexOfIs ==
    ASSUME NEW S, NEW log \in Seq(S), NEW a
    PROVE  /\ IndexOf(log, a) \in 0..Len(log)
           /\ IndexOf(log, a) # 0 => log[IndexOf(log, a)] = a
           /\ Contains(log, a) => IndexOf(log, a) # 0
  <1> DEFINE I == {i \in 1..Len(log) : log[i] = a}
  <1>1. IndexOf(log, a) = IF I # {} THEN Min(I) ELSE 0
    BY DEF IndexOf, SelectInSeq
  <1>2. CASE I # {}
    <2>1. \E x \in I : \A y \in I : x <= y
      <3> DEFINE R == OpToRel(<, Nat)
      <3>1. IsWellFoundedOn(R, Nat)
        BY NatLessThanWellFounded
      <3>2. I \subseteq Nat
        OBVIOUS
      <3>3. PICK x \in I : \A y \in I : ~(<<y, x>> \in R)
        BY <1>2, <3>1, <3>2, WFMin
      <3>4. \A y \in I : ~(y < x)
        BY <3>2, <3>3 DEF OpToRel
      <3>5. QED
        BY <3>2, <3>4
    <2>2. Min(I) \in I
      BY <2>1 DEF Min
    <2>3. QED
      BY <1>1, <1>2, <2>2
  <1>3. CASE I = {}
    BY <1>1, <1>3 DEF Contains
  <1>4. QED
    BY <1>2, <1>3

LEMMA AfterTyping ==
    ASSUME NEW S, NEW log \in Seq(S), NEW a
    PROVE  After(log, a) \in Seq(S)
  BY IndexOfIs DEF After

\* What follows a, by position.
LEMMA AfterElements ==
    ASSUME NEW S, NEW log \in Seq(S), NEW a
    PROVE  /\ Len(After(log, a)) = Len(log) - IndexOf(log, a)
           /\ \A i \in 1..Len(After(log, a)) :
                 /\ i + IndexOf(log, a) \in 1..Len(log)
                 /\ After(log, a)[i] = log[i + IndexOf(log, a)]
  <1>1. IndexOf(log, a) \in 0..Len(log)
    BY IndexOfIs
  <1> DEFINE p == IndexOf(log, a)
  <1>2. /\ Len(SubSeq(log, p + 1, Len(log))) = Len(log) - p
        /\ \A i \in 1..Len(log) - p : SubSeq(log, p + 1, Len(log))[i] = log[i + p]
    <2> HIDE DEF p
    <2>1. p \in 0..Len(log) /\ Len(log) \in Nat
      BY <1>1 DEF p
    <2>2. QED
      BY <2>1
  <1>3. QED
    BY <1>1, <1>2 DEF After

LEMMA RevisionTyping ==
    ASSUME NEW log \in Seq(Action) PROVE Revision(log) \in Rev
  BY DEF Revision, Rev, Last

LEMMA ToSetFacts ==
    ASSUME NEW S, NEW s \in Seq(S), NEW t \in Seq(S), NEW x \in S
    PROVE  /\ ToSet(s) \subseteq S
           /\ ToSet(<<>>) = {}
           /\ ToSet(Append(s, x)) = ToSet(s) \cup {x}
           /\ ToSet(s \o t) = ToSet(s) \cup ToSet(t)
  <1>1. ToSet(s) \subseteq S /\ ToSet(<<>>) = {}
    BY DEF ToSet
  <1>2. ToSet(Append(s, x)) = ToSet(s) \cup {x}
    <2>1. ToSet(Append(s, x)) \subseteq ToSet(s) \cup {x}
      BY DEF ToSet
    <2>2. ToSet(s) \subseteq ToSet(Append(s, x))
      BY DEF ToSet
    <2>3. x \in ToSet(Append(s, x))
      <3>1. Append(s, x)[Len(s) + 1] = x /\ Len(s) + 1 \in DOMAIN Append(s, x)
        OBVIOUS
      <3>2. QED
        BY <3>1 DEF ToSet
    <2>4. QED
      BY <2>1, <2>2, <2>3
  <1>3. ToSet(s \o t) = ToSet(s) \cup ToSet(t)
    <2>1. ToSet(s \o t) \subseteq ToSet(s) \cup ToSet(t)
      <3> SUFFICES ASSUME NEW i \in 1..Len(s) + Len(t)
                   PROVE  (s \o t)[i] \in ToSet(s) \cup ToSet(t)
        BY DEF ToSet
      <3>1. CASE i <= Len(s)
        BY <3>1 DEF ToSet
      <3>2. CASE i > Len(s)
        <4>1. (s \o t)[i] = t[i - Len(s)] /\ i - Len(s) \in DOMAIN t
          BY <3>2
        <4>2. QED
          BY <4>1 DEF ToSet
      <3>3. QED
        BY <3>1, <3>2
    <2>2. ToSet(s) \subseteq ToSet(s \o t)
      BY DEF ToSet
    <2>3. ToSet(t) \subseteq ToSet(s \o t)
      <3> SUFFICES ASSUME NEW i \in 1..Len(t) PROVE t[i] \in ToSet(s \o t)
        BY DEF ToSet
      <3>1. (s \o t)[Len(s) + i] = t[i] /\ Len(s) + i \in DOMAIN (s \o t)
        OBVIOUS
      <3>2. QED
        BY <3>1 DEF ToSet
    <2>4. QED
      BY <2>1, <2>2, <2>3
  <1>4. QED
    BY <1>1, <1>2, <1>3

LEMMA ToSetParts ==
    ASSUME NEW S, NEW s \in Seq(S)
    PROVE  /\ s # <<>> => ToSet(Tail(s)) \subseteq ToSet(s) /\ Head(s) \in ToSet(s)
           /\ \A m \in 1..Len(s) + 1, n \in 0..Len(s) : ToSet(SubSeq(s, m, n)) \subseteq ToSet(s)
  BY DEF ToSet

\* The actions of a queue or of a batch.
ActsIn(q) == {q[i].act : i \in 1..Len(q)}

LEMMA ActsInIs ==
    ASSUME NEW q \in Seq(Queued) PROVE ActsIn(q) = {e.act : e \in ToSet(q)}
  BY DEF ActsIn, ToSet

LEMMA ActsInFacts ==
    ASSUME NEW q \in Seq(Queued), NEW r \in Seq(Queued), NEW x \in Queued
    PROVE  /\ ActsIn(q) \subseteq Action
           /\ ActsIn(<<>>) = {}
           /\ ActsIn(Append(q, x)) = ActsIn(q) \cup {x.act}
           /\ ActsIn(q \o r) = ActsIn(q) \cup ActsIn(r)
  <1>1. /\ Append(q, x) \in Seq(Queued) /\ q \o r \in Seq(Queued)
    OBVIOUS
  <1>2. ActsIn(q) \subseteq Action /\ ActsIn(<<>>) = {}
    <2>1. ActsIn(<<>>) = {}
      BY DEF ActsIn
    <2>2. ASSUME NEW i \in 1..Len(q) PROVE q[i].act \in Action
      <3>1. q[i] \in Queued
        OBVIOUS
      <3>2. QED
        BY <3>1 DEF Queued
    <2>3. QED
      BY <2>1, <2>2 DEF ActsIn
  <1>3. ActsIn(Append(q, x)) = ActsIn(q) \cup {x.act}
    <2>1. /\ ActsIn(Append(q, x)) = {e.act : e \in ToSet(Append(q, x))}
          /\ ActsIn(q) = {e.act : e \in ToSet(q)}
      BY <1>1, ActsInIs
    <2>2. ToSet(Append(q, x)) = ToSet(q) \cup {x}
      BY ToSetFacts
    <2>3. QED
      BY <2>1, <2>2
  <1>4. ActsIn(q \o r) = ActsIn(q) \cup ActsIn(r)
    <2>1. /\ ActsIn(q \o r) = {e.act : e \in ToSet(q \o r)}
          /\ ActsIn(q) = {e.act : e \in ToSet(q)}
          /\ ActsIn(r) = {e.act : e \in ToSet(r)}
      BY <1>1, ActsInIs
    <2>2. ToSet(q \o r) = ToSet(q) \cup ToSet(r)
      BY ToSetFacts
    <2>3. QED
      BY <2>1, <2>2
  <1>5. QED
    BY <1>2, <1>3, <1>4

LEMMA ActsInParts ==
    ASSUME NEW q \in Seq(Queued), NEW m \in 1..Len(q) + 1, NEW n \in 0..Len(q)
    PROVE  /\ SubSeq(q, m, n) \in Seq(Queued)
           /\ ActsIn(SubSeq(q, m, n)) \subseteq ActsIn(q)
  <1>1. SubSeq(q, m, n) \in Seq(Queued)
    OBVIOUS
  <1>2. ToSet(SubSeq(q, m, n)) \subseteq ToSet(q)
    BY ToSetParts
  <1>3. /\ ActsIn(SubSeq(q, m, n)) = {e.act : e \in ToSet(SubSeq(q, m, n))}
        /\ ActsIn(q) = {e.act : e \in ToSet(q)}
    BY <1>1, ActsInIs
  <1>4. QED
    BY <1>1, <1>2, <1>3

-----------------------------------------------------------------------------
(* What every handler of a browser keeps.                                  *)

\* The actions a browser knows of.
Acts(k) == ToSet(k.log) \cup ToSet(k.saving) \cup ActsIn(k.queue) \cup ActsIn(k.flight)

\* The session goes from k to l by a handler that is given the actions of S.
Moves(k, l, S) ==
    /\ l \in Session
    /\ l.connected => k.connected
    /\ k.draining => l.draining /\ l.flight = k.flight
    /\ ~k.draining => l.draining \/ l.flight = k.flight
    /\ Acts(l) \subseteq Acts(k) \cup S
    /\ Spaced(k.log) => Spaced(l.log)

LEMMA MovesOn ==
    ASSUME NEW S, NEW k, NEW l, NEW m, Moves(k, l, S), Moves(l, m, S)
    PROVE  Moves(k, m, S)
  BY DEF Moves

LEMMA MovesMore ==
    ASSUME NEW S, NEW T, S \subseteq T, NEW k, NEW l, Moves(k, l, S)
    PROVE  Moves(k, l, T)
  BY DEF Moves

\* A step that leaves the log, the queue and the batch alone.
LEMMA MovesLittle ==
    ASSUME NEW k, NEW l \in Session, l.connected => k.connected,
           l.draining = k.draining, l.flight = k.flight, l.queue = k.queue,
           l.saving = k.saving, l.log = k.log, NEW S
    PROVE  Moves(k, l, S)
  BY DEF Moves, Acts

LEMMA ProcessQueueMoves ==
    ASSUME NEW k \in Session
    PROVE  Moves(k, ProcessQueue(k), {})
  <1> DEFINE n == Least(Len(k.queue), BatchSize)
             rest == SubSeq(k.queue, n + 1, Len(k.queue))
             batch == SubSeq(k.queue, 1, n)
             idle == k.syncing \/ k.draining \/ ~k.connected \/ k.queue = <<>>
             ends == [k EXCEPT !.queue = rest, !.draining = TRUE,
                               !.connected = FALSE, !.reconnect = FALSE]
             posts == [k EXCEPT !.queue = rest, !.draining = TRUE,
                                !.flight = batch, !.stale = FALSE]
  <1>1. k.queue \in Seq(Queued) /\ k.flight \in Seq(Queued)
    BY DEF Session
  <1>2. n \in 0..Len(k.queue) /\ Len(k.queue) \in Nat
    BY <1>1, SyncClientAssumption DEF Least
  <1>3. /\ rest \in Seq(Queued) /\ batch \in Seq(Queued)
        /\ ActsIn(rest) \subseteq ActsIn(k.queue)
        /\ ActsIn(batch) \subseteq ActsIn(k.queue)
    <2> HIDE DEF n
    <2>1. /\ n + 1 \in 1..Len(k.queue) + 1 /\ 1 \in 1..Len(k.queue) + 1
          /\ Len(k.queue) \in 0..Len(k.queue)
      BY <1>2
    <2>2. QED
      BY <1>1, <1>2, <2>1, ActsInParts
  <1> HIDE DEF n, rest, batch
  <1>4. CASE idle
    <2>1. ProcessQueue(k) = k
      BY <1>4 DEF ProcessQueue
    <2>2. QED
      BY <2>1, MovesLittle
  <1>5. CASE ~idle /\ k.retries > MaxRetries
    <2>1. ProcessQueue(k) = ends
      BY <1>5 DEF ProcessQueue, n, rest
    <2>2. ends \in Session
      BY <1>3 DEF Session
    <2>3. /\ ends.connected = FALSE /\ ends.draining = TRUE /\ ends.flight = k.flight
          /\ ends.queue = rest /\ ends.saving = k.saving /\ ends.log = k.log
      BY DEF Session
    <2> HIDE DEF ends
    <2>4. QED
      BY <1>3, <1>5, <2>1, <2>2, <2>3 DEF Moves, Acts
  <1>6. CASE ~idle /\ ~(k.retries > MaxRetries)
    <2>1. ProcessQueue(k) = posts
      BY <1>6 DEF ProcessQueue, n, rest, batch
    <2>2. posts \in Session
      BY <1>3 DEF Session
    <2>3. /\ posts.connected = k.connected /\ posts.draining = TRUE /\ posts.flight = batch
          /\ posts.queue = rest /\ posts.saving = k.saving /\ posts.log = k.log
      BY DEF Session
    <2> HIDE DEF posts
    <2>4. QED
      BY <1>3, <1>6, <2>1, <2>2, <2>3 DEF Moves, Acts
  <1>7. QED
    BY <1>4, <1>5, <1>6

LEMMA EnqueueMoves ==
    ASSUME NEW k \in Session, NEW msg \in Queued
    PROVE  Moves(k, Enqueue(k, msg), {msg.act})
  <1> DEFINE l == [k EXCEPT !.queue = Append(@, msg)]
  <1>1. k.queue \in Seq(Queued) /\ Append(k.queue, msg) \in Seq(Queued)
    BY DEF Session
  <1>2. l \in Session
    BY <1>1 DEF Session
  <1>3. /\ l.connected = k.connected /\ l.draining = k.draining /\ l.flight = k.flight
        /\ l.queue = Append(k.queue, msg) /\ l.saving = k.saving /\ l.log = k.log
    BY DEF Session
  <1> HIDE DEF l
  <1>4. ActsIn(l.queue) = ActsIn(k.queue) \cup {msg.act}
    BY <1>1, <1>3, ActsInFacts
  <1>5. Moves(k, l, {msg.act})
    BY <1>2, <1>3, <1>4 DEF Moves, Acts
  <1>6. Moves(l, ProcessQueue(l), {msg.act})
    BY <1>2, ProcessQueueMoves, MovesMore
  <1>7. QED
    BY <1>5, <1>6, MovesOn DEF Enqueue, l

LEMMA SendActionMoves ==
    ASSUME NEW k \in Session, k.saving # <<>>
    PROVE  Moves(k, SendAction(k), {})
  <1> DEFINE a == Head(k.saving)
             l == [k EXCEPT !.saving = Tail(@), !.pending = @ \cup {a}, !.last = a]
             msg == [act |-> a, base |-> k.last]
  <1>1. /\ k.saving \in Seq(Action) /\ a \in Action /\ Tail(k.saving) \in Seq(Action)
        /\ k.pending \cup {a} \in SUBSET Action /\ a \in Rev /\ k.last \in Rev
    BY DEF Session, Rev
  <1>2. a \in ToSet(k.saving) /\ ToSet(Tail(k.saving)) \subseteq ToSet(k.saving)
    BY <1>1, ToSetParts
  <1>3. msg \in Queued /\ msg.act = a
    BY <1>1 DEF Queued
  <1> HIDE DEF a
  <1>4. l \in Session
    BY <1>1 DEF Session
  <1>5. /\ l.connected = k.connected /\ l.draining = k.draining /\ l.flight = k.flight
        /\ l.queue = k.queue /\ l.saving = Tail(k.saving) /\ l.log = k.log
    BY DEF Session
  <1> HIDE DEF l, msg
  <1>6. Moves(k, l, {a})
    BY <1>2, <1>4, <1>5 DEF Moves, Acts
  <1>7. Moves(l, Enqueue(l, msg), {a})
    BY <1>3, <1>4, EnqueueMoves
  <1>8. Moves(k, Enqueue(l, msg), {a})
    BY <1>6, <1>7, MovesOn
  <1>9. Moves(k, Enqueue(l, msg), {})
    BY <1>2, <1>8 DEF Moves, Acts
  <1>10. QED
    BY <1>9 DEF SendAction, l, msg, a

LEMMA FastForwardMoves ==
    ASSUME NEW k \in Session, NEW base \in Rev, NEW acts \in Seq(Action), acts # <<>>
    PROVE  Moves(k, FastForward(k, base, acts), ToSet(acts))
  <1> DEFINE msgs == [i \in 1..Len(acts) |->
                        [act |-> acts[i], base |-> IF i = 1 THEN base ELSE acts[i - 1]]]
             l == [k EXCEPT !.queue = <<>>, !.stale = TRUE,
                            !.pending = @ \cup ToSet(acts), !.last = Last(acts)]
             first == Enqueue(l, Head(msgs))
             m == [first EXCEPT !.queue = @ \o Tail(msgs)]
  <1>1. msgs \in Seq(Queued) /\ msgs # <<>> /\ ActsIn(msgs) \subseteq ToSet(acts)
    <2>1. \A i \in 1..Len(acts) : acts[i] \in Action /\ msgs[i].act = acts[i]
      OBVIOUS
    <2>2. \A i \in 1..Len(acts) : msgs[i] \in Queued
      BY DEF Queued, Rev
    <2>3. Len(acts) \in Nat /\ Len(acts) # 0 /\ Len(msgs) = Len(acts)
      OBVIOUS
    <2>4. msgs \in Seq(Queued) /\ msgs # <<>>
      BY <2>2, <2>3
    <2>5. QED
      BY <2>1, <2>3, <2>4 DEF ActsIn, ToSet
  <1> HIDE DEF msgs
  <1>2. /\ Head(msgs) \in Queued /\ Head(msgs).act \in ActsIn(msgs)
        /\ Tail(msgs) \in Seq(Queued) /\ ActsIn(Tail(msgs)) \subseteq ActsIn(msgs)
    BY <1>1 DEF ActsIn
  <1>3. /\ k.pending \cup ToSet(acts) \in SUBSET Action /\ Last(acts) \in Rev
        /\ <<>> \in Seq(Queued)
    BY ToSetFacts DEF Session, Last, Rev
  <1>4. l \in Session
    BY <1>3 DEF Session
  <1>5. /\ l.connected = k.connected /\ l.draining = k.draining /\ l.flight = k.flight
        /\ l.queue = <<>> /\ l.saving = k.saving /\ l.log = k.log
    BY DEF Session
  <1> HIDE DEF l
  <1>6. ActsIn(l.queue) = {}
    BY <1>5 DEF ActsIn
  <1>7. Moves(k, l, ToSet(acts))
    BY <1>4, <1>5, <1>6 DEF Moves, Acts
  <1>8. Moves(l, first, ToSet(acts))
    BY <1>1, <1>2, <1>4, EnqueueMoves, MovesMore
  <1>9. first \in Session
    BY <1>8 DEF Moves
  <1> HIDE DEF first
  <1>10. first.queue \in Seq(Queued) /\ first.queue \o Tail(msgs) \in Seq(Queued)
    BY <1>2, <1>9 DEF Session
  <1>11. m \in Session
    BY <1>9, <1>10 DEF Session
  <1>12. /\ m.connected = first.connected /\ m.draining = first.draining
         /\ m.flight = first.flight /\ m.queue = first.queue \o Tail(msgs)
         /\ m.saving = first.saving /\ m.log = first.log
    BY <1>9 DEF Session
  <1> HIDE DEF m
  <1>13. ActsIn(m.queue) = ActsIn(first.queue) \cup ActsIn(Tail(msgs))
    <2>1. ActsIn(first.queue \o Tail(msgs)) = ActsIn(first.queue) \cup ActsIn(Tail(msgs))
      BY <1>2, <1>10, ActsInFacts
    <2>2. QED
      BY <1>12, <2>1
  <1>14. Moves(first, m, ToSet(acts))
    BY <1>1, <1>2, <1>11, <1>12, <1>13 DEF Moves, Acts
  <1>15. Moves(k, m, ToSet(acts))
    BY <1>7, <1>8, <1>14, MovesOn
  <1>16. QED
    BY <1>15 DEF FastForward, m, first, l, msgs

-----------------------------------------------------------------------------
(* Messages.                                                               *)

\* An action that the log does not hold may be appended to it.
LEMMA DispatchedTyping ==
    ASSUME NEW log \in Seq(Action), NEW a \in Action
    PROVE  /\ Dispatched(log, a) \in Seq(Action)
           /\ ToSet(Dispatched(log, a)) \subseteq ToSet(log) \cup {a}
           /\ Spaced(log) => Spaced(Dispatched(log, a))
  <1>1. CASE Contains(log, a)
    BY <1>1 DEF Dispatched
  <1>2. CASE ~Contains(log, a)
    <2>1. Dispatched(log, a) = Append(log, a)
      BY <1>2 DEF Dispatched
    <2>2. a \notin Recent(log)
      BY <1>2 DEF Contains, Recent
    <2>3. ToSet(Append(log, a)) = ToSet(log) \cup {a} /\ Append(log, a) \in Seq(Action)
      BY ToSetFacts
    <2>4. QED
      BY <2>1, <2>2, <2>3, AppendSpaced
  <1>3. QED
    BY <1>1, <1>2

\* A step that changes the log by one message's action and little else.
LEMMA MovesLog ==
    ASSUME NEW k, NEW l \in Session, l.connected => k.connected,
           l.draining = k.draining, l.flight = k.flight, l.queue = k.queue,
           l.saving = k.saving, NEW S, ToSet(l.log) \subseteq ToSet(k.log) \cup S,
           Spaced(k.log) => Spaced(l.log)
    PROVE  Moves(k, l, S)
  BY DEF Moves, Acts

LEMMA HandleAckMoves ==
    ASSUME NEW k \in Session PROVE Moves(k, HandleAck(k), {})
  <1> DEFINE l == [k EXCEPT !.syncing = FALSE,
                            !.status = IF k.pending = {} THEN "synced" ELSE @]
  <1>1. (IF k.pending = {} THEN "synced" ELSE k.status) \in SyncStatus
    BY DEF Session, SyncStatus
  <1>2. l \in Session
    BY <1>1 DEF Session
  <1>3. /\ l.connected = k.connected /\ l.draining = k.draining /\ l.flight = k.flight
        /\ l.queue = k.queue /\ l.saving = k.saving /\ l.log = k.log
    BY DEF Session
  <1> HIDE DEF l
  <1>4. Moves(k, l, {}) /\ Moves(l, ProcessQueue(l), {})
    BY <1>2, <1>3, MovesLittle, ProcessQueueMoves
  <1>5. QED
    BY <1>4, MovesOn DEF HandleAck, l

LEMMA HandleActionMoves ==
    ASSUME NEW k \in Session, NEW a \in Action
    PROVE  Moves(k, HandleAction(k, a), {a})
  <1> DEFINE pending == k.pending \ {a}
             last == IF pending = {} THEN a ELSE k.last
             log == IF a \in k.pending THEN k.log ELSE Dispatched(k.log, a)
             status == IF pending = {} THEN "synced" ELSE k.status
             l == [k EXCEPT !.pending = pending, !.last = last, !.log = log,
                            !.status = status]
  <1>1. k.log \in Seq(Action)
    BY DEF Session
  <1>2. /\ log \in Seq(Action)
        /\ ToSet(log) \subseteq ToSet(k.log) \cup {a}
        /\ Spaced(k.log) => Spaced(log)
    BY <1>1, DispatchedTyping
  <1>3. pending \in SUBSET Action /\ last \in Rev /\ status \in SyncStatus
    BY DEF Session, Rev, SyncStatus
  <1> HIDE DEF pending, last, log, status
  <1>4. l \in Session
    BY <1>2, <1>3 DEF Session
  <1>5. /\ l.connected = k.connected /\ l.draining = k.draining /\ l.flight = k.flight
        /\ l.queue = k.queue /\ l.saving = k.saving /\ l.log = log
    BY DEF Session
  <1>6. HandleAction(k, a) = l
    BY DEF HandleAction, pending, last, log, status
  <1> HIDE DEF l
  <1>7. Moves(k, l, {a})
    BY <1>2, <1>4, <1>5, MovesLog
  <1>8. QED
    BY <1>6, <1>7

LEMMA CatchUpMoves ==
    ASSUME NEW k \in Session, NEW a \in Action
    PROVE  Moves(k, CatchUp(k, a), {a})
  <1> DEFINE pending == k.pending \ {a}
             last == IF pending = {} THEN a ELSE k.last
             log == Dispatched(k.log, a)
             l == [k EXCEPT !.pending = pending, !.last = last, !.log = log]
  <1>1. k.log \in Seq(Action)
    BY DEF Session
  <1>2. /\ log \in Seq(Action)
        /\ ToSet(log) \subseteq ToSet(k.log) \cup {a}
        /\ Spaced(k.log) => Spaced(log)
    BY <1>1, DispatchedTyping
  <1>3. pending \in SUBSET Action /\ last \in Rev
    BY DEF Session, Rev
  <1> HIDE DEF pending, last, log
  <1>4. l \in Session
    BY <1>2, <1>3 DEF Session
  <1>5. /\ l.connected = k.connected /\ l.draining = k.draining /\ l.flight = k.flight
        /\ l.queue = k.queue /\ l.saving = k.saving /\ l.log = log
    BY DEF Session
  <1>6. CatchUp(k, a) = l
    BY DEF CatchUp, pending, last, log
  <1> HIDE DEF l
  <1>7. Moves(k, l, {a})
    BY <1>2, <1>4, <1>5, MovesLog
  <1>8. QED
    BY <1>6, <1>7

\* The recursive function that CaughtUp chooses.
IsCaughtUp(f, k, acts, m) ==
    f = [i \in 0..m |-> IF i = 0 THEN k ELSE CatchUp(f[i - 1], acts[i])]

LEMMA CaughtUpExists ==
    ASSUME NEW k, NEW acts
    PROVE  \A m \in Nat : \E f : IsCaughtUp(f, k, acts, m)
  <1> DEFINE S == {m \in Nat : \E f : IsCaughtUp(f, k, acts, m)}
  <1>1. 0 \in S
    <2> DEFINE f == [i \in 0..0 |-> k]
    <2>1. IsCaughtUp(f, k, acts, 0)
      BY DEF IsCaughtUp
    <2>2. QED
      BY <2>1
  <1>2. ASSUME NEW m \in Nat, m \in S PROVE m + 1 \in S
    <2>1. PICK f : IsCaughtUp(f, k, acts, m)
      BY <1>2
    <2> DEFINE e == CatchUp(f[m], acts[m + 1])
               h == [i \in 0..m + 1 |-> IF i = m + 1 THEN e ELSE f[i]]
    <2>2. f[0] = k /\ \A i \in 1..m : f[i] = CatchUp(f[i - 1], acts[i])
      BY <2>1 DEF IsCaughtUp
    <2> HIDE DEF e
    <2>3. h[0] = k /\ \A i \in 1..m : h[i] = CatchUp(h[i - 1], acts[i])
      BY <2>2
    <2>4. h[m + 1] = CatchUp(h[m + 1 - 1], acts[m + 1])
      BY DEF e
    <2>5. \A i \in 0..m + 1 : h[i] = IF i = 0 THEN k ELSE CatchUp(h[i - 1], acts[i])
      <3>1. \A i \in 0..m + 1 : i = 0 \/ i \in 1..m \/ i = m + 1
        OBVIOUS
      <3> HIDE DEF h
      <3>2. QED
        BY <2>3, <2>4, <3>1
    <2>6. IsCaughtUp(h, k, acts, m + 1)
      <3>1. h = [i \in 0..m + 1 |-> h[i]]
        OBVIOUS
      <3> HIDE DEF h
      <3>2. QED
        BY <2>5, <3>1 DEF IsCaughtUp
    <2> HIDE DEF h
    <2>7. QED
      BY <2>6
  <1> HIDE DEF S
  <1>3. \A m \in Nat : m \in S
    BY <1>1, <1>2, SetInduction
  <1>4. QED
    BY <1>3 DEF S

LEMMA CaughtUpMoves ==
    ASSUME NEW k \in Session, NEW acts \in Seq(Action)
    PROVE  Moves(k, CaughtUp(k, acts)[Len(acts)], ToSet(acts))
  <1> DEFINE f == CaughtUp(k, acts)
             n == Len(acts)
             S == {i \in Nat : i <= n => Moves(k, f[i], ToSet(acts))}
  <1>1. n \in Nat
    OBVIOUS
  <1>2. IsCaughtUp(f, k, acts, n)
    <2>1. \E h : IsCaughtUp(h, k, acts, n)
      BY <1>1, CaughtUpExists
    <2>2. QED
      BY <2>1 DEF CaughtUp, IsCaughtUp
  <1> HIDE DEF f
  <1>3. f[0] = k /\ \A i \in 1..n : f[i] = CatchUp(f[i - 1], acts[i])
    BY <1>1, <1>2 DEF IsCaughtUp
  <1>4. 0 \in S
    BY <1>3, MovesLittle
  <1>5. ASSUME NEW i \in Nat, i \in S PROVE i + 1 \in S
    <2> SUFFICES ASSUME i + 1 <= n PROVE Moves(k, f[i + 1], ToSet(acts))
      OBVIOUS
    <2>1. Moves(k, f[i], ToSet(acts)) /\ i + 1 \in 1..n
      BY <1>1, <1>5
    <2>2. f[i] \in Session /\ acts[i + 1] \in Action /\ {acts[i + 1]} \subseteq ToSet(acts)
      BY <2>1 DEF Moves, ToSet
    <2>3. f[i + 1] = CatchUp(f[i], acts[i + 1])
      BY <1>3, <2>1
    <2>4. Moves(f[i], f[i + 1], ToSet(acts))
      <3>1. Moves(f[i], f[i + 1], {acts[i + 1]})
        BY <2>2, <2>3, CatchUpMoves
      <3>2. QED
        BY <2>2, <3>1, MovesMore
    <2>5. QED
      BY <2>1, <2>4, MovesOn
  <1> HIDE DEF S
  <1>6. \A i \in Nat : i \in S
    BY <1>4, <1>5, SetInduction
  <1>7. n \in S
    BY <1>1, <1>6
  <1>8. QED
    BY <1>7 DEF S, f

LEMMA HandleSyncUpdateMoves ==
    ASSUME NEW k \in Session, NEW acts \in Seq(Action)
    PROVE  Moves(k, HandleSyncUpdate(k, acts), ToSet(acts))
  <1> DEFINE u == CaughtUp(k, acts)[Len(acts)]
             l == [u EXCEPT !.syncing = FALSE, !.status = "synced"]
  <1>1. Moves(k, u, ToSet(acts)) /\ u \in Session
    BY CaughtUpMoves DEF Moves
  <1>2. HandleSyncUpdate(k, acts) = ProcessQueue(l)
    BY DEF HandleSyncUpdate
  <1> HIDE DEF u
  <1>3. l \in Session
    BY <1>1 DEF Session, SyncStatus
  <1>4. /\ l.connected = u.connected /\ l.draining = u.draining /\ l.flight = u.flight
        /\ l.queue = u.queue /\ l.saving = u.saving /\ l.log = u.log
    BY <1>1 DEF Session
  <1> HIDE DEF l
  <1>5. Moves(u, l, ToSet(acts)) /\ Moves(l, ProcessQueue(l), ToSet(acts))
    BY <1>3, <1>4, MovesLittle, ProcessQueueMoves, MovesMore
  <1>6. QED
    BY <1>1, <1>2, <1>5, MovesOn

LEMMA HandleConflictMoves ==
    ASSUME NEW k \in Session, NEW base \in Rev
    PROVE  Moves(k, HandleConflict(k, base), {})
  <1> DEFINE told == [k EXCEPT !.syncing = FALSE, !.status = "conflict"]
             ahead == After(k.log, base)
             asks == [told EXCEPT !.modal = TRUE]
             same == [told EXCEPT !.last = base, !.status = "synced"]
             busy == [told EXCEPT !.resolving = TRUE]
  <1>1. k.log \in Seq(Action)
    BY DEF Session
  <1>2. ahead \in Seq(Action) /\ ToSet(ahead) \subseteq ToSet(k.log)
    <2>1. IndexOf(k.log, base) \in 0..Len(k.log)
      BY <1>1, IndexOfIs
    <2>2. IndexOf(k.log, base) + 1 \in 1..Len(k.log) + 1 /\ Len(k.log) \in 0..Len(k.log)
      BY <1>1, <2>1
    <2>3. QED
      BY <1>1, <2>2, ToSetParts, AfterTyping DEF After
  <1>3. \/ HandleConflict(k, base) \in {told, asks, same}
        \/ ahead # <<>> /\ HandleConflict(k, base) = FastForward(busy, base, ahead)
    <2> DEFINE told0 == k.form = "load" \/ k.modal \/ k.resolving
               foreign == ~Contains(k.log, base) /\ (base # NoRev \/ k.log = <<>>)
    <2>1. HandleConflict(k, base) =
            IF told0 THEN told ELSE IF foreign THEN asks
            ELSE IF ahead = <<>> THEN same ELSE FastForward(busy, base, ahead)
      BY DEF HandleConflict
    <2> HIDE DEF asks, same, busy, told, ahead
    <2>2. CASE told0
      BY <2>1, <2>2
    <2>3. CASE ~told0 /\ foreign
      BY <2>1, <2>3
    <2>4. CASE ~told0 /\ ~foreign
      BY <2>1, <2>4
    <2>5. QED
      BY <2>2, <2>3, <2>4
  <1> HIDE DEF ahead
  <1>4. told \in Session /\ asks \in Session /\ same \in Session /\ busy \in Session
    BY DEF Session, SyncStatus
  <1>5. \A l \in {told, asks, same, busy} :
           /\ l.connected = k.connected /\ l.draining = k.draining /\ l.flight = k.flight
           /\ l.queue = k.queue /\ l.saving = k.saving /\ l.log = k.log
    BY DEF Session
  <1> HIDE DEF told, asks, same, busy
  <1>6. \A l \in {told, asks, same, busy} : Moves(k, l, {})
    BY <1>4, <1>5, MovesLittle
  <1>7. CASE HandleConflict(k, base) \in {told, asks, same}
    BY <1>6, <1>7
  <1>8. CASE ahead # <<>> /\ HandleConflict(k, base) = FastForward(busy, base, ahead)
    <2>1. Moves(busy, FastForward(busy, base, ahead), ToSet(ahead))
      BY <1>2, <1>4, <1>8, FastForwardMoves
    <2>2. Moves(k, busy, ToSet(ahead))
      BY <1>6, MovesMore
    <2>3. Moves(k, HandleConflict(k, base), ToSet(ahead))
      BY <1>8, <2>1, <2>2, MovesOn
    <2>4. QED
      BY <1>2, <2>3 DEF Moves, Acts
  <1>9. QED
    BY <1>3, <1>7, <1>8

\* The actions a message brings.
Brings(m) == CASE m.type = "ACTION" -> {m.action}
               [] m.type = "SYNC_UPDATE" -> ToSet(m.actions)
               [] OTHER -> {}

LEMMA MessageTyping ==
    ASSUME NEW m \in WsMsg
    PROVE  /\ m.type \in {"ACK", "ACTION", "SYNC_UPDATE", "CONFLICT"}
           /\ m.type = "ACTION" => m.action \in Action
           /\ m.type = "SYNC_UPDATE" => m.actions \in Seq(Action)
           /\ m.type = "CONFLICT" => m.base \in Rev
  BY DEF WsMsg, Ack

LEMMA HandleMessageMoves ==
    ASSUME NEW k \in Session, NEW m \in WsMsg
    PROVE  Moves(k, HandleMessage(k, m), Brings(m))
  <1>1. CASE m.type = "ACK"
    <2>1. HandleMessage(k, m) = HandleAck(k)
      BY <1>1 DEF HandleMessage
    <2>2. QED
      BY <2>1, HandleAckMoves, MovesMore
  <1>2. CASE m.type = "ACTION"
    <2>1. HandleMessage(k, m) = HandleAction(k, m.action) /\ Brings(m) = {m.action}
      BY <1>2 DEF HandleMessage, Brings
    <2>2. QED
      BY <1>2, <2>1, MessageTyping, HandleActionMoves
  <1>3. CASE m.type = "SYNC_UPDATE"
    <2>1. HandleMessage(k, m) = HandleSyncUpdate(k, m.actions) /\ Brings(m) = ToSet(m.actions)
      BY <1>3 DEF HandleMessage, Brings
    <2>2. QED
      BY <1>3, <2>1, MessageTyping, HandleSyncUpdateMoves
  <1>4. CASE m.type = "CONFLICT"
    <2>1. HandleMessage(k, m) = HandleConflict(k, m.base)
      BY <1>4 DEF HandleMessage
    <2>2. QED
      BY <1>4, <2>1, MessageTyping, HandleConflictMoves, MovesMore
  <1>5. QED
    BY <1>1, <1>2, <1>3, <1>4, MessageTyping

-----------------------------------------------------------------------------
(* Answers, timers and the connection.                                     *)

LEMMA NetMsgs ==
    /\ Ack \in WsMsg /\ Brings(Ack) = {}
    /\ \A m \in [type : {"CONFLICT"}, base : Rev] : m \in WsMsg /\ Brings(m) = {}
    /\ \A m \in ActionAnswer : \/ m \in {Unsent, Taken, Busy}
                               \/ m \in WsMsg /\ Brings(m) = {}
    /\ Ack # Busy /\ Ack # Unsent /\ Taken # Ack /\ Unsent # Taken /\ Busy \notin {Unsent, Taken}
    /\ \A m \in [type : {"CONFLICT"}, base : Rev] : m \notin {Unsent, Taken, Busy, Ack}
    /\ \A m \in [type : {"GAME"}, log : Seq(Action)] : m \notin {Unsent, Taken, Busy, Saved}
  BY DEF Ack, WsMsg, Brings, ActionAnswer, Unsent, Taken, Busy, Saved

\* The session when an answer has come or a call has failed: it waits for
\* nothing any more, or for a new batch.
Answered(k, l) ==
    /\ l \in Session
    /\ l.connected => k.connected
    /\ ~l.draining => l.flight = <<>>
    /\ Acts(l) \subseteq Acts(k)
    /\ Spaced(k.log) => Spaced(l.log)

LEMMA LandedTyping ==
    ASSUME NEW k \in Session
    PROVE  /\ Landed(k) \in Session /\ Landed(k).flight = <<>>
           /\ Landed(k).connected = k.connected /\ Landed(k).draining = k.draining
           /\ Landed(k).queue = k.queue /\ Landed(k).saving = k.saving
           /\ Landed(k).log = k.log /\ Acts(Landed(k)) \subseteq Acts(k)
  <1> DEFINE l == [k EXCEPT !.flight = <<>>]
  <1>1. <<>> \in Seq(Queued)
    OBVIOUS
  <1>2. l \in Session
    BY <1>1 DEF Session
  <1>3. /\ l.flight = <<>> /\ l.connected = k.connected /\ l.draining = k.draining
        /\ l.queue = k.queue /\ l.saving = k.saving /\ l.log = k.log
    BY DEF Session
  <1>4. Landed(k) = l
    BY DEF Landed
  <1> HIDE DEF l
  <1>5. ActsIn(<<>>) = {}
    BY DEF ActsIn
  <1>6. QED
    BY <1>2, <1>3, <1>4, <1>5 DEF Acts

LEMMA PutBackTyping ==
    ASSUME NEW k \in Session
    PROVE  /\ Answered(k, PutBack(k))
           /\ PutBack(k).flight = <<>> /\ PutBack(k).draining = FALSE
           /\ PutBack(k).connected = k.connected
  <1> DEFINE l == [k EXCEPT !.flight = <<>>, !.queue = k.flight \o @,
                            !.draining = FALSE, !.timer = TRUE]
  <1>1. /\ <<>> \in Seq(Queued) /\ k.flight \in Seq(Queued) /\ k.queue \in Seq(Queued)
        /\ k.flight \o k.queue \in Seq(Queued)
    BY DEF Session
  <1>2. l \in Session
    BY <1>1 DEF Session
  <1>3. /\ l.flight = <<>> /\ l.connected = k.connected /\ l.draining = FALSE
        /\ l.queue = k.flight \o k.queue /\ l.saving = k.saving /\ l.log = k.log
    BY DEF Session
  <1>4. PutBack(k) = l
    BY DEF PutBack
  <1> HIDE DEF l
  <1>5. ActsIn(<<>>) = {}
    BY DEF ActsIn
  <1>6. ActsIn(k.flight \o k.queue) = ActsIn(k.flight) \cup ActsIn(k.queue)
    <2>1. /\ ActsIn(k.flight \o k.queue) = {e.act : e \in ToSet(k.flight \o k.queue)}
          /\ ActsIn(k.flight) = {e.act : e \in ToSet(k.flight)}
          /\ ActsIn(k.queue) = {e.act : e \in ToSet(k.queue)}
      BY <1>1, ActsInIs
    <2>2. ToSet(k.flight \o k.queue) = ToSet(k.flight) \cup ToSet(k.queue)
      <3>1. CASE k.flight = <<>>
        BY <1>1, <3>1 DEF ToSet
      <3>2. CASE k.flight # <<>>
        <4>1. k.flight[1] \in Queued
          BY <1>1, <3>2
        <4>2. QED
          BY <1>1, <4>1, ToSetFacts
      <3>3. QED
        BY <3>1, <3>2
    <2>3. QED
      BY <2>1, <2>2
  <1>7. QED
    BY <1>2, <1>3, <1>4, <1>5, <1>6 DEF Answered, Acts

LEMMA HttpAnswerTyping ==
    ASSUME NEW k \in Session, NEW m \in ActionAnswer \ {Unsent, Taken}, k.draining
    PROVE  Answered(k, HttpAnswer(k, m))
  <1> DEFINE h == HandleMessage(Landed(k), m)
             handled == [h EXCEPT !.retries = 0]
             l == [handled EXCEPT !.draining = FALSE]
  <1>1. Landed(k) \in Session /\ Landed(k).draining
    BY LandedTyping
  <1>2. CASE k.stale
    <2>1. HttpAnswer(k, m) = Landed(k)
      BY <1>2 DEF HttpAnswer
    <2>2. QED
      BY <2>1, LandedTyping DEF Answered
  <1>3. CASE ~k.stale /\ m = Busy
    <2>1. HttpAnswer(k, m) = PutBack(k)
      BY <1>3 DEF HttpAnswer
    <2>2. QED
      BY <2>1, PutBackTyping
  <1>4. CASE ~k.stale /\ m # Busy
    <2>1. m \in WsMsg /\ Brings(m) = {}
      BY <1>4, NetMsgs
    <2>2. Moves(Landed(k), h, {})
      BY <1>1, <2>1, HandleMessageMoves
    <2>3. HttpAnswer(k, m) = IF handled.stale THEN handled ELSE ProcessQueue(l)
      BY <1>4 DEF HttpAnswer
    <2>4. /\ h \in Session /\ h.flight = <<>> /\ (h.connected => k.connected)
          /\ Acts(h) \subseteq Acts(k)
          /\ Spaced(k.log) => Spaced(h.log)
          /\ h.draining
      BY <1>1, <2>2, LandedTyping DEF Moves
    <2> HIDE DEF h
    <2>5. handled \in Session /\ l \in Session
      BY <2>4 DEF Session
    <2>6. /\ handled.connected = h.connected /\ handled.draining = h.draining
          /\ handled.flight = h.flight /\ handled.queue = h.queue
          /\ handled.saving = h.saving /\ handled.log = h.log
      BY <2>4 DEF Session
    <2>7. /\ l.connected = h.connected /\ l.draining = FALSE
          /\ l.flight = h.flight /\ l.queue = h.queue
          /\ l.saving = h.saving /\ l.log = h.log
      BY <2>4 DEF Session
    <2> HIDE DEF handled, l
    <2>8. Answered(k, handled)
      BY <2>4, <2>5, <2>6 DEF Answered, Acts
    <2>9. Answered(k, ProcessQueue(l))
      <3>1. Moves(l, ProcessQueue(l), {})
        BY <2>5, ProcessQueueMoves
      <3>2. QED
        BY <2>4, <2>7, <3>1 DEF Answered, Moves, Acts
    <2>10. QED
      BY <2>3, <2>8, <2>9
  <1>5. QED
    BY <1>2, <1>3, <1>4

LEMMA HttpErrorTyping ==
    ASSUME NEW k \in Session, k.draining
    PROVE  Answered(k, HttpError(k)) /\ HttpError(k).flight = <<>>
           /\ HttpError(k).connected = k.connected
  <1> DEFINE b == PutBack(k)
             l == [b EXCEPT !.retries = @ + 1, !.status = "unsynced"]
  <1>1. Answered(k, b) /\ b \in Session /\ b.flight = <<>> /\ b.draining = FALSE
        /\ b.connected = k.connected
    BY PutBackTyping DEF Answered
  <1> HIDE DEF b
  <1>2. l \in Session
    <2>1. b.retries \in Nat /\ b.retries + 1 \in Nat
      BY <1>1 DEF Session
    <2>2. QED
      BY <1>1, <2>1 DEF Session, SyncStatus
  <1>3. /\ l.connected = b.connected /\ l.draining = b.draining /\ l.flight = b.flight
        /\ l.queue = b.queue /\ l.saving = b.saving /\ l.log = b.log
    BY <1>1 DEF Session
  <1>4. HttpError(k) = IF k.stale THEN Landed(k) ELSE l
    BY DEF HttpError, b
  <1> HIDE DEF l
  <1>5. Answered(k, l) /\ l.flight = <<>> /\ l.connected = k.connected
    BY <1>1, <1>2, <1>3 DEF Answered, Acts
  <1>6. Answered(k, Landed(k)) /\ Landed(k).flight = <<>>
    BY LandedTyping DEF Answered
  <1>7. QED
    BY <1>4, <1>5, <1>6, LandedTyping

\* A handler that sets some flags and then processes the queue, or does not.
LEMMA FlagMoves ==
    ASSUME NEW k \in Session
    PROVE  /\ Moves(k, RetryTimer(k), {})
           /\ Moves(k, Resume(k), {})
           /\ Moves(k, SocketCloses(k), {}) /\ ~SocketCloses(k).connected
           /\ Moves(k, BeginOverwrite(k), {})
           /\ Moves(k, BeginForceSave(k), {})
           /\ Moves(k, ForceSaved(k), {})
           /\ Moves(k, FormFails(k), {}) /\ FormFails(k).connected = k.connected
           /\ Moves(k, Fork(k), {})
  <1> DEFINE a == [k EXCEPT !.timer = FALSE]
             b == [k EXCEPT !.resolving = FALSE]
             c == SocketCloses(k)
             d == BeginOverwrite(k)
             e == BeginForceSave(k)
             f == ForceSaved(k)
             g == FormFails(k)
             h == Fork(k)
             L == {a, b, c, d, e, f, g, h}
             Keeps(l) == /\ l.connected => k.connected
                         /\ l.draining = k.draining /\ l.flight = k.flight
                         /\ l.queue = k.queue /\ l.saving = k.saving /\ l.log = k.log
  <1>1. k.log \in Seq(Action) /\ Revision(k.log) \in Rev /\ NoRev \in Rev
    BY RevisionTyping DEF Session, Rev
  <1>2. a \in Session /\ b \in Session
    BY DEF Session
  <1>3. c \in Session /\ d \in Session /\ e \in Session
    BY DEF Session, SyncStatus, SocketCloses, BeginOverwrite, BeginForceSave
  <1>4. f \in Session /\ g \in Session /\ h \in Session
    BY <1>1 DEF Session, SyncStatus, ForceSaved, FormFails, Fork
  <1>5. \A l \in L : Keeps(l)
    <2>1. Keeps(a) /\ Keeps(b)
      BY DEF Session
    <2>2. Keeps(c) /\ Keeps(d) /\ Keeps(e)
      BY DEF Session, SocketCloses, BeginOverwrite, BeginForceSave
    <2>3. Keeps(f) /\ Keeps(g) /\ Keeps(h)
      BY DEF Session, ForceSaved, FormFails, Fork
    <2> HIDE DEF a, b, c, d, e, f, g, h, Keeps
    <2>4. QED
      BY <2>1, <2>2, <2>3
  <1>6. ~c.connected /\ g.connected = k.connected
    BY DEF Session, SocketCloses, FormFails
  <1>7. RetryTimer(k) = ProcessQueue(a) /\ Resume(k) = ProcessQueue(b)
    BY DEF RetryTimer, Resume
  <1> HIDE DEF a, b, c, d, e, f, g, h
  <1>8. \A l \in L : Moves(k, l, {})
    BY <1>2, <1>3, <1>4, <1>5, MovesLittle
  <1>9. Moves(a, ProcessQueue(a), {}) /\ Moves(b, ProcessQueue(b), {})
    BY <1>2, ProcessQueueMoves
  <1>10. Moves(k, ProcessQueue(a), {}) /\ Moves(k, ProcessQueue(b), {})
    BY <1>8, <1>9, MovesOn
  <1>11. QED
    BY <1>6, <1>7, <1>8, <1>10 DEF c, d, e, f, g, h

LEMMA SocketOpensTyping ==
    ASSUME NEW k \in Session
    PROVE  /\ SocketOpens(k) \in Session /\ SocketOpens(k).connected
           /\ SocketOpens(k).draining = k.draining /\ SocketOpens(k).flight = k.flight
           /\ SocketOpens(k).queue = k.queue /\ SocketOpens(k).saving = k.saving
           /\ SocketOpens(k).log = k.log
           /\ JoinRevision(k) \in Rev
  <1>1. SocketOpens(k) \in Session
    BY DEF SocketOpens, Session, SyncStatus
  <1>2. /\ SocketOpens(k).connected
        /\ SocketOpens(k).draining = k.draining /\ SocketOpens(k).flight = k.flight
        /\ SocketOpens(k).queue = k.queue /\ SocketOpens(k).saving = k.saving
        /\ SocketOpens(k).log = k.log
    BY DEF SocketOpens, Session
  <1>3. k.queue \in Seq(Queued) /\ k.last \in Rev
    BY DEF Session
  <1>4. k.queue # <<>> => Head(k.queue) \in Queued /\ Head(k.queue).base \in Rev
    <2>1. k.queue # <<>> => Head(k.queue) \in Queued
      BY <1>3
    <2>2. QED
      BY <2>1 DEF Queued
  <1>5. JoinRevision(k) \in Rev
    BY <1>3, <1>4 DEF JoinRevision
  <1>6. QED
    BY <1>1, <1>2, <1>5

\* The user's next action comes behind all others, and is saved.
LEMMA ActTyping ==
    ASSUME NEW k \in Session, NEW a \in Action
    PROVE  /\ Act(k, a) \in Session
           /\ Act(k, a).connected = k.connected
           /\ Act(k, a).draining = k.draining /\ Act(k, a).flight = k.flight
           /\ Act(k, a).log = Append(k.log, a)
           /\ Acts(Act(k, a)) \subseteq Acts(k) \cup {a}
  <1>1. /\ k.log \in Seq(Action) /\ k.saving \in Seq(Action)
        /\ Append(k.log, a) \in Seq(Action) /\ Append(k.saving, a) \in Seq(Action)
    BY DEF Session
  <1>2. Act(k, a) \in Session
    BY <1>1 DEF Act, Session
  <1>3. /\ Act(k, a).connected = k.connected
        /\ Act(k, a).draining = k.draining /\ Act(k, a).flight = k.flight
        /\ Act(k, a).queue = k.queue /\ Act(k, a).log = Append(k.log, a)
        /\ Act(k, a).saving = Append(k.saving, a)
    BY DEF Act, Session
  <1>4. /\ ToSet(Append(k.log, a)) = ToSet(k.log) \cup {a}
        /\ ToSet(Append(k.saving, a)) = ToSet(k.saving) \cup {a}
    BY <1>1, ToSetFacts
  <1>5. QED
    BY <1>2, <1>3, <1>4 DEF Acts

LEMMA OpenedTyping ==
    ASSUME NEW log \in Seq(Action)
    PROVE  /\ Opened(log) \in Session
           /\ ~Opened(log).connected /\ ~Opened(log).draining /\ Opened(log).flight = <<>>
           /\ Opened(log).log = log /\ Acts(Opened(log)) = ToSet(log)
  <1>1. Revision(log) \in Rev /\ {} \in SUBSET Action
        /\ <<>> \in Seq(Action) /\ <<>> \in Seq(Queued)
    BY RevisionTyping
  <1>2. Opened(log) \in Session
    BY <1>1 DEF Opened, Session, SyncStatus
  <1>3. /\ ~Opened(log).connected /\ ~Opened(log).draining /\ Opened(log).flight = <<>>
        /\ Opened(log).log = log /\ Opened(log).saving = <<>> /\ Opened(log).queue = <<>>
    BY DEF Opened
  <1>4. ToSet(<<>>) = {} /\ ActsIn(<<>>) = {}
    BY DEF ToSet, ActsIn
  <1>5. QED
    BY <1>2, <1>3, <1>4 DEF Acts

LEMMA SpacedPrefix ==
    ASSUME NEW log \in Seq(Action), NEW n \in 0..Len(log), Spaced(log)
    PROVE  Spaced(SubSeq(log, 1, n))
  <1>1. /\ Len(SubSeq(log, 1, n)) = n
        /\ \A i \in 1..n : SubSeq(log, 1, n)[i] = log[i] /\ i \in 1..Len(log)
    OBVIOUS
  <1>2. QED
    BY <1>1 DEF Spaced

\* What the browser's database holds is a prefix of the log.
LEMMA StoredTyping ==
    ASSUME NEW k \in Session, NEW log \in Stored(k)
    PROVE  /\ log \in Seq(Action) /\ ToSet(log) \subseteq ToSet(k.log)
           /\ Spaced(k.log) => Spaced(log)
  <1>1. k.log \in Seq(Action)
    BY DEF Session
  <1>2. PICK n \in 0..Len(k.log) : log = SubSeq(k.log, 1, n)
    BY DEF Stored, Prefixes
  <1>3. SubSeq(k.log, 1, n) \in Seq(Action) /\ 1 \in 1..Len(k.log) + 1
    BY <1>1
  <1>4. QED
    BY <1>1, <1>2, <1>3, ToSetParts, SpacedPrefix

LEMMA OverwriteTyping ==
    ASSUME NEW k \in Session, NEW log \in Seq(Action)
    PROVE  /\ Overwrite(k, log) \in Session
           /\ Overwrite(k, log).connected = k.connected
           /\ Overwrite(k, log).draining = k.draining /\ Overwrite(k, log).flight = k.flight
           /\ Overwrite(k, log).log = log
           /\ Acts(Overwrite(k, log)) \subseteq Acts(k) \cup ToSet(log)
  <1>1. Revision(log) \in Rev
    BY RevisionTyping
  <1>2. Overwrite(k, log) \in Session
    BY <1>1 DEF Overwrite, Session, SyncStatus
  <1>3. /\ Overwrite(k, log).connected = k.connected
        /\ Overwrite(k, log).draining = k.draining /\ Overwrite(k, log).flight = k.flight
        /\ Overwrite(k, log).queue = k.queue /\ Overwrite(k, log).saving = k.saving
        /\ Overwrite(k, log).log = log
    BY DEF Overwrite, Session
  <1>4. QED
    BY <1>2, <1>3 DEF Acts

-----------------------------------------------------------------------------
(* The browsers and the hub.                                               *)

HttpOK ==
    /\ http \in [Client -> [Kind -> HttpState]]
    /\ \A c \in Client : /\ http[c]["action"] \in ActionAnswer
                         /\ http[c]["document"] \in DocumentAnswer

BoundsOK ==
    /\ made \in [Client -> Nat]
    /\ \A c \in Client : made[c] <= Len(Own[c])
    /\ faults \in [DOMAIN FaultBound -> Nat]

\* The type invariant, strengthened to what the steps rely on.
TypeInv == TypeOK /\ HttpOK /\ proposing.type \in {"none", "action", "save"}

-----------------------------------------------------------------------------
(* A call and its answer.                                                  *)

Batch(k) == [i \in 1..Len(k.flight) |-> k.flight[i].act]

\* r carries the batch that client c is waiting for.
CallOf(r, c) == r.type = "action" /\ r.client = c /\ r.live

\* Client c with session k waits for one batch at most, h is what became of
\* it, and of the channel and Propose no more than one request the hub could
\* answer carries it; what is answered with ACK is done.
CallOK(c, k, h, channel, proposal, done) ==
    /\ ~k.draining => k.flight = <<>>
    /\ h # Unsent => k.flight # <<>>
    /\ \A i \in 1..Len(channel) : CallOf(channel[i], c) =>
          /\ h = Taken
          /\ channel[i].acts = Batch(k)
          /\ ~CallOf(proposal, c)
          /\ \A j \in 1..Len(channel) : CallOf(channel[j], c) => j = i
    /\ CallOf(proposal, c) => h = Taken /\ proposal.acts = Batch(k)
    /\ h = Ack => ToSet(Batch(k)) \subseteq done

CallInv(c) ==
    CallOK(c, client[c], http[c]["action"], requests, proposing, committed)

\* Whatever log the hub decides on, its actions are committed.
HubInv ==
    /\ ToSet(store) \subseteq committed
    /\ gameData # NotLoaded => ToSet(gameData) \subseteq committed
    /\ \A i \in 1..Len(requests) : requests[i].type = "broadcast" =>
          ToSet(requests[i].log) \subseteq committed

SyncInv == TypeInv /\ HubInv /\ \A c \in Client : CallInv(c)

-----------------------------------------------------------------------------
(* Requests, answers and the channel.                                      *)

LEMMA RequestTyping ==
    ASSUME NEW r \in Request
    PROVE  /\ r.type \in {"join", "action", "load", "save", "broadcast"}
           /\ r.type # "broadcast" => /\ r.client \in Client /\ r.live \in BOOLEAN
                                      /\ [r EXCEPT !.live = FALSE] \in Request
                                      /\ [r EXCEPT !.live = FALSE].type = r.type
                                      /\ [r EXCEPT !.live = FALSE].client = r.client
                                      /\ [r EXCEPT !.live = FALSE].live = FALSE
           /\ r.type \in {"join", "action"} => r.base \in Rev
           /\ r.type = "action" => /\ r.acts \in Seq(Action)
                                   /\ [r EXCEPT !.live = FALSE].acts = r.acts
           /\ r.type = "save" => /\ r.log \in Seq(Action)
                                 /\ [r EXCEPT !.live = FALSE].log = r.log
           /\ r.type = "broadcast" => r.log \in Seq(Action) /\ r.num \in Nat
  <1>1. CASE r \in [type : {"join"}, client : Client, base : Rev, live : BOOLEAN]
    BY <1>1 DEF Request
  <1>2. CASE r \in [type : {"action"}, client : Client, base : Rev,
                    acts : Seq(Action), live : BOOLEAN]
    BY <1>2 DEF Request
  <1>3. CASE r \in [type : {"load"}, client : Client, live : BOOLEAN]
    BY <1>3 DEF Request
  <1>4. CASE r \in [type : {"save"}, client : Client, log : Seq(Action), live : BOOLEAN]
    BY <1>4 DEF Request
  <1>5. CASE r \in [type : {"broadcast"}, log : Seq(Action), num : Nat]
    BY <1>5
  <1>6. QED
    BY <1>1, <1>2, <1>3, <1>4, <1>5 DEF Request

\* r was s before the client went away: the same but for who waits for it.
Left(s, r, types, c) ==
    /\ r \in Request /\ r.type = s.type
    /\ r.type \in {"save", "broadcast"} => r.log = s.log
    /\ r.type = "action" => r.acts = s.acts
    /\ r.type # "broadcast" => r.client = s.client
    /\ \A d \in Client : CallOf(r, d) <=> CallOf(s, d) /\ ~("action" \in types /\ d = c)

LEMMA LeftIs ==
    ASSUME NEW s \in Request, NEW types, "broadcast" \notin types, NEW c \in Client
    PROVE  Left(s, IF s.type \in types /\ s.client = c THEN [s EXCEPT !.live = FALSE] ELSE s,
                types, c)
  <1> DEFINE q == [s EXCEPT !.live = FALSE]
  <1>1. CASE s.type \in types /\ s.client = c
    <2>1. /\ q \in Request /\ q.type = s.type /\ q.client = s.client /\ q.live = FALSE
          /\ s.type = "action" => q.acts = s.acts
          /\ s.type = "save" => q.log = s.log
          /\ s.type # "broadcast"
      BY <1>1, RequestTyping
    <2> HIDE DEF q
    <2>2. Left(s, q, types, c)
      BY <1>1, <2>1 DEF Left, CallOf
    <2>3. QED
      BY <1>1, <2>2 DEF q
  <1>2. CASE ~(s.type \in types /\ s.client = c)
    <2>1. Left(s, s, types, c)
      BY <1>2 DEF Left, CallOf
    <2>2. QED
      BY <1>2, <2>1
  <1>3. QED
    BY <1>1, <1>2

LEMMA OrphanedIs ==
    ASSUME requests \in Seq(Request), NEW types, "broadcast" \notin types, NEW c \in Client
    PROVE  /\ Orphaned(types, c) \in Seq(Request)
           /\ Len(Orphaned(types, c)) = Len(requests)
           /\ \A i \in 1..Len(requests) :
                 Left(requests[i], Orphaned(types, c)[i], types, c)
  <1> DEFINE o == Orphaned(types, c)
  <1>1. \A i \in 1..Len(requests) :
           o[i] = IF requests[i].type \in types /\ requests[i].client = c
                  THEN [requests[i] EXCEPT !.live = FALSE] ELSE requests[i]
    <2>1. DOMAIN requests = 1..Len(requests)
      OBVIOUS
    <2>2. QED
      BY <2>1 DEF Orphaned
  <1>2. DOMAIN o = 1..Len(requests) /\ o = [i \in 1..Len(requests) |-> o[i]]
    BY DEF Orphaned
  <1> HIDE DEF o
  <1>3. \A i \in 1..Len(requests) : Left(requests[i], o[i], types, c)
    <2> SUFFICES ASSUME NEW i \in 1..Len(requests) PROVE Left(requests[i], o[i], types, c)
      OBVIOUS
    <2>1. requests[i] \in Request
      OBVIOUS
    <2>2. QED
      BY <1>1, <2>1, LeftIs
  <1>4. \A i \in 1..Len(requests) : o[i] \in Request
    BY <1>3 DEF Left
  <1>5. o \in Seq(Request) /\ Len(o) = Len(requests)
    BY <1>2, <1>4
  <1>6. QED
    BY <1>3, <1>5 DEF o

LEMMA OrphanedProposalIs ==
    ASSUME proposing \in Request \cup {Nothing}, NEW types, "none" \notin types,
           "broadcast" \notin types, NEW c \in Client
    PROVE  LET p == OrphanedProposal(types, c)
           IN  IF proposing = Nothing THEN p = Nothing ELSE Left(proposing, p, types, c)
  <1>1. CASE proposing = Nothing
    BY <1>1 DEF OrphanedProposal, Nothing
  <1>2. CASE proposing # Nothing
    BY <1>2, LeftIs DEF OrphanedProposal
  <1>3. QED
    BY <1>1, <1>2

AnswerFor(k) == IF k = "action" THEN ActionAnswer ELSE DocumentAnswer

LEMMA AnswersAreStates == ActionAnswer \subseteq HttpState /\ DocumentAnswer \subseteq HttpState
  BY DEF ActionAnswer, DocumentAnswer, HttpState

SetsHttp(c, k, m) == http' = [http EXCEPT ![c][k] = m]

LEMMA HttpSet ==
    ASSUME HttpOK, NEW c \in Client, NEW k \in Kind, NEW m,
           m \in AnswerFor(k), SetsHttp(c, k, m)
    PROVE  /\ HttpOK'
           /\ http'[c][k] = m
           /\ \A d \in Client, j \in Kind : d # c \/ j # k => http'[d][j] = http[d][j]
  <1>1. m \in HttpState
    BY AnswersAreStates DEF Kind, AnswerFor
  <1>2. http' \in [Client -> [Kind -> HttpState]]
    BY <1>1 DEF HttpOK, SetsHttp
  <1>3. http'[c][k] = m
    BY DEF HttpOK, SetsHttp
  <1>4. \A d \in Client, j \in Kind : d # c \/ j # k => http'[d][j] = http[d][j]
    BY DEF HttpOK, SetsHttp
  <1>5. "action" \in Kind /\ "document" \in Kind /\ "action" # "document"
    BY DEF Kind
  <1>6. ASSUME NEW d \in Client
        PROVE  http'[d]["action"] \in ActionAnswer /\ http'[d]["document"] \in DocumentAnswer
    <2>1. http[d]["action"] \in ActionAnswer /\ http[d]["document"] \in DocumentAnswer
      BY DEF HttpOK
    <2>2. http'[d]["action"] \in ActionAnswer
      BY <1>3, <1>4, <1>5, <2>1 DEF AnswerFor
    <2>3. http'[d]["document"] \in DocumentAnswer
      BY <1>3, <1>4, <1>5, <2>1 DEF AnswerFor, Kind
    <2>4. QED
      BY <2>2, <2>3
  <1>7. QED
    BY <1>2, <1>3, <1>4, <1>6 DEF HttpOK

\* An answer reaches the client that waits for it, and nobody else.
LEMMA AnswerSets ==
    ASSUME HttpOK, NEW r, r.live \in BOOLEAN, r.client \in Client, NEW k \in Kind, NEW m,
           m \in AnswerFor(k),
           Answer(r, k, m)
    PROVE  /\ HttpOK'
           /\ \A d \in Client, j \in Kind :
                 http'[d][j] = IF r.live /\ d = r.client /\ j = k THEN m ELSE http[d][j]
  <1>1. CASE r.live
    <2>1. SetsHttp(r.client, k, m)
      BY <1>1 DEF Answer, SetsHttp
    <2>2. /\ HttpOK' /\ http'[r.client][k] = m
          /\ \A d \in Client, j \in Kind : d # r.client \/ j # k => http'[d][j] = http[d][j]
      BY <2>1, HttpSet
    <2>3. QED
      BY <1>1, <2>2
  <1>2. CASE ~r.live
    <2>1. http' = http
      BY <1>2 DEF Answer
    <2>2. QED
      BY <1>2, <2>1 DEF HttpOK
  <1>3. QED
    BY <1>1, <1>2

LEMMA ExtendedIs ==
    ASSUME NEW log \in Seq(Action), NEW acts \in Seq(Action)
    PROVE  /\ Extended(log, acts) \in Seq(Action)
           /\ ToSet(log) \cup ToSet(acts) = ToSet(Extended(log, acts))
           /\ Spaced(log) => Spaced(Extended(log, acts))
  <1> DEFINE g == [Fresh EXCEPT !.log = log]
             f == AfterActions(g, acts)
             n == Len(acts)
             Done(i) == {acts[j] : j \in 1..i}
             S == {i \in Nat : i <= n => /\ ToSet(f[i].log) = ToSet(log) \cup Done(i)
                                         /\ Spaced(log) => Spaced(f[i].log)}
  <1>1. g \in Game /\ g.log = log
    BY FreshTombstone DEF Game
  <1>2. f[0] = g /\ \A i \in 1..n : f[i] = ApplyAction(f[i - 1], acts[i])
    BY AfterActionsDef
  <1>3. \A i \in 0..n : f[i] \in Game
    BY <1>1, AfterActionsTyping
  <1>4. n \in Nat
    OBVIOUS
  <1> HIDE DEF f, g
  <1>5. 0 \in S
    BY <1>1, <1>2
  <1>6. ASSUME NEW i \in Nat, i \in S PROVE i + 1 \in S
    <2> SUFFICES ASSUME i + 1 <= n
                 PROVE  /\ ToSet(f[i + 1].log) = ToSet(log) \cup Done(i + 1)
                        /\ Spaced(log) => Spaced(f[i + 1].log)
      OBVIOUS
    <2>1. /\ ToSet(f[i].log) = ToSet(log) \cup Done(i)
          /\ Spaced(log) => Spaced(f[i].log)
      BY <1>4, <1>6
    <2>2. i + 1 \in 1..n /\ i \in 0..n /\ acts[i + 1] \in Action
      BY <1>4
    <2>3. f[i + 1] = ApplyAction(f[i], acts[i + 1])
      BY <1>2, <2>2
    <2>4. f[i] \in Game /\ f[i].log \in Seq(Action)
      BY <1>3, <2>2 DEF Game
    <2>5. f[i + 1].log = IF acts[i + 1] \in Recent(f[i].log)
                         THEN f[i].log ELSE Append(f[i].log, acts[i + 1])
      BY <2>2, <2>3, <2>4, ApplyActionTyping
    <2>6. Done(i + 1) = Done(i) \cup {acts[i + 1]}
      <3>1. 1..i + 1 = (1..i) \cup {i + 1}
        OBVIOUS
      <3>2. QED
        BY <3>1
    <2> HIDE DEF Done
    <2>7. CASE acts[i + 1] \in Recent(f[i].log)
      <3>1. acts[i + 1] \in ToSet(f[i].log)
        BY <2>4, <2>7 DEF Recent, ToSet
      <3>2. QED
        BY <2>1, <2>5, <2>6, <2>7, <3>1
    <2>8. CASE acts[i + 1] \notin Recent(f[i].log)
      <3>1. ToSet(Append(f[i].log, acts[i + 1])) = ToSet(f[i].log) \cup {acts[i + 1]}
        BY <2>2, <2>4, ToSetFacts
      <3>2. Spaced(f[i].log) => Spaced(Append(f[i].log, acts[i + 1]))
        BY <2>2, <2>4, <2>8, AppendSpaced
      <3>3. QED
        BY <2>1, <2>5, <2>6, <2>8, <3>1, <3>2
    <2>9. QED
      BY <2>7, <2>8
  <1> HIDE DEF S, Done
  <1>7. \A i \in Nat : i \in S
    BY <1>5, <1>6, SetInduction
  <1>8. n \in S /\ n \in 0..n
    BY <1>4, <1>7
  <1>9. /\ ToSet(f[n].log) = ToSet(log) \cup Done(n)
        /\ Spaced(log) => Spaced(f[n].log)
        /\ f[n].log \in Seq(Action)
    BY <1>3, <1>4, <1>8 DEF S, Game
  <1>10. Done(n) = ToSet(acts)
    BY DEF Done, ToSet
  <1>11. Extended(log, acts) = f[n].log
    BY DEF Extended, f, g
  <1>12. QED
    BY <1>9, <1>10, <1>11

-----------------------------------------------------------------------------
(* What keeps a call and its answer together.                              *)

LEMMA CallDropped ==
    ASSUME NEW c, NEW k, NEW h, NEW q \in Seq(Request), NEW p, NEW done,
           CallOK(c, k, h, q, p, done), q # <<>>
    PROVE  CallOK(c, k, h, Tail(q), p, done)
  <1>1. /\ Len(Tail(q)) = Len(q) - 1 /\ Len(q) \in Nat
        /\ \A i \in 1..Len(Tail(q)) : Tail(q)[i] = q[i + 1] /\ i + 1 \in 1..Len(q)
    OBVIOUS
  <1> DEFINE t == Tail(q)
  <1>2. ASSUME NEW i \in 1..Len(t), CallOf(t[i], c)
        PROVE  /\ h = Taken /\ t[i].acts = Batch(k) /\ ~CallOf(p, c)
               /\ \A j \in 1..Len(t) : CallOf(t[j], c) => j = i
    BY <1>1, <1>2 DEF CallOK
  <1>3. QED
    BY <1>2 DEF CallOK

\* The first request becomes the proposal.
LEMMA CallProposed ==
    ASSUME NEW c, NEW k, NEW h, NEW q \in Seq(Request), NEW p, NEW done,
           CallOK(c, k, h, q, p, done), q # <<>>, ~CallOf(p, c)
    PROVE  CallOK(c, k, h, Tail(q), Head(q), done)
  <1>1. /\ Len(Tail(q)) = Len(q) - 1 /\ Len(q) \in Nat /\ 1 \in 1..Len(q) /\ Head(q) = q[1]
        /\ \A i \in 1..Len(Tail(q)) : Tail(q)[i] = q[i + 1] /\ i + 1 \in 1..Len(q) /\ i + 1 # 1
    OBVIOUS
  <1> DEFINE t == Tail(q)
  <1>2. ASSUME NEW i \in 1..Len(t), CallOf(t[i], c)
        PROVE  /\ h = Taken /\ t[i].acts = Batch(k) /\ ~CallOf(Head(q), c)
               /\ \A j \in 1..Len(t) : CallOf(t[j], c) => j = i
    BY <1>1, <1>2 DEF CallOK
  <1>3. CallOf(Head(q), c) => h = Taken /\ Head(q).acts = Batch(k)
    BY <1>1 DEF CallOK
  <1>4. QED
    BY <1>2, <1>3 DEF CallOK

\* The first request is answered.
LEMMA CallAnswered ==
    ASSUME NEW c, NEW k, NEW h, NEW q \in Seq(Request), NEW p, NEW done,
           CallOK(c, k, h, q, p, done), q # <<>>, CallOf(Head(q), c),
           NEW m, m = Ack => ToSet(Head(q).acts) \subseteq done, m # Unsent
    PROVE  CallOK(c, k, m, Tail(q), p, done)
  <1>1. /\ Len(Tail(q)) = Len(q) - 1 /\ Len(q) \in Nat /\ 1 \in 1..Len(q) /\ Head(q) = q[1]
        /\ \A i \in 1..Len(Tail(q)) : Tail(q)[i] = q[i + 1] /\ i + 1 \in 1..Len(q) /\ i + 1 # 1
    OBVIOUS
  <1>2. h = Taken /\ Head(q).acts = Batch(k) /\ ~CallOf(p, c)
    BY <1>1 DEF CallOK
  <1>3. \A i \in 1..Len(Tail(q)) : ~CallOf(Tail(q)[i], c)
    BY <1>1 DEF CallOK
  <1>4. h # Unsent
    BY <1>2, NetMsgs
  <1>5. QED
    BY <1>2, <1>3, <1>4 DEF CallOK

\* The proposal is answered.
LEMMA ProposalAnswered ==
    ASSUME NEW c, NEW k, NEW h, NEW q \in Seq(Request), NEW p, NEW done, NEW more,
           CallOK(c, k, h, q, p, done), CallOf(p, c), ToSet(p.acts) \subseteq more
    PROVE  CallOK(c, k, Ack, q, Nothing, more)
  <1>1. h = Taken /\ p.acts = Batch(k) /\ h # Unsent /\ ~CallOf(Nothing, c) /\ Ack # Unsent
    BY NetMsgs DEF CallOK, CallOf, Nothing
  <1>2. \A i \in 1..Len(q) : ~CallOf(q[i], c)
    BY DEF CallOK
  <1>3. QED
    BY <1>1, <1>2 DEF CallOK

\* No call of c: somebody else's proposal ends, and more is committed.
LEMMA ProposalEnds ==
    ASSUME NEW c, NEW k, NEW h, NEW q, NEW p, NEW done, NEW more,
           CallOK(c, k, h, q, p, done), ~CallOf(p, c), done \subseteq more
    PROVE  CallOK(c, k, h, q, Nothing, more)
  BY DEF CallOK, CallOf, Nothing

\* Another request comes in.
LEMMA CallWaits ==
    ASSUME NEW c, NEW k, NEW h, NEW q \in Seq(Request), NEW p, NEW done,
           CallOK(c, k, h, q, p, done), NEW r \in Request, ~CallOf(r, c)
    PROVE  CallOK(c, k, h, Append(q, r), p, done)
  <1> DEFINE a == Append(q, r)
  <1>1. /\ Len(a) = Len(q) + 1 /\ Len(q) \in Nat /\ a[Len(q) + 1] = r
        /\ \A i \in 1..Len(q) : a[i] = q[i]
    OBVIOUS
  <1> HIDE DEF a
  <1>2. \A i \in 1..Len(a) : CallOf(a[i], c) => i \in 1..Len(q) /\ a[i] = q[i]
    BY <1>1
  <1>3. CallOK(c, k, h, a, p, done)
    BY <1>2 DEF CallOK
  <1>4. QED
    BY <1>3 DEF a

\* The call itself comes in.
LEMMA CallTaken ==
    ASSUME NEW c, NEW k, NEW q \in Seq(Request), NEW p, NEW done,
           CallOK(c, k, Unsent, q, p, done), NEW r \in Request,
           r.acts = Batch(k), k.flight # <<>>
    PROVE  CallOK(c, k, Taken, Append(q, r), p, done)
  <1> DEFINE a == Append(q, r)
  <1>1. /\ Len(a) = Len(q) + 1 /\ Len(q) \in Nat /\ a[Len(q) + 1] = r
        /\ \A i \in 1..Len(q) : a[i] = q[i]
    OBVIOUS
  <1> HIDE DEF a
  <1>2. Unsent # Taken /\ Taken # Ack
    BY NetMsgs
  <1>3. ~CallOf(p, c) /\ \A i \in 1..Len(q) : ~CallOf(q[i], c)
    BY <1>2 DEF CallOK
  <1>4. \A i \in 1..Len(a) : CallOf(a[i], c) => i = Len(q) + 1 /\ a[i] = r
    BY <1>1, <1>3
  <1>5. CallOK(c, k, Taken, a, p, done)
    BY <1>2, <1>3, <1>4 DEF CallOK
  <1>6. QED
    BY <1>5 DEF a

LEMMA CallRefused ==
    ASSUME NEW c, NEW k, NEW q, NEW p, NEW done,
           CallOK(c, k, Unsent, q, p, done), k.flight # <<>>
    PROVE  CallOK(c, k, Busy, q, p, done)
  BY NetMsgs DEF CallOK

\* Nobody waits for some of the requests any more.
LEMMA CallLeft ==
    ASSUME NEW c \in Client, NEW k, NEW h, NEW q, NEW p, NEW done,
           CallOK(c, k, h, q, p, done), NEW d, NEW types, NEW a, Len(a) = Len(q),
           \A i \in 1..Len(q) : Left(q[i], a[i], types, d)
    PROVE  CallOK(c, k, h, a, p, done)
  <1>1. \A i \in 1..Len(a) : CallOf(a[i], c) => CallOf(q[i], c) /\ a[i].acts = q[i].acts
    BY DEF Left, CallOf
  <1>2. QED
    BY <1>1 DEF CallOK

LEMMA ProposalLeft ==
    ASSUME NEW c \in Client, NEW k, NEW h, NEW q, NEW p, NEW done,
           CallOK(c, k, h, q, p, done), NEW d, NEW types, NEW a,
           a = p \/ Left(p, a, types, d)
    PROVE  CallOK(c, k, h, q, a, done)
  <1>1. CallOf(a, c) => CallOf(p, c) /\ a.acts = p.acts
    BY DEF Left, CallOf
  <1>2. QED
    BY <1>1 DEF CallOK

LEMMA CallsGone ==
    ASSUME NEW c, NEW k, NEW q, NEW p, NEW done, ~k.draining => k.flight = <<>>,
           \A i \in 1..Len(q) : ~CallOf(q[i], c), ~CallOf(p, c)
    PROVE  CallOK(c, k, Unsent, q, p, done)
  BY NetMsgs DEF CallOK

\* The session moves on.
LEMMA CallMoves ==
    ASSUME NEW c, NEW k, NEW h, NEW q, NEW p, NEW done,
           CallOK(c, k, h, q, p, done), NEW l,
           k.draining => l.draining /\ l.flight = k.flight,
           ~k.draining => l.draining \/ l.flight = k.flight
    PROVE  CallOK(c, l, h, q, p, done)
  <1>1. CASE k.draining
    BY <1>1 DEF CallOK, Batch
  <1>2. CASE ~k.draining
    <2>1. h = Unsent /\ h # Taken /\ h # Ack
      BY <1>2, NetMsgs DEF CallOK
    <2>2. QED
      BY <1>2, <2>1 DEF CallOK
  <1>3. QED
    BY <1>1, <1>2

\* The answer has come: no request is left that could be answered again.
LEMMA CallOver ==
    ASSUME NEW c, NEW k, NEW h, NEW q, NEW p, NEW done,
           CallOK(c, k, h, q, p, done), h # Taken, NEW l, ~l.draining => l.flight = <<>>
    PROVE  CallOK(c, l, Unsent, q, p, done)
  BY NetMsgs DEF CallOK

-----------------------------------------------------------------------------
(* A step of a browser.                                                    *)

LEMMA SessionChanges ==
    ASSUME TypeInv, NEW c \in Client, NEW k \in Session, NEW inbox,
           Session1(c, k, inbox)
    PROVE  /\ client'[c] = k
           /\ \A d \in Client : d # c => client'[d] = client[d]
           /\ client' \in [Client -> Session]
           /\ requests' \in {requests, Orphaned({"join"}, c)}
           /\ requests' \in Seq(Request) /\ Len(requests') = Len(requests)
           /\ \A i \in 1..Len(requests) : Left(requests[i], requests'[i], {"join"}, c)
  <1>1. client \in [Client -> Session] /\ requests \in Seq(Request)
    BY DEF TypeInv, TypeOK, ClientTypeOK, HubTypeOK
  <1>2. /\ client'[c] = k /\ client' \in [Client -> Session]
        /\ \A d \in Client : d # c => client'[d] = client[d]
    BY <1>1 DEF Session1
  <1>3. requests' \in {requests, Orphaned({"join"}, c)}
    BY DEF Session1
  <1>4. CASE requests' = Orphaned({"join"}, c)
    BY <1>1, <1>2, <1>3, <1>4, OrphanedIs
  <1>5. CASE requests' = requests
    <2>1. \A i \in 1..Len(requests) : Left(requests[i], requests[i], {"join"}, c)
      BY <1>1, RequestTyping DEF Left, CallOf
    <2>2. QED
      BY <1>1, <1>2, <1>5, <2>1
  <1>6. QED
    BY <1>3, <1>4, <1>5

LEMMA BrowserTypeInv ==
    ASSUME TypeInv, NEW c \in Client, NEW k \in Session, NEW inbox \in Seq(WsMsg),
           k.connected => client[c].connected,
           Session1(c, k, inbox), UNCHANGED quiet, HttpOK', BoundsOK'
    PROVE  TypeInv'
  <1>1. /\ ws \in [Client -> Seq(WsMsg)] /\ up \in [Client -> Seq(Rev)]
        /\ members \subseteq Client /\ client \in [Client -> Session]
        /\ \A d \in Client : d \in members <=> client[d].connected
        /\ Len(requests) <= QueueCap
    BY DEF TypeInv, TypeOK, NetTypeOK, HubTypeOK, ClientTypeOK
  <1>2. /\ client'[c] = k /\ client' \in [Client -> Session]
        /\ \A d \in Client : d # c => client'[d] = client[d]
        /\ requests' \in Seq(Request) /\ Len(requests') = Len(requests)
    BY SessionChanges
  <1>3. ws' \in [Client -> Seq(WsMsg)] /\ up' \in [Client -> Seq(Rev)]
    <2>1. <<>> \in Seq(WsMsg) /\ <<>> \in Seq(Rev)
      OBVIOUS
    <2>2. QED
      BY <1>1, <2>1 DEF Session1
  <1>4. members' \subseteq Client /\ \A d \in Client : d \in members' <=> client'[d].connected
    <2>1. CASE client[c].connected /\ ~k.connected
      BY <1>1, <1>2, <2>1 DEF Session1
    <2>2. CASE ~(client[c].connected /\ ~k.connected)
      <3>1. members' = members
        BY <2>2 DEF Session1
      <3>2. client'[c].connected <=> client[c].connected
        BY <1>2, <2>2
      <3>3. QED
        BY <1>1, <1>2, <3>1, <3>2
    <2>3. QED
      BY <2>1, <2>2
  <1>5. NetTypeOK'
    BY <1>3 DEF NetTypeOK, HttpOK
  <1>6. HubTypeOK'
    BY <1>1, <1>2, <1>4 DEF TypeInv, TypeOK, HubTypeOK, quiet
  <1>7. TypeOK'
    BY <1>2, <1>4, <1>5, <1>6 DEF TypeOK, ClientTypeOK, BoundsOK
  <1>8. QED
    BY <1>7 DEF TypeInv, quiet

\* A step of a browser that keeps its own call in order keeps everything.
LEMMA BrowserSyncInv ==
    ASSUME SyncInv, NEW c \in Client, NEW k \in Session, NEW inbox \in Seq(WsMsg),
           k.connected => client[c].connected,
           Session1(c, k, inbox), UNCHANGED quiet, HttpOK', BoundsOK',
           CallOK(c, k, http'[c]["action"], requests, proposing, committed),
           \A d \in Client : d # c => http'[d]["action"] = http[d]["action"]
    PROVE  SyncInv'
  <1>1. TypeInv
    BY DEF SyncInv
  <1>2. TypeInv'
    BY <1>1, BrowserTypeInv
  <1>3. /\ client'[c] = k
        /\ \A d \in Client : d # c => client'[d] = client[d]
        /\ requests' \in Seq(Request) /\ Len(requests') = Len(requests)
        /\ \A i \in 1..Len(requests) : Left(requests[i], requests'[i], {"join"}, c)
    BY <1>1, SessionChanges
  <1>4. HubInv'
    <2>1. HubInv
      BY DEF SyncInv
    <2>2. \A i \in 1..Len(requests') : requests'[i].type = "broadcast" =>
            requests[i].type = "broadcast" /\ requests'[i].log = requests[i].log
      BY <1>3 DEF Left
    <2>3. UNCHANGED <<store, gameData, committed>>
      BY DEF quiet
    <2>4. QED
      BY <1>3, <2>1, <2>2, <2>3 DEF HubInv
  <1>5. ASSUME NEW d \in Client PROVE CallInv(d)'
    <2>1. CallOK(d, client'[d], http'[d]["action"], requests, proposing, committed)
      <3>1. CASE d = c
        BY <1>3, <3>1
      <3>2. CASE d # c
        BY <1>3, <3>2 DEF SyncInv, CallInv
      <3>3. QED
        BY <3>1, <3>2
    <2>2. CallOK(d, client'[d], http'[d]["action"], requests', proposing, committed)
      BY <1>3, <2>1, CallLeft
    <2>3. QED
      BY <2>2 DEF CallInv, quiet
  <1>6. QED
    BY <1>2, <1>4, <1>5 DEF SyncInv

\* The session moves on and no call has come back.
LEMMA QuietSyncInv ==
    ASSUME SyncInv, NEW c \in Client, NEW k \in Session, NEW inbox \in Seq(WsMsg),
           k.connected => client[c].connected,
           client[c].draining => k.draining /\ k.flight = client[c].flight,
           ~client[c].draining => k.draining \/ k.flight = client[c].flight,
           Session1(c, k, inbox), UNCHANGED <<quiet, http>>, BoundsOK'
    PROVE  SyncInv'
  <1>1. HttpOK /\ HttpOK'
    BY DEF SyncInv, TypeInv, HttpOK
  <1>2. CallOK(c, client[c], http[c]["action"], requests, proposing, committed)
    BY DEF SyncInv, CallInv
  <1>3. CallOK(c, k, http[c]["action"], requests, proposing, committed)
    BY <1>2, CallMoves
  <1>4. QED
    BY <1>1, <1>3, BrowserSyncInv

LEMMA MovesSyncInv ==
    ASSUME SyncInv, NEW c \in Client, NEW k, NEW S, Moves(client[c], k, S),
           Steps(c, k), UNCHANGED <<quiet, http>>, BoundsOK'
    PROVE  SyncInv'
  <1>1. ws[c] \in Seq(WsMsg)
    BY DEF SyncInv, TypeInv, TypeOK, NetTypeOK
  <1>2. /\ k \in Session /\ (k.connected => client[c].connected)
        /\ client[c].draining => k.draining /\ k.flight = client[c].flight
        /\ ~client[c].draining => k.draining \/ k.flight = client[c].flight
    BY DEF Moves
  <1>3. Session1(c, k, ws[c])
    BY DEF Steps
  <1>4. QED
    BY <1>1, <1>2, <1>3, QuietSyncInv

LEMMA BoundsStay ==
    ASSUME SyncInv
    PROVE  /\ UNCHANGED <<made, faults>> => BoundsOK'
           /\ \A f \in {"drop", "fail", "reload"} :
                 UNCHANGED made /\ Fault(f) => BoundsOK'
  <1>1. BoundsOK
    BY DEF SyncInv, TypeInv, TypeOK, BoundsOK
  <1>2. UNCHANGED <<made, faults>> => BoundsOK'
    BY <1>1 DEF BoundsOK
  <1>3. ASSUME NEW f \in {"drop", "fail", "reload"}, UNCHANGED made, Fault(f)
        PROVE  BoundsOK'
    <2> DEFINE B == {"drop", "fail", "reload"}
    <2>1. DOMAIN FaultBound = B
      BY DEF FaultBound
    <2>2. faults' = [faults EXCEPT ![f] = @ + 1] /\ faults \in [B -> Nat] /\ f \in B
      BY <1>1, <1>3, <2>1 DEF Fault, BoundsOK
    <2>3. faults' \in [B -> Nat]
      <3> HIDE DEF B
      <3>1. faults[f] + 1 \in Nat
        BY <2>2
      <3>2. QED
        BY <2>2, <3>1
    <2>4. QED
      BY <1>1, <1>3, <2>1, <2>3 DEF BoundsOK
  <1>4. QED
    BY <1>2, <1>3

LEMMA UserActsSafe ==
    ASSUME SyncInv, NEW c \in Client, UserActs(c) PROVE SyncInv'
  <1>1. /\ client[c] \in Session /\ ws[c] \in Seq(WsMsg)
        /\ made \in [Client -> Nat] /\ \A d \in Client : made[d] <= Len(Own[d])
        /\ faults \in [DOMAIN FaultBound -> Nat]
    BY DEF SyncInv, TypeInv, TypeOK, ClientTypeOK, NetTypeOK
  <1>2. Own[c] \in Seq(Action) /\ Len(Own[c]) \in Nat
    BY GameSyncAssumption
  <1>3. made[c] \in Nat /\ made[c] < Len(Own[c])
    BY <1>1 DEF UserActs
  <1>4. Own[c][made[c] + 1] \in Action
    BY <1>2, <1>3
  <1> DEFINE k == Act(client[c], Own[c][made[c] + 1])
  <1>5. /\ k \in Session /\ k.connected = client[c].connected
        /\ k.draining = client[c].draining /\ k.flight = client[c].flight
    BY <1>1, <1>4, ActTyping
  <1>6. made' = [made EXCEPT ![c] = @ + 1] /\ UNCHANGED <<quiet, http>> /\ faults' = faults
    BY DEF UserActs
  <1>7. BoundsOK'
    <2>1. made[c] + 1 \in Nat /\ made[c] + 1 <= Len(Own[c])
      BY <1>2, <1>3
    <2>2. made' \in [Client -> Nat] /\ \A d \in Client : made'[d] <= Len(Own[d])
      BY <1>1, <1>6, <2>1
    <2>3. QED
      BY <1>1, <1>6, <2>2 DEF BoundsOK
  <1>8. Session1(c, k, ws[c])
    BY DEF UserActs, Steps
  <1>9. QED
    <2> HIDE DEF k
    <2> QED
      BY <1>1, <1>5, <1>6, <1>7, <1>8, QuietSyncInv

\* The steps that run one handler and send nothing over HTTP.
LEMMA HandlersSafe ==
    ASSUME SyncInv, NEW c \in Client,
           \/ ActionSaved(c) \/ RetryFires(c) \/ ResolvingEnds(c) \/ Drops(c)
           \/ ChoosesOverwrite(c) \/ ChoosesForceSave(c) \/ ChoosesFork(c)
    PROVE  SyncInv'
  <1>1. client[c] \in Session
    BY DEF SyncInv, TypeInv, TypeOK, ClientTypeOK
  <1>2. CASE ActionSaved(c)
    <2>1. Moves(client[c], SendAction(client[c]), {})
      BY <1>1, <1>2, SendActionMoves DEF ActionSaved
    <2>2. Steps(c, SendAction(client[c])) /\ UNCHANGED <<quiet, http>> /\ BoundsOK'
      BY <1>2, BoundsStay DEF ActionSaved
    <2>3. QED
      BY <2>1, <2>2, MovesSyncInv
  <1>3. CASE RetryFires(c)
    <2>1. Moves(client[c], RetryTimer(client[c]), {})
      BY <1>1, FlagMoves
    <2>2. Steps(c, RetryTimer(client[c])) /\ UNCHANGED <<quiet, http>> /\ BoundsOK'
      BY <1>3, BoundsStay DEF RetryFires
    <2>3. QED
      BY <2>1, <2>2, MovesSyncInv
  <1>4. CASE ResolvingEnds(c)
    <2>1. Moves(client[c], Resume(client[c]), {})
      BY <1>1, FlagMoves
    <2>2. Steps(c, Resume(client[c])) /\ UNCHANGED <<quiet, http>> /\ BoundsOK'
      BY <1>4, BoundsStay DEF ResolvingEnds
    <2>3. QED
      BY <2>1, <2>2, MovesSyncInv
  <1>5. CASE Drops(c)
    <2>1. Moves(client[c], SocketCloses(client[c]), {})
      BY <1>1, FlagMoves
    <2>2. Steps(c, SocketCloses(client[c])) /\ UNCHANGED <<quiet, http>> /\ BoundsOK'
      BY <1>5, BoundsStay DEF Drops
    <2>3. QED
      BY <2>1, <2>2, MovesSyncInv
  <1>6. CASE ChoosesOverwrite(c)
    <2>1. Moves(client[c], BeginOverwrite(client[c]), {})
      BY <1>1, FlagMoves
    <2>2. Steps(c, BeginOverwrite(client[c])) /\ UNCHANGED <<quiet, http>> /\ BoundsOK'
      BY <1>6, BoundsStay DEF ChoosesOverwrite
    <2>3. QED
      BY <2>1, <2>2, MovesSyncInv
  <1>7. CASE ChoosesForceSave(c)
    <2>1. Moves(client[c], BeginForceSave(client[c]), {})
      BY <1>1, FlagMoves
    <2>2. Steps(c, BeginForceSave(client[c])) /\ UNCHANGED <<quiet, http>> /\ BoundsOK'
      BY <1>7, BoundsStay DEF ChoosesForceSave
    <2>3. QED
      BY <2>1, <2>2, MovesSyncInv
  <1>8. CASE ChoosesFork(c)
    <2>1. Moves(client[c], Fork(client[c]), {})
      BY <1>1, FlagMoves
    <2>2. Steps(c, Fork(client[c])) /\ UNCHANGED <<quiet, http>> /\ BoundsOK'
      BY <1>8, BoundsStay DEF ChoosesFork
    <2>3. QED
      BY <2>1, <2>2, MovesSyncInv
  <1>9. QED
    BY <1>2, <1>3, <1>4, <1>5, <1>6, <1>7, <1>8

LEMMA ReceiveSafe ==
    ASSUME SyncInv, NEW c \in Client, Receive(c) PROVE SyncInv'
  <1>1. client[c] \in Session /\ ws[c] \in Seq(WsMsg)
    BY DEF SyncInv, TypeInv, TypeOK, ClientTypeOK, NetTypeOK
  <1>2. Head(ws[c]) \in WsMsg /\ Tail(ws[c]) \in Seq(WsMsg)
    BY <1>1 DEF Receive
  <1> DEFINE m == Head(ws[c])
             k == HandleMessage(client[c], m)
  <1>3. Moves(client[c], k, Brings(m))
    BY <1>1, <1>2, HandleMessageMoves
  <1>4. Session1(c, k, Tail(ws[c])) /\ UNCHANGED <<quiet, http>> /\ BoundsOK'
    BY BoundsStay DEF Receive
  <1>5. /\ k \in Session /\ (k.connected => client[c].connected)
        /\ client[c].draining => k.draining /\ k.flight = client[c].flight
        /\ ~client[c].draining => k.draining \/ k.flight = client[c].flight
    BY <1>3 DEF Moves
  <1>6. QED
    <2> HIDE DEF k
    <2> QED
      BY <1>2, <1>4, <1>5, QuietSyncInv

LEMMA ConnectsSafe ==
    ASSUME SyncInv, NEW c \in Client, Connects(c) PROVE SyncInv'
  <1>1. /\ client \in [Client -> Session] /\ up \in [Client -> Seq(Rev)]
        /\ ws \in [Client -> Seq(WsMsg)]
        /\ members \subseteq Client /\ \A d \in Client : d \in members <=> client[d].connected
    BY DEF SyncInv, TypeInv, TypeOK, ClientTypeOK, NetTypeOK, HubTypeOK
  <1> DEFINE k == SocketOpens(client[c])
             j == JoinRevision(client[c])
  <1>2. /\ k \in Session /\ k.connected /\ j \in Rev
        /\ k.draining = client[c].draining /\ k.flight = client[c].flight
    BY <1>1, SocketOpensTyping
  <1>3. /\ client' = [client EXCEPT ![c] = k] /\ up' = [up EXCEPT ![c] = <<j>>]
        /\ members' = members \cup {c}
        /\ UNCHANGED <<quiet, requests, ws, http, made, faults>>
    BY DEF Connects
  <1>4. BoundsOK' /\ HttpOK'
    BY <1>3, BoundsStay DEF SyncInv, TypeInv, HttpOK
  <1> HIDE DEF k, j
  <1>5. /\ client' \in [Client -> Session] /\ client'[c] = k
        /\ \A d \in Client : d # c => client'[d] = client[d]
    BY <1>1, <1>2, <1>3
  <1>6. up' \in [Client -> Seq(Rev)]
    <2>1. <<j>> \in Seq(Rev)
      BY <1>2
    <2>2. QED
      BY <1>1, <1>3, <2>1
  <1>7. members' \subseteq Client /\ \A d \in Client : d \in members' <=> client'[d].connected
    BY <1>1, <1>2, <1>3, <1>5
  <1>8. TypeInv'
    <2>1. TypeInv
      BY DEF SyncInv
    <2>2. NetTypeOK'
      BY <1>1, <1>3, <1>4, <1>6 DEF NetTypeOK, HttpOK
    <2>3. HubTypeOK'
      BY <1>3, <1>7, <2>1 DEF TypeInv, TypeOK, HubTypeOK, quiet
    <2>4. TypeOK'
      BY <1>4, <1>5, <1>7, <2>2, <2>3 DEF TypeOK, ClientTypeOK, BoundsOK
    <2>5. QED
      BY <1>3, <1>4, <2>1, <2>4 DEF TypeInv, quiet
  <1>9. HubInv'
    BY <1>3 DEF SyncInv, HubInv, quiet
  <1>10. ASSUME NEW d \in Client PROVE CallInv(d)'
    <2>1. CallOK(d, client[d], http[d]["action"], requests, proposing, committed)
      BY DEF SyncInv, CallInv
    <2>2. CallOK(d, client'[d], http[d]["action"], requests, proposing, committed)
      <3>1. CASE d = c
        <4>1. CallOK(c, k, http[c]["action"], requests, proposing, committed)
          BY <1>2, <2>1, <3>1, CallMoves
        <4>2. QED
          BY <1>5, <3>1, <4>1
      <3>2. CASE d # c
        BY <1>5, <2>1, <3>2
      <3>3. QED
        BY <3>1, <3>2
    <2>3. QED
      BY <1>3, <2>2 DEF CallInv, quiet
  <1>11. QED
    BY <1>8, <1>9, <1>10 DEF SyncInv

-----------------------------------------------------------------------------
(* A call goes out, and comes back or is lost.                             *)

LEMMA ChannelTypeInv ==
    ASSUME TypeInv, requests' \in Seq(Request), Len(requests') <= QueueCap,
           up' \in [Client -> Seq(Rev)], HttpOK',
           UNCHANGED <<quiet, members, ws, client, made, faults>>
    PROVE  TypeInv'
  <1>1. UNCHANGED <<store, gameData, proposing, committed>>
    BY DEF quiet
  <1>2. UNCHANGED <<members, ws, client, made, faults>>
    OBVIOUS
  <1>3. NetTypeOK'
    BY <1>2 DEF TypeInv, TypeOK, NetTypeOK, HttpOK
  <1>4. HubTypeOK'
    BY <1>1, <1>2 DEF TypeInv, TypeOK, HubTypeOK
  <1>5. ClientTypeOK'
    BY <1>2 DEF TypeInv, TypeOK, ClientTypeOK
  <1>6. TypeOK'
    BY <1>2, <1>3, <1>4, <1>5 DEF TypeInv, TypeOK
  <1>7. QED
    BY <1>1, <1>6 DEF TypeInv

LEMMA SubmitSafe ==
    ASSUME SyncInv, NEW r \in Request, r.type # "broadcast", HasRoom, Submit(r),
           UNCHANGED <<quiet, members, ws, client, made, faults>>,
           up' \in [Client -> Seq(Rev)], HttpOK',
           \A d \in Client : CallOK(d, client[d], http'[d]["action"], Append(requests, r),
                                    proposing, committed)
    PROVE  SyncInv'
  <1>1. TypeInv /\ HubInv /\ requests \in Seq(Request)
    BY DEF SyncInv, TypeInv, TypeOK, HubTypeOK
  <1>2. /\ requests' = Append(requests, r) /\ requests' \in Seq(Request)
        /\ Len(requests') <= QueueCap
        /\ Len(requests') = Len(requests) + 1 /\ Len(requests) \in Nat
        /\ requests'[Len(requests) + 1] = r
        /\ \A i \in 1..Len(requests) : requests'[i] = requests[i]
    BY <1>1, GameHubAssumption DEF Submit, HasRoom
  <1>3. TypeInv'
    BY <1>1, <1>2, ChannelTypeInv
  <1>4. HubInv'
    <2>1. ASSUME NEW i \in 1..Len(requests'), requests'[i].type = "broadcast"
          PROVE  ToSet(requests'[i].log) \subseteq committed
      <3>1. i \in 1..Len(requests)
        BY <1>2, <2>1
      <3>2. QED
        BY <1>1, <1>2, <2>1, <3>1 DEF HubInv
    <2>2. QED
      BY <1>1, <2>1 DEF HubInv, quiet
  <1>5. \A d \in Client : CallInv(d)'
    BY <1>2 DEF CallInv, quiet
  <1>6. QED
    BY <1>3, <1>4, <1>5 DEF SyncInv

\* Only the answers change.
LEMMA RefusedSafe ==
    ASSUME SyncInv, HttpOK',
           UNCHANGED <<requests, up>>,
           UNCHANGED <<quiet, members, ws, client, made, faults>>,
           \A d \in Client : CallOK(d, client[d], http'[d]["action"], requests,
                                    proposing, committed)
    PROVE  SyncInv'
  <1>1. TypeInv /\ HubInv
    BY DEF SyncInv
  <1>2. /\ requests' \in Seq(Request) /\ Len(requests') <= QueueCap
        /\ up' \in [Client -> Seq(Rev)]
    BY <1>1 DEF TypeInv, TypeOK, HubTypeOK, NetTypeOK
  <1>3. TypeInv'
    BY <1>1, <1>2, ChannelTypeInv
  <1>4. HubInv'
    BY <1>1 DEF HubInv, quiet
  <1>5. \A d \in Client : CallInv(d)'
    BY DEF CallInv, quiet
  <1>6. QED
    BY <1>3, <1>4, <1>5 DEF SyncInv

LEMMA PostArrivesSafe ==
    ASSUME SyncInv, NEW c \in Client, PostArrives(c) PROVE SyncInv'
  <1> DEFINE batch == client[c].flight
             r == [type |-> "action", client |-> c, base |-> batch[1].base,
                   acts |-> [i \in 1..Len(batch) |-> batch[i].act], live |-> TRUE]
  <1>1. /\ client[c] \in Session /\ HttpOK /\ requests \in Seq(Request)
        /\ up \in [Client -> Seq(Rev)]
    BY DEF SyncInv, TypeInv, TypeOK, ClientTypeOK, HubTypeOK, NetTypeOK
  <1>2. /\ batch # <<>> /\ http[c]["action"] = Unsent
        /\ UNCHANGED <<quiet, members, ws, client, made, faults>> /\ UNCHANGED up
    BY DEF PostArrives
  <1>3. ASSUME NEW d \in Client
        PROVE  CallOK(d, client[d], http[d]["action"], requests, proposing, committed)
    BY DEF SyncInv, CallInv
  <1>4. "action" \in Kind /\ "action" # "document"
    BY DEF Kind
  <1>5. CASE HasRoom
    <2>1. Submit(r) /\ SetsHttp(c, "action", Taken)
      BY <1>5 DEF PostArrives, SetsHttp
    <2>2. r \in Request
      <3>1. batch \in Seq(Queued)
        BY <1>1 DEF Session
      <3>2. Len(batch) \in Nat /\ \A i \in 1..Len(batch) : batch[i] \in Queued
        BY <3>1
      <3>3. batch[1] \in Queued
        BY <1>2, <3>1
      <3>4. \A i \in 1..Len(batch) : batch[i].act \in Action
        BY <3>2 DEF Queued
      <3>5. [i \in 1..Len(batch) |-> batch[i].act] \in Seq(Action)
        BY <3>2, <3>4
      <3>6. batch[1].base \in Rev
        BY <3>3 DEF Queued
      <3>7. QED
        BY <3>5, <3>6 DEF Request
    <2>3. r.type = "action" /\ r.client = c /\ r.acts = Batch(client[c])
      BY DEF Batch
    <2> HIDE DEF r
    <2>4. Taken \in AnswerFor("action")
      BY DEF AnswerFor, ActionAnswer
    <2>5. /\ HttpOK' /\ http'[c]["action"] = Taken
          /\ \A d \in Client : d # c => http'[d]["action"] = http[d]["action"]
      BY <1>1, <1>4, <2>1, <2>4, HttpSet
    <2>6. ASSUME NEW d \in Client
          PROVE  CallOK(d, client[d], http'[d]["action"], Append(requests, r), proposing, committed)
      <3>1. CASE d = c
        <4>1. CallOK(c, client[c], Unsent, requests, proposing, committed)
          BY <1>2, <1>3, <3>1
        <4>2. CallOK(c, client[c], Taken, Append(requests, r), proposing, committed)
          BY <1>1, <1>2, <2>2, <2>3, <4>1, CallTaken
        <4>3. QED
          BY <2>5, <3>1, <4>2
      <3>2. CASE d # c
        <4>1. ~CallOf(r, d)
          BY <2>3, <3>2 DEF CallOf
        <4>2. CallOK(d, client[d], http[d]["action"], Append(requests, r), proposing, committed)
          BY <1>1, <1>3, <2>2, <4>1, CallWaits
        <4>3. QED
          BY <2>5, <3>2, <4>2
      <3>3. QED
        BY <3>1, <3>2
    <2>7. QED
      BY <1>1, <1>2, <1>5, <2>1, <2>2, <2>3, <2>5, <2>6, SubmitSafe
  <1>6. CASE ~HasRoom
    <2>1. SetsHttp(c, "action", Busy) /\ UNCHANGED requests
      BY <1>6 DEF PostArrives, SetsHttp
    <2>2. Busy \in AnswerFor("action")
      BY DEF AnswerFor, ActionAnswer
    <2>3. /\ HttpOK' /\ http'[c]["action"] = Busy
          /\ \A d \in Client : d # c => http'[d]["action"] = http[d]["action"]
      BY <1>1, <1>4, <2>1, <2>2, HttpSet
    <2>4. ASSUME NEW d \in Client
          PROVE  CallOK(d, client[d], http'[d]["action"], requests, proposing, committed)
      <3>1. CASE d = c
        <4>1. CallOK(c, client[c], Unsent, requests, proposing, committed)
          BY <1>2, <1>3, <3>1
        <4>2. CallOK(c, client[c], Busy, requests, proposing, committed)
          BY <1>2, <4>1, CallRefused
        <4>3. QED
          BY <2>3, <3>1, <4>2
      <3>2. CASE d # c
        BY <1>3, <2>3, <3>2
      <3>3. QED
        BY <3>1, <3>2
    <2>5. QED
      BY <1>2, <2>1, <2>3, <2>4, RefusedSafe
  <1>7. QED
    BY <1>5, <1>6

LEMMA PostAnsweredSafe ==
    ASSUME SyncInv, NEW c \in Client, PostAnswered(c) PROVE SyncInv'
  <1> DEFINE h == http[c]["action"]
             k == HttpAnswer(client[c], h)
  <1>1. client[c] \in Session /\ HttpOK /\ ws[c] \in Seq(WsMsg)
    BY DEF SyncInv, TypeInv, TypeOK, ClientTypeOK, NetTypeOK
  <1>2. CallOK(c, client[c], h, requests, proposing, committed)
    BY DEF SyncInv, CallInv
  <1>3. /\ h \in ActionAnswer \ {Unsent, Taken} /\ SetsHttp(c, "action", Unsent)
        /\ UNCHANGED quiet /\ UNCHANGED <<made, faults>>
    BY <1>1 DEF PostAnswered, HttpOK, SetsHttp
  <1>4. client[c].draining
    BY <1>1, <1>2, <1>3 DEF CallOK, Session
  <1>5. Answered(client[c], k)
    <2> HIDE DEF h
    <2> QED
      BY <1>1, <1>3, <1>4, HttpAnswerTyping
  <1>6. Session1(c, k, ws[c])
    BY DEF PostAnswered, Steps
  <1>7. "action" \in Kind /\ Unsent \in AnswerFor("action")
    BY DEF Kind, AnswerFor, ActionAnswer
  <1>8. /\ HttpOK' /\ http'[c]["action"] = Unsent
        /\ \A d \in Client : d # c => http'[d]["action"] = http[d]["action"]
    BY <1>1, <1>3, <1>7, HttpSet
  <1> HIDE DEF k, h
  <1>9. CallOK(c, k, http'[c]["action"], requests, proposing, committed)
    <2>1. ~k.draining => k.flight = <<>>
      BY <1>5 DEF Answered
    <2>2. CallOK(c, k, Unsent, requests, proposing, committed)
      BY <1>2, <1>3, <2>1, CallOver
    <2>3. QED
      BY <1>8, <2>2
  <1>10. BoundsOK'
    BY <1>3, BoundsStay
  <1>11. k \in Session /\ (k.connected => client[c].connected)
    BY <1>5 DEF Answered
  <1>12. QED
    BY <1>1, <1>3, <1>6, <1>8, <1>9, <1>10, <1>11, BrowserSyncInv

\* A browser gives up some of its calls: the requests of those types are left
\* behind, in the channel and in Propose.
LEMMA AbandonSafe ==
    ASSUME SyncInv, NEW c \in Client, NEW k \in Session,
           NEW types, "broadcast" \notin types,
           NEW proposed, "broadcast" \notin proposed, "none" \notin proposed,
           client' = [client EXCEPT ![c] = k],
           requests' = Orphaned(types, c), proposing' = OrphanedProposal(proposed, c),
           HttpOK', BoundsOK', ws' \in [Client -> Seq(WsMsg)], up' \in [Client -> Seq(Rev)],
           members' = IF k.connected = client[c].connected THEN members ELSE members \ {c},
           k.connected => client[c].connected,
           UNCHANGED <<store, gameData, committed>>,
           \A d \in Client : d # c => http'[d]["action"] = http[d]["action"],
           \/ /\ "action" \in types /\ "action" \in proposed
              /\ http'[c]["action"] = Unsent /\ (~k.draining => k.flight = <<>>)
           \/ CallOK(c, k, http'[c]["action"], requests, proposing, committed)
    PROVE  SyncInv'
  <1>1. /\ TypeInv /\ HubInv /\ client \in [Client -> Session]
        /\ requests \in Seq(Request) /\ Len(requests) <= QueueCap
        /\ proposing \in Request \cup {Nothing}
        /\ members \subseteq Client /\ \A d \in Client : d \in members <=> client[d].connected
    BY DEF SyncInv, TypeInv, TypeOK, HubTypeOK, ClientTypeOK
  <1>2. /\ client' \in [Client -> Session] /\ client'[c] = k
        /\ \A d \in Client : d # c => client'[d] = client[d]
    BY <1>1
  <1>3. /\ requests' \in Seq(Request) /\ Len(requests') = Len(requests)
        /\ \A i \in 1..Len(requests) : Left(requests[i], requests'[i], types, c)
    BY <1>1, OrphanedIs
  <1>4. IF proposing = Nothing THEN proposing' = Nothing
        ELSE Left(proposing, proposing', proposed, c)
    BY <1>1, OrphanedProposalIs
  <1>5. /\ proposing' \in Request \cup {Nothing}
        /\ proposing'.type \in {"none", "action", "save"}
    BY <1>1, <1>4 DEF Left, TypeInv
  <1>6. members' \subseteq Client /\ \A d \in Client : d \in members' <=> client'[d].connected
    <2>1. k.connected \in BOOLEAN /\ client[c].connected \in BOOLEAN
      BY <1>1 DEF Session
    <2>2. QED
      BY <1>1, <1>2, <2>1
  <1>7. TypeInv'
    <2>1. NetTypeOK'
      BY DEF NetTypeOK, HttpOK
    <2>2. HubTypeOK'
      BY <1>1, <1>3, <1>5, <1>6 DEF TypeInv, TypeOK, HubTypeOK
    <2>3. TypeOK'
      BY <1>2, <1>6, <2>1, <2>2 DEF TypeOK, ClientTypeOK, BoundsOK
    <2>4. QED
      BY <1>5, <2>3 DEF TypeInv
  <1>8. HubInv'
    <2>1. \A i \in 1..Len(requests') : requests'[i].type = "broadcast" =>
            requests[i].type = "broadcast" /\ requests'[i].log = requests[i].log
      BY <1>3 DEF Left
    <2>2. QED
      BY <1>1, <1>3, <2>1 DEF HubInv
  <1>9. ASSUME NEW d \in Client PROVE CallInv(d)'
    <2>1. proposing' = proposing \/ Left(proposing, proposing', proposed, c)
      BY <1>4
    <2>2. ASSUME NEW l, CallOK(d, l, http'[d]["action"], requests, proposing, committed)
          PROVE  CallOK(d, l, http'[d]["action"], requests', proposing', committed)
      <3>1. CallOK(d, l, http'[d]["action"], requests', proposing, committed)
        BY <1>3, <2>2, CallLeft
      <3>2. QED
        BY <2>1, <3>1, ProposalLeft
    <2>3. CASE d # c
      <3>1. CallOK(d, client'[d], http'[d]["action"], requests, proposing, committed)
        BY <1>2, <2>3 DEF SyncInv, CallInv
      <3>2. CallOK(d, client'[d], http'[d]["action"], requests', proposing', committed)
        BY <2>2, <3>1
      <3>3. QED
        BY <3>2 DEF CallInv
    <2>4. CASE d = c /\ CallOK(c, k, http'[c]["action"], requests, proposing, committed)
      <3>1. CallOK(d, client'[d], http'[d]["action"], requests', proposing', committed)
        BY <1>2, <2>2, <2>4
      <3>2. QED
        BY <3>1 DEF CallInv
    <2>5. CASE /\ d = c /\ "action" \in types /\ "action" \in proposed
               /\ http'[c]["action"] = Unsent /\ (~k.draining => k.flight = <<>>)
      <3>1. \A i \in 1..Len(requests') : ~CallOf(requests'[i], c)
        BY <1>3, <2>5 DEF Left
      <3>2. ~CallOf(proposing', c)
        <4>1. CASE proposing = Nothing
          BY <1>4, <4>1 DEF CallOf, Nothing
        <4>2. CASE proposing # Nothing
          BY <1>4, <2>5, <4>2 DEF Left
        <4>3. QED
          BY <4>1, <4>2
      <3>3. CallOK(c, k, Unsent, requests', proposing', committed)
        BY <2>5, <3>1, <3>2, CallsGone
      <3>4. QED
        BY <1>2, <2>5, <3>3 DEF CallInv
    <2>6. QED
      BY <2>3, <2>4, <2>5
  <1>10. QED
    BY <1>7, <1>8, <1>9 DEF SyncInv

LEMMA PostFailsSafe ==
    ASSUME SyncInv, NEW c \in Client, PostFails(c) PROVE SyncInv'
  <1> DEFINE k == HttpError(client[c])
  <1>1. /\ client[c] \in Session /\ HttpOK
        /\ ws \in [Client -> Seq(WsMsg)] /\ up \in [Client -> Seq(Rev)]
    BY DEF SyncInv, TypeInv, TypeOK, ClientTypeOK, NetTypeOK
  <1>2. CallOK(c, client[c], http[c]["action"], requests, proposing, committed)
    BY DEF SyncInv, CallInv
  <1>3. /\ client[c].flight # <<>> /\ client' = [client EXCEPT ![c] = k]
        /\ SetsHttp(c, "action", Unsent)
        /\ requests' = Orphaned({"action"}, c) /\ proposing' = OrphanedProposal({"action"}, c)
        /\ UNCHANGED <<store, gameData, committed>> /\ UNCHANGED <<members, ws, up>>
    BY DEF PostFails, SetsHttp
  <1>4. BoundsOK'
    BY BoundsStay DEF PostFails
  <1>5. client[c].draining
    BY <1>1, <1>2, <1>3 DEF CallOK, Session
  <1>6. k \in Session /\ k.flight = <<>> /\ k.connected = client[c].connected
    BY <1>1, <1>5, HttpErrorTyping DEF Answered
  <1>7. "action" \in Kind /\ Unsent \in AnswerFor("action")
    BY DEF Kind, AnswerFor, ActionAnswer
  <1>8. /\ HttpOK' /\ http'[c]["action"] = Unsent
        /\ \A d \in Client : d # c => http'[d]["action"] = http[d]["action"]
    BY <1>1, <1>3, <1>7, HttpSet
  <1> HIDE DEF k
  <1> DEFINE T == {"action"}
  <1>9. "broadcast" \notin T /\ "none" \notin T /\ "action" \in T
    OBVIOUS
  <1>10. ws' \in [Client -> Seq(WsMsg)] /\ up' \in [Client -> Seq(Rev)]
    BY <1>1, <1>3
  <1>11. requests' = Orphaned(T, c) /\ proposing' = OrphanedProposal(T, c)
    BY <1>3
  <1> HIDE DEF T
  <1>12. QED
    BY <1>3, <1>4, <1>6, <1>8, <1>9, <1>10, <1>11, AbandonSafe

LEMMA FormLostSafe ==
    ASSUME SyncInv, NEW c \in Client, FormLost(c) PROVE SyncInv'
  <1> DEFINE k == FormFails(client[c])
  <1>1. /\ client[c] \in Session /\ HttpOK
        /\ ws \in [Client -> Seq(WsMsg)] /\ up \in [Client -> Seq(Rev)]
    BY DEF SyncInv, TypeInv, TypeOK, ClientTypeOK, NetTypeOK
  <1>2. CallOK(c, client[c], http[c]["action"], requests, proposing, committed)
    BY DEF SyncInv, CallInv
  <1>3. /\ client' = [client EXCEPT ![c] = k]
        /\ SetsHttp(c, "document", Unsent)
        /\ requests' = Orphaned({"load", "save"}, c) /\ proposing' = OrphanedProposal({"save"}, c)
        /\ UNCHANGED <<store, gameData, committed>> /\ UNCHANGED <<members, ws, up>>
    BY DEF FormLost, SetsHttp
  <1>4. BoundsOK'
    BY BoundsStay DEF FormLost
  <1>5. Moves(client[c], k, {}) /\ k.connected = client[c].connected
    BY <1>1, FlagMoves
  <1>6. /\ k \in Session
        /\ client[c].draining => k.draining /\ k.flight = client[c].flight
        /\ ~client[c].draining => k.draining \/ k.flight = client[c].flight
    BY <1>5 DEF Moves
  <1>7. "document" \in Kind /\ Unsent \in AnswerFor("document") /\ "action" \in Kind
    BY DEF Kind, AnswerFor, DocumentAnswer
  <1>8. /\ HttpOK'
        /\ \A d \in Client : http'[d]["action"] = http[d]["action"]
    BY <1>1, <1>3, <1>7, HttpSet
  <1> HIDE DEF k
  <1>9. CallOK(c, k, http[c]["action"], requests, proposing, committed)
    BY <1>2, <1>6, CallMoves
  <1>10. CallOK(c, k, http'[c]["action"], requests, proposing, committed)
    BY <1>8, <1>9
  <1> DEFINE T == {"load", "save"}
             P == {"save"}
  <1>11. "broadcast" \notin T /\ "broadcast" \notin P /\ "none" \notin P
    OBVIOUS
  <1>12. ws' \in [Client -> Seq(WsMsg)] /\ up' \in [Client -> Seq(Rev)]
    BY <1>1, <1>3
  <1>13. requests' = Orphaned(T, c) /\ proposing' = OrphanedProposal(P, c)
    BY <1>3
  <1> HIDE DEF T, P
  <1>14. QED
    BY <1>3, <1>4, <1>5, <1>6, <1>8, <1>10, <1>11, <1>12, <1>13, AbandonSafe

LEMMA ReloadsSafe ==
    ASSUME SyncInv, NEW c \in Client, Reloads(c) PROVE SyncInv'
  <1>1. /\ client[c] \in Session /\ HttpOK
        /\ ws \in [Client -> Seq(WsMsg)] /\ up \in [Client -> Seq(Rev)]
        /\ members \subseteq Client /\ \A d \in Client : d \in members <=> client[d].connected
    BY DEF SyncInv, TypeInv, TypeOK, ClientTypeOK, NetTypeOK, HubTypeOK
  <1>2. PICK log \in Stored(client[c]) : client' = [client EXCEPT ![c] = Opened(log)]
    BY DEF Reloads
  <1> DEFINE k == Opened(log)
             T == {"join", "action", "load", "save"}
             P == {"action", "save"}
  <1>3. k \in Session /\ ~k.connected /\ k.flight = <<>>
    BY <1>1, StoredTyping, OpenedTyping
  <1>4. /\ client' = [client EXCEPT ![c] = k]
        /\ http' = [http EXCEPT ![c] = [j \in Kind |-> Unsent]]
        /\ requests' = Orphaned(T, c) /\ proposing' = OrphanedProposal(P, c)
        /\ UNCHANGED <<store, gameData, committed>>
        /\ ws' = [ws EXCEPT ![c] = <<>>] /\ up' = [up EXCEPT ![c] = <<>>]
        /\ members' = members \ {c}
    BY <1>2 DEF Reloads
  <1>5. BoundsOK'
    BY BoundsStay DEF Reloads
  <1>6. /\ "broadcast" \notin T /\ "broadcast" \notin P /\ "none" \notin P
        /\ "action" \in T /\ "action" \in P
    OBVIOUS
  <1> HIDE DEF T, P
  <1>7. /\ HttpOK' /\ http'[c]["action"] = Unsent
        /\ \A d \in Client : d # c => http'[d]["action"] = http[d]["action"]
    <2> DEFINE none == [j \in Kind |-> Unsent]
    <2>1. /\ Unsent \in HttpState /\ Unsent \in ActionAnswer /\ Unsent \in DocumentAnswer
          /\ "action" \in Kind /\ "document" \in Kind
      BY DEF HttpState, ActionAnswer, DocumentAnswer, Kind
    <2>2. none \in [Kind -> HttpState] /\ none["action"] = Unsent /\ none["document"] = Unsent
      BY <2>1
    <2>3. http \in [Client -> [Kind -> HttpState]] /\ http' = [http EXCEPT ![c] = none]
      BY <1>1, <1>4 DEF HttpOK
    <2> HIDE DEF none
    <2>4. /\ http' \in [Client -> [Kind -> HttpState]] /\ http'[c] = none
          /\ \A d \in Client : d # c => http'[d] = http[d]
      BY <2>2, <2>3
    <2>5. ASSUME NEW d \in Client
          PROVE  http'[d]["action"] \in ActionAnswer /\ http'[d]["document"] \in DocumentAnswer
      <3>1. CASE d = c
        BY <2>1, <2>2, <2>4, <3>1
      <3>2. CASE d # c
        BY <1>1, <2>4, <3>2 DEF HttpOK
      <3>3. QED
        BY <3>1, <3>2
    <2>6. QED
      BY <2>2, <2>4, <2>5 DEF HttpOK
  <1> HIDE DEF k
  <1>8. ws' \in [Client -> Seq(WsMsg)] /\ up' \in [Client -> Seq(Rev)]
    <2>1. <<>> \in Seq(WsMsg) /\ <<>> \in Seq(Rev)
      OBVIOUS
    <2>2. QED
      BY <1>1, <1>4, <2>1
  <1>9. members' = IF k.connected = client[c].connected THEN members ELSE members \ {c}
    <2>1. k.connected \in BOOLEAN /\ client[c].connected \in BOOLEAN
      BY <1>1, <1>3 DEF Session
    <2>2. CASE client[c].connected
      BY <1>3, <1>4, <2>1, <2>2
    <2>3. CASE ~client[c].connected
      <3>1. c \notin members
        BY <1>1, <2>3
      <3>2. members' = members
        BY <1>4, <3>1
      <3>3. k.connected = client[c].connected
        BY <1>3, <2>1, <2>3
      <3>4. QED
        BY <3>2, <3>3
    <2>4. QED
      BY <2>2, <2>3
  <1>10. QED
    BY <1>3, <1>4, <1>5, <1>6, <1>7, <1>8, <1>9, AbandonSafe

LEMMA FormArrivesSafe ==
    ASSUME SyncInv, NEW c \in Client, FormArrives(c) PROVE SyncInv'
  <1> DEFINE load == [type |-> "load", client |-> c, live |-> TRUE]
             save == [type |-> "save", client |-> c, log |-> client[c].log, live |-> TRUE]
  <1>1. /\ client[c] \in Session /\ HttpOK /\ requests \in Seq(Request)
        /\ up \in [Client -> Seq(Rev)]
    BY DEF SyncInv, TypeInv, TypeOK, ClientTypeOK, HubTypeOK, NetTypeOK
  <1>2. UNCHANGED <<quiet, members, ws, client, made, faults>> /\ UNCHANGED up
    BY DEF FormArrives
  <1>3. ASSUME NEW d \in Client
        PROVE  CallOK(d, client[d], http[d]["action"], requests, proposing, committed)
    BY DEF SyncInv, CallInv
  <1>4. /\ "document" \in Kind /\ "action" \in Kind
        /\ Taken \in AnswerFor("document") /\ Busy \in AnswerFor("document")
    BY DEF Kind, AnswerFor, DocumentAnswer
  <1>5. CASE HasRoom
    <2>1. PICK r \in {load, save} : Submit(r)
      BY <1>5 DEF FormArrives
    <2>2. SetsHttp(c, "document", Taken)
      BY <1>5 DEF FormArrives, SetsHttp
    <2>3. r \in Request /\ r.type # "broadcast" /\ r.type # "action"
      <3>1. client[c].log \in Seq(Action)
        BY <1>1 DEF Session
      <3>2. /\ load \in Request /\ load.type = "load"
            /\ save \in Request /\ save.type = "save"
        BY <3>1 DEF Request
      <3> HIDE DEF load, save
      <3>3. QED
        BY <2>1, <3>2
    <2>4. HttpOK' /\ \A d \in Client : http'[d]["action"] = http[d]["action"]
      BY <1>1, <1>4, <2>2, HttpSet
    <2>5. ASSUME NEW d \in Client
          PROVE  CallOK(d, client[d], http'[d]["action"], Append(requests, r), proposing, committed)
      <3>1. ~CallOf(r, d)
        BY <2>3 DEF CallOf
      <3>2. CallOK(d, client[d], http[d]["action"], Append(requests, r), proposing, committed)
        BY <1>1, <1>3, <2>3, <3>1, CallWaits
      <3>3. QED
        BY <2>4, <3>2
    <2>6. QED
      BY <1>1, <1>2, <1>5, <2>1, <2>3, <2>4, <2>5, SubmitSafe
  <1>6. CASE ~HasRoom
    <2>1. SetsHttp(c, "document", Busy) /\ UNCHANGED requests
      BY <1>6 DEF FormArrives, SetsHttp
    <2>2. HttpOK' /\ \A d \in Client : http'[d]["action"] = http[d]["action"]
      BY <1>1, <1>4, <2>1, HttpSet
    <2>3. QED
      BY <1>2, <1>3, <2>1, <2>2, RefusedSafe
  <1>7. QED
    BY <1>5, <1>6

LEMMA FormAnsweredSafe ==
    ASSUME SyncInv, NEW c \in Client, FormAnswered(c) PROVE SyncInv'
  <1> DEFINE m == http[c]["document"]
  <1>1. /\ client[c] \in Session /\ HttpOK /\ ws[c] \in Seq(WsMsg)
        /\ m \in DocumentAnswer
    BY DEF SyncInv, TypeInv, TypeOK, ClientTypeOK, NetTypeOK, HttpOK
  <1>2. SetsHttp(c, "document", Unsent) /\ UNCHANGED quiet /\ UNCHANGED <<made, faults>>
    BY DEF FormAnswered, SetsHttp
  <1>3. /\ "document" \in Kind /\ "action" \in Kind /\ Unsent \in AnswerFor("document")
        /\ "action" # "document"
    BY DEF Kind, AnswerFor, DocumentAnswer
  <1>4. HttpOK' /\ \A d \in Client : http'[d]["action"] = http[d]["action"]
    BY <1>1, <1>2, <1>3, HttpSet
  <1>5. \E k \in Session :
          /\ k.connected => client[c].connected
          /\ Session1(c, k, ws[c])
          /\ client[c].draining => k.draining /\ k.flight = client[c].flight
          /\ ~client[c].draining => k.draining \/ k.flight = client[c].flight
    <2>1. CASE m.type = "GAME" /\ Steps(c, Overwrite(client[c], m.log))
      <3>1. m.log \in Seq(Action)
        BY <1>1, <2>1 DEF DocumentAnswer, Unsent, Taken, Busy, Saved
      <3> DEFINE k == Overwrite(client[c], m.log)
      <3>2. /\ k \in Session /\ k.connected = client[c].connected
            /\ k.draining = client[c].draining /\ k.flight = client[c].flight
        BY <1>1, <3>1, OverwriteTyping
      <3>3. Session1(c, k, ws[c])
        BY <2>1 DEF Steps
      <3> HIDE DEF k
      <3>4. QED
        BY <3>2, <3>3
    <2>2. CASE Steps(c, ForceSaved(client[c]))
      <3> DEFINE k == ForceSaved(client[c])
      <3>1. Moves(client[c], k, {})
        BY <1>1, FlagMoves
      <3>2. Session1(c, k, ws[c])
        BY <2>2 DEF Steps
      <3> HIDE DEF k
      <3>3. QED
        BY <3>1, <3>2 DEF Moves
    <2>3. CASE Steps(c, FormFails(client[c]))
      <3> DEFINE k == FormFails(client[c])
      <3>1. Moves(client[c], k, {})
        BY <1>1, FlagMoves
      <3>2. Session1(c, k, ws[c])
        BY <2>3 DEF Steps
      <3> HIDE DEF k
      <3>3. QED
        BY <3>1, <3>2 DEF Moves
    <2>4. QED
      BY <2>1, <2>2, <2>3 DEF FormAnswered
  <1>6. PICK k \in Session :
          /\ k.connected => client[c].connected
          /\ Session1(c, k, ws[c])
          /\ client[c].draining => k.draining /\ k.flight = client[c].flight
          /\ ~client[c].draining => k.draining \/ k.flight = client[c].flight
    BY <1>5
  <1>7. CallOK(c, client[c], http[c]["action"], requests, proposing, committed)
    BY DEF SyncInv, CallInv
  <1>8. CallOK(c, k, http[c]["action"], requests, proposing, committed)
    BY <1>6, <1>7, CallMoves
  <1>9. CallOK(c, k, http'[c]["action"], requests, proposing, committed)
    BY <1>4, <1>8
  <1>10. BoundsOK'
    BY <1>2, BoundsStay
  <1>11. QED
    BY <1>1, <1>2, <1>4, <1>6, <1>9, <1>10, BrowserSyncInv

LEMMA ReadPumpSafe ==
    ASSUME SyncInv, NEW c \in Client, ReadPump(c) PROVE SyncInv'
  <1> DEFINE r == [type |-> "join", client |-> c, base |-> Head(up[c]), live |-> TRUE]
  <1>1. requests \in Seq(Request) /\ up \in [Client -> Seq(Rev)] /\ HttpOK
    BY DEF SyncInv, TypeInv, TypeOK, HubTypeOK, NetTypeOK
  <1>2. /\ up[c] # <<>> /\ HasRoom /\ Submit(r) /\ up' = [up EXCEPT ![c] = Tail(up[c])]
        /\ UNCHANGED <<store, gameData, proposing, committed>>
        /\ UNCHANGED <<members, ws, client, made, faults>> /\ UNCHANGED http
    BY DEF ReadPump, ReadJoin
  <1>3. Head(up[c]) \in Rev /\ Tail(up[c]) \in Seq(Rev)
    BY <1>1, <1>2
  <1>4. r \in Request /\ r.type = "join"
    BY <1>3 DEF Request
  <1> HIDE DEF r
  <1>5. up' \in [Client -> Seq(Rev)]
    BY <1>1, <1>2, <1>3
  <1>6. HttpOK'
    BY <1>1, <1>2 DEF HttpOK
  <1>7. UNCHANGED <<quiet, members, ws, client, made, faults>>
    BY <1>2 DEF quiet
  <1>8. ASSUME NEW d \in Client
        PROVE  CallOK(d, client[d], http'[d]["action"], Append(requests, r), proposing, committed)
    <2>1. CallOK(d, client[d], http[d]["action"], requests, proposing, committed)
      BY DEF SyncInv, CallInv
    <2>2. ~CallOf(r, d)
      BY <1>4 DEF CallOf
    <2>3. CallOK(d, client[d], http[d]["action"], Append(requests, r), proposing, committed)
      BY <1>1, <1>4, <2>1, <2>2, CallWaits
    <2>4. QED
      BY <1>2, <2>3
  <1>9. QED
    BY <1>2, <1>4, <1>5, <1>6, <1>7, <1>8, SubmitSafe

-----------------------------------------------------------------------------
(* A step of the hub.                                                      *)

LEMMA LoadedIs ==
    ASSUME SyncInv
    PROVE  /\ Loaded \in Seq(Action) /\ ToSet(Loaded) \subseteq committed
           /\ store \in Seq(Action) /\ ToSet(store) \subseteq committed
  BY DEF SyncInv, TypeInv, TypeOK, HubTypeOK, HubInv, Loaded

LEMMA FirstIs ==
    ASSUME SyncInv, NEW type, Next1(type)
    PROVE  /\ proposing = Nothing /\ requests # <<>> /\ requests \in Seq(Request)
           /\ Head(requests) \in Request /\ Head(requests).type = type
           /\ Tail(requests) \in Seq(Request) /\ Len(Tail(requests)) = Len(requests) - 1
           /\ \A i \in 1..Len(Tail(requests)) :
                 i + 1 \in 1..Len(requests) /\ Tail(requests)[i] = requests[i + 1]
           /\ Len(Tail(requests)) <= QueueCap
           /\ Head(requests) = requests[1] /\ 1 \in 1..Len(requests)
           /\ requests' = Tail(requests)
  <1>1. requests \in Seq(Request) /\ Len(requests) <= QueueCap
    BY DEF SyncInv, TypeInv, TypeOK, HubTypeOK
  <1>2. /\ proposing = Nothing /\ requests # <<>>
        /\ Head(requests).type = type /\ requests' = Tail(requests)
    BY DEF Next1
  <1>3. QED
    BY <1>1, <1>2, GameHubAssumption

LEMMA TakenSafe ==
    ASSUME SyncInv, NEW type, Next1(type),
           ws' \in [Client -> Seq(WsMsg)], HttpOK',
           gameData' \in Seq(Action), ToSet(gameData') \subseteq committed,
           proposing' \in Request \cup {Nothing},
           proposing'.type \in {"none", "action", "save"},
           UNCHANGED <<store, members, committed, up, client, made, faults>>,
           \A c \in Client : CallOK(c, client[c], http'[c]["action"], Tail(requests),
                                    proposing', committed)
    PROVE  SyncInv'
  <1>1. TypeInv /\ HubInv
    BY DEF SyncInv
  <1>2. UNCHANGED <<store, members, committed>> /\ UNCHANGED <<up, client, made, faults>>
    OBVIOUS
  <1>3. /\ requests' = Tail(requests) /\ requests' \in Seq(Request)
        /\ Len(requests') <= QueueCap
        /\ \A i \in 1..Len(requests') :
              i + 1 \in 1..Len(requests) /\ requests'[i] = requests[i + 1]
    BY FirstIs
  <1>4. TypeInv'
    <2>1. NetTypeOK'
      BY <1>1, <1>2 DEF TypeInv, TypeOK, NetTypeOK, HttpOK
    <2>2. HubTypeOK'
      BY <1>1, <1>2, <1>3 DEF TypeInv, TypeOK, HubTypeOK
    <2>3. ClientTypeOK'
      BY <1>1, <1>2 DEF TypeInv, TypeOK, ClientTypeOK
    <2>4. TypeOK'
      BY <1>1, <1>2, <2>1, <2>2, <2>3 DEF TypeInv, TypeOK
    <2>5. QED
      BY <2>4 DEF TypeInv
  <1>5. HubInv'
    BY <1>1, <1>2, <1>3 DEF HubInv
  <1>6. \A c \in Client : CallInv(c)'
    BY <1>2, <1>3 DEF CallInv
  <1>7. QED
    BY <1>4, <1>5, <1>6 DEF SyncInv

LEMMA NothingCalls == Nothing.type = "none" /\ \A c \in Client : ~CallOf(Nothing, c)
  BY DEF Nothing, CallOf

LEMMA AppendWs ==
    ASSUME ws \in [Client -> Seq(WsMsg)], NEW c \in Client, NEW m \in WsMsg
    PROVE  [ws EXCEPT ![c] = Append(@, m)] \in [Client -> Seq(WsMsg)]
  <1>1. Append(ws[c], m) \in Seq(WsMsg)
    OBVIOUS
  <1>2. QED
    BY <1>1

LEMMA JoinAnswerTyping ==
    ASSUME NEW log \in Seq(Action), NEW rev PROVE JoinAnswer(log, rev) \in WsMsg
  <1>1. After(log, rev) \in Seq(Action) /\ Revision(log) \in Rev
    BY AfterTyping, RevisionTyping
  <1>2. /\ SyncUpdate(After(log, rev)) \in WsMsg /\ Conflict(Revision(log)) \in WsMsg
        /\ Ack \in WsMsg
    BY <1>1 DEF SyncUpdate, Conflict, WsMsg
  <1>3. QED
    BY <1>2 DEF JoinAnswer

LEMMA HubJoinSafe ==
    ASSUME SyncInv, HubJoin, UNCHANGED <<client, made, faults>> PROVE SyncInv'
  <1> DEFINE r == Head(requests)
  <1>1. Next1("join")
    BY DEF HubJoin
  <1>2. /\ r \in Request /\ r.type = "join" /\ requests # <<>> /\ proposing = Nothing
        /\ requests \in Seq(Request)
    BY <1>1, FirstIs
  <1>3. r.client \in Client
    BY <1>2, RequestTyping
  <1>4. /\ gameData' = Loaded
        /\ ws' = IF r.live /\ r.client \in members
                 THEN [ws EXCEPT ![r.client] = Append(@, JoinAnswer(Loaded, r.base))]
                 ELSE ws
        /\ UNCHANGED <<store, proposing, members, committed, up, http>>
    BY DEF HubJoin
  <1>5. Loaded \in Seq(Action) /\ ToSet(Loaded) \subseteq committed
    BY LoadedIs
  <1>6. ws \in [Client -> Seq(WsMsg)] /\ HttpOK
    BY DEF SyncInv, TypeInv, TypeOK, NetTypeOK
  <1>7. ws' \in [Client -> Seq(WsMsg)]
    <2>1. JoinAnswer(Loaded, r.base) \in WsMsg
      BY <1>5, JoinAnswerTyping
    <2> HIDE DEF r
    <2>2. [ws EXCEPT ![r.client] = Append(@, JoinAnswer(Loaded, r.base))]
             \in [Client -> Seq(WsMsg)]
      BY <1>3, <1>6, <2>1, AppendWs
    <2>3. QED
      BY <1>4, <1>6, <2>2
  <1>8. HttpOK'
    BY <1>4, <1>6 DEF HttpOK
  <1>9. proposing' = Nothing /\ http' = http
    BY <1>2, <1>4
  <1>10. ASSUME NEW c \in Client
         PROVE  CallOK(c, client[c], http'[c]["action"], Tail(requests), proposing', committed)
    <2>1. CallOK(c, client[c], http[c]["action"], requests, proposing, committed)
      BY DEF SyncInv, CallInv
    <2>2. CallOK(c, client[c], http[c]["action"], Tail(requests), proposing, committed)
      BY <1>2, <2>1, CallDropped
    <2>3. QED
      BY <1>4, <2>2
  <1>11. QED
    BY <1>1, <1>4, <1>5, <1>7, <1>8, <1>9, <1>10, NothingCalls, TakenSafe

LEMMA HubSaveSafe ==
    ASSUME SyncInv, HubSave, UNCHANGED <<client, made, faults>> PROVE SyncInv'
  <1>1. Next1("save")
    BY DEF HubSave
  <1>2. /\ Head(requests) \in Request /\ Head(requests).type = "save"
        /\ requests # <<>> /\ proposing = Nothing /\ requests \in Seq(Request)
    BY <1>1, FirstIs
  <1>3. /\ gameData' = Loaded /\ proposing' = Head(requests)
        /\ UNCHANGED <<store, members, committed>> /\ UNCHANGED <<ws, up, http>>
    BY DEF HubSave, net
  <1>4. Loaded \in Seq(Action) /\ ToSet(Loaded) \subseteq committed
    BY LoadedIs
  <1>5. ws' \in [Client -> Seq(WsMsg)] /\ HttpOK'
    BY <1>3 DEF SyncInv, TypeInv, TypeOK, NetTypeOK, HttpOK
  <1>6. ASSUME NEW c \in Client
        PROVE  CallOK(c, client[c], http'[c]["action"], Tail(requests), proposing', committed)
    <2>1. CallOK(c, client[c], http[c]["action"], requests, proposing, committed)
      BY DEF SyncInv, CallInv
    <2>2. ~CallOf(proposing, c)
      BY <1>2, NothingCalls
    <2>3. CallOK(c, client[c], http[c]["action"], Tail(requests), Head(requests), committed)
      BY <1>2, <2>1, <2>2, CallProposed
    <2>4. QED
      BY <1>3, <2>3
  <1>7. QED
    BY <1>1, <1>2, <1>3, <1>4, <1>5, <1>6, TakenSafe

LEMMA HubLoadSafe ==
    ASSUME SyncInv, HubLoad, UNCHANGED <<client, made, faults>> PROVE SyncInv'
  <1> DEFINE r == Head(requests)
  <1>1. Next1("load")
    BY DEF HubLoad
  <1>2. /\ r \in Request /\ r.type = "load" /\ requests # <<>> /\ proposing = Nothing
        /\ requests \in Seq(Request)
    BY <1>1, FirstIs
  <1>3. r.client \in Client /\ r.live \in BOOLEAN
    BY <1>2, RequestTyping
  <1>4. /\ gameData' = Loaded /\ Answer(r, "document", Document(Loaded))
        /\ UNCHANGED <<store, proposing, members, committed, ws, up>>
    BY DEF HubLoad
  <1>5. Loaded \in Seq(Action) /\ ToSet(Loaded) \subseteq committed
    BY LoadedIs
  <1>6. ws \in [Client -> Seq(WsMsg)] /\ HttpOK
    BY DEF SyncInv, TypeInv, TypeOK, NetTypeOK
  <1>7. /\ "document" \in Kind /\ "action" \in Kind /\ "action" # "document"
        /\ Document(Loaded) \in AnswerFor("document")
    BY <1>5 DEF Kind, AnswerFor, DocumentAnswer, Document
  <1> HIDE DEF r
  <1>8. HttpOK' /\ \A d \in Client : http'[d]["action"] = http[d]["action"]
    BY <1>3, <1>4, <1>6, <1>7, AnswerSets
  <1>9. ASSUME NEW c \in Client
        PROVE  CallOK(c, client[c], http'[c]["action"], Tail(requests), proposing', committed)
    <2>1. CallOK(c, client[c], http[c]["action"], requests, proposing, committed)
      BY DEF SyncInv, CallInv
    <2>2. CallOK(c, client[c], http[c]["action"], Tail(requests), proposing, committed)
      BY <1>2, <2>1, CallDropped
    <2>3. QED
      BY <1>4, <1>8, <2>2
  <1>10. ws' \in [Client -> Seq(WsMsg)] /\ proposing' = Nothing
    BY <1>2, <1>4, <1>6
  <1>11. QED
    BY <1>1, <1>4, <1>5, <1>8, <1>9, <1>10, NothingCalls, TakenSafe

LEMMA BroadcastMsgsTyping ==
    ASSUME NEW r, r.log \in Seq(Action), r.num \in Nat
    PROVE  /\ BroadcastMsgs(r) \in Seq(WsMsg)
           /\ \A i \in 1..Len(BroadcastMsgs(r)) :
                 /\ BroadcastMsgs(r)[i].type = "ACTION"
                 /\ BroadcastMsgs(r)[i].action \in ToSet(r.log)
  <1> DEFINE log == r.log
             n == IF r.num > Len(log) THEN Len(log) ELSE r.num
             msgs == [i \in 1..n |-> ActionMsg(log[Len(log) - n + i])]
  <1>1. n \in Nat /\ n <= Len(log) /\ Len(log) \in Nat
    OBVIOUS
  <1>2. ASSUME NEW i \in 1..n
        PROVE  /\ msgs[i] \in WsMsg /\ msgs[i].type = "ACTION" /\ msgs[i].action \in ToSet(log)
    <2> HIDE DEF n
    <2>1. Len(log) - n + i \in 1..Len(log)
      BY <1>1, <1>2
    <2>2. log[Len(log) - n + i] \in Action /\ log[Len(log) - n + i] \in ToSet(log)
      BY <2>1 DEF ToSet
    <2>3. msgs[i] = [type |-> "ACTION", action |-> log[Len(log) - n + i]]
      BY <1>2 DEF ActionMsg
    <2>4. QED
      BY <2>2, <2>3 DEF WsMsg
  <1>3. msgs \in Seq(WsMsg) /\ Len(msgs) = n
    <2> DEFINE e(i) == ActionMsg(log[Len(log) - n + i])
    <2>1. \A i \in 1..n : e(i) \in WsMsg
      BY <1>2
    <2> HIDE DEF n, e
    <2>2. [i \in 1..n |-> e(i)] \in Seq(WsMsg) /\ Len([i \in 1..n |-> e(i)]) = n
      BY <1>1, <2>1
    <2>3. QED
      BY <2>2 DEF e
  <1>4. BroadcastMsgs(r) = msgs
    BY DEF BroadcastMsgs
  <1> HIDE DEF msgs
  <1>5. QED
    BY <1>2, <1>3, <1>4

LEMMA HubBroadcastSafe ==
    ASSUME SyncInv, HubBroadcast, UNCHANGED <<client, made, faults>> PROVE SyncInv'
  <1> DEFINE r == Head(requests)
  <1>1. Next1("broadcast")
    BY DEF HubBroadcast
  <1>2. /\ r \in Request /\ r.type = "broadcast" /\ requests # <<>> /\ proposing = Nothing
        /\ requests \in Seq(Request) /\ r = requests[1] /\ 1 \in 1..Len(requests)
    BY <1>1, FirstIs
  <1>3. r.log \in Seq(Action) /\ r.num \in Nat
    BY <1>2, RequestTyping
  <1>4. /\ gameData' = r.log
        /\ ws' = [c \in Client |-> IF c \in members THEN ws[c] \o BroadcastMsgs(r) ELSE ws[c]]
        /\ UNCHANGED <<store, proposing, members, committed, up, http>>
    BY DEF HubBroadcast
  <1>5. ToSet(r.log) \subseteq committed
    BY <1>2 DEF SyncInv, HubInv
  <1> HIDE DEF r
  <1>6. ws \in [Client -> Seq(WsMsg)] /\ HttpOK
    BY DEF SyncInv, TypeInv, TypeOK, NetTypeOK
  <1>7. ws' \in [Client -> Seq(WsMsg)]
    <2>1. BroadcastMsgs(r) \in Seq(WsMsg)
      BY <1>3, BroadcastMsgsTyping
    <2>2. \A c \in Client : ws[c] \o BroadcastMsgs(r) \in Seq(WsMsg)
      BY <1>6, <2>1
    <2>3. QED
      BY <1>4, <1>6, <2>2
  <1>8. HttpOK'
    BY <1>4, <1>6 DEF HttpOK
  <1>9. proposing' = Nothing
    BY <1>2, <1>4
  <1>10. ASSUME NEW c \in Client
         PROVE  CallOK(c, client[c], http'[c]["action"], Tail(requests), proposing', committed)
    <2>1. CallOK(c, client[c], http[c]["action"], requests, proposing, committed)
      BY DEF SyncInv, CallInv
    <2>2. CallOK(c, client[c], http[c]["action"], Tail(requests), proposing, committed)
      BY <1>2, <2>1, CallDropped
    <2>3. QED
      BY <1>4, <2>2
  <1>11. QED
    BY <1>1, <1>3, <1>4, <1>5, <1>7, <1>8, <1>9, <1>10, NothingCalls, TakenSafe

\* A batch that the hub takes for a repeated one is in the log.
LEMMA AcknowledgedIsThere ==
    ASSUME NEW r \in Request, r.type = "action", NEW log \in Seq(Action),
           Verdict(r, log) = "ack"
    PROVE  ToSet(r.acts) \subseteq ToSet(log)
  <1>1. ~AtHead(r, log) /\ Overlaps(r, log) /\ Exhausted(r, log)
    BY DEF Verdict
  <1>2. r.acts \in Seq(Action)
    BY RequestTyping
  <1> DEFINE rest == After(log, r.base)
             p == IndexOf(log, r.base)
  <1>3. /\ Len(rest) = Len(log) - p
        /\ \A i \in 1..Len(rest) : i + p \in 1..Len(log) /\ rest[i] = log[i + p]
    BY AfterElements
  <1>4. p \in 0..Len(log) /\ p + Len(r.acts) <= Len(log)
    BY <1>1, IndexOfIs DEF Exhausted
  <1>5. \A i \in 1..Len(rest) : i <= Len(r.acts) => rest[i] = r.acts[i]
    BY <1>1 DEF Overlaps
  <1> HIDE DEF rest, p
  <1>6. ASSUME NEW i \in 1..Len(r.acts) PROVE r.acts[i] \in ToSet(log)
    <2>1. i \in 1..Len(rest) /\ i <= Len(r.acts)
      BY <1>2, <1>3, <1>4
    <2>2. r.acts[i] = log[i + p] /\ i + p \in 1..Len(log)
      BY <1>3, <1>5, <2>1
    <2>3. QED
      BY <2>2 DEF ToSet
  <1>7. QED
    BY <1>2, <1>6 DEF ToSet

LEMMA HubActionSafe ==
    ASSUME SyncInv, HubAction, UNCHANGED <<client, made, faults>> PROVE SyncInv'
  <1> DEFINE r == Head(requests)
             log == IF AtHead(r, Loaded) THEN Loaded ELSE store
             verdict == Verdict(r, log)
  <1>1. Next1("action")
    BY DEF HubAction
  <1>2. /\ r \in Request /\ r.type = "action" /\ requests # <<>> /\ proposing = Nothing
        /\ requests \in Seq(Request) /\ r = requests[1] /\ 1 \in 1..Len(requests)
    BY <1>1, FirstIs
  <1>3. r.client \in Client /\ r.live \in BOOLEAN /\ r.acts \in Seq(Action)
    BY <1>2, RequestTyping
  <1>4. /\ gameData' = log
        /\ proposing' = IF verdict = "propose" THEN r ELSE Nothing
        /\ \/ verdict = "propose" /\ UNCHANGED http
           \/ verdict = "ack" /\ Answer(r, "action", Ack)
           \/ verdict = "conflict" /\ Answer(r, "action", Conflict(Revision(log)))
        /\ UNCHANGED <<store, members, committed, ws, up>>
    BY DEF HubAction
  <1>5. log \in Seq(Action) /\ ToSet(log) \subseteq committed
    BY LoadedIs
  <1> HIDE DEF r, log
  <1>6. ws' \in [Client -> Seq(WsMsg)] /\ HttpOK
    BY <1>4 DEF SyncInv, TypeInv, TypeOK, NetTypeOK
  <1>7. ASSUME NEW c \in Client
        PROVE  CallOK(c, client[c], http[c]["action"], requests, proposing, committed)
    BY DEF SyncInv, CallInv
  <1>8. "action" \in Kind /\ Ack \in AnswerFor("action")
        /\ Conflict(Revision(log)) \in AnswerFor("action")
    BY <1>5, RevisionTyping DEF Kind, AnswerFor, ActionAnswer, Conflict
  <1>9. ASSUME verdict = "propose" PROVE SyncInv'
    <2>1. proposing' = r /\ http' = http
      BY <1>4, <1>9
    <2>2. HttpOK'
      BY <1>6, <2>1 DEF HttpOK
    <2>3. ASSUME NEW c \in Client
          PROVE  CallOK(c, client[c], http'[c]["action"], Tail(requests), proposing', committed)
      <3>1. ~CallOf(proposing, c)
        BY <1>2, NothingCalls
      <3>2. CallOK(c, client[c], http[c]["action"], Tail(requests), Head(requests), committed)
        BY <1>2, <1>7, <3>1, CallProposed
      <3>3. QED
        BY <2>1, <3>2 DEF r
    <2>4. QED
      BY <1>1, <1>2, <1>4, <1>5, <1>6, <2>1, <2>2, <2>3, TakenSafe
  <1>10. ASSUME NEW m, m \in AnswerFor("action"), m # Unsent, Answer(r, "action", m),
                m = Ack => ToSet(r.acts) \subseteq committed, proposing' = Nothing
         PROVE  SyncInv'
    <2>1. /\ HttpOK'
          /\ \A d \in Client : http'[d]["action"] =
                IF r.live /\ d = r.client THEN m ELSE http[d]["action"]
      BY <1>3, <1>6, <1>8, <1>10, AnswerSets
    <2>2. ASSUME NEW c \in Client
          PROVE  CallOK(c, client[c], http'[c]["action"], Tail(requests), proposing', committed)
      <3>1. CASE CallOf(r, c)
        <4>1. http'[c]["action"] = m
          BY <2>1, <3>1 DEF CallOf
        <4>2. /\ CallOf(Head(requests), c)
              /\ m = Ack => ToSet(Head(requests).acts) \subseteq committed
          BY <1>10, <3>1 DEF r
        <4>3. CallOK(c, client[c], m, Tail(requests), proposing, committed)
          BY <1>2, <1>7, <1>10, <4>2, CallAnswered
        <4>4. QED
          BY <1>2, <1>10, <4>1, <4>3
      <3>2. CASE ~CallOf(r, c)
        <4>1. http'[c]["action"] = http[c]["action"]
          BY <1>2, <2>1, <3>2 DEF CallOf
        <4>2. CallOK(c, client[c], http[c]["action"], Tail(requests), proposing, committed)
          BY <1>2, <1>7, CallDropped
        <4>3. QED
          BY <1>2, <1>10, <4>1, <4>2
      <3>3. QED
        BY <3>1, <3>2
    <2>3. QED
      BY <1>1, <1>4, <1>5, <1>6, <1>10, <2>1, <2>2, NothingCalls, TakenSafe
  <1>11. CASE verdict = "ack"
    <2>1. ToSet(r.acts) \subseteq committed
      BY <1>2, <1>5, <1>11, AcknowledgedIsThere
    <2>2. Answer(r, "action", Ack) /\ proposing' = Nothing
      BY <1>4, <1>11
    <2>3. Ack # Unsent
      BY DEF Ack, Unsent
    <2>4. QED
      BY <1>8, <1>10, <2>1, <2>2, <2>3
  <1>12. CASE verdict = "conflict"
    <2> DEFINE m == Conflict(Revision(log))
    <2>1. Answer(r, "action", m) /\ proposing' = Nothing
      BY <1>4, <1>12
    <2>2. m # Unsent /\ m # Ack
      BY DEF Conflict, Unsent, Ack
    <2>3. m \in AnswerFor("action")
      BY <1>8
    <2> HIDE DEF m
    <2>4. QED
      BY <1>10, <2>1, <2>2, <2>3
  <1>13. QED
    BY <1>4, <1>9, <1>11, <1>12

-----------------------------------------------------------------------------
(* A step of Raft and the FSM, and the idle ticker.                        *)

LEMMA AppliedSafe ==
    ASSUME SyncInv, NEW log \in Seq(Action), NEW num \in Nat,
           store' = log, committed' = committed \cup ToSet(log),
           Broadcasts(log, num) \/ UNCHANGED requests, proposing' = Nothing, HttpOK',
           UNCHANGED <<gameData, members, ws, up, client, made, faults>>,
           \A c \in Client : CallOK(c, client[c], http'[c]["action"], requests,
                                    Nothing, committed')
    PROVE  SyncInv'
  <1> DEFINE b == [type |-> "broadcast", log |-> log, num |-> num]
  <1>1. /\ TypeInv /\ HubInv /\ requests \in Seq(Request) /\ Len(requests) <= QueueCap
        /\ committed \subseteq Action
    BY DEF SyncInv, TypeInv, TypeOK, HubTypeOK
  <1>2. UNCHANGED <<gameData, members, ws, up>> /\ UNCHANGED <<client, made, faults>>
    OBVIOUS
  <1>3. b \in Request /\ b.type = "broadcast" /\ b.log = log /\ \A c : ~CallOf(b, c)
    <2>1. b.type = "broadcast" /\ b.log = log
      OBVIOUS
    <2>2. b \in [type : {"broadcast"}, log : Seq(Action), num : Nat]
      OBVIOUS
    <2>3. b \in Request
      BY <2>2 DEF Request
    <2> HIDE DEF b
    <2>4. QED
      BY <2>1, <2>3 DEF CallOf
  <1>4. \/ requests' = requests
        \/ HasRoom /\ requests' = Append(requests, b)
    BY DEF Broadcasts
  <1> HIDE DEF b
  <1>5. /\ requests' \in Seq(Request) /\ Len(requests') <= QueueCap
        /\ \A i \in 1..Len(requests') :
              \/ requests'[i] = b
              \/ i \in 1..Len(requests) /\ requests'[i] = requests[i]
    <2>1. CASE requests' = requests
      BY <1>1, <2>1
    <2>2. CASE HasRoom /\ requests' = Append(requests, b)
      <3>1. /\ Append(requests, b) \in Seq(Request)
            /\ Len(Append(requests, b)) = Len(requests) + 1 /\ Len(requests) \in Nat
            /\ Append(requests, b)[Len(requests) + 1] = b
            /\ \A i \in 1..Len(requests) : Append(requests, b)[i] = requests[i]
        BY <1>1, <1>3
      <3>2. Len(requests) < QueueCap /\ QueueCap \in Nat
        BY <2>2, GameHubAssumption DEF HasRoom
      <3>3. QED
        BY <2>2, <3>1, <3>2
    <2>3. QED
      BY <1>4, <2>1, <2>2
  <1>6. ToSet(log) \subseteq Action
    BY ToSetFacts
  <1>7. TypeInv'
    <2>1. NetTypeOK'
      BY <1>1, <1>2 DEF TypeInv, TypeOK, NetTypeOK, HttpOK
    <2>2. HubTypeOK'
      BY <1>1, <1>2, <1>5, <1>6 DEF TypeInv, TypeOK, HubTypeOK
    <2>3. ClientTypeOK'
      BY <1>1, <1>2 DEF TypeInv, TypeOK, ClientTypeOK
    <2>4. TypeOK'
      BY <1>1, <1>2, <2>1, <2>2, <2>3 DEF TypeInv, TypeOK
    <2>5. QED
      BY <2>4, NothingCalls DEF TypeInv
  <1>8. HubInv'
    <2>1. \A i \in 1..Len(requests') : requests'[i].type = "broadcast" =>
            ToSet(requests'[i].log) \subseteq committed'
      BY <1>1, <1>3, <1>5 DEF HubInv
    <2>2. QED
      BY <1>1, <1>2, <2>1 DEF HubInv
  <1>9. ASSUME NEW c \in Client PROVE CallInv(c)'
    <2>1. CallOK(c, client[c], http'[c]["action"], requests, Nothing, committed')
      OBVIOUS
    <2>2. CallOK(c, client[c], http'[c]["action"], Append(requests, b), Nothing, committed')
      BY <1>1, <1>3, <2>1, CallWaits
    <2>3. CallOK(c, client[c], http'[c]["action"], requests', Nothing, committed')
      BY <1>4, <2>1, <2>2
    <2>4. QED
      BY <1>2, <2>3 DEF CallInv
  <1>10. QED
    BY <1>7, <1>8, <1>9 DEF SyncInv

LEMMA FSMAppliesActionSafe ==
    ASSUME SyncInv, FSMAppliesAction, UNCHANGED <<client, made, faults>> PROVE SyncInv'
  <1> DEFINE r == proposing
             log == Extended(store, r.acts)
  <1>1. r \in Request /\ r.type = "action" /\ HttpOK
    BY DEF SyncInv, TypeInv, TypeOK, HubTypeOK, FSMAppliesAction, Nothing
  <1>2. r.client \in Client /\ r.live \in BOOLEAN /\ r.acts \in Seq(Action)
    BY <1>1, RequestTyping
  <1>3. /\ log \in Seq(Action) /\ ToSet(r.acts) \subseteq ToSet(log)
        /\ Len(r.acts) \in Nat
    BY <1>2, LoadedIs, ExtendedIs
  <1>4. /\ store' = log /\ committed' = committed \cup ToSet(log)
        /\ Broadcasts(log, Len(r.acts)) \/ UNCHANGED requests
        /\ Answer(r, "action", Ack) /\ proposing' = Nothing
        /\ UNCHANGED <<gameData, members, ws, up>>
    BY DEF FSMAppliesAction
  <1>5. requests \in Seq(Request)
    BY DEF SyncInv, TypeInv, TypeOK, HubTypeOK
  <1>6. "action" \in Kind /\ Ack \in AnswerFor("action")
    BY DEF Kind, AnswerFor, ActionAnswer
  <1> HIDE DEF log
  <1>7. /\ HttpOK'
        /\ \A d \in Client : http'[d]["action"] =
              IF r.live /\ d = r.client THEN Ack ELSE http[d]["action"]
    BY <1>1, <1>2, <1>4, <1>6, AnswerSets
  <1>8. ASSUME NEW c \in Client
        PROVE  CallOK(c, client[c], http'[c]["action"], requests, Nothing, committed')
    <2>1. CallOK(c, client[c], http[c]["action"], requests, proposing, committed)
      BY DEF SyncInv, CallInv
    <2>2. CASE CallOf(r, c)
      <3>1. http'[c]["action"] = Ack
        BY <1>7, <2>2 DEF CallOf
      <3>2. ToSet(proposing.acts) \subseteq committed'
        BY <1>3, <1>4
      <3>3. CallOK(c, client[c], Ack, requests, Nothing, committed')
        BY <1>5, <2>1, <2>2, <3>2, ProposalAnswered
      <3>4. QED
        BY <3>1, <3>3
    <2>3. CASE ~CallOf(r, c)
      <3>1. http'[c]["action"] = http[c]["action"]
        BY <1>1, <1>7, <2>3 DEF CallOf
      <3>2. committed \subseteq committed'
        BY <1>4
      <3>3. CallOK(c, client[c], http[c]["action"], requests, Nothing, committed')
        BY <2>1, <2>3, <3>2, ProposalEnds
      <3>4. QED
        BY <3>1, <3>3
    <2>4. QED
      BY <2>2, <2>3
  <1>9. UNCHANGED <<gameData, members, ws, up, client, made, faults>>
    BY <1>4
  <1>10. QED
    BY <1>3, <1>4, <1>7, <1>8, <1>9, AppliedSafe

LEMMA FSMAppliesSaveSafe ==
    ASSUME SyncInv, FSMAppliesSave, UNCHANGED <<client, made, faults>> PROVE SyncInv'
  <1> DEFINE r == proposing
             log == r.log
  <1>1. r \in Request /\ r.type = "save" /\ HttpOK
    BY DEF SyncInv, TypeInv, TypeOK, HubTypeOK, FSMAppliesSave, Nothing
  <1>2. r.client \in Client /\ r.live \in BOOLEAN /\ log \in Seq(Action)
    BY <1>1, RequestTyping
  <1>3. /\ store' = log /\ committed' = committed \cup ToSet(log)
        /\ Broadcasts(log, 0)
        /\ Answer(r, "document", Saved) /\ proposing' = Nothing
        /\ UNCHANGED <<gameData, members, ws, up>>
    BY DEF FSMAppliesSave
  <1>4. /\ "document" \in Kind /\ Saved \in AnswerFor("document")
        /\ "action" \in Kind /\ "action" # "document"
    BY DEF Kind, AnswerFor, DocumentAnswer
  <1> HIDE DEF log
  <1>5. HttpOK' /\ \A d \in Client : http'[d]["action"] = http[d]["action"]
    BY <1>1, <1>2, <1>3, <1>4, AnswerSets
  <1>6. ASSUME NEW c \in Client
        PROVE  CallOK(c, client[c], http'[c]["action"], requests, Nothing, committed')
    <2>1. CallOK(c, client[c], http[c]["action"], requests, proposing, committed)
      BY DEF SyncInv, CallInv
    <2>2. ~CallOf(proposing, c) /\ committed \subseteq committed'
      BY <1>1, <1>3 DEF CallOf
    <2>3. CallOK(c, client[c], http[c]["action"], requests, Nothing, committed')
      BY <2>1, <2>2, ProposalEnds
    <2>4. QED
      BY <1>5, <2>3
  <1>7. UNCHANGED <<gameData, members, ws, up, client, made, faults>> /\ 0 \in Nat
    BY <1>3
  <1>8. QED
    BY <1>2, <1>3, <1>5, <1>6, <1>7, AppliedSafe

LEMMA HubIdlesSafe ==
    ASSUME SyncInv, HubIdles, UNCHANGED <<client, made, faults>> PROVE SyncInv'
  <1>1. TypeInv /\ HubInv
    BY DEF SyncInv
  <1>2. /\ gameData' = NotLoaded /\ requests' = <<>>
        /\ UNCHANGED <<store, proposing, members, committed>>
        /\ UNCHANGED <<ws, up, http>> /\ UNCHANGED <<client, made, faults>>
    BY DEF HubIdles, net
  <1>3. requests' \in Seq(Request) /\ Len(requests') = 0
    BY <1>2
  <1>4. TypeInv'
    <2>1. NetTypeOK' /\ HttpOK' /\ ClientTypeOK'
      BY <1>1, <1>2 DEF TypeInv, TypeOK, NetTypeOK, HttpOK, ClientTypeOK
    <2>2. HubTypeOK'
      BY <1>1, <1>2, <1>3, GameHubAssumption DEF TypeInv, TypeOK, HubTypeOK
    <2>3. TypeOK'
      BY <1>1, <1>2, <2>1, <2>2 DEF TypeInv, TypeOK
    <2>4. QED
      BY <1>1, <1>2, <2>1, <2>3 DEF TypeInv
  <1>5. HubInv'
    BY <1>1, <1>2, <1>3 DEF HubInv
  <1>6. ASSUME NEW c \in Client PROVE CallInv(c)'
    <2>1. CallOK(c, client[c], http[c]["action"], requests, proposing, committed)
      BY DEF SyncInv, CallInv
    <2>2. CallOK(c, client[c], http[c]["action"], requests', proposing, committed)
      BY <1>3, <2>1 DEF CallOK
    <2>3. QED
      BY <1>2, <2>2 DEF CallInv
  <1>7. QED
    BY <1>4, <1>5, <1>6 DEF SyncInv

-----------------------------------------------------------------------------
(* The invariant, and what follows.                                        *)

LEMMA InitSafe ==
    ASSUME Init PROVE SyncInv
  <1>1. Start \in Action /\ <<Start>> \in Seq(Action) /\ ToSet(<<Start>>) = {Start}
    BY SyncProtocolAssumption DEF ToSet
  <1>2. /\ Opened(<<Start>>) \in Session /\ ~Opened(<<Start>>).connected
        /\ Opened(<<Start>>).flight = <<>>
    BY <1>1, OpenedTyping
  <1>3. client \in [Client -> Session] /\ \A c \in Client : client[c] = Opened(<<Start>>)
    BY <1>2 DEF Init, ClientInit
  <1>4. /\ store = <<Start>> /\ gameData = NotLoaded /\ requests = <<>>
        /\ proposing = Nothing /\ members = {} /\ committed = {Start}
    BY DEF Init, HubInit
  <1>5. Unsent \in HttpState /\ Unsent \in ActionAnswer /\ Unsent \in DocumentAnswer
        /\ "action" \in Kind /\ "document" \in Kind
    BY DEF HttpState, ActionAnswer, DocumentAnswer, Kind
  <1>6. /\ http \in [Client -> [Kind -> HttpState]]
        /\ \A c \in Client, k \in Kind : http[c][k] = Unsent
    BY <1>5 DEF Init, NetInit
  <1>7. HttpOK
    BY <1>5, <1>6 DEF HttpOK
  <1>8. NetTypeOK
    <2>1. <<>> \in Seq(WsMsg) /\ <<>> \in Seq(Rev)
      OBVIOUS
    <2>2. QED
      BY <1>6, <2>1 DEF NetTypeOK, Init, NetInit
  <1>9. HubTypeOK
    BY <1>1, <1>4, GameHubAssumption DEF HubTypeOK
  <1>10. BoundsOK
    BY GameSyncAssumption DEF BoundsOK, Init
  <1>11. TypeInv
    BY <1>2, <1>3, <1>4, <1>7, <1>8, <1>9, <1>10, NothingCalls
       DEF TypeInv, TypeOK, ClientTypeOK, BoundsOK
  <1>12. HubInv
    BY <1>1, <1>4 DEF HubInv
  <1>13. ASSUME NEW c \in Client PROVE CallInv(c)
    BY <1>2, <1>3, <1>4, <1>5, <1>6, NothingCalls, CallsGone DEF CallInv
  <1>14. QED
    BY <1>11, <1>12, <1>13 DEF SyncInv

LEMMA NextSafe ==
    ASSUME SyncInv, [Next]_vars PROVE SyncInv'
  <1>1. CASE HubStep
    <2>1. UNCHANGED <<client, made, faults>>
      BY <1>1 DEF HubStep
    <2>2. QED
      BY <1>1, <2>1, HubJoinSafe, HubActionSafe, HubSaveSafe, HubLoadSafe, HubBroadcastSafe
         DEF HubStep, HubRuns
  <1>2. CASE RaftStep
    BY <1>2, FSMAppliesActionSafe, FSMAppliesSaveSafe DEF RaftStep, FSMApplies
  <1>3. CASE IdleTicker
    BY <1>3, HubIdlesSafe DEF IdleTicker
  <1>4. ASSUME NEW c \in Client, ReadPump(c) PROVE SyncInv'
    BY <1>4, ReadPumpSafe
  <1>5. ASSUME NEW c \in Client,
               \/ ActionSaved(c) \/ RetryFires(c) \/ ResolvingEnds(c) \/ Drops(c)
               \/ ChoosesOverwrite(c) \/ ChoosesForceSave(c) \/ ChoosesFork(c)
        PROVE  SyncInv'
    BY <1>5, HandlersSafe
  <1>6. ASSUME NEW c \in Client, UserActs(c) \/ Receive(c) \/ Connects(c) PROVE SyncInv'
    BY <1>6, UserActsSafe, ReceiveSafe, ConnectsSafe
  <1>7. ASSUME NEW c \in Client, PostArrives(c) \/ PostAnswered(c) \/ PostFails(c)
        PROVE  SyncInv'
    BY <1>7, PostArrivesSafe, PostAnsweredSafe, PostFailsSafe
  <1>8. ASSUME NEW c \in Client, FormArrives(c) \/ FormAnswered(c) \/ FormLost(c)
        PROVE  SyncInv'
    BY <1>8, FormArrivesSafe, FormAnsweredSafe, FormLostSafe
  <1>9. ASSUME NEW c \in Client, Reloads(c) PROVE SyncInv'
    BY <1>9, ReloadsSafe
  <1>10. CASE UNCHANGED vars
    <2>1. UNCHANGED <<ws, up, http>> /\ UNCHANGED <<client, made, faults>>
          /\ UNCHANGED <<store, gameData, requests, proposing, members, committed>>
      BY <1>10 DEF vars, net, hubVars
    <2>2. TypeInv'
      BY <2>1 DEF SyncInv, TypeInv, TypeOK, NetTypeOK, HttpOK, HubTypeOK, ClientTypeOK
    <2>3. HubInv' /\ \A c \in Client : CallInv(c)'
      BY <2>1 DEF SyncInv, HubInv, CallInv
    <2>4. QED
      BY <2>2, <2>3 DEF SyncInv
  <1>11. QED
    BY <1>1, <1>2, <1>3, <1>4, <1>5, <1>6, <1>7, <1>8, <1>9, <1>10 DEF Next

\* A browser waits for one batch at most, one request at most carries it, and
\* the hub's log, its copy and what it broadcasts hold committed actions only.
THEOREM SyncSafe == Spec => []SyncInv
  <1>1. Init => SyncInv
    BY InitSafe
  <1>2. SyncInv /\ [Next]_vars => SyncInv'
    BY NextSafe
  <1>3. QED
    BY <1>1, <1>2, PTL DEF Spec

\* Every variable keeps its type: no request beyond the channel's capacity,
\* and the hub's members are the browsers that are connected.
THEOREM Types == Spec => []TypeOK
  <1>1. SyncInv => TypeOK
    BY DEF SyncInv, TypeInv
  <1>2. QED
    BY <1>1, SyncSafe, PTL

\* A browser is told that its batch has been taken only when every action of
\* it is committed, whatever is lost, retried, fast-forwarded or overwritten.
THEOREM NoFalseAck == Spec => []AckedIsCommitted
  <1>1. SyncInv => AckedIsCommitted
    <2>1. ASSUME SyncInv, NEW c \in Client, http[c]["action"] = Ack,
                 NEW i \in 1..Len(client[c].flight)
          PROVE  client[c].flight[i].act \in committed
      <3>1. ToSet(Batch(client[c])) \subseteq committed
        BY <2>1 DEF SyncInv, CallInv, CallOK
      <3>2. client[c] \in Session
        BY <2>1 DEF SyncInv, TypeInv, TypeOK, ClientTypeOK
      <3>3. client[c].flight \in Seq(Queued)
        BY <3>2 DEF Session
      <3>4. Len(client[c].flight) \in Nat
        BY <3>3
      <3>5. client[c].flight[i].act \in ToSet(Batch(client[c]))
        BY <2>1, <3>4 DEF Batch, ToSet
      <3>6. QED
        BY <3>1, <3>5
    <2>2. QED
      BY <2>1 DEF AckedIsCommitted
  <1>2. QED
    BY <1>1, SyncSafe, PTL

-----------------------------------------------------------------------------
(* No action twice.                                                        *)

\* Every action is made once, by one user: the ids are unique.
UniqueOwn ==
    \A c, d \in Client : \A i \in 1..Len(Own[c]), j \in 1..Len(Own[d]) :
        Own[c][i] = Own[d][j] => c = d /\ i = j

\* The actions there are: the first, and those made so far.
AllMade == {Start} \cup {a \in Action : \E c \in Client : \E i \in 1..made[c] : a = Own[c][i]}

Kept(S, log) == Spaced(log) /\ ToSet(log) \subseteq S

\* Of the actions of S and of no others: a request, the hub, and a browser
\* with what is on its way to it.
FreshRequest(S, r) ==
    /\ r.type = "action" => ToSet(r.acts) \subseteq S
    /\ r.type \in {"save", "broadcast"} => Kept(S, r.log)

FreshHub(S, log, copy, channel, proposal) ==
    /\ Kept(S, log)
    /\ copy # NotLoaded => Kept(S, copy)
    /\ \A i \in 1..Len(channel) : FreshRequest(S, channel[i])
    /\ FreshRequest(S, proposal)

FreshClient(S, k, document, inbox) ==
    /\ Acts(k) \subseteq S
    /\ Spaced(k.log)
    /\ document.type = "GAME" => Kept(S, document.log)
    /\ \A i \in 1..Len(inbox) : Brings(inbox[i]) \subseteq S

FreshInv ==
    /\ FreshHub(AllMade, store, gameData, requests, proposing)
    /\ \A c \in Client : FreshClient(AllMade, client[c], http[c]["document"], ws[c])

LEMMA FreshMore ==
    ASSUME NEW S, NEW T, S \subseteq T
    PROVE  /\ \A r : FreshRequest(S, r) => FreshRequest(T, r)
           /\ \A l, m, q, p : FreshHub(S, l, m, q, p) => FreshHub(T, l, m, q, p)
           /\ \A k, m, q : FreshClient(S, k, m, q) => FreshClient(T, k, m, q)
  BY DEF FreshRequest, FreshHub, FreshClient, Kept

LEMMA FreshLeft ==
    ASSUME NEW S, NEW q, \A i \in 1..Len(q) : FreshRequest(S, q[i]),
           NEW types, NEW c, NEW a, Len(a) = Len(q),
           \A i \in 1..Len(q) : Left(q[i], a[i], types, c)
    PROVE  \A i \in 1..Len(a) : FreshRequest(S, a[i])
  BY DEF FreshRequest, Left

LEMMA FreshAppend ==
    ASSUME NEW S, NEW q \in Seq(Request), \A i \in 1..Len(q) : FreshRequest(S, q[i]),
           NEW r \in Request, FreshRequest(S, r)
    PROVE  \A i \in 1..Len(Append(q, r)) : FreshRequest(S, Append(q, r)[i])
  <1>1. /\ Len(Append(q, r)) = Len(q) + 1 /\ Len(q) \in Nat
        /\ Append(q, r)[Len(q) + 1] = r
        /\ \A i \in 1..Len(q) : Append(q, r)[i] = q[i]
    OBVIOUS
  <1>2. ASSUME NEW i \in 1..Len(Append(q, r)) PROVE FreshRequest(S, Append(q, r)[i])
    BY <1>1
  <1>3. QED
    BY <1>2

LEMMA NothingFresh == \A S : FreshRequest(S, Nothing)
  BY DEF FreshRequest, Nothing

LEMMA MadeStays == ASSUME UNCHANGED made PROVE AllMade' = AllMade
  BY DEF AllMade

\* A browser's session changes.
LEMMA SessionFresh ==
    ASSUME SyncInv, FreshInv, NEW c \in Client, NEW k \in Session, NEW inbox,
           Session1(c, k, inbox), UNCHANGED quiet, NEW T, AllMade \subseteq T, AllMade' = T,
           \A i \in 1..Len(inbox) : Brings(inbox[i]) \subseteq T,
           Acts(k) \subseteq T, Spaced(k.log),
           \/ http'[c]["document"] = http[c]["document"]
           \/ http'[c]["document"] = Unsent,
           \A d \in Client : d # c => http'[d]["document"] = http[d]["document"]
    PROVE  FreshInv'
  <1>1. TypeInv
    BY DEF SyncInv
  <1>2. /\ client'[c] = k /\ \A d \in Client : d # c => client'[d] = client[d]
        /\ Len(requests') = Len(requests)
        /\ \A i \in 1..Len(requests) : Left(requests[i], requests'[i], {"join"}, c)
    BY <1>1, SessionChanges
  <1>3. ws \in [Client -> Seq(WsMsg)]
    BY <1>1 DEF TypeInv, TypeOK, NetTypeOK
  <1>4. /\ ws'[c] = <<>> \/ ws'[c] = inbox
        /\ \A d \in Client : d # c => ws'[d] = ws[d]
    BY <1>3 DEF Session1
  <1>5. /\ FreshHub(T, store, gameData, requests, proposing)
        /\ \A d \in Client : FreshClient(T, client[d], http[d]["document"], ws[d])
    BY FreshMore DEF FreshInv
  <1>6. \A i \in 1..Len(requests') : FreshRequest(T, requests'[i])
    <2>1. \A i \in 1..Len(requests) : FreshRequest(T, requests[i])
      BY <1>5 DEF FreshHub
    <2>2. QED
      BY <1>2, <2>1, FreshLeft
  <1>7. FreshHub(AllMade, store, gameData, requests, proposing)'
    <2>1. UNCHANGED <<store, gameData, proposing>>
      BY DEF quiet
    <2>2. QED
      BY <1>5, <1>6, <2>1 DEF FreshHub
  <1>8. ASSUME NEW d \in Client
        PROVE  FreshClient(T, client'[d], http'[d]["document"], ws'[d])
    <2>1. CASE d = c
      <3>1. \A i \in 1..Len(ws'[c]) : Brings(ws'[c][i]) \subseteq T
        BY <1>4
      <3>2. http'[c]["document"].type = "GAME" => Kept(T, http'[c]["document"].log)
        BY <1>5 DEF FreshClient, Unsent
      <3>3. FreshClient(T, k, http'[c]["document"], ws'[c])
        BY <3>1, <3>2 DEF FreshClient
      <3>4. QED
        BY <1>2, <2>1, <3>3
    <2>2. CASE d # c
      BY <1>2, <1>4, <1>5, <2>2
    <2>3. QED
      BY <2>1, <2>2
  <1>9. QED
    BY <1>7, <1>8 DEF FreshInv

\* The handler of a browser runs, given actions that there are.
LEMMA HandlerFresh ==
    ASSUME SyncInv, FreshInv, NEW c \in Client, NEW k, NEW S, Moves(client[c], k, S),
           S \subseteq AllMade, NEW inbox, Session1(c, k, inbox),
           inbox = ws[c] \/ (ws[c] # <<>> /\ inbox = Tail(ws[c])),
           UNCHANGED <<quiet, made>>,
           \/ http'[c]["document"] = http[c]["document"]
           \/ http'[c]["document"] = Unsent,
           \A d \in Client : d # c => http'[d]["document"] = http[d]["document"]
    PROVE  FreshInv'
  <1>1. FreshClient(AllMade, client[c], http[c]["document"], ws[c])
    BY DEF FreshInv
  <1>2. k \in Session /\ Acts(k) \subseteq AllMade /\ Spaced(k.log)
    BY <1>1 DEF Moves, FreshClient
  <1>3. \A i \in 1..Len(inbox) : Brings(inbox[i]) \subseteq AllMade
    <2>1. ws[c] \in Seq(WsMsg) /\ \A i \in 1..Len(ws[c]) : Brings(ws[c][i]) \subseteq AllMade
      BY <1>1 DEF FreshClient, SyncInv, TypeInv, TypeOK, NetTypeOK
    <2>2. CASE inbox = ws[c]
      BY <2>1, <2>2
    <2>3. CASE ws[c] # <<>> /\ inbox = Tail(ws[c])
      <3>1. \A i \in 1..Len(inbox) : i + 1 \in 1..Len(ws[c]) /\ inbox[i] = ws[c][i + 1]
        BY <2>1, <2>3
      <3>2. QED
        BY <2>1, <3>1
    <2>4. QED
      BY <2>2, <2>3
  <1>4. AllMade' = AllMade /\ UNCHANGED quiet
    BY MadeStays
  <1>5. QED
    BY <1>2, <1>3, <1>4, SessionFresh

\* The user's action is new: nobody has it yet.
LEMMA UserActsFresh ==
    ASSUME UniqueOwn, SyncInv, FreshInv, NEW c \in Client, UserActs(c) PROVE FreshInv'
  <1> DEFINE n == made[c] + 1
             a == Own[c][n]
             k == Act(client[c], a)
             T == AllMade \cup {a}
  <1>1. /\ client[c] \in Session /\ made \in [Client -> Nat]
        /\ \A d \in Client : made[d] <= Len(Own[d])
    BY DEF SyncInv, TypeInv, TypeOK, ClientTypeOK
  <1>2. \A d \in Client : Own[d] \in Seq(Action \ {Start}) /\ Len(Own[d]) \in Nat
    BY GameSyncAssumption
  <1>3. n \in 1..Len(Own[c]) /\ made[c] < n /\ made[c] \in Nat
    BY <1>1, <1>2 DEF UserActs
  <1>4. made' = [made EXCEPT ![c] = n] /\ UNCHANGED quiet /\ UNCHANGED http
        /\ Session1(c, k, ws[c])
    BY DEF UserActs, Steps
  <1> HIDE DEF n
  <1>5. a \in Action /\ a # Start
    BY <1>2, <1>3
  <1>6. a \notin AllMade
    <2>1. ASSUME NEW d \in Client, NEW i \in 1..made[d], a = Own[d][i] PROVE FALSE
      <3>1. i \in 1..Len(Own[d])
        BY <1>1, <1>2
      <3>2. c = d /\ n = i
        BY <1>3, <2>1, <3>1 DEF UniqueOwn
      <3>3. QED
        BY <1>3, <3>2
    <2>2. QED
      BY <1>5, <2>1 DEF AllMade
  <1>7. AllMade' = T
    <2>1. /\ made'[c] = n /\ \A d \in Client : d # c => made'[d] = made[d]
      BY <1>1, <1>4
    <2>2. AllMade' = {Start} \cup
                      {x \in Action : \E d \in Client : \E i \in 1..made'[d] : x = Own[d][i]}
      BY DEF AllMade
    <2>3. ASSUME NEW x \in AllMade' PROVE x \in T
      <3>1. CASE x = Start
        BY <3>1 DEF AllMade
      <3>2. CASE x # Start
        <4>0. PICK d \in Client : \E i \in 1..made'[d] : x = Own[d][i] /\ x \in Action
          BY <2>2, <2>3, <3>2
        <4>1. PICK i \in 1..made'[d] : x = Own[d][i] /\ x \in Action
          BY <4>0
        <4>2. CASE d = c /\ i = n
          BY <4>1, <4>2
        <4>3. CASE ~(d = c /\ i = n)
          <5>1. i \in 1..made[d]
            BY <1>1, <1>3, <2>1, <4>3 DEF n
          <5>2. QED
            BY <4>1, <5>1 DEF AllMade
        <4>4. QED
          BY <4>2, <4>3
      <3>3. QED
        BY <3>1, <3>2
    <2>4. ASSUME NEW x \in T PROVE x \in AllMade'
      <3>1. CASE x = a
        <4>1. n \in 1..made'[c]
          BY <1>3, <2>1
        <4>2. QED
          BY <1>5, <2>2, <3>1, <4>1
      <3>2. CASE x = Start
        BY <2>2, <3>2
      <3>3. CASE x # Start /\ x # a
        <4>0. PICK d \in Client : \E i \in 1..made[d] : x = Own[d][i] /\ x \in Action
          BY <2>4, <3>3 DEF AllMade
        <4>1. PICK i \in 1..made[d] : x = Own[d][i] /\ x \in Action
          BY <4>0
        <4>2. i \in 1..made'[d]
          BY <1>1, <1>3, <2>1
        <4>3. QED
          BY <2>2, <4>1, <4>2
      <3>4. QED
        BY <3>1, <3>2, <3>3
    <2>5. QED
      BY <2>3, <2>4
  <1> HIDE DEF a
  <1>8. FreshClient(AllMade, client[c], http[c]["document"], ws[c])
    BY DEF FreshInv
  <1>9. k \in Session /\ k.log = Append(client[c].log, a) /\ Acts(k) \subseteq T
    BY <1>1, <1>5, <1>8, ActTyping DEF FreshClient
  <1>10. Spaced(k.log)
    <2>1. client[c].log \in Seq(Action) /\ Spaced(client[c].log)
      BY <1>1, <1>8 DEF Session, FreshClient
    <2>2. a \notin ToSet(client[c].log)
      BY <1>6, <1>8 DEF FreshClient, Acts
    <2>3. a \notin Recent(client[c].log)
      BY <2>1, <2>2 DEF Recent, ToSet
    <2>4. QED
      BY <1>5, <1>9, <2>1, <2>3, AppendSpaced
  <1>11. \A i \in 1..Len(ws[c]) : Brings(ws[c][i]) \subseteq T
    BY <1>8 DEF FreshClient
  <1>12. AllMade \subseteq T
    OBVIOUS
  <1> HIDE DEF T, k
  <1>13. QED
    BY <1>4, <1>7, <1>9, <1>10, <1>11, <1>12, SessionFresh

LEMMA HandlersFresh ==
    ASSUME SyncInv, FreshInv, NEW c \in Client,
           \/ ActionSaved(c) \/ RetryFires(c) \/ ResolvingEnds(c) \/ Drops(c)
           \/ ChoosesOverwrite(c) \/ ChoosesForceSave(c) \/ ChoosesFork(c)
    PROVE  FreshInv'
  <1>1. client[c] \in Session
    BY DEF SyncInv, TypeInv, TypeOK, ClientTypeOK
  <1>2. PICK k : Moves(client[c], k, {}) /\ Session1(c, k, ws[c])
    <2>1. CASE ActionSaved(c)
      BY <1>1, <2>1, SendActionMoves DEF ActionSaved, Steps
    <2>2. CASE RetryFires(c)
      BY <1>1, <2>2, FlagMoves DEF RetryFires, Steps
    <2>3. CASE ResolvingEnds(c)
      BY <1>1, <2>3, FlagMoves DEF ResolvingEnds, Steps
    <2>4. CASE Drops(c)
      BY <1>1, <2>4, FlagMoves DEF Drops, Steps
    <2>5. CASE ChoosesOverwrite(c)
      BY <1>1, <2>5, FlagMoves DEF ChoosesOverwrite, Steps
    <2>6. CASE ChoosesForceSave(c)
      BY <1>1, <2>6, FlagMoves DEF ChoosesForceSave, Steps
    <2>7. CASE ChoosesFork(c)
      BY <1>1, <2>7, FlagMoves DEF ChoosesFork, Steps
    <2>8. QED
      BY <2>1, <2>2, <2>3, <2>4, <2>5, <2>6, <2>7
  <1>3. UNCHANGED <<quiet, made>> /\ UNCHANGED http
    BY DEF ActionSaved, RetryFires, ResolvingEnds, Drops, ChoosesOverwrite,
           ChoosesForceSave, ChoosesFork
  <1> DEFINE none == {}
  <1>4. none \subseteq AllMade /\ Moves(client[c], k, none)
    BY <1>2
  <1> HIDE DEF none
  <1>5. QED
    BY <1>2, <1>3, <1>4, HandlerFresh

LEMMA ReceiveFresh ==
    ASSUME SyncInv, FreshInv, NEW c \in Client, Receive(c) PROVE FreshInv'
  <1> DEFINE m == Head(ws[c])
             k == HandleMessage(client[c], m)
  <1>1. client[c] \in Session /\ ws[c] \in Seq(WsMsg) /\ ws[c] # <<>>
    BY DEF SyncInv, TypeInv, TypeOK, ClientTypeOK, NetTypeOK, Receive
  <1>2. m \in WsMsg /\ m = ws[c][1] /\ 1 \in 1..Len(ws[c])
    BY <1>1
  <1>3. Moves(client[c], k, Brings(m))
    BY <1>1, <1>2, HandleMessageMoves
  <1>4. Session1(c, k, Tail(ws[c])) /\ UNCHANGED <<quiet, made>> /\ UNCHANGED http
    BY DEF Receive
  <1>5. Brings(m) \subseteq AllMade
    BY <1>2 DEF FreshInv, FreshClient
  <1> HIDE DEF m, k
  <1>6. QED
    BY <1>1, <1>3, <1>4, <1>5, HandlerFresh

LEMMA ConnectsFresh ==
    ASSUME SyncInv, FreshInv, NEW c \in Client, Connects(c) PROVE FreshInv'
  <1> DEFINE k == SocketOpens(client[c])
  <1>1. client \in [Client -> Session]
    BY DEF SyncInv, TypeInv, TypeOK, ClientTypeOK
  <1>2. /\ k.queue = client[c].queue /\ k.saving = client[c].saving
        /\ k.flight = client[c].flight /\ k.log = client[c].log
    BY <1>1, SocketOpensTyping
  <1>3. /\ client' = [client EXCEPT ![c] = k]
        /\ UNCHANGED <<quiet, requests, ws, http, made, faults>>
    BY DEF Connects
  <1> HIDE DEF k
  <1>4. AllMade' = AllMade
    BY <1>3, MadeStays
  <1>5. FreshHub(AllMade, store, gameData, requests, proposing)'
    BY <1>3, <1>4 DEF FreshInv, quiet
  <1>6. ASSUME NEW d \in Client
        PROVE  FreshClient(AllMade, client'[d], http[d]["document"], ws[d])
    <2>1. FreshClient(AllMade, client[d], http[d]["document"], ws[d])
      BY DEF FreshInv
    <2>2. CASE d = c
      BY <1>1, <1>2, <1>3, <2>1, <2>2 DEF FreshClient, Acts
    <2>3. CASE d # c
      BY <1>1, <1>3, <2>1, <2>3
    <2>4. QED
      BY <2>2, <2>3
  <1>7. QED
    BY <1>3, <1>4, <1>5, <1>6 DEF FreshInv

\* A request is submitted or refused, and nothing else happens but to the
\* state of a call.
LEMMA SubmitFresh ==
    ASSUME SyncInv, FreshInv, UNCHANGED <<quiet, client, ws, made>>,
           \/ UNCHANGED requests
           \/ \E r \in Request : Submit(r) /\ FreshRequest(AllMade, r),
           \A d \in Client : \/ http'[d]["document"] = http[d]["document"]
                             \/ http'[d]["document"].type # "GAME"
    PROVE  FreshInv'
  <1>1. UNCHANGED <<store, gameData, proposing>> /\ UNCHANGED <<client, ws>>
        /\ AllMade' = AllMade
    BY MadeStays DEF quiet
  <1>2. /\ requests \in Seq(Request)
        /\ FreshHub(AllMade, store, gameData, requests, proposing)
    BY DEF SyncInv, TypeInv, TypeOK, HubTypeOK, FreshInv
  <1>3. \A i \in 1..Len(requests') : FreshRequest(AllMade, requests'[i])
    <2>1. \A i \in 1..Len(requests) : FreshRequest(AllMade, requests[i])
      BY <1>2 DEF FreshHub
    <2>2. CASE UNCHANGED requests
      BY <2>1, <2>2
    <2>3. ASSUME NEW r \in Request, Submit(r), FreshRequest(AllMade, r)
          PROVE  \A i \in 1..Len(requests') : FreshRequest(AllMade, requests'[i])
      BY <1>2, <2>1, <2>3, FreshAppend DEF Submit
    <2>4. QED
      BY <2>2, <2>3
  <1>4. FreshHub(AllMade, store, gameData, requests, proposing)'
    BY <1>1, <1>2, <1>3 DEF FreshHub
  <1>5. ASSUME NEW d \in Client
        PROVE  FreshClient(AllMade, client[d], http'[d]["document"], ws[d])
    BY DEF FreshInv, FreshClient
  <1>6. QED
    BY <1>1, <1>4, <1>5 DEF FreshInv

LEMMA ActsAreKnown ==
    ASSUME SyncInv, FreshInv, NEW c \in Client
    PROVE  /\ client[c] \in Session /\ Kept(AllMade, client[c].log)
           /\ ToSet(Batch(client[c])) \subseteq AllMade
           /\ Acts(client[c]) \subseteq AllMade
  <1>1. client[c] \in Session /\ client[c].flight \in Seq(Queued)
    BY DEF SyncInv, TypeInv, TypeOK, ClientTypeOK, Session
  <1>2. Acts(client[c]) \subseteq AllMade /\ Spaced(client[c].log)
    BY DEF FreshInv, FreshClient
  <1>3. ToSet(Batch(client[c])) \subseteq ActsIn(client[c].flight)
    <2> DEFINE q == client[c].flight
    <2>1. Len(q) \in Nat
      BY <1>1
    <2> HIDE DEF q
    <2>2. ToSet([i \in 1..Len(q) |-> q[i].act]) \subseteq ActsIn(q)
      BY <2>1 DEF ToSet, ActsIn
    <2>3. QED
      BY <2>2 DEF q, Batch
  <1>4. QED
    BY <1>1, <1>2, <1>3 DEF Kept, Acts

LEMMA PostArrivesFresh ==
    ASSUME SyncInv, FreshInv, NEW c \in Client, PostArrives(c) PROVE FreshInv'
  <1> DEFINE batch == client[c].flight
             r == [type |-> "action", client |-> c, base |-> batch[1].base,
                   acts |-> [i \in 1..Len(batch) |-> batch[i].act], live |-> TRUE]
  <1>1. /\ http \in [Client -> [Kind -> HttpState]] /\ client[c].flight \in Seq(Queued)
        /\ batch # <<>>
    BY DEF SyncInv, TypeInv, TypeOK, NetTypeOK, ClientTypeOK, Session, PostArrives
  <1>2. UNCHANGED <<quiet, client, ws, made>>
    BY DEF PostArrives
  <1>3. \A d \in Client : http'[d]["document"] = http[d]["document"]
    BY <1>1 DEF PostArrives, Kind
  <1>4. CASE UNCHANGED requests
    BY <1>2, <1>3, <1>4, SubmitFresh
  <1>5. CASE Submit(r)
    <2>1. ToSet(r.acts) \subseteq AllMade /\ r.type = "action"
      BY ActsAreKnown DEF Batch
    <2>2. r \in Request
      <3>1. Len(batch) \in Nat /\ \A i \in 1..Len(batch) : batch[i] \in Queued
        BY <1>1
      <3>2. batch[1].base \in Rev /\ \A i \in 1..Len(batch) : batch[i].act \in Action
        BY <1>1, <3>1 DEF Queued
      <3>3. [i \in 1..Len(batch) |-> batch[i].act] \in Seq(Action)
        BY <3>1, <3>2
      <3>4. QED
        BY <3>2, <3>3 DEF Request
    <2> HIDE DEF r
    <2>3. FreshRequest(AllMade, r)
      BY <2>1 DEF FreshRequest
    <2>4. QED
      BY <1>2, <1>3, <1>5, <2>2, <2>3, SubmitFresh
  <1>6. QED
    BY <1>4, <1>5 DEF PostArrives

LEMMA FormArrivesFresh ==
    ASSUME SyncInv, FreshInv, NEW c \in Client, FormArrives(c) PROVE FreshInv'
  <1> DEFINE load == [type |-> "load", client |-> c, live |-> TRUE]
             save == [type |-> "save", client |-> c, log |-> client[c].log, live |-> TRUE]
  <1>1. http \in [Client -> [Kind -> HttpState]] /\ client[c].log \in Seq(Action)
    BY DEF SyncInv, TypeInv, TypeOK, NetTypeOK, ClientTypeOK, Session
  <1>2. UNCHANGED <<quiet, client, ws, made>>
    BY DEF FormArrives
  <1>3. \A d \in Client : \/ http'[d]["document"] = http[d]["document"]
                          \/ http'[d]["document"].type # "GAME"
    BY <1>1 DEF FormArrives, Kind, Taken, Busy
  <1>4. CASE UNCHANGED requests
    BY <1>2, <1>3, <1>4, SubmitFresh
  <1>5. CASE \E r \in {load, save} : Submit(r)
    <2>1. Kept(AllMade, client[c].log)
      BY ActsAreKnown
    <2>2. load \in Request /\ load.type = "load" /\ save \in Request /\ save.type = "save"
          /\ save.log = client[c].log
      BY <1>1 DEF Request
    <2> HIDE DEF load, save
    <2>3. FreshRequest(AllMade, load) /\ FreshRequest(AllMade, save)
      BY <2>1, <2>2 DEF FreshRequest
    <2>4. PICK r \in {load, save} : Submit(r)
      BY <1>5
    <2>5. r \in Request /\ FreshRequest(AllMade, r)
      BY <2>2, <2>3
    <2>6. QED
      BY <1>2, <1>3, <2>4, <2>5, SubmitFresh
  <1>6. QED
    BY <1>4, <1>5 DEF FormArrives

LEMMA ReadPumpFresh ==
    ASSUME SyncInv, FreshInv, NEW c \in Client, ReadPump(c) PROVE FreshInv'
  <1> DEFINE r == [type |-> "join", client |-> c, base |-> Head(up[c]), live |-> TRUE]
  <1>1. up[c] \in Seq(Rev) /\ up[c] # <<>>
    BY DEF SyncInv, TypeInv, TypeOK, NetTypeOK, ReadPump, ReadJoin
  <1>2. Submit(r) /\ UNCHANGED <<quiet, client, ws, made>> /\ UNCHANGED http
    BY DEF ReadPump, ReadJoin, quiet
  <1>3. Head(up[c]) \in Rev
    BY <1>1
  <1>4. r \in Request /\ r.type = "join"
    BY <1>3 DEF Request
  <1> HIDE DEF r
  <1>5. FreshRequest(AllMade, r)
    BY <1>4 DEF FreshRequest
  <1>6. QED
    BY <1>2, <1>4, <1>5, SubmitFresh

LEMMA PostAnsweredFresh ==
    ASSUME SyncInv, FreshInv, NEW c \in Client, PostAnswered(c) PROVE FreshInv'
  <1> DEFINE h == http[c]["action"]
             k == HttpAnswer(client[c], h)
  <1>1. /\ client[c] \in Session /\ HttpOK
    BY DEF SyncInv, TypeInv, TypeOK, ClientTypeOK
  <1>2. h \in ActionAnswer \ {Unsent, Taken}
    BY <1>1 DEF PostAnswered, HttpOK
  <1>3. client[c].draining
    BY <1>1, <1>2 DEF SyncInv, CallInv, CallOK, Session
  <1>4. Answered(client[c], k)
    <2> HIDE DEF h
    <2> QED
      BY <1>1, <1>2, <1>3, HttpAnswerTyping
  <1>5. Session1(c, k, ws[c]) /\ UNCHANGED quiet /\ UNCHANGED made
    BY DEF PostAnswered, Steps
  <1>6. \A d \in Client : http'[d]["document"] = http[d]["document"]
    BY <1>1 DEF PostAnswered, HttpOK, Kind
  <1> HIDE DEF k
  <1>7. FreshClient(AllMade, client[c], http[c]["document"], ws[c])
    BY DEF FreshInv
  <1>8. /\ k \in Session /\ Acts(k) \subseteq AllMade /\ Spaced(k.log)
        /\ \A i \in 1..Len(ws[c]) : Brings(ws[c][i]) \subseteq AllMade
    BY <1>4, <1>7 DEF Answered, FreshClient
  <1>9. AllMade' = AllMade
    BY <1>5, MadeStays
  <1>10. QED
    BY <1>5, <1>6, <1>8, <1>9, SessionFresh

LEMMA FormAnsweredFresh ==
    ASSUME SyncInv, FreshInv, NEW c \in Client, FormAnswered(c) PROVE FreshInv'
  <1> DEFINE m == http[c]["document"]
  <1>1. /\ client[c] \in Session /\ HttpOK /\ m \in DocumentAnswer
    BY DEF SyncInv, TypeInv, TypeOK, ClientTypeOK, HttpOK
  <1>2. FreshClient(AllMade, client[c], m, ws[c])
    BY DEF FreshInv
  <1>3. UNCHANGED quiet /\ UNCHANGED made
    BY DEF FormAnswered
  <1>4. AllMade' = AllMade
    BY <1>3, MadeStays
  <1>5. /\ http'[c]["document"] = Unsent
        /\ \A d \in Client : d # c => http'[d]["document"] = http[d]["document"]
    BY <1>1 DEF FormAnswered, HttpOK, Kind
  <1>6. PICK k \in Session : Session1(c, k, ws[c]) /\ Acts(k) \subseteq AllMade /\ Spaced(k.log)
    <2>1. CASE m.type = "GAME" /\ Steps(c, Overwrite(client[c], m.log))
      <3>1. m.log \in Seq(Action)
        BY <1>1, <2>1 DEF DocumentAnswer, Unsent, Taken, Busy, Saved
      <3>2. Kept(AllMade, m.log)
        BY <1>2, <2>1 DEF FreshClient
      <3> DEFINE k == Overwrite(client[c], m.log)
      <3>3. k \in Session /\ k.log = m.log /\ Acts(k) \subseteq Acts(client[c]) \cup ToSet(m.log)
        BY <1>1, <3>1, OverwriteTyping
      <3>4. Session1(c, k, ws[c])
        BY <2>1 DEF Steps
      <3> HIDE DEF k
      <3>5. QED
        BY <1>2, <3>2, <3>3, <3>4 DEF FreshClient, Kept
    <2>2. ASSUME NEW k, Moves(client[c], k, {}), Steps(c, k)
          PROVE  \E l \in Session :
                   Session1(c, l, ws[c]) /\ Acts(l) \subseteq AllMade /\ Spaced(l.log)
      <3>1. k \in Session /\ Acts(k) \subseteq AllMade /\ Spaced(k.log)
        BY <1>2, <2>2 DEF Moves, FreshClient
      <3>2. QED
        BY <2>2, <3>1 DEF Steps
    <2>3. CASE Steps(c, ForceSaved(client[c]))
      BY <1>1, <2>2, <2>3, FlagMoves
    <2>4. CASE Steps(c, FormFails(client[c]))
      BY <1>1, <2>2, <2>4, FlagMoves
    <2>5. QED
      BY <2>1, <2>3, <2>4 DEF FormAnswered
  <1>7. \A i \in 1..Len(ws[c]) : Brings(ws[c][i]) \subseteq AllMade
    BY <1>2 DEF FreshClient
  <1>8. QED
    BY <1>3, <1>4, <1>5, <1>6, <1>7, SessionFresh

\* A browser gives up some of its calls.
LEMMA AbandonFresh ==
    ASSUME SyncInv, FreshInv, NEW c \in Client, NEW k \in Session,
           NEW types, "broadcast" \notin types,
           NEW proposed, "broadcast" \notin proposed, "none" \notin proposed,
           client' = [client EXCEPT ![c] = k],
           requests' = Orphaned(types, c), proposing' = OrphanedProposal(proposed, c),
           UNCHANGED <<store, gameData, made>>,
           \A d \in Client : ws'[d] = ws[d] \/ ws'[d] = <<>>,
           \A d \in Client : \/ http'[d]["document"] = http[d]["document"]
                             \/ http'[d]["document"] = Unsent,
           Acts(k) \subseteq AllMade, Spaced(k.log)
    PROVE  FreshInv'
  <1>1. /\ requests \in Seq(Request) /\ proposing \in Request \cup {Nothing}
        /\ client \in [Client -> Session]
    BY DEF SyncInv, TypeInv, TypeOK, HubTypeOK, ClientTypeOK
  <1>2. /\ Len(requests') = Len(requests)
        /\ \A i \in 1..Len(requests) : Left(requests[i], requests'[i], types, c)
    BY <1>1, OrphanedIs
  <1>3. IF proposing = Nothing THEN proposing' = Nothing
        ELSE Left(proposing, proposing', proposed, c)
    BY <1>1, OrphanedProposalIs
  <1>4. AllMade' = AllMade /\ UNCHANGED <<store, gameData>>
    BY MadeStays
  <1>5. /\ FreshHub(AllMade, store, gameData, requests, proposing)
        /\ \A d \in Client : FreshClient(AllMade, client[d], http[d]["document"], ws[d])
    BY DEF FreshInv
  <1>6. \A i \in 1..Len(requests') : FreshRequest(AllMade, requests'[i])
    <2>1. \A i \in 1..Len(requests) : FreshRequest(AllMade, requests[i])
      BY <1>5 DEF FreshHub
    <2>2. QED
      BY <1>2, <2>1, FreshLeft
  <1>7. FreshRequest(AllMade, proposing')
    <2>1. FreshRequest(AllMade, proposing)
      BY <1>5 DEF FreshHub
    <2>2. QED
      BY <1>3, <2>1 DEF FreshRequest, Left
  <1>8. FreshHub(AllMade, store, gameData, requests, proposing)'
    BY <1>4, <1>5, <1>6, <1>7 DEF FreshHub
  <1>9. /\ client'[c] = k /\ \A d \in Client : d # c => client'[d] = client[d]
    BY <1>1
  <1>10. ASSUME NEW d \in Client
         PROVE  FreshClient(AllMade, client'[d], http'[d]["document"], ws'[d])
    <2>1. FreshClient(AllMade, client[d], http[d]["document"], ws[d])
      BY <1>5
    <2>2. Acts(client'[d]) \subseteq AllMade /\ Spaced(client'[d].log)
      BY <1>9, <2>1 DEF FreshClient
    <2>3. \A i \in 1..Len(ws'[d]) : Brings(ws'[d][i]) \subseteq AllMade
      BY <2>1 DEF FreshClient
    <2>4. http'[d]["document"].type = "GAME" => Kept(AllMade, http'[d]["document"].log)
      BY <2>1 DEF FreshClient, Unsent
    <2>5. QED
      BY <2>2, <2>3, <2>4 DEF FreshClient
  <1>11. QED
    BY <1>4, <1>8, <1>10 DEF FreshInv

LEMMA PostFailsFresh ==
    ASSUME SyncInv, FreshInv, NEW c \in Client, PostFails(c) PROVE FreshInv'
  <1> DEFINE k == HttpError(client[c])
             T == {"action"}
  <1>1. client[c] \in Session /\ http \in [Client -> [Kind -> HttpState]]
    BY DEF SyncInv, TypeInv, TypeOK, ClientTypeOK, NetTypeOK
  <1>2. client[c].draining
    BY <1>1 DEF SyncInv, CallInv, CallOK, PostFails, Session
  <1>3. Answered(client[c], k)
    BY <1>1, <1>2, HttpErrorTyping
  <1>4. k \in Session /\ Acts(k) \subseteq AllMade /\ Spaced(k.log)
    BY <1>3, ActsAreKnown DEF Answered, Kept
  <1>5. /\ client' = [client EXCEPT ![c] = k]
        /\ requests' = Orphaned(T, c) /\ proposing' = OrphanedProposal(T, c)
        /\ UNCHANGED <<store, gameData, made>> /\ UNCHANGED ws
    BY DEF PostFails
  <1>6. \A d \in Client : http'[d]["document"] = http[d]["document"]
    BY <1>1 DEF PostFails, Kind
  <1>7. "broadcast" \notin T /\ "none" \notin T
    OBVIOUS
  <1> HIDE DEF k, T
  <1>8. QED
    BY <1>4, <1>5, <1>6, <1>7, AbandonFresh

LEMMA FormLostFresh ==
    ASSUME SyncInv, FreshInv, NEW c \in Client, FormLost(c) PROVE FreshInv'
  <1> DEFINE k == FormFails(client[c])
             T == {"load", "save"}
             P == {"save"}
  <1>1. client[c] \in Session /\ HttpOK
    BY DEF SyncInv, TypeInv, TypeOK, ClientTypeOK
  <1>2. Moves(client[c], k, {})
    BY <1>1, FlagMoves
  <1>3. k \in Session /\ Acts(k) \subseteq AllMade /\ Spaced(k.log)
    BY <1>2, ActsAreKnown DEF Moves, Kept
  <1>4. /\ client' = [client EXCEPT ![c] = k]
        /\ requests' = Orphaned(T, c) /\ proposing' = OrphanedProposal(P, c)
        /\ UNCHANGED <<store, gameData, made>> /\ UNCHANGED ws
        /\ SetsHttp(c, "document", Unsent)
    BY DEF FormLost, SetsHttp
  <1>5. "document" \in Kind /\ Unsent \in AnswerFor("document")
    BY DEF Kind, AnswerFor, DocumentAnswer
  <1>6. \A d \in Client : \/ http'[d]["document"] = http[d]["document"]
                          \/ http'[d]["document"] = Unsent
    BY <1>1, <1>4, <1>5, HttpSet
  <1>7. "broadcast" \notin T /\ "broadcast" \notin P /\ "none" \notin P
    OBVIOUS
  <1> HIDE DEF k, T, P
  <1>8. QED
    BY <1>3, <1>4, <1>6, <1>7, AbandonFresh

LEMMA ReloadsFresh ==
    ASSUME SyncInv, FreshInv, NEW c \in Client, Reloads(c) PROVE FreshInv'
  <1>1. /\ client[c] \in Session /\ http \in [Client -> [Kind -> HttpState]]
        /\ ws \in [Client -> Seq(WsMsg)]
    BY DEF SyncInv, TypeInv, TypeOK, ClientTypeOK, NetTypeOK
  <1>2. PICK log \in Stored(client[c]) : client' = [client EXCEPT ![c] = Opened(log)]
    BY DEF Reloads
  <1> DEFINE k == Opened(log)
             T == {"join", "action", "load", "save"}
             P == {"action", "save"}
  <1>3. Kept(AllMade, client[c].log)
    BY ActsAreKnown
  <1>4. k \in Session /\ Acts(k) \subseteq AllMade /\ Spaced(k.log)
    BY <1>1, <1>3, StoredTyping, OpenedTyping DEF Kept
  <1>5. /\ client' = [client EXCEPT ![c] = k]
        /\ requests' = Orphaned(T, c) /\ proposing' = OrphanedProposal(P, c)
        /\ UNCHANGED <<store, gameData, made>>
        /\ ws' = [ws EXCEPT ![c] = <<>>]
        /\ http' = [http EXCEPT ![c] = [j \in Kind |-> Unsent]]
    BY <1>2 DEF Reloads
  <1>6. \A d \in Client : ws'[d] = ws[d] \/ ws'[d] = <<>>
    BY <1>1, <1>5
  <1>7. \A d \in Client : \/ http'[d]["document"] = http[d]["document"]
                          \/ http'[d]["document"] = Unsent
    <2>1. "document" \in Kind
      BY DEF Kind
    <2>2. QED
      BY <1>1, <1>5, <2>1
  <1>8. "broadcast" \notin T /\ "broadcast" \notin P /\ "none" \notin P
    OBVIOUS
  <1> HIDE DEF k, T, P
  <1>9. QED
    BY <1>4, <1>5, <1>6, <1>7, <1>8, AbandonFresh

\* The hub takes a request.
LEMMA TakenFresh ==
    ASSUME SyncInv, FreshInv, NEW type, Next1(type), Kept(AllMade, gameData'),
           FreshRequest(AllMade, proposing'), UNCHANGED <<store, client, made>>,
           \A c \in Client : \A i \in 1..Len(ws'[c]) : Brings(ws'[c][i]) \subseteq AllMade,
           \A c \in Client : \/ http'[c]["document"] = http[c]["document"]
                             \/ http'[c]["document"].type = "GAME" =>
                                   Kept(AllMade, http'[c]["document"].log)
    PROVE  FreshInv'
  <1>1. AllMade' = AllMade /\ UNCHANGED <<store, client>>
    BY MadeStays
  <1>2. /\ FreshHub(AllMade, store, gameData, requests, proposing)
        /\ \A d \in Client : FreshClient(AllMade, client[d], http[d]["document"], ws[d])
    BY DEF FreshInv
  <1>3. /\ requests' = Tail(requests)
        /\ \A i \in 1..Len(Tail(requests)) :
              i + 1 \in 1..Len(requests) /\ Tail(requests)[i] = requests[i + 1]
    BY FirstIs
  <1>4. \A i \in 1..Len(requests') : FreshRequest(AllMade, requests'[i])
    BY <1>2, <1>3 DEF FreshHub
  <1>5. FreshHub(AllMade, store, gameData, requests, proposing)'
    BY <1>1, <1>2, <1>4 DEF FreshHub
  <1>6. ASSUME NEW d \in Client
        PROVE  FreshClient(AllMade, client[d], http'[d]["document"], ws'[d])
    BY <1>2 DEF FreshClient
  <1>7. QED
    BY <1>1, <1>5, <1>6 DEF FreshInv

\* What the hub works with.
LEMMA HubKnows ==
    ASSUME SyncInv, FreshInv
    PROVE  /\ Kept(AllMade, store) /\ Kept(AllMade, Loaded)
           /\ \A i \in 1..Len(requests) : FreshRequest(AllMade, requests[i])
           /\ FreshRequest(AllMade, proposing)
           /\ \A c \in Client : \A i \in 1..Len(ws[c]) : Brings(ws[c][i]) \subseteq AllMade
  BY DEF FreshInv, FreshHub, FreshClient, Loaded

LEMMA HubJoinFresh ==
    ASSUME SyncInv, FreshInv, HubJoin, UNCHANGED <<client, made, faults>> PROVE FreshInv'
  <1> DEFINE r == Head(requests)
             m == JoinAnswer(Loaded, r.base)
  <1>1. Next1("join")
    BY DEF HubJoin
  <1>2. r \in Request /\ r.type = "join" /\ proposing = Nothing
    BY <1>1, FirstIs
  <1>3. r.client \in Client
    BY <1>2, RequestTyping
  <1>4. Loaded \in Seq(Action) /\ Kept(AllMade, Loaded)
    BY LoadedIs, HubKnows
  <1>5. Brings(m) \subseteq AllMade
    <2>1. ToSet(After(Loaded, r.base)) \subseteq ToSet(Loaded)
      <3>1. IndexOf(Loaded, r.base) + 1 \in 1..Len(Loaded) + 1 /\ Len(Loaded) \in 0..Len(Loaded)
        BY <1>4, IndexOfIs
      <3>2. QED
        BY <1>4, <3>1, ToSetParts DEF After
    <2>2. Brings(SyncUpdate(After(Loaded, r.base))) = ToSet(After(Loaded, r.base))
      BY DEF Brings, SyncUpdate
    <2>3. Brings(Ack) = {} /\ Brings(Conflict(Revision(Loaded))) = {}
      BY DEF Brings, Ack, Conflict
    <2>4. QED
      BY <1>4, <2>1, <2>2, <2>3 DEF JoinAnswer, Kept
  <1>6. /\ gameData' = Loaded
        /\ ws' = IF r.live /\ r.client \in members
                 THEN [ws EXCEPT ![r.client] = Append(ws[r.client], m)] ELSE ws
        /\ UNCHANGED <<store, client, made>> /\ proposing' = Nothing /\ UNCHANGED http
    BY <1>2 DEF HubJoin
  <1> HIDE DEF m, r
  <1>7. ASSUME NEW c \in Client, NEW i \in 1..Len(ws'[c])
        PROVE  Brings(ws'[c][i]) \subseteq AllMade
    <2>1. ws \in [Client -> Seq(WsMsg)]
      BY DEF SyncInv, TypeInv, TypeOK, NetTypeOK
    <2>2. \A j \in 1..Len(ws[c]) : Brings(ws[c][j]) \subseteq AllMade
      BY HubKnows
    <2>3. CASE ws'[c] = ws[c]
      BY <2>2, <2>3
    <2>4. CASE ws'[c] # ws[c]
      <3>1. ws'[c] = Append(ws[c], m)
        BY <1>3, <1>6, <2>1, <2>4
      <3>2. ws[c] \in Seq(WsMsg)
        BY <2>1
      <3>3. \/ ws'[c][i] = m
            \/ i \in 1..Len(ws[c]) /\ ws'[c][i] = ws[c][i]
        BY <3>1, <3>2
      <3>4. QED
        BY <1>5, <2>2, <3>3
    <2>5. QED
      BY <2>3, <2>4
  <1>8. QED
    BY <1>1, <1>4, <1>6, <1>7, NothingFresh, TakenFresh

LEMMA HubBroadcastFresh ==
    ASSUME SyncInv, FreshInv, HubBroadcast, UNCHANGED <<client, made, faults>> PROVE FreshInv'
  <1> DEFINE r == Head(requests)
             msgs == BroadcastMsgs(r)
  <1>1. Next1("broadcast")
    BY DEF HubBroadcast
  <1>2. /\ r \in Request /\ r.type = "broadcast" /\ proposing = Nothing
        /\ r = requests[1] /\ 1 \in 1..Len(requests)
    BY <1>1, FirstIs
  <1>3. r.log \in Seq(Action) /\ r.num \in Nat
    BY <1>2, RequestTyping
  <1>4. Kept(AllMade, r.log)
    BY <1>2, HubKnows DEF FreshRequest
  <1>5. /\ msgs \in Seq(WsMsg) /\ \A i \in 1..Len(msgs) : Brings(msgs[i]) \subseteq AllMade
    <2>1. /\ msgs \in Seq(WsMsg)
          /\ \A i \in 1..Len(msgs) : msgs[i].type = "ACTION" /\ msgs[i].action \in ToSet(r.log)
      BY <1>3, BroadcastMsgsTyping
    <2>2. QED
      BY <1>4, <2>1 DEF Brings, Kept
  <1>6. /\ gameData' = r.log
        /\ ws' = [c \in Client |-> IF c \in members THEN ws[c] \o msgs ELSE ws[c]]
        /\ UNCHANGED <<store, client, made>> /\ proposing' = Nothing /\ UNCHANGED http
    BY <1>2 DEF HubBroadcast
  <1> HIDE DEF r, msgs
  <1>7. ASSUME NEW c \in Client, NEW i \in 1..Len(ws'[c])
        PROVE  Brings(ws'[c][i]) \subseteq AllMade
    <2>1. ws[c] \in Seq(WsMsg)
      BY DEF SyncInv, TypeInv, TypeOK, NetTypeOK
    <2>2. \A j \in 1..Len(ws[c]) : Brings(ws[c][j]) \subseteq AllMade
      BY HubKnows
    <2>3. CASE c \notin members
      BY <1>6, <2>2, <2>3
    <2>4. CASE c \in members
      <3>1. ws'[c] = ws[c] \o msgs
        BY <1>6, <2>4
      <3>2. \/ i \in 1..Len(ws[c]) /\ ws'[c][i] = ws[c][i]
            \/ i - Len(ws[c]) \in 1..Len(msgs) /\ ws'[c][i] = msgs[i - Len(ws[c])]
        BY <1>5, <2>1, <3>1
      <3>3. QED
        BY <1>5, <2>2, <3>2
    <2>5. QED
      BY <2>3, <2>4
  <1>8. QED
    BY <1>1, <1>4, <1>6, <1>7, NothingFresh, TakenFresh

LEMMA HubSaveFresh ==
    ASSUME SyncInv, FreshInv, HubSave, UNCHANGED <<client, made, faults>> PROVE FreshInv'
  <1>1. Next1("save")
    BY DEF HubSave
  <1>2. Head(requests) = requests[1] /\ 1 \in 1..Len(requests)
    BY <1>1, FirstIs
  <1>3. /\ gameData' = Loaded /\ proposing' = requests[1]
        /\ UNCHANGED <<store, client, made>> /\ UNCHANGED <<ws, http>>
    BY <1>2 DEF HubSave, net
  <1>4. Kept(AllMade, gameData') /\ FreshRequest(AllMade, proposing')
    BY <1>2, <1>3, HubKnows
  <1>5. /\ \A c \in Client : \A i \in 1..Len(ws'[c]) : Brings(ws'[c][i]) \subseteq AllMade
        /\ \A c \in Client : http'[c]["document"] = http[c]["document"]
    BY <1>3, HubKnows
  <1>6. QED
    BY <1>1, <1>3, <1>4, <1>5, TakenFresh

LEMMA HubLoadFresh ==
    ASSUME SyncInv, FreshInv, HubLoad, UNCHANGED <<client, made, faults>> PROVE FreshInv'
  <1> DEFINE r == Head(requests)
             m == Document(Loaded)
  <1>1. Next1("load")
    BY DEF HubLoad
  <1>2. r \in Request /\ r.type = "load" /\ proposing = Nothing
    BY <1>1, FirstIs
  <1>3. r.client \in Client /\ r.live \in BOOLEAN
    BY <1>2, RequestTyping
  <1>4. Loaded \in Seq(Action) /\ Kept(AllMade, Loaded)
    BY LoadedIs, HubKnows
  <1>5. /\ gameData' = Loaded /\ proposing' = Nothing /\ Answer(r, "document", m)
        /\ UNCHANGED <<store, client, made>> /\ UNCHANGED ws
    BY <1>2 DEF HubLoad
  <1>6. /\ "document" \in Kind /\ m \in AnswerFor("document") /\ m.log = Loaded
    BY <1>4 DEF Kind, AnswerFor, DocumentAnswer, Document
  <1> HIDE DEF r, m
  <1>7. \A d \in Client : \/ http'[d]["document"] = http[d]["document"]
                          \/ http'[d]["document"] = m
    BY <1>3, <1>5, <1>6, AnswerSets DEF SyncInv, TypeInv
  <1>8. \A c \in Client : \A i \in 1..Len(ws'[c]) : Brings(ws'[c][i]) \subseteq AllMade
    BY <1>5, HubKnows
  <1>9. QED
    BY <1>1, <1>4, <1>5, <1>6, <1>7, <1>8, NothingFresh, TakenFresh

LEMMA HubActionFresh ==
    ASSUME SyncInv, FreshInv, HubAction, UNCHANGED <<client, made, faults>> PROVE FreshInv'
  <1> DEFINE r == Head(requests)
             log == IF AtHead(r, Loaded) THEN Loaded ELSE store
  <1>1. Next1("action")
    BY DEF HubAction
  <1>2. /\ r \in Request /\ r.type = "action" /\ r = requests[1] /\ 1 \in 1..Len(requests)
    BY <1>1, FirstIs
  <1>3. r.client \in Client /\ r.live \in BOOLEAN
    BY <1>2, RequestTyping
  <1>4. log \in Seq(Action) /\ Kept(AllMade, log)
    BY LoadedIs, HubKnows
  <1>5. FreshRequest(AllMade, r)
    BY <1>2, HubKnows
  <1>6. /\ gameData' = log /\ proposing' \in {r, Nothing}
        /\ \/ UNCHANGED http
           \/ Answer(r, "action", Ack)
           \/ Answer(r, "action", Conflict(Revision(log)))
        /\ UNCHANGED <<store, client, made>> /\ UNCHANGED ws
    BY DEF HubAction
  <1> HIDE DEF r, log
  <1>7. \A d \in Client : http'[d]["document"] = http[d]["document"]
    <2>1. HttpOK
      BY DEF SyncInv, TypeInv
    <2>2. /\ "action" \in Kind /\ "document" \in Kind /\ "action" # "document"
          /\ Ack \in AnswerFor("action") /\ Conflict(Revision(log)) \in AnswerFor("action")
      BY <1>4, RevisionTyping DEF Kind, AnswerFor, ActionAnswer, Conflict
    <2>3. ASSUME NEW m, m \in AnswerFor("action"), Answer(r, "action", m)
          PROVE  \A d \in Client : http'[d]["document"] = http[d]["document"]
      BY <1>3, <2>1, <2>2, <2>3, AnswerSets
    <2> DEFINE m == Conflict(Revision(log))
    <2>4. m \in AnswerFor("action") /\ (\/ UNCHANGED http
                                        \/ Answer(r, "action", Ack)
                                        \/ Answer(r, "action", m))
      BY <1>6, <2>2
    <2> HIDE DEF m
    <2>5. QED
      BY <2>2, <2>3, <2>4
  <1>8. \A c \in Client : \A i \in 1..Len(ws'[c]) : Brings(ws'[c][i]) \subseteq AllMade
    BY <1>6, HubKnows
  <1>9. QED
    BY <1>1, <1>4, <1>5, <1>6, <1>7, <1>8, NothingFresh, TakenFresh

\* The FSM applies what was proposed.
LEMMA AppliedFresh ==
    ASSUME SyncInv, FreshInv, NEW log \in Seq(Action), NEW num \in Nat,
           store' = log, Kept(AllMade, log),
           Broadcasts(log, num) \/ UNCHANGED requests, proposing' = Nothing,
           UNCHANGED <<gameData, ws, client, made>>,
           \A d \in Client : \/ http'[d]["document"] = http[d]["document"]
                             \/ http'[d]["document"] = Saved
    PROVE  FreshInv'
  <1> DEFINE b == [type |-> "broadcast", log |-> log, num |-> num]
  <1>1. AllMade' = AllMade /\ UNCHANGED <<gameData, ws, client>>
    BY MadeStays
  <1>2. b \in Request /\ b.type = "broadcast" /\ b.log = log
    BY DEF Request
  <1>3. \/ requests' = requests
        \/ requests' = Append(requests, b)
    BY DEF Broadcasts
  <1> HIDE DEF b
  <1>4. FreshRequest(AllMade, b)
    BY <1>2 DEF FreshRequest
  <1>5. requests \in Seq(Request) /\ \A i \in 1..Len(requests) : FreshRequest(AllMade, requests[i])
    BY HubKnows DEF SyncInv, TypeInv, TypeOK, HubTypeOK
  <1>6. \A i \in 1..Len(requests') : FreshRequest(AllMade, requests'[i])
    <2>1. CASE requests' = requests
      BY <1>5, <2>1
    <2>2. CASE requests' = Append(requests, b)
      BY <1>2, <1>4, <1>5, <2>2, FreshAppend
    <2>3. QED
      BY <1>3, <2>1, <2>2
  <1>7. FreshHub(AllMade, store, gameData, requests, proposing)'
    BY <1>1, <1>6, NothingFresh DEF FreshInv, FreshHub
  <1>8. ASSUME NEW d \in Client
        PROVE  FreshClient(AllMade, client[d], http'[d]["document"], ws[d])
    BY DEF FreshInv, FreshClient, Saved
  <1>9. QED
    BY <1>1, <1>7, <1>8 DEF FreshInv

LEMMA FSMAppliesActionFresh ==
    ASSUME SyncInv, FreshInv, FSMAppliesAction, UNCHANGED <<client, made, faults>>
    PROVE  FreshInv'
  <1> DEFINE r == proposing
             log == Extended(store, r.acts)
  <1>1. r \in Request /\ r.type = "action" /\ HttpOK
    BY DEF SyncInv, TypeInv, TypeOK, HubTypeOK, FSMAppliesAction, Nothing
  <1>2. r.client \in Client /\ r.live \in BOOLEAN /\ r.acts \in Seq(Action)
    BY <1>1, RequestTyping
  <1>3. /\ log \in Seq(Action) /\ ToSet(log) = ToSet(store) \cup ToSet(r.acts)
        /\ Spaced(store) => Spaced(log)
        /\ Len(r.acts) \in Nat
    BY <1>2, LoadedIs, ExtendedIs
  <1>4. Kept(AllMade, log)
    BY <1>1, <1>3, HubKnows DEF Kept, FreshRequest
  <1>5. /\ store' = log /\ Answer(r, "action", Ack) /\ proposing' = Nothing
        /\ Broadcasts(log, Len(r.acts)) \/ UNCHANGED requests
        /\ UNCHANGED <<gameData, ws, client, made>>
    BY DEF FSMAppliesAction
  <1>6. /\ "action" \in Kind /\ "document" \in Kind /\ "action" # "document"
        /\ Ack \in AnswerFor("action")
    BY DEF Kind, AnswerFor, ActionAnswer
  <1> HIDE DEF log
  <1>7. \A d \in Client : http'[d]["document"] = http[d]["document"]
    BY <1>1, <1>2, <1>5, <1>6, AnswerSets
  <1>8. QED
    BY <1>3, <1>4, <1>5, <1>7, AppliedFresh

LEMMA FSMAppliesSaveFresh ==
    ASSUME SyncInv, FreshInv, FSMAppliesSave, UNCHANGED <<client, made, faults>>
    PROVE  FreshInv'
  <1> DEFINE r == proposing
             log == r.log
  <1>1. r \in Request /\ r.type = "save" /\ HttpOK
    BY DEF SyncInv, TypeInv, TypeOK, HubTypeOK, FSMAppliesSave, Nothing
  <1>2. r.client \in Client /\ r.live \in BOOLEAN /\ log \in Seq(Action)
    BY <1>1, RequestTyping
  <1>3. Kept(AllMade, log)
    BY <1>1, HubKnows DEF FreshRequest
  <1>4. /\ store' = log /\ Broadcasts(log, 0)
        /\ Answer(r, "document", Saved) /\ proposing' = Nothing
        /\ UNCHANGED <<gameData, ws, client, made>>
    BY DEF FSMAppliesSave
  <1>5. "document" \in Kind /\ Saved \in AnswerFor("document")
    BY DEF Kind, AnswerFor, DocumentAnswer
  <1> HIDE DEF log
  <1>6. \A d \in Client : \/ http'[d]["document"] = http[d]["document"]
                          \/ http'[d]["document"] = Saved
    BY <1>1, <1>2, <1>4, <1>5, AnswerSets
  <1>7. 0 \in Nat
    OBVIOUS
  <1>8. QED
    BY <1>2, <1>3, <1>4, <1>6, <1>7, AppliedFresh

LEMMA HubIdlesFresh ==
    ASSUME SyncInv, FreshInv, HubIdles, UNCHANGED <<client, made, faults>> PROVE FreshInv'
  <1>1. /\ AllMade' = AllMade /\ gameData' = NotLoaded /\ requests' = <<>>
        /\ UNCHANGED <<store, proposing, client>> /\ UNCHANGED <<ws, http>>
    BY MadeStays DEF HubIdles, net
  <1>2. FreshHub(AllMade, store, gameData, requests, proposing)'
    BY <1>1 DEF FreshInv, FreshHub
  <1>3. QED
    BY <1>1, <1>2 DEF FreshInv

LEMMA InitFresh ==
    ASSUME Init PROVE FreshInv
  <1>1. Start \in Action /\ <<Start>> \in Seq(Action) /\ ToSet(<<Start>>) = {Start}
    BY SyncProtocolAssumption DEF ToSet
  <1>2. Start \in AllMade
    BY DEF AllMade
  <1>3. Spaced(<<Start>>)
    BY DEF Spaced
  <1>4. Kept(AllMade, <<Start>>)
    BY <1>1, <1>2, <1>3 DEF Kept
  <1>5. FreshHub(AllMade, store, gameData, requests, proposing)
    <2>1. store = <<Start>> /\ gameData = NotLoaded /\ requests = <<>> /\ proposing = Nothing
      BY DEF Init, HubInit
    <2>2. QED
      BY <1>4, <2>1, NothingFresh DEF FreshHub
  <1>6. ASSUME NEW c \in Client
        PROVE  FreshClient(AllMade, client[c], http[c]["document"], ws[c])
    <2>1. /\ client[c] = Opened(<<Start>>) /\ ws[c] = <<>> /\ http[c]["document"] = Unsent
      BY DEF Init, ClientInit, NetInit, Kind
    <2>2. Opened(<<Start>>).log = <<Start>> /\ Acts(Opened(<<Start>>)) = {Start}
      BY <1>1, OpenedTyping
    <2>3. QED
      BY <1>2, <1>3, <2>1, <2>2 DEF FreshClient, Unsent
  <1>7. QED
    BY <1>5, <1>6 DEF FreshInv

LEMMA NextFresh ==
    ASSUME UniqueOwn, SyncInv, FreshInv, [Next]_vars PROVE FreshInv'
  <1>1. CASE HubStep
    <2>1. UNCHANGED <<client, made, faults>>
      BY <1>1 DEF HubStep
    <2>2. QED
      BY <1>1, <2>1, HubJoinFresh, HubActionFresh, HubSaveFresh, HubLoadFresh,
         HubBroadcastFresh DEF HubStep, HubRuns
  <1>2. CASE RaftStep
    BY <1>2, FSMAppliesActionFresh, FSMAppliesSaveFresh DEF RaftStep, FSMApplies
  <1>3. CASE IdleTicker
    BY <1>3, HubIdlesFresh DEF IdleTicker
  <1>4. ASSUME NEW c \in Client, ReadPump(c) PROVE FreshInv'
    BY <1>4, ReadPumpFresh
  <1>5. ASSUME NEW c \in Client,
               \/ ActionSaved(c) \/ RetryFires(c) \/ ResolvingEnds(c) \/ Drops(c)
               \/ ChoosesOverwrite(c) \/ ChoosesForceSave(c) \/ ChoosesFork(c)
        PROVE  FreshInv'
    BY <1>5, HandlersFresh
  <1>6. ASSUME NEW c \in Client, UserActs(c) \/ Receive(c) \/ Connects(c) PROVE FreshInv'
    BY <1>6, UserActsFresh, ReceiveFresh, ConnectsFresh
  <1>7. ASSUME NEW c \in Client, PostArrives(c) \/ PostAnswered(c) \/ PostFails(c)
        PROVE  FreshInv'
    BY <1>7, PostArrivesFresh, PostAnsweredFresh, PostFailsFresh
  <1>8. ASSUME NEW c \in Client, FormArrives(c) \/ FormAnswered(c) \/ FormLost(c)
        PROVE  FreshInv'
    BY <1>8, FormArrivesFresh, FormAnsweredFresh, FormLostFresh
  <1>9. ASSUME NEW c \in Client, Reloads(c) PROVE FreshInv'
    BY <1>9, ReloadsFresh
  <1>10. CASE UNCHANGED vars
    <2>1. /\ UNCHANGED <<ws, http>> /\ UNCHANGED client
          /\ UNCHANGED <<store, gameData, requests, proposing>> /\ AllMade' = AllMade
      BY <1>10, MadeStays DEF vars, net, hubVars
    <2>2. QED
      BY <2>1 DEF FreshInv
  <1>11. QED
    BY <1>1, <1>2, <1>3, <1>4, <1>5, <1>6, <1>7, <1>8, <1>9, <1>10 DEF Next

\* The scan of ApplyAction, the comparison of what it dispatches and the
\* uniqueness of ids keep every log free of repetitions as far as the scan
\* reaches: the server's, the hub's copy and every browser's.
SpacedLogs ==
    /\ Spaced(store)
    /\ gameData # NotLoaded => Spaced(gameData)
    /\ \A c \in Client : Spaced(client[c].log)

\* However actions are retried, fast-forwarded or reloaded, no log repeats
\* an action within the reach of the duplicate scan.
THEOREM NothingTwice ==
    ASSUME UniqueOwn
    PROVE  Spec => []SpacedLogs
  <1>1. Init => SyncInv /\ FreshInv
    BY InitSafe, InitFresh
  <1>2. (SyncInv /\ FreshInv) /\ [Next]_vars => (SyncInv /\ FreshInv)'
    BY NextSafe, NextFresh
  <1>3. SyncInv /\ FreshInv => SpacedLogs
    BY DEF FreshInv, FreshHub, FreshClient, Kept, SpacedLogs
  <1>4. QED
    BY <1>1, <1>2, <1>3, PTL DEF Spec

\* With no more actions than the scan reaches back, a repetition would be
\* among neighbours.
LEMMA SpacedDistinct ==
    ASSUME IsFiniteSet(Action), Cardinality(Action) <= MaxScan,
           NEW log \in Seq(Action), Spaced(log)
    PROVE  Distinct(log)
  <1> DEFINE N == Cardinality(Action)
  <1>1. N \in Nat /\ N <= MaxScan /\ MaxScan \in Nat
    BY FS_CardinalityType, ActionLogAssumption
  <1> HIDE DEF N
  <1>2. ASSUME NEW i \in 1..Len(log), NEW j \in 1..Len(log), i < j, log[i] = log[j]
        PROVE  FALSE
    <2>1. j - i > MaxScan
      BY <1>2 DEF Spaced
    <2> DEFINE W == i..i + N
               f == [x \in W |-> log[x]]
    <2>2. IsFiniteSet(W) /\ Cardinality(W) = N + 1
      <3>1. i \in Int /\ i + N \in Int /\ i <= i + N
        BY <1>1
      <3>2. QED
        BY <1>1, <3>1, FS_Interval
    <2>3. \A x \in W : x \in 1..Len(log)
      BY <1>1, <2>1
    <2>4. f \in [W -> Action]
      BY <2>3
    <2>5. Cardinality(W) > Cardinality(Action)
      BY <1>1, <2>2 DEF N
    <2> HIDE DEF W
    <2>6. \E x, y \in W : x # y /\ f[x] = f[y]
      <3> HIDE DEF f
      <3>1. QED
        BY <2>2, <2>4, <2>5, FS_PigeonHole
    <2>7. PICK x \in W, y \in W : x # y /\ log[x] = log[y]
      BY <2>6
    <2>8. ASSUME NEW u \in W, NEW v \in W, u < v, log[u] = log[v] PROVE FALSE
      <3>1. v - u > MaxScan
        BY <2>3, <2>8 DEF Spaced
      <3>2. QED
        BY <1>1, <2>8, <3>1 DEF W
    <2>9. x < y \/ y < x
      BY <1>1, <2>7 DEF W
    <2>10. QED
      BY <2>7, <2>8, <2>9
  <1>3. ASSUME NEW i \in 1..Len(log), NEW j \in 1..Len(log), log[i] = log[j]
        PROVE  i = j
    BY <1>2, <1>3
  <1>4. QED
    BY <1>3 DEF Distinct

\* In a game of no more actions than the scan reaches back, no log holds an
\* action twice, however often it was sent.
THEOREM NoDoubles ==
    ASSUME UniqueOwn, IsFiniteSet(Action), Cardinality(Action) <= MaxScan
    PROVE  Spec => []NoDoubleAction
  <1>1. SyncInv /\ SpacedLogs => NoDoubleAction
    <2>1. ASSUME SyncInv, SpacedLogs PROVE NoDoubleAction
      <3>1. /\ store \in Seq(Action) /\ gameData \in Seq(Action) \cup {NotLoaded}
            /\ \A c \in Client : client[c].log \in Seq(Action)
        BY <2>1 DEF SyncInv, TypeInv, TypeOK, HubTypeOK, ClientTypeOK, Session
      <3>2. QED
        BY <2>1, <3>1, SpacedDistinct DEF SpacedLogs, NoDoubleAction
    <2>2. QED
      BY <2>1
  <1>2. QED
    BY <1>1, SyncSafe, NothingTwice, PTL

=============================================================================
