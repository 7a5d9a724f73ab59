---------------------------- MODULE GameHistory_proofs ----------------------------
(***************************************************************************)
(* Proofs that the replicated game means what the committed log says: a   *)
(* node serves the replay of the log, and a crash at any moment leaves a  *)
(* file from which the replay of the rest recovers it.                     *)
(***************************************************************************)
EXTENDS GameHistory, GameFSM_proofs

-----------------------------------------------------------------------------
(* The commands of the log, one by one.                                    *)

\* The index a document claims to contain.
Lri(g) == OrFresh(g).lri

\* Two documents that no later command tells apart.
SameDoc(a, b) == (a = NoGame <=> b = NoGame) /\ Content(a) = Content(b)

LEMMA OrFreshTyping ==
    ASSUME NEW g \in Slot
    PROVE  /\ OrFresh(g) \in Game
           /\ Lri(g) \in Nat
           /\ g # NoGame => g \in Game /\ OrFresh(g) = g
  BY FreshTombstone DEF OrFresh, Lri, Slot, Game

LEMMA NoGameTyping == NoGame \in Slot /\ Lri(NoGame) = 0 /\ Lri(Tombstone) = 0
                        /\ Tombstone \in Slot /\ Tombstone # NoGame
  BY FreshTombstone, ActionLogAssumption DEF Slot, Lri, OrFresh, Fresh, Tombstone

\* The three kinds of command, each with its effect.
LEMMA ActionCase ==
    ASSUME NEW g \in Slot, NEW c \in Command, NEW i \in Nat, c.type = "action"
    PROVE  LET last == AfterActions(OrFresh(g), c.acts)[Len(c.acts)]
               x == ApplyCommand(g, c, i)
           IN  /\ last \in Game
               /\ x = [last EXCEPT !.lri = i]
               /\ x \in Game /\ x # NoGame
               /\ x.lri = i /\ x.log = last.log /\ x.status = last.status
  <1> DEFINE last == AfterActions(OrFresh(g), c.acts)[Len(c.acts)]
             x == ApplyCommand(g, c, i)
  <1>1. c.acts \in Seq(Action) /\ Len(c.acts) \in 0..Len(c.acts)
    BY CommandTyping
  <1>2. last \in Game
    BY <1>1, AfterActionsTyping, OrFreshTyping
  <1>3. x = [last EXCEPT !.lri = i]
    BY DEF ApplyCommand
  <1> HIDE DEF last
  <1>4. /\ x \in Game /\ x.lri = i /\ x.log = last.log /\ x.status = last.status
    BY <1>2, <1>3 DEF Game
  <1>5. x # NoGame
    BY <1>4, ActionLogAssumption
  <1>6. QED
    BY <1>2, <1>3, <1>4, <1>5 DEF last

LEMMA SaveCase ==
    ASSUME NEW g \in Slot, NEW c \in Command, NEW i \in Nat, c.type = "save"
    PROVE  LET saved == [log |-> c.log, status |-> c.status, lri |-> i]
           IN  /\ ApplyCommand(g, c, i) =
                    IF c.force \/ Continues(c.log, OrFresh(g).log) THEN saved ELSE g
               /\ saved \in Game /\ saved # NoGame
               /\ saved.lri = i
               /\ g = NoGame => Continues(c.log, OrFresh(g).log)
  <1> DEFINE saved == [log |-> c.log, status |-> c.status, lri |-> i]
  <1>1. c.log \in Seq(Action) /\ c.status \in Status
    BY CommandTyping DEF Status
  <1>2. saved \in Game /\ saved.lri = i
    BY <1>1 DEF Game
  <1>3. saved # NoGame
    BY <1>2, ActionLogAssumption
  <1>4. g = NoGame => Continues(c.log, OrFresh(g).log)
    BY <1>1 DEF OrFresh, Fresh, Continues
  <1>5. QED
    BY <1>2, <1>3, <1>4 DEF ApplyCommand

LEMMA DeleteCase ==
    ASSUME NEW g \in Slot, NEW c \in Command, NEW i \in Nat, c.type = "delete"
    PROVE  ApplyCommand(g, c, i) = IF g = NoGame THEN NoGame ELSE Tombstone
  BY DEF ApplyCommand

\* A command yields a document, never removes one, and leaves it with the
\* command's index, its own, or none.
LEMMA ApplyCommandTyping ==
    ASSUME NEW g \in Slot, NEW c \in Command, NEW i \in Nat
    PROVE  LET x == ApplyCommand(g, c, i)
           IN  /\ x \in Slot
               /\ Lri(x) \in {i, Lri(g), 0}
               /\ g # NoGame => x # NoGame
  <1> DEFINE x == ApplyCommand(g, c, i)
  <1>1. CASE c.type = "action"
    <2>1. x \in Game /\ x # NoGame /\ x.lri = i
      BY <1>1, ActionCase
    <2>2. QED
      BY <2>1 DEF Slot, Lri, OrFresh
  <1>2. CASE c.type = "save"
    <2> DEFINE saved == [log |-> c.log, status |-> c.status, lri |-> i]
    <2>1. x = saved \/ x = g
      BY <1>2, SaveCase
    <2>2. saved \in Game /\ saved # NoGame /\ saved.lri = i
      BY <1>2, SaveCase
    <2> HIDE DEF x, saved
    <2>3. QED
      BY <2>1, <2>2 DEF Slot, Lri, OrFresh, x
  <1>3. CASE c.type = "delete"
    BY <1>3, DeleteCase, NoGameTyping
  <1>4. QED
    BY <1>1, <1>2, <1>3, CommandTyping

\* A command keeps two documents the same that were the same.
LEMMA ApplyCommandSame ==
    ASSUME NEW a \in Slot, NEW b \in Slot, SameDoc(a, b),
           NEW c \in Command, NEW i \in Nat
    PROVE  SameDoc(ApplyCommand(a, c, i), ApplyCommand(b, c, i))
  <1> DEFINE x == ApplyCommand(a, c, i)
             y == ApplyCommand(b, c, i)
  <1>1. /\ OrFresh(a) \in Game /\ OrFresh(b) \in Game
        /\ OrFresh(a).log = OrFresh(b).log /\ OrFresh(a).status = OrFresh(b).status
        /\ a = NoGame <=> b = NoGame
    BY OrFreshTyping DEF SameDoc, Content
  <1>2. CASE c.type = "action"
    <2> DEFINE u == AfterActions(OrFresh(a), c.acts)[Len(c.acts)]
               v == AfterActions(OrFresh(b), c.acts)[Len(c.acts)]
    <2>1. u.log = v.log /\ u.status = v.status
      BY <1>1, <1>2, CommandTyping, AfterActionsContent
    <2>2. /\ x # NoGame /\ x.log = u.log /\ x.status = u.status
          /\ y # NoGame /\ y.log = v.log /\ y.status = v.status
      BY <1>2, ActionCase
    <2> HIDE DEF u, v, x, y
    <2>3. SameDoc(x, y)
      BY <2>1, <2>2 DEF SameDoc, Content, OrFresh
    <2>4. QED
      BY <2>3 DEF x, y
  <1>3. CASE c.type = "save"
    <2>1. /\ x = IF c.force \/ Continues(c.log, OrFresh(a).log)
                 THEN [log |-> c.log, status |-> c.status, lri |-> i] ELSE a
          /\ y = IF c.force \/ Continues(c.log, OrFresh(b).log)
                 THEN [log |-> c.log, status |-> c.status, lri |-> i] ELSE b
      BY <1>3, SaveCase
    <2>2. (x = y) \/ (x = a /\ y = b)
      BY <1>1, <2>1
    <2>3. QED
      BY <2>2 DEF SameDoc
  <1>4. CASE c.type = "delete"
    BY <1>1, <1>4, DeleteCase DEF SameDoc
  <1>5. QED
    BY <1>2, <1>3, <1>4, CommandTyping

\* The recursive function that Replay chooses.
IsReplay(f, log, g, p, m) ==
    f = [i \in p..p + m |-> IF i = p THEN g ELSE Redo(f[i - 1], log[i], i)]

LEMMA ReplayExists ==
    ASSUME NEW log, NEW g, NEW p \in Nat
    PROVE  \A m \in Nat : \E f : IsReplay(f, log, g, p, m)
  <1> DEFINE S == {m \in Nat : \E f : IsReplay(f, log, g, p, m)}
  <1>1. 0 \in S
    <2> DEFINE f == [i \in p..p + 0 |-> g]
    <2>1. IsReplay(f, log, g, p, 0)
      BY DEF IsReplay
    <2>2. QED
      BY <2>1
  <1>2. ASSUME NEW m \in Nat, m \in S PROVE m + 1 \in S
    <2>1. PICK f : IsReplay(f, log, g, p, m)
      BY <1>2
    <2> DEFINE e == Redo(f[p + m], log[p + m + 1], p + m + 1)
               h == [i \in p..p + (m + 1) |-> IF i = p + m + 1 THEN e ELSE f[i]]
    <2>2. /\ f[p] = g
          /\ \A i \in p + 1..p + m : f[i] = Redo(f[i - 1], log[i], i)
      BY <2>1 DEF IsReplay
    <2> HIDE DEF e
    <2>3. /\ h[p] = g
          /\ \A i \in p + 1..p + m : h[i] = Redo(h[i - 1], log[i], i)
      BY <2>2
    <2>4. h[p + m + 1] = Redo(h[p + m + 1 - 1], log[p + m + 1], p + m + 1)
      BY DEF e
    <2>5. \A i \in p..p + (m + 1) :
            h[i] = IF i = p THEN g ELSE Redo(h[i - 1], log[i], i)
      <3>1. \A i \in p..p + (m + 1) : i = p \/ i \in p + 1..p + m \/ i = p + m + 1
        OBVIOUS
      <3> HIDE DEF h
      <3>2. QED
        BY <2>3, <2>4, <3>1
    <2>6. IsReplay(h, log, g, p, m + 1)
      <3>1. h = [i \in p..p + (m + 1) |-> h[i]]
        OBVIOUS
      <3> HIDE DEF h
      <3>2. QED
        BY <2>5, <3>1 DEF IsReplay
    <2> HIDE DEF h
    <2>7. QED
      BY <2>6
  <1> HIDE DEF S
  <1>3. \A m \in Nat : m \in S
    BY <1>1, <1>2, SetInduction
  <1>4. QED
    BY <1>3 DEF S

LEMMA ReplayDef ==
    ASSUME NEW log, NEW g, NEW p \in Nat, Len(log) \in Nat, p <= Len(log)
    PROVE  /\ Replay(log, g, p)[p] = g
           /\ \A i \in p + 1..Len(log) :
                Replay(log, g, p)[i] = Redo(Replay(log, g, p)[i - 1], log[i], i)
  <1> DEFINE f == Replay(log, g, p)
             m == Len(log) - p
  <1>1. m \in Nat /\ p + m = Len(log)
    OBVIOUS
  <1> HIDE DEF m
  <1>2. \E h : IsReplay(h, log, g, p, m)
    BY <1>1, ReplayExists
  <1>3. IsReplay(f, log, g, p, m)
    BY <1>1, <1>2 DEF Replay, IsReplay
  <1> HIDE DEF f
  <1>4. /\ f[p] = g
        /\ \A i \in p + 1..Len(log) : f[i] = Redo(f[i - 1], log[i], i)
    BY <1>1, <1>3 DEF IsReplay
  <1>5. QED
    BY <1>4 DEF f

\* The truth after each command comes from the truth before it: the index of
\* a document never makes the replay from the start skip a command.
LEMMA TruthTyping ==
    ASSUME NEW log \in Seq(Command)
    PROVE  /\ Truth(log)[0] = NoGame
           /\ \A i \in 0..Len(log) : /\ Truth(log)[i] \in Slot
                                     /\ Lri(Truth(log)[i]) <= i
           /\ \A i \in 1..Len(log) :
                Truth(log)[i] = ApplyCommand(Truth(log)[i - 1], log[i], i)
  <1> DEFINE f == Truth(log)
             S == {i \in Nat : i <= Len(log) => f[i] \in Slot /\ Lri(f[i]) <= i}
  <1>1. /\ f[0] = NoGame
        /\ \A i \in 1..Len(log) : f[i] = Redo(f[i - 1], log[i], i)
    BY ReplayDef DEF Truth
  <1> HIDE DEF f
  <1>2. 0 \in S
    BY <1>1, NoGameTyping
  <1>3. ASSUME NEW i \in Nat, i + 1 <= Len(log), f[i] \in Slot, Lri(f[i]) <= i
        PROVE  /\ f[i + 1] = ApplyCommand(f[i], log[i + 1], i + 1)
               /\ f[i + 1] \in Slot /\ Lri(f[i + 1]) <= i + 1
    <2>1. i + 1 \in 1..Len(log) /\ log[i + 1] \in Command /\ i + 1 - 1 = i
      BY <1>3
    <2>2. f[i + 1] = Redo(f[i], log[i + 1], i + 1)
      BY <1>1, <2>1
    <2>3. Lri(f[i]) \in Nat
      BY <1>3, OrFreshTyping
    <2>4. f[i + 1] = ApplyCommand(f[i], log[i + 1], i + 1)
      BY <1>3, <2>2, <2>3 DEF Redo, Lri
    <2>5. f[i + 1] \in Slot /\ Lri(f[i + 1]) \in {i + 1, Lri(f[i]), 0}
      BY <1>3, <2>1, <2>4, ApplyCommandTyping
    <2>6. QED
      BY <1>3, <2>3, <2>4, <2>5
  <1>4. ASSUME NEW i \in Nat, i \in S PROVE i + 1 \in S
    <2>1. i + 1 <= Len(log) => i <= Len(log)
      OBVIOUS
    <2>2. QED
      BY <1>3, <1>4, <2>1
  <1> HIDE DEF S
  <1>5. \A i \in Nat : i \in S
    BY <1>2, <1>4, SetInduction
  <1>6. \A i \in 0..Len(log) : f[i] \in Slot /\ Lri(f[i]) <= i
    BY <1>5 DEF S
  <1>7. \A i \in 1..Len(log) : f[i] = ApplyCommand(f[i - 1], log[i], i)
    <2> TAKE i \in 1..Len(log)
    <2>1. i - 1 \in Nat /\ i - 1 \in 0..Len(log) /\ i - 1 + 1 = i /\ i <= Len(log)
      OBVIOUS
    <2>2. f[i - 1] \in Slot /\ Lri(f[i - 1]) <= i - 1
      BY <1>6, <2>1
    <2>3. QED
      BY <1>3, <2>1, <2>2
  <1>8. QED
    BY <1>1, <1>6, <1>7 DEF f

\* Committing a command changes nothing about the ones before.
LEMMA TruthGrows ==
    ASSUME NEW log \in Seq(Command), NEW c \in Command
    PROVE  \A i \in 0..Len(log) : Truth(Append(log, c))[i] = Truth(log)[i]
  <1> DEFINE more == Append(log, c)
             u == Truth(more)
             v == Truth(log)
             S == {i \in Nat : i <= Len(log) => u[i] = v[i]}
  <1>1. /\ more \in Seq(Command) /\ Len(more) = Len(log) + 1
        /\ \A i \in 1..Len(log) : more[i] = log[i]
    OBVIOUS
  <1> HIDE DEF more
  <1>2. /\ u[0] = v[0]
        /\ \A i \in 1..Len(log) : /\ u[i] = ApplyCommand(u[i - 1], more[i], i)
                                  /\ v[i] = ApplyCommand(v[i - 1], log[i], i)
    BY <1>1, TruthTyping
  <1> HIDE DEF u, v
  <1>3. 0 \in S
    BY <1>2
  <1>4. ASSUME NEW i \in Nat, i \in S PROVE i + 1 \in S
    <2> SUFFICES ASSUME i + 1 <= Len(log) PROVE u[i + 1] = v[i + 1]
      OBVIOUS
    <2>1. i + 1 \in 1..Len(log) /\ i + 1 - 1 = i /\ u[i] = v[i]
      BY <1>4
    <2>2. QED
      BY <1>1, <1>2, <2>1
  <1> HIDE DEF S
  <1>5. \A i \in Nat : i \in S
    BY <1>3, <1>4, SetInduction
  <1>6. QED
    BY <1>5 DEF S, u, v, more

-----------------------------------------------------------------------------
(* From which documents a replay leads back to the truth.                  *)

\* g is the truth after some m-th command, and until then the commands it
\* does not claim to contain leave it the same.
Follows(log, g, p, h) ==
    \E m \in p..h :
        /\ Lri(g) <= m
        /\ \A i \in p..m : i >= Lri(g) => SameDoc(g, Truth(log)[i])

\* A deletion still to come makes what g contains irrelevant.
Wiped(log, g, p, h) ==
    \E q \in p + 1..h :
        /\ log[q].type = "delete"
        /\ g # NoGame /\ Lri(g) < q
        /\ Truth(log)[q - 1] # NoGame

\* Replaying the commands after the p-th onto g leads back to the truth, at
\* the h-th command at the latest.
Recovers(log, g, p, h) == Follows(log, g, p, h) \/ Wiped(log, g, p, h)

LEMMA RecoversStart ==
    ASSUME NEW log \in Seq(Command)
    PROVE  Recovers(log, NoGame, 0, 0)
  <1>1. SameDoc(NoGame, Truth(log)[0])
    BY TruthTyping DEF SameDoc
  <1>2. \A i \in 0..0 : SameDoc(NoGame, Truth(log)[i])
    BY <1>1
  <1>3. 0 \in 0..0 /\ Lri(NoGame) <= 0
    BY NoGameTyping
  <1>4. QED
    BY <1>2, <1>3 DEF Recovers, Follows

\* What recovers by the h-th command does so by any later one.
LEMMA RecoversWiden ==
    ASSUME NEW log, NEW g, NEW p \in Nat, NEW h \in Nat, NEW k \in Nat,
           h <= k, Recovers(log, g, p, h)
    PROVE  Recovers(log, g, p, k)
  <1>1. p..h \subseteq p..k /\ p + 1..h \subseteq p + 1..k
    OBVIOUS
  <1>2. QED
    BY <1>1 DEF Recovers, Follows, Wiped

\* What recovers by now is the truth now.
LEMMA RecoversNow ==
    ASSUME NEW log, NEW g, NEW p \in Nat, Recovers(log, g, p, p)
    PROVE  SameDoc(g, Truth(log)[p])
  <1>1. ~Wiped(log, g, p, p)
    BY DEF Wiped
  <1>2. PICK m \in p..p : /\ Lri(g) <= m
                          /\ \A i \in p..m : i >= Lri(g) => SameDoc(g, Truth(log)[i])
    BY <1>1 DEF Recovers, Follows
  <1>3. m = p /\ p \in p..m
    OBVIOUS
  <1>4. QED
    BY <1>2, <1>3

\* A command committed later changes nothing.
LEMMA RecoversGrows ==
    ASSUME NEW log \in Seq(Command), NEW c \in Command, NEW g,
           NEW p \in Nat, NEW h \in Nat, h <= Len(log), Recovers(log, g, p, h)
    PROVE  Recovers(Append(log, c), g, p, h)
  <1> DEFINE more == Append(log, c)
  <1>1. \A i \in 0..Len(log) : Truth(more)[i] = Truth(log)[i]
    BY TruthGrows
  <1>2. \A i \in 1..Len(log) : more[i] = log[i]
    OBVIOUS
  <1> HIDE DEF more
  <1>3. CASE Follows(log, g, p, h)
    <2>1. PICK m \in p..h : /\ Lri(g) <= m
                            /\ \A i \in p..m : i >= Lri(g) => SameDoc(g, Truth(log)[i])
      BY <1>3 DEF Follows
    <2>2. \A i \in p..m : Truth(more)[i] = Truth(log)[i]
      BY <1>1
    <2>3. \A i \in p..m : i >= Lri(g) => SameDoc(g, Truth(more)[i])
      BY <2>1, <2>2
    <2>4. QED
      BY <2>1, <2>3 DEF Recovers, Follows, more
  <1>4. CASE Wiped(log, g, p, h)
    <2>1. PICK q \in p + 1..h : /\ log[q].type = "delete"
                                /\ g # NoGame /\ Lri(g) < q
                                /\ Truth(log)[q - 1] # NoGame
      BY <1>4 DEF Wiped
    <2>2. more[q] = log[q] /\ Truth(more)[q - 1] = Truth(log)[q - 1]
      BY <1>1, <1>2
    <2>3. QED
      BY <2>1, <2>2 DEF Recovers, Wiped, more
  <1>5. QED
    BY <1>3, <1>4 DEF Recovers

\* A document that claims less, and lacks nothing, recovers too.
LEMMA RecoversLower ==
    ASSUME NEW log, NEW a \in Slot, NEW b \in Slot, NEW p \in Nat, NEW h \in Nat,
           SameDoc(a, b), Lri(a) <= Lri(b), Lri(b) <= p, Recovers(log, b, p, h)
    PROVE  Recovers(log, a, p, h)
  <1>1. Lri(a) \in Nat /\ Lri(b) \in Nat
    BY OrFreshTyping
  <1>2. CASE Follows(log, b, p, h)
    <2>1. PICK m \in p..h : /\ Lri(b) <= m
                            /\ \A i \in p..m : i >= Lri(b) => SameDoc(b, Truth(log)[i])
      BY <1>2 DEF Follows
    <2>2. \A i \in p..m : SameDoc(b, Truth(log)[i])
      BY <1>1, <2>1
    <2>3. \A i \in p..m : SameDoc(a, Truth(log)[i])
      BY <2>2 DEF SameDoc
    <2>4. Lri(a) <= m
      BY <1>1, <2>1
    <2>5. QED
      BY <2>3, <2>4 DEF Recovers, Follows
  <1>3. CASE Wiped(log, b, p, h)
    <2>1. PICK q \in p + 1..h : /\ log[q].type = "delete"
                                /\ b # NoGame /\ Lri(b) < q
                                /\ Truth(log)[q - 1] # NoGame
      BY <1>3 DEF Wiped
    <2>2. a # NoGame /\ Lri(a) < q
      BY <1>1, <2>1 DEF SameDoc
    <2>3. QED
      BY <2>1, <2>2 DEF Recovers, Wiped
  <1>4. QED
    BY <1>2, <1>3 DEF Recovers

\* Commands a document claims to contain may be replayed onto it as well.
LEMMA RecoversBack ==
    ASSUME NEW log, NEW g \in Slot, NEW b \in Nat, NEW p \in Nat, NEW h \in Nat,
           b <= p, p <= Lri(g), Recovers(log, g, p, h)
    PROVE  Recovers(log, g, b, h)
  <1>1. Lri(g) \in Nat
    BY OrFreshTyping
  <1>2. CASE Follows(log, g, p, h)
    <2>1. PICK m \in p..h : /\ Lri(g) <= m
                            /\ \A i \in p..m : i >= Lri(g) => SameDoc(g, Truth(log)[i])
      BY <1>2 DEF Follows
    <2>2. m \in b..h /\ \A i \in b..m : i >= Lri(g) => i \in p..m
      BY <1>1
    <2>3. \A i \in b..m : i >= Lri(g) => SameDoc(g, Truth(log)[i])
      BY <2>1, <2>2
    <2>4. QED
      BY <2>1, <2>2, <2>3 DEF Recovers, Follows
  <1>3. CASE Wiped(log, g, p, h)
    <2>1. p + 1..h \subseteq b + 1..h
      OBVIOUS
    <2>2. QED
      BY <1>3, <2>1 DEF Recovers, Wiped
  <1>4. QED
    BY <1>2, <1>3 DEF Recovers

\* Replaying the next command is a step on the way.
LEMMA RecoversStep ==
    ASSUME NEW log \in Seq(Command), NEW g \in Slot, NEW p \in Nat, NEW h \in Nat,
           p + 1 <= h, h <= Len(log), Recovers(log, g, p, h)
    PROVE  /\ Redo(g, log[p + 1], p + 1) \in Slot
           /\ Recovers(log, Redo(g, log[p + 1], p + 1), p + 1, h)
  <1> DEFINE c == log[p + 1]
             x == Redo(g, c, p + 1)
             y == ApplyCommand(g, c, p + 1)
             T == Truth(log)
  <1>1. c \in Command /\ Lri(g) \in Nat /\ p + 1 \in 1..Len(log)
        /\ p + 1 - 1 = p
    BY OrFreshTyping
  <1>2. /\ p + 1 <= Lri(g) => x = g
        /\ Lri(g) <= p => x = y
    BY <1>1 DEF Redo, Lri
  <1>3. /\ y \in Slot /\ Lri(y) \in {p + 1, Lri(g), 0}
        /\ g # NoGame => y # NoGame
    BY <1>1, ApplyCommandTyping
  <1>4. T[p + 1] = ApplyCommand(T[p], c, p + 1) /\ T[p] \in Slot
    BY <1>1, TruthTyping
  <1> HIDE DEF T, c, x, y
  <1>5. x \in Slot
    BY <1>1, <1>2, <1>3
  <1> SUFFICES Recovers(log, x, p + 1, h)
    BY <1>5 DEF x, c
  <1>6. ASSUME Lri(g) <= p, SameDoc(g, T[p]) PROVE Recovers(log, x, p + 1, h)
    <2>1. SameDoc(y, T[p + 1])
      BY <1>1, <1>4, <1>6, ApplyCommandSame DEF y
    <2>2. x = y /\ Lri(x) <= p + 1
      BY <1>1, <1>2, <1>3, <1>6
    <2>3. p + 1 \in p + 1..h /\ \A i \in p + 1..p + 1 : i = p + 1
      OBVIOUS
    <2>4. QED
      BY <2>1, <2>2, <2>3 DEF Recovers, Follows, T
  <1>7. CASE Follows(log, g, p, h)
    <2>1. PICK m \in p..h : /\ Lri(g) <= m
                            /\ \A i \in p..m : i >= Lri(g) => SameDoc(g, T[i])
      BY <1>7 DEF Follows, T
    <2>2. CASE Lri(g) <= p
      <3>1. p \in p..m
        OBVIOUS
      <3>2. QED
        BY <1>1, <1>6, <2>1, <2>2, <3>1
    <2>3. CASE p + 1 <= Lri(g)
      <3>1. m \in p + 1..h /\ p + 1..m \subseteq p..m
        BY <1>1, <2>1, <2>3
      <3>2. \A i \in p + 1..m : i >= Lri(x) => SameDoc(x, T[i])
        BY <1>2, <2>1, <2>3, <3>1
      <3>3. Lri(x) <= m
        BY <1>2, <2>1, <2>3
      <3>4. QED
        BY <3>1, <3>2, <3>3 DEF Recovers, Follows, T
    <2>4. QED
      BY <1>1, <2>2, <2>3
  <1>8. CASE Wiped(log, g, p, h)
    <2>1. PICK q \in p + 1..h : /\ log[q].type = "delete"
                                /\ g # NoGame /\ Lri(g) < q
                                /\ T[q - 1] # NoGame
      BY <1>8 DEF Wiped, T
    <2>2. CASE q = p + 1
      <3>1. Lri(g) <= p /\ c.type = "delete" /\ T[p] # NoGame
        BY <1>1, <2>1, <2>2 DEF c
      <3>2. x = Tombstone /\ T[p + 1] = Tombstone
        BY <1>1, <1>2, <1>4, <2>1, <3>1, DeleteCase DEF y
      <3>3. SameDoc(x, T[p + 1]) /\ Lri(x) <= p + 1
        BY <3>2, NoGameTyping DEF SameDoc
      <3>4. p + 1 \in p + 1..h /\ \A i \in p + 1..p + 1 : SameDoc(x, T[i])
        BY <3>3
      <3>5. QED
        BY <3>3, <3>4 DEF Recovers, Follows, T
    <2>3. CASE q # p + 1
      <3>1. q \in p + 1 + 1..h
        BY <2>3
      <3>2. x # NoGame /\ Lri(x) < q
        BY <1>1, <1>2, <1>3, <2>1, <2>3
      <3>3. QED
        BY <2>1, <3>1, <3>2 DEF Recovers, Wiped, T
    <2>4. QED
      BY <2>2, <2>3
  <1>9. QED
    BY <1>7, <1>8 DEF Recovers

\* A tombstone written when its delete is applied recovers from any earlier
\* command: the replay meets the delete again.
LEMMA RecoversDeleted ==
    ASSUME NEW log, NEW g \in Slot, NEW b \in Nat, NEW p \in Nat, NEW h \in Nat,
           b <= p, p + 1 <= h, log[p + 1].type = "delete",
           g # NoGame, Lri(g) <= p, Recovers(log, g, p, h)
    PROVE  Recovers(log, Tombstone, b, h)
  <1>1. ASSUME NEW q \in p + 1..h, log[q].type = "delete", Truth(log)[q - 1] # NoGame
        PROVE  Recovers(log, Tombstone, b, h)
    <2>1. q \in b + 1..h /\ Lri(Tombstone) < q /\ Tombstone # NoGame
      BY NoGameTyping
    <2>2. QED
      BY <1>1, <2>1 DEF Recovers, Wiped
  <1>2. CASE Follows(log, g, p, h)
    <2>1. PICK m \in p..h : /\ Lri(g) <= m
                            /\ \A i \in p..m : i >= Lri(g) => SameDoc(g, Truth(log)[i])
      BY <1>2 DEF Follows
    <2>2. p \in p..m /\ p + 1 \in p + 1..h /\ p + 1 - 1 = p
      OBVIOUS
    <2>3. Truth(log)[p] # NoGame
      BY <2>1, <2>2 DEF SameDoc
    <2>4. QED
      BY <1>1, <2>2, <2>3
  <1>3. CASE Wiped(log, g, p, h)
    BY <1>1, <1>3 DEF Wiped
  <1>4. QED
    BY <1>2, <1>3 DEF Recovers

\* What recovers is the truth when the replay has reached the end.
LEMMA ReplayRecovers ==
    ASSUME NEW log \in Seq(Command), NEW g \in Slot, NEW p \in Nat, NEW h \in Nat,
           p <= h, h <= Len(log), Recovers(log, g, p, h)
    PROVE  SameDoc(Replay(log, g, p)[Len(log)], Truth(log)[Len(log)])
  <1> DEFINE f == Replay(log, g, p)
             k == Len(log)
             S == {i \in Nat : p + i <= k =>
                      f[p + i] \in Slot /\ Recovers(log, f[p + i], p + i, k)}
  <1>1. /\ f[p] = g
        /\ \A i \in p + 1..k : f[i] = Redo(f[i - 1], log[i], i)
    BY ReplayDef
  <1> HIDE DEF f
  <1>2. Recovers(log, g, p, k)
    BY RecoversWiden
  <1>3. 0 \in S
    BY <1>1, <1>2
  <1>4. ASSUME NEW i \in Nat, i \in S PROVE i + 1 \in S
    <2> SUFFICES ASSUME p + (i + 1) <= k
                 PROVE  /\ f[p + (i + 1)] \in Slot
                        /\ Recovers(log, f[p + (i + 1)], p + (i + 1), k)
      OBVIOUS
    <2> DEFINE q == p + i
    <2>1. q \in Nat /\ q + 1 = p + (i + 1) /\ q + 1 \in p + 1..k /\ q + 1 - 1 = q
      OBVIOUS
    <2>2. f[q] \in Slot /\ Recovers(log, f[q], q, k)
      BY <1>4
    <2> HIDE DEF q
    <2>3. f[q + 1] = Redo(f[q], log[q + 1], q + 1)
      BY <1>1, <2>1
    <2>4. f[q + 1] \in Slot /\ Recovers(log, f[q + 1], q + 1, k)
      BY <2>1, <2>2, <2>3, RecoversStep
    <2>5. QED
      BY <2>1, <2>4
  <1> HIDE DEF S
  <1>5. \A i \in Nat : i \in S
    BY <1>3, <1>4, SetInduction
  <1>6. Recovers(log, f[k], k, k)
    <2>1. k - p \in Nat /\ p + (k - p) = k
      OBVIOUS
    <2>2. k - p \in S
      BY <1>5, <2>1
    <2>3. QED
      BY <2>1, <2>2 DEF S
  <1>7. QED
    BY <1>6, RecoversNow DEF f

-----------------------------------------------------------------------------
(* What each step does to the node that takes it.                          *)

\* Every other node is left alone.
Elsewhere(n) == \A m \in Node : m # n =>
    /\ cache'[m] = cache[m] /\ dirty'[m] = dirty[m] /\ disk'[m] = disk[m]
    /\ applied'[m] = applied[m] /\ snap'[m] = snap[m] /\ job'[m] = job[m]
    /\ flusher'[m] = flusher[m] /\ reader'[m] = reader[m] /\ handed'[m] = handed[m]

NodeStep(n) ==
    \/ FSMStep(n)
    \/ BeginSnapshot(n)
    \/ SnapshotStep(n)
    \/ HubMisses(n)
    \/ HubReadsDisk(n)
    \/ HubFillsCache(n)
    \/ Crash(n)

LEMMA StepsElsewhere ==
    ASSUME TypeOK, NEW n \in Node, NodeStep(n)
    PROVE  raftLog' = raftLog /\ Elsewhere(n)
  <1>1. ASSUME SkipItem(n) \/ SaveItem(n) \/ BeginActions(n) \/ ApplyOneAction(n)
                 \/ DeleteItem(n)
        PROVE  raftLog' = raftLog /\ Elsewhere(n)
    <2>1. UNCHANGED onlyJob /\ \E k : job' = [job EXCEPT ![n] = k]
      <3>1. CASE SkipItem(n)
        BY <3>1 DEF SkipItem
      <3>2. CASE SaveItem(n)
        BY <3>2 DEF SaveItem
      <3>3. CASE BeginActions(n)
        BY <3>3 DEF BeginActions
      <3>4. CASE ApplyOneAction(n)
        BY <3>4 DEF ApplyOneAction
      <3>5. CASE DeleteItem(n)
        BY <3>5 DEF DeleteItem
      <3>6. QED
        BY <1>1, <3>1, <3>2, <3>3, <3>4, <3>5
    <2>2. QED
      BY <2>1 DEF Elsewhere, onlyJob, TypeOK
  <1>2. ASSUME LoadOnce(n) PROVE raftLog' = raftLog /\ Elsewhere(n)
    <2>1. /\ \E k : job' = [job EXCEPT ![n] = k]
          /\ \E h : handed' = [handed EXCEPT ![n] = h]
          /\ cache' = [cache EXCEPT ![n] = LoadGame(n)]
          /\ UNCHANGED <<raftLog, dirty, disk, applied, snap, flusher, reader>>
      BY <1>2 DEF LoadOnce
    <2>2. QED
      BY <2>1 DEF Elsewhere, TypeOK
  <1>3. ASSUME NothingToSave(n) \/ SaveDeleted(n) \/ SaveToDisk(n) \/ MarkDirty(n)
        PROVE  raftLog' = raftLog /\ Elsewhere(n)
    <2>1. EndBatch(n) /\ UNCHANGED <<raftLog, snap, flusher, reader>>
      BY <1>3 DEF NothingToSave, SaveDeleted, SaveToDisk, MarkDirty
    <2>2. \A m \in Node : m # n =>
            /\ job'[m] = job[m] /\ applied'[m] = applied[m] /\ handed'[m] = handed[m]
            /\ snap'[m] = snap[m] /\ flusher'[m] = flusher[m] /\ reader'[m] = reader[m]
      BY <2>1 DEF EndBatch, TypeOK
    <2>3. \A m \in Node : m # n =>
            /\ cache'[m] = cache[m] /\ dirty'[m] = dirty[m] /\ disk'[m] = disk[m]
      BY <1>3 DEF NothingToSave, SaveDeleted, DeleteGame, SaveToDisk, SaveGame,
                  MarkDirty, TypeOK
    <2>4. QED
      BY <2>1, <2>2, <2>3 DEF Elsewhere
  <1>4. ASSUME SaveInMemory(n) PROVE raftLog' = raftLog /\ Elsewhere(n)
    BY <1>4 DEF SaveInMemory, Elsewhere, TypeOK
  <1>5. ASSUME BeginSnapshot(n) \/ SnapshotStep(n)
        PROVE  raftLog' = raftLog /\ Elsewhere(n)
    <2>1. /\ UNCHANGED <<raftLog, applied, job, reader, handed>>
          /\ \E f : flusher' = [flusher EXCEPT ![n] = f]
          /\ cache' = cache \/ \E g : cache' = [cache EXCEPT ![n] = g]
          /\ disk' = disk \/ \E g : disk' = [disk EXCEPT ![n] = g]
          /\ dirty' = dirty \/ dirty' = [dirty EXCEPT ![n] = FALSE]
          /\ snap' = snap \/ \E i : snap' = [snap EXCEPT ![n] = i]
      <3>1. CASE BeginSnapshot(n)
        BY <3>1 DEF BeginSnapshot, onlyFlusher
      <3>2. CASE FlushCheck(n)
        BY <3>2 DEF FlushCheck, onlyFlusher
      <3>3. CASE FlushLoad(n)
        BY <3>3 DEF FlushLoad, onlyFlusher
      <3>4. CASE FlushWrite(n)
        BY <3>4 DEF FlushWrite
      <3>5. CASE FlushCache(n)
        BY <3>5 DEF FlushCache
      <3>6. CASE BeginPersist(n)
        BY <3>6 DEF BeginPersist, onlyFlusher
      <3>7. CASE EndSnapshot(n)
        BY <3>7 DEF EndSnapshot
      <3>8. QED
        BY <1>5, <3>1, <3>2, <3>3, <3>4, <3>5, <3>6, <3>7 DEF SnapshotStep
    <2>2. QED
      BY <2>1 DEF Elsewhere, TypeOK
  <1>6. ASSUME HubMisses(n) \/ HubReadsDisk(n) \/ HubFillsCache(n)
        PROVE  raftLog' = raftLog /\ Elsewhere(n)
    <2>1. UNCHANGED onlyReader
      BY <1>6 DEF HubMisses, HubReadsDisk, HubFillsCache
    <2>2. \A m \in Node : m # n => reader'[m] = reader[m] /\ cache'[m] = cache[m]
      BY <1>6 DEF HubMisses, HubReadsDisk, HubFillsCache, TypeOK
    <2>3. QED
      BY <2>1, <2>2 DEF Elsewhere, onlyReader
  <1>7. ASSUME Crash(n) PROVE raftLog' = raftLog /\ Elsewhere(n)
    BY <1>7 DEF Crash, Elsewhere, TypeOK
  <1>8. QED
    BY <1>1, <1>2, <1>3, <1>4, <1>5, <1>6, <1>7 DEF NodeStep, FSMStep

LEMMA LoadOnceEffect ==
    ASSUME TypeOK, NEW n \in Node, LoadOnce(n)
    PROVE  /\ job[n].pc = "idle" /\ ~Snapshotting(n)
           /\ \E hi \in Nat :
                /\ hi > applied[n]
                /\ Deliverable(applied[n] + 1, hi)
                /\ handed'[n] = MaxOf(handed[n], hi)
                /\ job'[n].last = hi
           /\ job'[n].pc = "item" /\ job'[n].game = OrFresh(LoadGame(n))
           /\ job'[n].next = applied[n] + 1 /\ job'[n].acts = <<>>
           /\ ~job'[n].dirty /\ ~job'[n].deleted
           /\ cache'[n] = LoadGame(n) /\ LoadGame(n)' = LoadGame(n)
           /\ UNCHANGED <<raftLog, dirty, disk, applied, snap, flusher, reader>>
  <1>1. PICK k \in 1..MaxBatch :
          /\ Deliverable(applied[n] + 1, applied[n] + k)
          /\ job' = [job EXCEPT ![n] =
                [IdleJob EXCEPT !.pc = "item",
                                !.game = OrFresh(LoadGame(n)),
                                !.next = applied[n] + 1,
                                !.last = applied[n] + k]]
          /\ handed' = [handed EXCEPT ![n] = MaxOf(@, applied[n] + k)]
    BY DEF LoadOnce
  <1> DEFINE hi == applied[n] + k
  <1>2. k \in Nat /\ k >= 1 /\ applied[n] \in Nat /\ hi \in Nat /\ hi > applied[n]
    BY GameFSMAssumption DEF TypeOK
  <1>3. job'[n] = [pc |-> "item", game |-> OrFresh(LoadGame(n)),
                   next |-> applied[n] + 1, last |-> hi, acts |-> <<>>,
                   dirty |-> FALSE, deleted |-> FALSE, force |-> FALSE]
    BY <1>1 DEF IdleJob, TypeOK
  <1>4. handed'[n] = MaxOf(handed[n], hi) /\ Deliverable(applied[n] + 1, hi)
    BY <1>1 DEF TypeOK
  <1>5. job'[n].last = hi
    BY <1>3
  <1> HIDE DEF hi
  <1>6. \E h \in Nat :
                /\ h > applied[n]
                /\ Deliverable(applied[n] + 1, h)
                /\ handed'[n] = MaxOf(handed[n], h)
                /\ job'[n].last = h
    BY <1>2, <1>4, <1>5
  <1>7. cache'[n] = LoadGame(n) /\ UNCHANGED disk
    BY DEF LoadOnce, TypeOK
  <1>8. LoadGame(n)' = LoadGame(n)
    BY <1>7 DEF LoadGame
  <1>9. /\ job'[n].pc = "item" /\ job'[n].game = OrFresh(LoadGame(n))
        /\ job'[n].next = applied[n] + 1 /\ job'[n].acts = <<>>
        /\ ~job'[n].dirty /\ ~job'[n].deleted
    BY <1>3
  <1>10. /\ job[n].pc = "idle" /\ ~Snapshotting(n)
         /\ UNCHANGED <<raftLog, dirty, disk, applied, snap, flusher, reader>>
    BY DEF LoadOnce
  <1>11. QED
    BY <1>6, <1>7, <1>8, <1>9, <1>10

LEMMA SkipItemEffect ==
    ASSUME TypeOK, NEW n \in Node, SkipItem(n)
    PROVE  /\ job[n].pc = "item" /\ job[n].next <= job[n].last
           /\ Replayed(n) \/ job[n].deleted
           /\ job'[n].pc = "item" /\ job'[n].game = job[n].game
           /\ job'[n].next = job[n].next + 1 /\ job'[n].last = job[n].last
           /\ job'[n].dirty = job[n].dirty /\ job'[n].deleted = job[n].deleted
           /\ UNCHANGED onlyJob
  <1>1. job[n] \in Job /\ job'[n] = [job[n] EXCEPT !.next = job[n].next + 1]
    BY DEF SkipItem, TypeOK
  <1>2. QED
    BY <1>1 DEF SkipItem, Job

\* A save is taken or refused.
Refused(n) ==
    LET c == raftLog[job[n].next]
    IN  ~c.force /\ ~Continues(c.log, IF job[n].deleted THEN <<>> ELSE job[n].game.log)

LEMMA SaveItemEffect ==
    ASSUME TypeOK, NEW n \in Node, SaveItem(n)
    PROVE  /\ AtItem(n, "save") /\ ~Replayed(n)
           /\ job'[n].pc = "item"
           /\ job'[n].next = job[n].next + 1 /\ job'[n].last = job[n].last
           /\ IF Refused(n)
              THEN /\ job'[n].game = job[n].game /\ job'[n].dirty = job[n].dirty
                   /\ job'[n].deleted = job[n].deleted
              ELSE /\ job'[n].game = [log |-> raftLog[job[n].next].log,
                                      status |-> raftLog[job[n].next].status,
                                      lri |-> job[n].next]
                   /\ job'[n].dirty /\ ~job'[n].deleted
           /\ UNCHANGED onlyJob
  <1> DEFINE c == raftLog[job[n].next]
             g == [log |-> c.log, status |-> c.status, lri |-> job[n].next]
             k == [pc |-> job[n].pc, game |-> g, next |-> job[n].next + 1,
                   last |-> job[n].last, acts |-> job[n].acts, dirty |-> TRUE,
                   deleted |-> FALSE, force |-> TRUE]
  <1>1. job[n] \in Job /\ AtItem(n, "save") /\ ~Replayed(n) /\ job[n].pc = "item"
    BY DEF SaveItem, TypeOK, AtItem
  <1>2. CASE Refused(n)
    <2>1. job'[n] = [job[n] EXCEPT !.next = job[n].next + 1]
      BY <1>2 DEF SaveItem, Refused, TypeOK
    <2>2. /\ job'[n].pc = "item" /\ job'[n].game = job[n].game
          /\ job'[n].next = job[n].next + 1 /\ job'[n].last = job[n].last
          /\ job'[n].dirty = job[n].dirty /\ job'[n].deleted = job[n].deleted
      BY <1>1, <2>1 DEF Job
    <2>3. QED
      BY <1>1, <1>2, <2>2 DEF SaveItem
  <1>3. CASE ~Refused(n)
    <2>1. job'[n] = TakenJob(job[n], g, FALSE)
      BY <1>3 DEF SaveItem, Refused, TypeOK, TakenJob
    <2> HIDE DEF g
    <2>2. job'[n] = k
      BY <1>1, <2>1 DEF TakenJob, Job
    <2>3. QED
      BY <1>1, <1>3, <2>2 DEF SaveItem, g
  <1>4. QED
    BY <1>2, <1>3

LEMMA BeginActionsEffect ==
    ASSUME TypeOK, NEW n \in Node, BeginActions(n)
    PROVE  /\ AtItem(n, "action") /\ ~Replayed(n) /\ ~job[n].deleted
           /\ job'[n].pc = "acts" /\ job'[n].game = job[n].game
           /\ job'[n].next = job[n].next /\ job'[n].last = job[n].last
           /\ job'[n].acts = raftLog[job[n].next].acts
           /\ job'[n].dirty = job[n].dirty /\ job'[n].deleted = job[n].deleted
           /\ UNCHANGED onlyJob
  <1>1. /\ job[n] \in Job
        /\ job'[n] = [job[n] EXCEPT !.pc = "acts", !.acts = raftLog[job[n].next].acts]
    BY DEF BeginActions, TypeOK
  <1>2. job'[n] = [pc |-> "acts", game |-> job[n].game, next |-> job[n].next,
                   last |-> job[n].last, acts |-> raftLog[job[n].next].acts,
                   dirty |-> job[n].dirty, deleted |-> job[n].deleted,
                   force |-> job[n].force]
    BY <1>1 DEF Job
  <1>3. QED
    BY <1>2 DEF BeginActions

LEMMA ApplyOneActionEffect ==
    ASSUME TypeOK, NEW n \in Node, ApplyOneAction(n)
    PROVE  LET g == ApplyAction(job[n].game, Head(job[n].acts))
               final == Len(job[n].acts) = 1
           IN  /\ job[n].pc = "acts"
               /\ job'[n].pc = IF final THEN "item" ELSE "acts"
               /\ job'[n].game = IF final THEN [g EXCEPT !.lri = job[n].next] ELSE g
               /\ job'[n].next = IF final THEN job[n].next + 1 ELSE job[n].next
               /\ job'[n].last = job[n].last /\ job'[n].acts = Tail(job[n].acts)
               /\ job'[n].dirty = (job[n].dirty \/ g # job[n].game)
               /\ job'[n].deleted = job[n].deleted
               /\ UNCHANGED onlyJob
  <1> DEFINE j == job[n]
             g == ApplyAction(j.game, Head(j.acts))
             pc == IF Len(j.acts) = 1 THEN "item" ELSE "acts"
             x == IF Len(j.acts) = 1 THEN [g EXCEPT !.lri = j.next] ELSE g
             y == IF Len(j.acts) = 1 THEN j.next + 1 ELSE j.next
             z == j.dirty \/ g # j.game
  <1>1. /\ j \in Job
        /\ job'[n] = [j EXCEPT !.pc = pc, !.game = x, !.acts = Tail(j.acts),
                               !.next = y, !.dirty = z]
    BY DEF ApplyOneAction, TypeOK
  <1> HIDE DEF pc, x, y, z
  <1>2. job'[n] = [pc |-> pc, game |-> x, next |-> y, last |-> j.last,
                   acts |-> Tail(j.acts), dirty |-> z, deleted |-> j.deleted,
                   force |-> j.force]
    BY <1>1 DEF Job
  <1>3. /\ job'[n].pc = pc /\ job'[n].game = x /\ job'[n].next = y
        /\ job'[n].last = j.last /\ job'[n].acts = Tail(j.acts)
        /\ job'[n].dirty = z /\ job'[n].deleted = j.deleted
    BY <1>2
  <1>4. job[n].pc = "acts" /\ UNCHANGED onlyJob
    BY DEF ApplyOneAction
  <1>5. QED
    BY <1>3, <1>4 DEF pc, x, y, z

LEMMA DeleteItemEffect ==
    ASSUME TypeOK, NEW n \in Node, DeleteItem(n)
    PROVE  /\ AtItem(n, "delete") /\ ~Replayed(n) /\ ~job[n].deleted
           /\ job'[n].pc = "item"
           /\ job'[n].game = [job[n].game EXCEPT !.lri = job[n].next]
           /\ job'[n].next = job[n].next + 1 /\ job'[n].last = job[n].last
           /\ job'[n].dirty /\ job'[n].deleted
           /\ UNCHANGED onlyJob
  <1> DEFINE j == job[n]
             g == [j.game EXCEPT !.lri = j.next]
  <1>1. j \in Job /\ AtItem(n, "delete") /\ j.pc = "item"
        /\ job'[n] = TakenJob(j, g, TRUE)
    BY DEF DeleteItem, TypeOK, TakenJob, AtItem
  <1> HIDE DEF g
  <1>2. job'[n] = [pc |-> j.pc, game |-> g, next |-> j.next + 1, last |-> j.last,
                   acts |-> j.acts, dirty |-> TRUE, deleted |-> TRUE, force |-> TRUE]
    BY <1>1 DEF TakenJob, Job
  <1>3. QED
    BY <1>1, <1>2 DEF DeleteItem, g

-----------------------------------------------------------------------------
(* The cache, the file and the goroutines of a node, when no batch is      *)
(* applied while a snapshot persists and no hub loads the game.            *)

Undisturbed == PersistOverlaps = FALSE /\ HubLoads = FALSE

\* Who runs when, how the cache, the file and the job's copy are related, and
\* that each claims to contain as much as the one it was made from.
StoreInv(n) ==
    /\ reader[n].pc = "idle"
    /\ snap[n] <= applied[n]
    /\ flusher[n].phase = "none" => flusher[n].pc = "check"
    /\ flusher[n].phase # "none" => job[n].pc = "idle" /\ flusher[n].idx = applied[n]
    /\ flusher[n].pc \in {"load", "write", "cache"} => dirty[n]
    /\ flusher[n].pc \in {"write", "cache"} => flusher[n].val = cache[n]
    /\ flusher[n].pc = "cache" => disk[n] = cache[n]
    /\ flusher[n].pc = "done" => ~dirty[n]
    /\ job[n].pc = "mark" => cache[n] = job[n].game
    /\ ~dirty[n] /\ job[n].pc # "mark" /\ cache[n] # NoGame => disk[n] = cache[n]
    /\ Lri(disk[n]) <= Lri(LoadGame(n))
    /\ job[n].pc # "idle" => /\ Lri(LoadGame(n)) <= job[n].game.lri
                             /\ applied[n] < job[n].next
    /\ job[n].pc = "acts" => job[n].game.lri < job[n].next

LEMMA StoreTyping ==
    ASSUME TypeInv, NEW n \in Node
    PROVE  /\ TypeOK /\ Control(n) /\ job[n] \in Job /\ flusher[n] \in Flusher
           /\ job[n].game \in Game /\ job[n].game \in Slot
           /\ Lri(job[n].game) = job[n].game.lri
           /\ job[n].game.lri \in Nat /\ job[n].next \in Nat /\ job[n].last \in Nat
           /\ job[n].pc \in {"idle", "item", "acts", "mark"}
           /\ job[n].dirty \in BOOLEAN /\ job[n].deleted \in BOOLEAN
           /\ cache[n] \in Slot /\ disk[n] \in Slot /\ LoadGame(n) \in Slot
           /\ Lri(disk[n]) \in Nat /\ Lri(LoadGame(n)) \in Nat
           /\ applied[n] \in Nat /\ snap[n] \in Nat /\ handed[n] \in Nat
           /\ dirty[n] \in BOOLEAN /\ raftLog \in Seq(Command)
           /\ job[n].game # NoGame
  <1>1. TypeOK /\ Control(n)
    BY DEF TypeInv
  <1>2. job[n] \in Job /\ flusher[n] \in Flusher /\ cache[n] \in Slot /\ disk[n] \in Slot
        /\ applied[n] \in Nat /\ snap[n] \in Nat /\ handed[n] \in Nat
        /\ dirty[n] \in BOOLEAN /\ raftLog \in Seq(Command)
    BY <1>1 DEF TypeOK
  <1>3. /\ job[n].game \in Game /\ job[n].next \in Nat /\ job[n].last \in Nat
        /\ job[n].pc \in {"idle", "item", "acts", "mark"}
        /\ job[n].dirty \in BOOLEAN /\ job[n].deleted \in BOOLEAN
    BY <1>2 DEF Job
  <1>4. job[n].game.lri \in Nat /\ job[n].game # NoGame /\ job[n].game \in Slot
    BY <1>3, ActionLogAssumption DEF Game, Slot
  <1>5. LoadGame(n) \in Slot
    BY <1>2 DEF LoadGame
  <1>6. Lri(job[n].game) = job[n].game.lri
    BY <1>4 DEF Lri, OrFresh
  <1>7. Lri(disk[n]) \in Nat /\ Lri(LoadGame(n)) \in Nat
    BY <1>2, <1>5, OrFreshTyping
  <1>8. QED
    BY <1>1, <1>2, <1>3, <1>4, <1>5, <1>6, <1>7

LEMMA IdleFields == /\ IdleJob.pc = "idle" /\ IdleReader.pc = "idle"
                    /\ IdleFlusher.phase = "none" /\ IdleFlusher.pc = "check"
  BY DEF IdleJob, IdleReader, IdleFlusher

\* What the last step of a batch does to the job.
LEMMA EndBatchEffect ==
    ASSUME TypeOK, NEW n \in Node, EndBatch(n)
    PROVE  /\ job'[n].pc = "idle" /\ applied'[n] = job[n].last /\ handed' = handed
  BY IdleFields DEF EndBatch, TypeOK

\* The job's own steps.
LEMMA JobStoreInv ==
    ASSUME TypeInv, NEW n \in Node, StoreInv(n), UNCHANGED onlyJob,
           job[n].pc \in {"item", "acts"}, job'[n].pc \in {"item", "acts"},
           job[n].next <= job'[n].next, job'[n].next \in Nat,
           job'[n].game.lri \in Nat, job[n].game.lri <= job'[n].game.lri,
           job'[n].pc = "acts" => job'[n].game.lri < job'[n].next
    PROVE  StoreInv(n)'
  <1>1. UNCHANGED <<cache, dirty, disk, applied, snap, flusher, reader>>
    BY DEF onlyJob
  <1>2. LoadGame(n)' = LoadGame(n)
    BY <1>1 DEF LoadGame
  <1>3. Lri(LoadGame(n)) <= job[n].game.lri
    BY DEF StoreInv
  <1>4. Lri(LoadGame(n)) <= job'[n].game.lri
    BY <1>3, StoreTyping
  <1>5. Lri(disk[n])' = Lri(disk[n]) /\ Lri(LoadGame(n))' = Lri(LoadGame(n))
    BY <1>1, <1>2 DEF Lri, OrFresh
  <1>6. applied[n] < job'[n].next
    BY StoreTyping DEF StoreInv
  <1>7. QED
    BY <1>1, <1>4, <1>5, <1>6 DEF StoreInv

LEMMA BatchStoreInv ==
    ASSUME TypeInv, NEW n \in Node, StoreInv(n),
           SkipItem(n) \/ SaveItem(n) \/ BeginActions(n) \/ ApplyOneAction(n)
             \/ DeleteItem(n)
    PROVE  StoreInv(n)'
  <1> DEFINE j == job[n]
             k == job'[n]
  <1>1. TypeOK /\ j \in Job /\ j.game \in Game /\ j.game.lri \in Nat /\ j.next \in Nat
        /\ Control(n)
    BY StoreTyping
  <1>2. /\ UNCHANGED onlyJob
        /\ j.pc \in {"item", "acts"} /\ k.pc \in {"item", "acts"}
        /\ k.next \in Nat /\ j.next <= k.next
        /\ k.game.lri \in Nat /\ j.game.lri <= k.game.lri
        /\ k.pc = "acts" => k.game.lri < k.next
    <2>1. CASE SkipItem(n)
      <3>1. /\ UNCHANGED onlyJob /\ j.pc = "item" /\ k.pc = "item"
            /\ k.next = j.next + 1 /\ k.game = j.game
        BY <1>1, <2>1, SkipItemEffect
      <3>2. QED
        BY <1>1, <3>1
    <2>2. CASE SaveItem(n)
      <3> DEFINE c == raftLog[j.next]
                 g == [log |-> c.log, status |-> c.status, lri |-> j.next]
      <3>1. /\ UNCHANGED onlyJob /\ j.pc = "item" /\ k.pc = "item"
            /\ k.next = j.next + 1 /\ k.game \in {j.game, g} /\ ~Replayed(n)
        BY <1>1, <2>2, SaveItemEffect DEF AtItem
      <3>2. g.lri = j.next
        OBVIOUS
      <3> HIDE DEF g
      <3>3. QED
        BY <1>1, <3>1, <3>2 DEF Replayed
    <2>3. CASE BeginActions(n)
      <3>1. /\ UNCHANGED onlyJob /\ j.pc = "item" /\ k.pc = "acts" /\ ~Replayed(n)
            /\ k.game = j.game /\ k.next = j.next
        BY <1>1, <2>3, BeginActionsEffect DEF AtItem
      <3>2. QED
        BY <1>1, <3>1 DEF Replayed
    <2>4. CASE ApplyOneAction(n)
      <3> DEFINE a == Head(j.acts)
                 g == ApplyAction(j.game, a)
                 final == Len(j.acts) = 1
      <3>1. j.pc = "acts" /\ j.game.lri < j.next
        BY <2>4 DEF ApplyOneAction, StoreInv
      <3>2. a \in Action
        <4>1. j.acts \in Seq(Action) /\ j.acts # <<>>
          BY <1>1, <3>1 DEF Control, Job
        <4>2. QED
          BY <4>1
      <3>3. g \in Game /\ g.lri = j.game.lri
        BY <1>1, <3>2, ApplyActionTyping
      <3>4. /\ UNCHANGED onlyJob /\ k.pc = (IF final THEN "item" ELSE "acts")
            /\ k.game = (IF final THEN [g EXCEPT !.lri = j.next] ELSE g)
            /\ k.next = (IF final THEN j.next + 1 ELSE j.next)
        BY <1>1, <2>4, ApplyOneActionEffect
      <3> HIDE DEF g
      <3>5. [g EXCEPT !.lri = j.next].lri = j.next
        BY <3>3 DEF Game
      <3> HIDE DEF j, k
      <3>6. QED
        BY <1>1, <3>1, <3>3, <3>4, <3>5
    <2>5. CASE DeleteItem(n)
      <3>1. /\ UNCHANGED onlyJob /\ j.pc = "item" /\ k.pc = "item" /\ ~Replayed(n)
            /\ k.next = j.next + 1 /\ k.game = [j.game EXCEPT !.lri = j.next]
        BY <1>1, <2>5, DeleteItemEffect DEF AtItem
      <3>2. k.game.lri = j.next
        BY <1>1, <3>1 DEF Game
      <3>3. QED
        BY <1>1, <3>1, <3>2 DEF Replayed
    <2>6. QED
      BY <2>1, <2>2, <2>3, <2>4, <2>5
  <1>3. QED
    BY <1>2, JobStoreInv

LEMMA LoadOnceStoreInv ==
    ASSUME TypeInv, Undisturbed, NEW n \in Node, StoreInv(n), LoadOnce(n)
    PROVE  StoreInv(n)'
  <1> DEFINE g == LoadGame(n)
  <1>1. TypeOK /\ g \in Slot /\ applied[n] \in Nat /\ snap[n] \in Nat
    BY StoreTyping
  <1>2. /\ job[n].pc = "idle" /\ ~Snapshotting(n)
        /\ job'[n].pc = "item" /\ job'[n].game = OrFresh(g)
        /\ job'[n].next = applied[n] + 1
        /\ cache'[n] = g /\ g' = g
        /\ UNCHANGED <<raftLog, dirty, disk, applied, snap, flusher, reader>>
    BY <1>1, LoadOnceEffect
  <1>3. flusher[n].phase = "none"
    BY <1>2 DEF Snapshotting, Undisturbed
  <1>4. Lri(disk[n])' = Lri(disk[n]) /\ Lri(LoadGame(n))' = Lri(g)
        /\ job'[n].game.lri = Lri(g)
    BY <1>2 DEF Lri, OrFresh
  <1>5. Lri(g) \in Nat
    BY StoreTyping
  <1>6. ~dirty[n] /\ g # NoGame => disk[n] = g
    BY <1>2 DEF StoreInv, LoadGame
  <1>7. flusher[n].pc = "check" /\ Lri(disk[n]) <= Lri(g)
    BY <1>3 DEF StoreInv
  <1> HIDE DEF g
  <1>8. QED
    BY <1>1, <1>2, <1>3, <1>4, <1>5, <1>6, <1>7 DEF StoreInv

LEMMA EndStoreInv ==
    ASSUME TypeInv, Undisturbed, NEW n \in Node, StoreInv(n),
           NothingToSave(n) \/ SaveDeleted(n) \/ SaveToDisk(n) \/ MarkDirty(n)
    PROVE  StoreInv(n)'
  <1>1. TypeOK /\ job[n].pc \in {"item", "mark"} /\ EndBatch(n)
        /\ UNCHANGED <<snap, flusher, reader>>
    BY StoreTyping DEF NothingToSave, SaveDeleted, SaveToDisk, MarkDirty, ItemsDone
  <1>2. job'[n].pc = "idle" /\ applied'[n] = job[n].last
    BY <1>1, EndBatchEffect
  <1>3. flusher[n].phase = "none" /\ flusher[n].pc = "check"
        /\ snap[n] <= job[n].last
    <2>1. /\ flusher[n].phase = "none" /\ flusher[n].pc = "check"
          /\ snap[n] <= applied[n] /\ applied[n] < job[n].next
      BY <1>1 DEF StoreInv
    <2>2. job[n].next <= job[n].last + 1
      BY <1>1, StoreTyping DEF Control
    <2>3. QED
      BY <2>1, <2>2, StoreTyping
  <1>4. /\ ~dirty'[n] /\ cache'[n] # NoGame => disk'[n] = cache'[n]
        /\ Lri(disk'[n]) <= Lri(LoadGame(n)')
    <2>1. CASE NothingToSave(n)
      <3>1. UNCHANGED <<cache, dirty, disk>> /\ job[n].pc = "item"
        BY <2>1 DEF NothingToSave, ItemsDone
      <3>2. LoadGame(n)' = LoadGame(n)
        BY <3>1 DEF LoadGame
      <3>3. QED
        BY <3>1, <3>2 DEF StoreInv
    <2>2. CASE SaveDeleted(n)
      <3>1. job[n].pc = "item" /\ UNCHANGED dirty /\ DeleteGame(n)
        BY <2>2 DEF SaveDeleted, ItemsDone, DeleteGame
      <3>2. CASE UNCHANGED <<disk, cache>>
        <4>1. LoadGame(n)' = LoadGame(n)
          BY <3>2 DEF LoadGame
        <4>2. QED
          BY <3>1, <3>2, <4>1 DEF StoreInv
      <3>3. CASE disk'[n] = Tombstone /\ cache'[n] = Tombstone
        <4>1. LoadGame(n)' = Tombstone
          BY <3>3, NoGameTyping DEF LoadGame
        <4>2. QED
          BY <3>3, <4>1, NoGameTyping
      <3>4. QED
        BY <1>1, <3>1, <3>2, <3>3 DEF DeleteGame, TypeOK
    <2>3. CASE SaveToDisk(n)
      <3>1. disk'[n] = job[n].game /\ cache'[n] = job[n].game
        BY <1>1, <2>3 DEF SaveToDisk, SaveGame, TypeOK
      <3>2. LoadGame(n)' = job[n].game
        BY <3>1, StoreTyping DEF LoadGame
      <3>3. QED
        BY <3>1, <3>2, StoreTyping
    <2>4. CASE MarkDirty(n)
      <3>1. UNCHANGED <<cache, disk>> /\ dirty'[n]
        BY <1>1, <2>4 DEF MarkDirty, TypeOK
      <3>2. LoadGame(n)' = LoadGame(n)
        BY <3>1 DEF LoadGame
      <3>3. QED
        BY <3>1, <3>2 DEF StoreInv
    <2>5. QED
      BY <2>1, <2>2, <2>3, <2>4
  <1>5. Lri(disk[n])' = Lri(disk'[n]) /\ Lri(LoadGame(n))' = Lri(LoadGame(n)')
    BY DEF Lri, OrFresh
  <1>6. QED
    BY <1>1, <1>2, <1>3, <1>4, <1>5 DEF StoreInv

LEMMA SaveInMemoryStoreInv ==
    ASSUME TypeInv, NEW n \in Node, StoreInv(n), SaveInMemory(n)
    PROVE  StoreInv(n)'
  <1>1. TypeOK /\ job[n] \in Job
    BY StoreTyping
  <1>2. /\ job[n].pc = "item" /\ cache'[n] = job[n].game
        /\ job'[n].pc = "mark" /\ job'[n].game = job[n].game
        /\ job'[n].next = job[n].next
        /\ UNCHANGED <<dirty, disk, applied, snap, flusher, reader>>
    BY <1>1 DEF SaveInMemory, ItemsDone, TypeOK, Job
  <1>3. LoadGame(n)' = job[n].game
    BY <1>2, StoreTyping DEF LoadGame
  <1>4. Lri(disk[n])' = Lri(disk[n]) /\ Lri(LoadGame(n))' = job[n].game.lri
    BY <1>2, <1>3, StoreTyping DEF Lri, OrFresh
  <1>5. /\ Lri(disk[n]) <= Lri(LoadGame(n)) /\ Lri(LoadGame(n)) <= job[n].game.lri
        /\ applied[n] < job[n].next
    BY <1>2 DEF StoreInv
  <1>6. Lri(disk[n]) <= job[n].game.lri
    BY <1>5, StoreTyping
  <1>7. flusher[n].phase = "none" /\ flusher[n].pc = "check" /\ snap[n] <= applied[n]
        /\ reader[n].pc = "idle"
    BY <1>2 DEF StoreInv
  <1>8. QED
    BY <1>2, <1>4, <1>5, <1>6, <1>7, StoreTyping DEF StoreInv

LEMMA SnapshotStoreInv ==
    ASSUME TypeInv, NEW n \in Node, StoreInv(n), BeginSnapshot(n) \/ SnapshotStep(n)
    PROVE  StoreInv(n)'
  <1>1. TypeOK /\ flusher[n] \in Flusher /\ Control(n)
        /\ applied[n] \in Nat
    BY StoreTyping
  <1>2. job[n].pc = "idle" /\ UNCHANGED <<applied, job, reader>>
    BY DEF BeginSnapshot, SnapshotStep, FlushCheck, FlushLoad, FlushWrite,
           FlushCache, BeginPersist, EndSnapshot, onlyFlusher, StoreInv
  <1>3. CASE BeginSnapshot(n)
    <2>1. /\ flusher[n].phase = "none"
          /\ flusher'[n] = [flusher[n] EXCEPT !.phase = "snapshot", !.pc = "check",
                                              !.idx = applied[n]]
          /\ UNCHANGED <<cache, dirty, disk, snap>>
      BY <1>1, <1>3 DEF BeginSnapshot, onlyFlusher, TypeOK
    <2>2. flusher'[n] = [phase |-> "snapshot", pc |-> "check", idx |-> applied[n],
                         val |-> flusher[n].val]
      BY <1>1, <2>1 DEF Flusher
    <2>3. flusher'[n].phase = "snapshot" /\ flusher'[n].pc = "check"
          /\ flusher'[n].idx = applied[n]
      BY <2>2
    <2>4. QED
      BY <1>2, <2>1, <2>3 DEF StoreInv, LoadGame, Lri, OrFresh
  <1>4. CASE FlushCheck(n)
    <2>1. /\ flusher[n].phase # "none"
          /\ flusher'[n] = [flusher[n] EXCEPT !.pc = IF dirty[n] THEN "load" ELSE "done"]
          /\ UNCHANGED <<cache, dirty, disk, snap>>
      BY <1>1, <1>4 DEF FlushCheck, onlyFlusher, TypeOK
    <2>2. flusher'[n].phase = flusher[n].phase /\ flusher'[n].idx = flusher[n].idx
          /\ flusher'[n].pc = (IF dirty[n] THEN "load" ELSE "done")
      BY <1>1, <2>1 DEF Flusher
    <2>3. QED
      BY <1>2, <2>1, <2>2 DEF StoreInv, LoadGame, Lri, OrFresh
  <1>5. CASE FlushLoad(n)
    <2>1. /\ flusher[n].pc = "load"
          /\ flusher'[n] = [flusher[n] EXCEPT !.pc = "write", !.val = cache[n]]
          /\ UNCHANGED <<cache, dirty, disk, snap>>
      BY <1>1, <1>5 DEF FlushLoad, onlyFlusher, TypeOK
    <2>2. flusher'[n] = [phase |-> flusher[n].phase, pc |-> "write",
                         idx |-> flusher[n].idx, val |-> cache[n]]
      BY <1>1, <2>1 DEF Flusher
    <2>3. flusher'[n].phase = flusher[n].phase /\ flusher'[n].idx = flusher[n].idx
          /\ flusher'[n].pc = "write" /\ flusher'[n].val = cache[n]
      BY <2>2
    <2>4. QED
      BY <1>2, <2>1, <2>3 DEF StoreInv, LoadGame, Lri, OrFresh
  <1>6. CASE FlushWrite(n)
    <2>1. /\ flusher[n].pc = "write"
          /\ flusher'[n] = [flusher[n] EXCEPT !.pc = "cache"]
          /\ disk'[n] = flusher[n].val
          /\ UNCHANGED <<cache, dirty, snap>>
      BY <1>1, <1>6 DEF FlushWrite, TypeOK
    <2>2. flusher'[n].phase = flusher[n].phase /\ flusher'[n].idx = flusher[n].idx
          /\ flusher'[n].pc = "cache" /\ flusher'[n].val = flusher[n].val
      BY <1>1, <2>1 DEF Flusher
    <2>3. dirty[n] /\ flusher[n].val = cache[n] /\ cache[n] # NoGame
      BY <1>1, <2>1 DEF StoreInv, Control
    <2>4. LoadGame(n)' = cache[n] /\ LoadGame(n) = cache[n]
      BY <2>1, <2>3 DEF LoadGame
    <2>5. Lri(disk[n])' = Lri(cache[n]) /\ Lri(LoadGame(n))' = Lri(cache[n])
      BY <2>1, <2>3, <2>4 DEF Lri, OrFresh
    <2>6. Lri(cache[n]) \in Nat
      BY StoreTyping, OrFreshTyping
    <2>7. QED
      BY <1>2, <2>1, <2>2, <2>3, <2>5, <2>6 DEF StoreInv
  <1>7. CASE FlushCache(n)
    <2>1. /\ flusher[n].pc = "cache"
          /\ flusher'[n] = [flusher[n] EXCEPT !.pc = "done"]
          /\ cache'[n] = flusher[n].val /\ ~dirty'[n]
          /\ UNCHANGED <<disk, snap>>
      BY <1>1, <1>7 DEF FlushCache, TypeOK
    <2>2. flusher'[n].phase = flusher[n].phase /\ flusher'[n].idx = flusher[n].idx
          /\ flusher'[n].pc = "done"
      BY <1>1, <2>1 DEF Flusher
    <2>3. flusher[n].val = cache[n] /\ disk[n] = cache[n]
      BY <2>1 DEF StoreInv
    <2>4. LoadGame(n)' = LoadGame(n)
      BY <2>1, <2>3 DEF LoadGame
    <2>5. Lri(disk[n])' = Lri(disk[n]) /\ Lri(LoadGame(n))' = Lri(LoadGame(n))
      BY <2>1, <2>4 DEF Lri, OrFresh
    <2>6. QED
      BY <1>2, <2>1, <2>2, <2>3, <2>5 DEF StoreInv
  <1>8. CASE BeginPersist(n)
    <2>1. /\ flusher[n].phase # "none"
          /\ flusher'[n] = [flusher[n] EXCEPT !.phase = "persist", !.pc = "check"]
          /\ UNCHANGED <<cache, dirty, disk, snap>>
      BY <1>1, <1>8 DEF BeginPersist, onlyFlusher, TypeOK
    <2>2. flusher'[n] = [phase |-> "persist", pc |-> "check", idx |-> flusher[n].idx,
                         val |-> flusher[n].val]
      BY <1>1, <2>1 DEF Flusher
    <2>3. flusher'[n].phase = "persist" /\ flusher'[n].pc = "check"
          /\ flusher'[n].idx = flusher[n].idx
      BY <2>2
    <2>4. QED
      BY <1>2, <2>1, <2>3 DEF StoreInv, LoadGame, Lri, OrFresh
  <1>9. CASE EndSnapshot(n)
    <2>1. /\ flusher[n].phase # "none" /\ snap'[n] = flusher[n].idx
          /\ flusher'[n].phase = "none" /\ flusher'[n].pc = "check"
          /\ UNCHANGED <<cache, dirty, disk>>
      BY <1>1, <1>9, IdleFields DEF EndSnapshot, TypeOK
    <2>2. QED
      BY <1>1, <1>2, <2>1 DEF StoreInv, LoadGame, Lri, OrFresh
  <1>10. QED
    BY <1>3, <1>4, <1>5, <1>6, <1>7, <1>8, <1>9 DEF SnapshotStep

\* The steps of a hub do not happen.
LEMMA NoHubStep ==
    ASSUME Undisturbed, NEW n \in Node, StoreInv(n)
    PROVE  ~(HubMisses(n) \/ HubReadsDisk(n) \/ HubFillsCache(n))
  BY DEF Undisturbed, StoreInv, HubMisses, HubReadsDisk, HubFillsCache

LEMMA CrashStoreInv ==
    ASSUME TypeInv, NEW n \in Node, Crash(n)
    PROVE  StoreInv(n)'
  <1>1. TypeOK /\ snap[n] \in Nat /\ Lri(disk[n]) \in Nat
    BY StoreTyping
  <1>2. /\ cache'[n] = NoGame /\ ~dirty'[n] /\ applied'[n] = snap[n]
        /\ job'[n].pc = "idle" /\ flusher'[n].phase = "none"
        /\ flusher'[n].pc = "check" /\ reader'[n].pc = "idle"
        /\ UNCHANGED <<disk, snap>>
    BY <1>1, IdleFields DEF Crash, TypeOK
  <1>3. LoadGame(n)' = disk[n]
    BY <1>2 DEF LoadGame
  <1>4. Lri(disk[n])' = Lri(disk[n]) /\ Lri(LoadGame(n))' = Lri(disk[n])
    BY <1>2, <1>3 DEF Lri, OrFresh
  <1>5. QED
    BY <1>1, <1>2, <1>4 DEF StoreInv

LEMMA InitStoreInv ==
    ASSUME Init, NEW n \in Node
    PROVE  StoreInv(n)
  <1>1. /\ reader[n].pc = "idle" /\ snap[n] = 0 /\ applied[n] = 0
        /\ flusher[n].phase = "none" /\ flusher[n].pc = "check"
        /\ job[n].pc = "idle" /\ cache[n] = NoGame /\ disk[n] = NoGame
    BY IdleFields DEF Init
  <1>2. LoadGame(n) = NoGame
    BY <1>1 DEF LoadGame
  <1>3. QED
    BY <1>1, <1>2, NoGameTyping DEF StoreInv

\* A node that a step leaves alone.
LEMMA ElsewhereStoreInv ==
    ASSUME NEW m \in Node, StoreInv(m),
           cache'[m] = cache[m], dirty'[m] = dirty[m], disk'[m] = disk[m],
           applied'[m] = applied[m], snap'[m] = snap[m], job'[m] = job[m],
           flusher'[m] = flusher[m], reader'[m] = reader[m]
    PROVE  StoreInv(m)'
  <1>1. LoadGame(m)' = LoadGame(m)
    BY DEF LoadGame
  <1>2. Lri(disk[m])' = Lri(disk[m]) /\ Lri(LoadGame(m))' = Lri(LoadGame(m))
    BY <1>1 DEF Lri, OrFresh
  <1>3. QED
    BY <1>2 DEF StoreInv

AllStore == TypeInv /\ \A n \in Node : StoreInv(n)

LEMMA NextAllStore ==
    ASSUME Undisturbed, AllStore, [Next]_vars
    PROVE  AllStore'
  <1>1. TypeInv /\ TypeOK /\ TypeInv'
    BY NextTypeInv DEF AllStore, TypeInv
  <1>2. ASSUME NEW n \in Node, NodeStep(n) PROVE \A m \in Node : StoreInv(m)'
    <2>1. StoreInv(n)
      BY DEF AllStore
    <2>2. StoreInv(n)'
      BY <1>1, <1>2, <2>1, BatchStoreInv, LoadOnceStoreInv, EndStoreInv,
         SaveInMemoryStoreInv, SnapshotStoreInv, NoHubStep, CrashStoreInv
         DEF NodeStep, FSMStep
    <2>3. ASSUME NEW m \in Node, m # n PROVE StoreInv(m)'
      BY <1>1, <1>2, <2>3, StepsElsewhere, ElsewhereStoreInv DEF AllStore, Elsewhere
    <2>4. QED
      BY <2>2, <2>3
  <1>3. CASE UNCHANGED <<cache, dirty, disk, applied, snap, job, flusher, reader>>
    BY <1>1, <1>3, ElsewhereStoreInv DEF AllStore
  <1>4. CASE Next
    BY <1>1, <1>2, <1>3, <1>4 DEF Next, NodeStep, Commit, AllStore
  <1>5. QED
    BY <1>1, <1>3, <1>4 DEF AllStore, vars

-----------------------------------------------------------------------------
(* What the documents of a node contain, when each delete is in a batch of *)
(* its own.                                                                *)

\* g is as good as the truth after the p-th command, and so it is as a file:
\* after a crash the commands after the snapshot lead from it to the truth.
Sound(n, g, p) ==
    /\ Recovers(raftLog, g, p, handed[n])
    /\ Recovers(raftLog, g, snap[n], handed[n])

\* The document when the command being applied is finished.
Outcome(j) == [AfterActions(j.game, j.acts)[Len(j.acts)] EXCEPT !.lri = j.next]

\* What SaveDeleted will leave behind.
Remains(n) == IF LoadGame(n) = NoGame THEN NoGame ELSE Tombstone

\* A delete is the whole of its batch.
DeletesAlone(j) == \A i \in j.next..j.last :
    raftLog[i].type = "delete" => j.next = j.last /\ ~j.dirty

\* While a batch has changed nothing, the node's document is still good.
CleanJob(n, j) ==
    /\ ~j.deleted
    /\ Recovers(raftLog, LoadGame(n), j.next - 1, handed[n])
    /\ Content(LoadGame(n)) = Content(j.game)
    /\ j.game.lri = Lri(LoadGame(n)) \/ j.game.lri < j.next

\* What the batch j will leave behind is as good as the truth.
SoundJob(n, j) ==
    /\ j.pc = "mark" => Sound(n, j.game, j.last)
    /\ j.pc \in {"item", "acts"} =>
          /\ DeletesAlone(j)
          /\ ~j.dirty => CleanJob(n, j)
          /\ j.deleted => j.next > j.last /\ Sound(n, Remains(n), j.last)
    /\ j.pc = "item" /\ j.dirty /\ ~j.deleted => Sound(n, j.game, j.next - 1)
    /\ j.pc = "acts" =>
          /\ ~j.deleted
          /\ raftLog[j.next].type = "action"
          /\ Recovers(raftLog, Outcome(j), j.next, handed[n])

HistoryInv(n) ==
    /\ Recovers(raftLog, disk[n], snap[n], handed[n])
    /\ job[n].pc # "mark" => Sound(n, LoadGame(n), applied[n])
    /\ SoundJob(n, job[n])

\* The state of a node on which its history invariant rests.
NodeInv(n) == TypeInv /\ StoreInv(n) /\ HistoryInv(n)

LEMMA JobHistoryInv ==
    ASSUME NEW n \in Node, HistoryInv(n), UNCHANGED onlyJob,
           job[n].pc # "mark", job'[n].pc # "mark", SoundJob(n, job'[n])
    PROVE  HistoryInv(n)'
  BY DEF HistoryInv, SoundJob, Sound, Remains, DeletesAlone, CleanJob, LoadGame, onlyJob

\* The document that the batch has, before the command to apply.
Base(n) == IF job[n].dirty THEN job[n].game ELSE LoadGame(n)

LEMMA BaseSound ==
    ASSUME NEW n \in Node, NodeInv(n), job[n].pc = "item", job[n].next <= job[n].last
    PROVE  /\ ~job[n].deleted
           /\ Base(n) \in Slot
           /\ job[n].next - 1 \in Nat /\ job[n].next - 1 + 1 = job[n].next
           /\ snap[n] <= job[n].next - 1
           /\ job[n].next <= handed[n] /\ handed[n] <= Len(raftLog)
           /\ raftLog[job[n].next] \in Command
           /\ Sound(n, Base(n), job[n].next - 1)
           /\ Content(Base(n)) = Content(job[n].game)
           /\ OrFresh(Base(n)) \in Game
           /\ OrFresh(Base(n)).log = job[n].game.log
           /\ OrFresh(Base(n)).status = job[n].game.status
           /\ ~Replayed(n) => Lri(Base(n)) < job[n].next
  <1>1. TypeInv /\ StoreInv(n) /\ HistoryInv(n)
    BY DEF NodeInv
  <1>2. ~job[n].deleted
    BY <1>1, StoreTyping DEF HistoryInv, SoundJob
  <1>3. Base(n) \in Slot
    BY <1>1, StoreTyping DEF Base
  <1>4. /\ snap[n] <= applied[n] /\ applied[n] < job[n].next
        /\ Lri(LoadGame(n)) <= job[n].game.lri
    BY <1>1 DEF StoreInv
  <1>5. job[n].next <= handed[n] /\ handed[n] <= Len(raftLog)
        /\ raftLog[job[n].next] \in Command
    BY <1>1, ItemTyping, StoreTyping DEF Control
  <1>6. Sound(n, Base(n), job[n].next - 1)
    BY <1>1, <1>2, StoreTyping DEF HistoryInv, SoundJob, CleanJob, Base, Sound
  <1>7. Content(Base(n)) = Content(job[n].game)
    BY <1>1 DEF HistoryInv, SoundJob, CleanJob, Base
  <1>8. OrFresh(job[n].game) = job[n].game
    BY <1>1, StoreTyping, OrFreshTyping
  <1>9. /\ OrFresh(Base(n)) \in Game
        /\ OrFresh(Base(n)).log = job[n].game.log
        /\ OrFresh(Base(n)).status = job[n].game.status
    BY <1>3, <1>7, <1>8, OrFreshTyping DEF Content
  <1>10. ~Replayed(n) => Lri(Base(n)) < job[n].next
    BY <1>1, <1>4, StoreTyping DEF Replayed, Base
  <1>11. job[n].next - 1 \in Nat /\ job[n].next - 1 + 1 = job[n].next
         /\ snap[n] <= job[n].next - 1
    BY <1>1, <1>4, StoreTyping
  <1>12. QED
    BY <1>2, <1>3, <1>5, <1>6, <1>7, <1>9, <1>10, <1>11

\* Applying the command makes that document good for the command after it.
LEMMA NextRecovers ==
    ASSUME NEW n \in Node, NodeInv(n), job[n].pc = "item", job[n].next <= job[n].last,
           ~Replayed(n)
    PROVE  LET x == ApplyCommand(Base(n), raftLog[job[n].next], job[n].next)
           IN  x \in Slot /\ Recovers(raftLog, x, job[n].next, handed[n])
  <1> DEFINE p == job[n].next - 1
             c == raftLog[job[n].next]
  <1>1. /\ p \in Nat /\ p + 1 = job[n].next /\ p + 1 <= handed[n]
        /\ handed[n] <= Len(raftLog) /\ Base(n) \in Slot
        /\ Recovers(raftLog, Base(n), p, handed[n]) /\ Lri(Base(n)) < job[n].next
    BY BaseSound DEF Sound
  <1>2. handed[n] \in Nat /\ raftLog \in Seq(Command) /\ job[n].next \in Nat
    BY StoreTyping DEF NodeInv
  <1> HIDE DEF p
  <1>3. /\ Redo(Base(n), raftLog[p + 1], p + 1) \in Slot
        /\ Recovers(raftLog, Redo(Base(n), raftLog[p + 1], p + 1), p + 1, handed[n])
    BY <1>1, <1>2, RecoversStep
  <1>4. Lri(Base(n)) \in Nat
    BY <1>1, OrFreshTyping
  <1>5. Redo(Base(n), c, job[n].next) = ApplyCommand(Base(n), c, job[n].next)
    BY <1>1, <1>2, <1>4 DEF Redo, Lri
  <1>6. QED
    BY <1>1, <1>3, <1>5

\* A document that has taken the command's index is sound as a file as well.
LEMMA SoundAt ==
    ASSUME NEW n \in Node, NodeInv(n), job[n].pc \in {"item", "acts"}, NEW g \in Slot,
           Lri(g) = job[n].next, Recovers(raftLog, g, job[n].next, handed[n])
    PROVE  Sound(n, g, job[n].next)
  <1>1. TypeInv /\ snap[n] <= applied[n] /\ applied[n] < job[n].next
    BY DEF NodeInv, StoreInv
  <1>2. snap[n] <= job[n].next /\ job[n].next \in Nat /\ snap[n] \in Nat /\ handed[n] \in Nat
    BY <1>1, StoreTyping
  <1>3. QED
    BY <1>2, RecoversBack DEF Sound

LEMMA SkipItemHistoryInv ==
    ASSUME NEW n \in Node, NodeInv(n), SkipItem(n)
    PROVE  HistoryInv(n)'
  <1> DEFINE j == job[n]
             k == job'[n]
             p == j.next - 1
  <1>1. TypeInv /\ TypeOK /\ HistoryInv(n) /\ StoreInv(n)
    BY DEF NodeInv, TypeInv
  <1>2. /\ j.pc = "item" /\ j.next <= j.last
        /\ Replayed(n) \/ j.deleted
        /\ k.pc = "item" /\ k.game = j.game
        /\ k.next = j.next + 1 /\ k.last = j.last
        /\ k.dirty = j.dirty /\ k.deleted = j.deleted
        /\ UNCHANGED onlyJob
    BY <1>1, SkipItemEffect
  <1>3. /\ ~j.deleted /\ p \in Nat /\ p + 1 = j.next
        /\ p + 1 <= handed[n] /\ handed[n] <= Len(raftLog)
        /\ Base(n) \in Slot /\ Sound(n, Base(n), p)
    BY <1>2, BaseSound
  <1>4. /\ j.next \in Nat /\ j.last \in Nat /\ j.game.lri \in Nat
        /\ handed[n] \in Nat /\ raftLog \in Seq(Command)
        /\ Lri(j.game) = j.game.lri
    BY <1>1, StoreTyping
  <1>5. j.next <= j.game.lri
    BY <1>2, <1>3 DEF Replayed
  <1>6. ~j.dirty => CleanJob(n, j)
    BY <1>1, <1>2 DEF HistoryInv, SoundJob
  <1>7. Lri(Base(n)) = j.game.lri
    BY <1>4, <1>5, <1>6 DEF Base, CleanJob
  <1>8. Redo(Base(n), raftLog[j.next], j.next) = Base(n)
    BY <1>5, <1>7 DEF Redo, Lri
  <1> HIDE DEF p
  <1>9. Recovers(raftLog, Base(n), j.next, handed[n])
    BY <1>3, <1>4, <1>8, RecoversStep DEF Sound
  <1>10. DeletesAlone(k)
    <2>1. DeletesAlone(j)
      BY <1>1, <1>2 DEF HistoryInv, SoundJob
    <2>2. QED
      BY <1>2, <1>4, <2>1 DEF DeletesAlone
  <1>11. k.next - 1 = j.next
    BY <1>2, <1>4
  <1>12. ~k.dirty => CleanJob(n, k)
    BY <1>2, <1>4, <1>6, <1>7, <1>9, <1>11 DEF CleanJob, Base
  <1>13. k.dirty => Sound(n, k.game, k.next - 1)
    BY <1>2, <1>3, <1>9, <1>11 DEF Sound, Base
  <1> HIDE DEF j, k
  <1>14. SoundJob(n, k)
    BY <1>2, <1>3, <1>10, <1>12, <1>13 DEF SoundJob
  <1>15. QED
    BY <1>1, <1>2, <1>14, JobHistoryInv DEF j, k

LEMMA SaveItemHistoryInv ==
    ASSUME NEW n \in Node, NodeInv(n), SaveItem(n)
    PROVE  HistoryInv(n)'
  <1> DEFINE j == job[n]
             k == job'[n]
             c == raftLog[j.next]
             saved == [log |-> c.log, status |-> c.status, lri |-> j.next]
             x == ApplyCommand(Base(n), c, j.next)
  <1>1. TypeInv /\ TypeOK /\ HistoryInv(n) /\ StoreInv(n)
    BY DEF NodeInv, TypeInv
  <1>2. /\ j.pc = "item" /\ j.next <= j.last /\ c.type = "save" /\ ~Replayed(n)
        /\ k.pc = "item" /\ k.next = j.next + 1 /\ k.last = j.last
        /\ UNCHANGED onlyJob
    BY <1>1, SaveItemEffect DEF AtItem
  <1>3. /\ ~j.deleted /\ Base(n) \in Slot /\ c \in Command
        /\ Sound(n, Base(n), j.next - 1)
        /\ OrFresh(Base(n)).log = j.game.log
    BY <1>2, BaseSound
  <1>4. x \in Slot /\ Recovers(raftLog, x, j.next, handed[n])
    BY <1>2, NextRecovers
  <1>5. j.next \in Nat /\ j.last \in Nat /\ j.game.lri \in Nat
    BY <1>1, StoreTyping
  <1>6. /\ x = IF c.force \/ Continues(c.log, j.game.log) THEN saved ELSE Base(n)
        /\ saved \in Game /\ saved # NoGame /\ saved.lri = j.next
    BY <1>2, <1>3, <1>5, SaveCase
  <1>7. DeletesAlone(k)
    <2>1. DeletesAlone(j)
      BY <1>1, <1>2 DEF HistoryInv, SoundJob
    <2>2. QED
      BY <1>2, <1>5, <2>1 DEF DeletesAlone
  <1>8. k.next - 1 = j.next
    BY <1>2, <1>5
  <1>9. ASSUME Refused(n) PROVE SoundJob(n, k)
    <2>1. k.game = j.game /\ k.dirty = j.dirty /\ ~k.deleted
      BY <1>1, <1>3, <1>9, SaveItemEffect
    <2>2. x = Base(n)
      BY <1>3, <1>6, <1>9 DEF Refused
    <2>3. Sound(n, Base(n), j.next)
      BY <1>3, <1>4, <2>2 DEF Sound
    <2>4. ~k.dirty => CleanJob(n, k)
      <3>1. ~j.dirty => CleanJob(n, j)
        BY <1>1, <1>2 DEF HistoryInv, SoundJob
      <3>2. QED
        BY <1>2, <1>5, <1>8, <2>1, <2>3, <3>1 DEF CleanJob, Base, Sound
    <2>5. k.dirty => Sound(n, k.game, k.next - 1)
      BY <1>8, <2>1, <2>3 DEF Base
    <2> HIDE DEF j, k
    <2>6. QED
      BY <1>2, <1>7, <2>1, <2>4, <2>5 DEF SoundJob
  <1>10. ASSUME ~Refused(n) PROVE SoundJob(n, k)
    <2>1. k.game = saved /\ k.dirty /\ ~k.deleted
      BY <1>1, <1>10, SaveItemEffect
    <2>2. x = saved
      BY <1>3, <1>6, <1>10 DEF Refused
    <2> HIDE DEF saved, x
    <2>3. k.game \in Slot /\ Lri(k.game) = j.next
      BY <1>6, <2>1 DEF Slot, Lri, OrFresh
    <2>4. Sound(n, k.game, k.next - 1)
      BY <1>2, <1>4, <1>8, <2>1, <2>2, <2>3, SoundAt
    <2> HIDE DEF j, k
    <2>5. QED
      BY <1>2, <1>7, <2>1, <2>4 DEF SoundJob
  <1>11. SoundJob(n, k)
    BY <1>9, <1>10
  <1> HIDE DEF x, saved, c
  <1>12. QED
    BY <1>1, <1>2, <1>11, JobHistoryInv

LEMMA BeginActionsHistoryInv ==
    ASSUME NEW n \in Node, NodeInv(n), BeginActions(n)
    PROVE  HistoryInv(n)'
  <1> DEFINE j == job[n]
             k == job'[n]
             c == raftLog[j.next]
             x == ApplyCommand(Base(n), c, j.next)
             u == AfterActions(j.game, c.acts)[Len(c.acts)]
             v == AfterActions(OrFresh(Base(n)), c.acts)[Len(c.acts)]
  <1>1. TypeInv /\ TypeOK /\ HistoryInv(n) /\ StoreInv(n)
    BY DEF NodeInv, TypeInv
  <1>2. /\ j.pc = "item" /\ j.next <= j.last /\ c.type = "action" /\ ~Replayed(n)
        /\ k.pc = "acts" /\ k.game = j.game /\ k.next = j.next /\ k.last = j.last
        /\ k.acts = c.acts /\ k.dirty = j.dirty /\ k.deleted = j.deleted
        /\ UNCHANGED onlyJob
    BY <1>1, BeginActionsEffect DEF AtItem
  <1>3. /\ ~j.deleted /\ Base(n) \in Slot /\ c \in Command
        /\ OrFresh(Base(n)) \in Game
        /\ OrFresh(Base(n)).log = j.game.log /\ OrFresh(Base(n)).status = j.game.status
    BY <1>2, BaseSound
  <1>4. j.game \in Game /\ j.next \in Nat
    BY <1>1, StoreTyping
  <1>5. c.acts \in Seq(Action)
    BY <1>2, <1>3, CommandTyping
  <1>6. x \in Slot /\ Recovers(raftLog, x, j.next, handed[n])
    BY <1>2, NextRecovers
  <1>7. v \in Game /\ x = [v EXCEPT !.lri = j.next]
    BY <1>2, <1>3, <1>4, ActionCase
  <1>8. u.log = v.log /\ u.status = v.status
    BY <1>3, <1>4, <1>5, AfterActionsContent
  <1>9. u \in Game
    BY <1>4, <1>5, AfterActionsTyping
  <1>10. Outcome(k) = [u EXCEPT !.lri = j.next]
    BY <1>2 DEF Outcome
  <1> HIDE DEF u, v, x, c
  <1>11. [u EXCEPT !.lri = j.next] = [v EXCEPT !.lri = j.next]
    BY <1>7, <1>8, <1>9 DEF Game
  <1>12. Recovers(raftLog, Outcome(k), k.next, handed[n])
    BY <1>2, <1>6, <1>7, <1>10, <1>11
  <1>13. DeletesAlone(k) /\ (~k.dirty => CleanJob(n, k))
    BY <1>1, <1>2 DEF HistoryInv, SoundJob, DeletesAlone, CleanJob
  <1>14. raftLog[k.next].type = "action"
    BY <1>2 DEF c
  <1> HIDE DEF j, k
  <1>15. SoundJob(n, k)
    BY <1>2, <1>3, <1>12, <1>13, <1>14 DEF SoundJob
  <1>16. QED
    BY <1>1, <1>2, <1>15, JobHistoryInv DEF j, k

LEMMA ApplyOneActionHistoryInv ==
    ASSUME NEW n \in Node, NodeInv(n), ApplyOneAction(n)
    PROVE  HistoryInv(n)'
  <1> DEFINE j == job[n]
             k == job'[n]
             a == Head(j.acts)
             g == ApplyAction(j.game, a)
             indexed == [g EXCEPT !.lri = j.next]
             final == Len(j.acts) = 1
  <1>1. TypeInv /\ TypeOK /\ HistoryInv(n) /\ StoreInv(n)
    BY DEF NodeInv, TypeInv
  <1>2. /\ j.pc = "acts"
        /\ k.pc = (IF final THEN "item" ELSE "acts")
        /\ k.game = (IF final THEN indexed ELSE g)
        /\ k.next = (IF final THEN j.next + 1 ELSE j.next)
        /\ k.last = j.last /\ k.acts = Tail(j.acts)
        /\ k.dirty = (j.dirty \/ g # j.game) /\ k.deleted = j.deleted
        /\ UNCHANGED onlyJob
    BY <1>1, ApplyOneActionEffect
  <1>3. /\ j.game \in Game /\ j.next \in Nat /\ j.last \in Nat /\ j.game.lri \in Nat
        /\ j.next <= j.last /\ j.acts \in Seq(Action) /\ j.acts # <<>>
        /\ LoadGame(n) \in Slot /\ Lri(LoadGame(n)) \in Nat /\ handed[n] \in Nat
    BY <1>1, <1>2, StoreTyping DEF Control, Job
  <1>4. a \in Action /\ Len(j.acts) \in Nat /\ Len(j.acts) >= 1 /\ a = j.acts[1]
    BY <1>3
  <1>5. g \in Game /\ g.lri = j.game.lri
    BY <1>3, <1>4, ApplyActionTyping
  <1>6. /\ ~j.deleted /\ raftLog[j.next].type = "action"
        /\ Recovers(raftLog, Outcome(j), j.next, handed[n])
        /\ DeletesAlone(j)
        /\ ~j.dirty => CleanJob(n, j)
    BY <1>1, <1>2 DEF HistoryInv, SoundJob
  <1>7. j.game.lri < j.next /\ Lri(LoadGame(n)) <= j.game.lri
    BY <1>1, <1>2 DEF StoreInv
  <1>8. DeletesAlone(k)
    <2>1. \A i \in j.next..j.last : raftLog[i].type # "delete"
      <3> SUFFICES ASSUME NEW i \in j.next..j.last, raftLog[i].type = "delete"
                   PROVE  FALSE
        OBVIOUS
      <3>1. j.next = j.last
        BY <1>6 DEF DeletesAlone
      <3>2. i = j.next
        BY <1>3, <3>1
      <3>3. QED
        BY <1>6, <3>2
    <2>2. j.next <= k.next /\ k.next \in Nat
      BY <1>2, <1>3
    <2>3. QED
      BY <1>2, <1>3, <2>1, <2>2 DEF DeletesAlone
  <1>9. ASSUME ~k.dirty
        PROVE  /\ g = j.game /\ ~j.dirty /\ CleanJob(n, j) /\ LoadGame(n) # NoGame
    <2>1. g = j.game /\ ~j.dirty /\ CleanJob(n, j)
      BY <1>2, <1>6, <1>9
    <2>2. ASSUME LoadGame(n) = NoGame PROVE FALSE
      <3>1. j.game.log = <<>>
        BY <1>3, <2>1, <2>2, ActionLogAssumption
           DEF CleanJob, Content, OrFresh, Fresh
      <3>2. a \notin Recent(j.game.log)
        BY <3>1 DEF Recent
      <3>3. g.log = Append(<<>>, a)
        BY <1>3, <1>4, <3>1, <3>2, ApplyActionTyping
      <3>4. Append(<<>>, a) # <<>>
        BY <1>4
      <3>5. QED
        BY <2>1, <3>1, <3>3, <3>4
    <2>3. QED
      BY <2>1, <2>2
  <1>10. Content(j.game) = [log |-> j.game.log, status |-> j.game.status]
    BY <1>1, StoreTyping DEF Content, OrFresh
  <1>11. ASSUME final PROVE SoundJob(n, k)
    <2>1. indexed \in Game /\ indexed.lri = j.next /\ indexed.log = g.log
          /\ indexed.status = g.status
      <3> HIDE DEF g
      <3>1. QED
        BY <1>3, <1>5 DEF Game
    <2>2. indexed \in Slot /\ indexed # NoGame /\ Lri(indexed) = j.next
          /\ Content(indexed) = [log |-> g.log, status |-> g.status]
      <3> HIDE DEF indexed
      <3>1. indexed # NoGame
        BY <2>1, ActionLogAssumption
      <3>2. QED
        BY <2>1, <3>1 DEF Slot, Lri, OrFresh, Content
    <2>3. Outcome(j) = indexed
      <3>1. 1 \in 1..Len(j.acts)
        BY <1>4
      <3>2. /\ AfterActions(j.game, j.acts)[0] = j.game
            /\ AfterActions(j.game, j.acts)[1]
                 = ApplyAction(AfterActions(j.game, j.acts)[1 - 1], j.acts[1])
        BY <1>4, <3>1, AfterActionsDef
      <3>3. AfterActions(j.game, j.acts)[Len(j.acts)] = g
        BY <1>4, <1>11, <3>2
      <3>4. QED
        BY <3>3 DEF Outcome
    <2> HIDE DEF indexed
    <2>4. Sound(n, indexed, j.next)
      <3>1. NodeInv(n) /\ job[n].pc \in {"item", "acts"}
        BY <1>2
      <3>2. QED
        BY <1>6, <2>2, <2>3, <3>1, SoundAt
    <2>5. k.pc = "item" /\ k.game = indexed /\ k.next = j.next + 1 /\ k.next - 1 = j.next
      BY <1>2, <1>3, <1>11
    <2>6. ~k.dirty => CleanJob(n, k)
      <3> SUFFICES ASSUME ~k.dirty PROVE CleanJob(n, k)
        OBVIOUS
      <3>1. /\ g = j.game /\ CleanJob(n, j) /\ LoadGame(n) # NoGame
        BY <1>9
      <3>2. Content(LoadGame(n)) = Content(indexed)
        BY <1>10, <2>2, <3>1 DEF CleanJob
      <3>3. SameDoc(LoadGame(n), indexed)
        BY <2>2, <3>1, <3>2 DEF SameDoc
      <3>4. Lri(LoadGame(n)) <= j.next
        BY <1>3, <1>7
      <3>5. Recovers(raftLog, LoadGame(n), j.next, handed[n])
        BY <1>3, <2>2, <2>4, <3>3, <3>4, RecoversLower DEF Sound
      <3>6. indexed.lri < k.next
        BY <1>3, <2>1, <2>5
      <3>7. QED
        BY <1>2, <2>5, <3>2, <3>1, <3>5, <3>6 DEF CleanJob
    <2> HIDE DEF j, k
    <2>7. QED
      BY <1>2, <1>6, <1>8, <2>4, <2>5, <2>6 DEF SoundJob
  <1>12. ASSUME ~final PROVE SoundJob(n, k)
    <2>1. k.pc = "acts" /\ k.game = g /\ k.next = j.next
      BY <1>2, <1>12
    <2>2. Outcome(k) = Outcome(j)
      BY <1>2, <1>3, <2>1, AfterActionsHead DEF Outcome
    <2>3. ~k.dirty => CleanJob(n, k)
      BY <1>2, <1>9, <2>1 DEF CleanJob
    <2> HIDE DEF j, k
    <2>4. QED
      BY <1>2, <1>6, <1>8, <2>1, <2>2, <2>3 DEF SoundJob
  <1>13. SoundJob(n, k) /\ k.pc # "mark" /\ j.pc # "mark"
    BY <1>2, <1>11, <1>12
  <1> HIDE DEF g, indexed, final
  <1>14. QED
    BY <1>1, <1>2, <1>13, JobHistoryInv

LEMMA DeleteItemHistoryInv ==
    ASSUME NEW n \in Node, NodeInv(n), DeleteItem(n)
    PROVE  HistoryInv(n)'
  <1> DEFINE j == job[n]
             k == job'[n]
             c == raftLog[j.next]
             p == j.next - 1
             x == ApplyCommand(Base(n), c, j.next)
  <1>1. TypeInv /\ TypeOK /\ HistoryInv(n) /\ StoreInv(n)
    BY DEF NodeInv, TypeInv
  <1>2. /\ j.pc = "item" /\ j.next <= j.last /\ c.type = "delete" /\ ~Replayed(n)
        /\ k.pc = "item" /\ k.next = j.next + 1 /\ k.last = j.last
        /\ k.dirty /\ k.deleted
        /\ UNCHANGED onlyJob
    BY <1>1, DeleteItemEffect DEF AtItem
  <1>3. /\ Base(n) \in Slot /\ c \in Command /\ Sound(n, Base(n), p)
        /\ p \in Nat /\ p + 1 = j.next /\ snap[n] <= p /\ p + 1 <= handed[n]
        /\ Lri(Base(n)) < j.next
    BY <1>2, BaseSound
  <1>4. j.next \in Nat /\ j.last \in Nat /\ snap[n] \in Nat /\ handed[n] \in Nat
    BY <1>1, StoreTyping
  <1>5. x \in Slot /\ Recovers(raftLog, x, j.next, handed[n])
    BY <1>2, NextRecovers
  <1>6. x = IF Base(n) = NoGame THEN NoGame ELSE Tombstone
    BY <1>2, <1>3, <1>4, DeleteCase
  <1> HIDE DEF x
  <1>7. j.next = j.last /\ Base(n) = LoadGame(n)
    <2>1. DeletesAlone(j)
      BY <1>1, <1>2 DEF HistoryInv, SoundJob
    <2>2. j.next \in j.next..j.last
      BY <1>2, <1>4
    <2>3. j.next = j.last /\ ~j.dirty
      BY <1>2, <2>1, <2>2 DEF DeletesAlone
    <2>4. QED
      BY <2>3 DEF Base
  <1>8. x = Remains(n)
    BY <1>6, <1>7 DEF Remains
  <1>9. Recovers(raftLog, x, snap[n], handed[n])
    <2>1. CASE Base(n) = NoGame
      BY <1>3, <1>6, <2>1 DEF Sound
    <2>2. CASE Base(n) # NoGame
      <3>1. raftLog[p + 1].type = "delete"
        BY <1>2, <1>3
      <3>2. Lri(Base(n)) <= p /\ Recovers(raftLog, Base(n), p, handed[n])
        BY <1>3, <1>4, OrFreshTyping DEF Sound
      <3> HIDE DEF p
      <3>3. QED
        BY <1>3, <1>4, <1>6, <2>2, <3>1, <3>2, RecoversDeleted
    <2>3. QED
      BY <2>1, <2>2
  <1>10. Sound(n, Remains(n), k.last)
    BY <1>2, <1>5, <1>7, <1>8, <1>9 DEF Sound
  <1>11. k.next > k.last
    BY <1>2, <1>4, <1>7
  <1>12. DeletesAlone(k)
    BY <1>2, <1>4, <1>7 DEF DeletesAlone
  <1> HIDE DEF j, k
  <1>13. SoundJob(n, k)
    BY <1>2, <1>10, <1>11, <1>12 DEF SoundJob
  <1>14. QED
    BY <1>1, <1>2, <1>13, JobHistoryInv DEF j, k

LEMMA LoadOnceHistoryInv ==
    ASSUME DeleteAlone = TRUE, NEW n \in Node, NodeInv(n), LoadOnce(n)
    PROVE  HistoryInv(n)'
  <1> DEFINE k == job'[n]
             g == LoadGame(n)
  <1>1. TypeInv /\ TypeOK /\ HistoryInv(n) /\ StoreInv(n)
    BY DEF NodeInv, TypeInv
  <1>2. PICK hi \in Nat :
          /\ hi > applied[n]
          /\ Deliverable(applied[n] + 1, hi)
          /\ handed'[n] = MaxOf(handed[n], hi)
          /\ k.last = hi
    BY <1>1, LoadOnceEffect
  <1>3. /\ job[n].pc = "idle"
        /\ k.pc = "item" /\ k.game = OrFresh(g)
        /\ k.next = applied[n] + 1 /\ ~k.dirty /\ ~k.deleted
        /\ cache'[n] = g /\ LoadGame(n)' = g
        /\ UNCHANGED <<raftLog, dirty, disk, applied, snap, flusher, reader>>
    BY <1>1, LoadOnceEffect
  <1>4. /\ g \in Slot /\ applied[n] \in Nat /\ snap[n] \in Nat /\ handed[n] \in Nat
    BY <1>1, StoreTyping
  <1>5. handed'[n] \in Nat /\ handed[n] <= handed'[n]
    BY <1>2, <1>4 DEF MaxOf
  <1>6. /\ Recovers(raftLog, disk[n], snap[n], handed[n])
        /\ Recovers(raftLog, g, applied[n], handed[n])
        /\ Recovers(raftLog, g, snap[n], handed[n])
    BY <1>1, <1>3 DEF HistoryInv, Sound
  <1> HIDE DEF g
  <1>7. /\ Recovers(raftLog, disk[n], snap[n], handed'[n])
        /\ Recovers(raftLog, g, applied[n], handed'[n])
        /\ Recovers(raftLog, g, snap[n], handed'[n])
    BY <1>4, <1>5, <1>6, RecoversWiden
  <1>8. k.next - 1 = applied[n]
    BY <1>3, <1>4
  <1>9. Content(g) = Content(k.game) /\ k.game.lri = Lri(g)
    <2>1. OrFresh(OrFresh(g)) = OrFresh(g)
      BY <1>4, OrFreshTyping, NoGameTyping DEF OrFresh
    <2>2. QED
      BY <1>3, <2>1 DEF Content, Lri
  <1>10. DeletesAlone(job[n])'
    <2>1. \A i \in k.next..k.last : raftLog[i].type = "delete" => k.next = k.last
      <3>1. applied[n] + 1 < hi =>
              \A i \in applied[n] + 1..hi : raftLog[i].type # "delete"
        BY <1>2 DEF Deliverable
      <3>2. applied[n] + 1 <= hi
        BY <1>2, <1>4
      <3>3. QED
        BY <1>2, <1>3, <1>4, <3>1, <3>2
    <2>2. QED
      BY <1>3, <2>1 DEF DeletesAlone
  <1> HIDE DEF k
  <1>11. (Recovers(raftLog, disk[n], snap[n], handed[n]))'
    BY <1>3, <1>7
  <1>12. Sound(n, LoadGame(n), applied[n])'
    BY <1>3, <1>7 DEF Sound
  <1>13. CleanJob(n, job[n])'
    BY <1>3, <1>7, <1>8, <1>9 DEF CleanJob, k
  <1>14. SoundJob(n, job[n])'
    BY <1>3, <1>10, <1>13 DEF SoundJob, k
  <1>15. QED
    BY <1>3, <1>11, <1>12, <1>14 DEF HistoryInv

LEMMA EndHistoryInv ==
    ASSUME NEW n \in Node, NodeInv(n),
           NothingToSave(n) \/ SaveDeleted(n) \/ SaveToDisk(n) \/ MarkDirty(n)
    PROVE  HistoryInv(n)'
  <1> DEFINE j == job[n]
             h == handed[n]
             s == snap[n]
  <1>1. TypeInv /\ TypeOK /\ HistoryInv(n) /\ StoreInv(n) /\ Control(n)
    BY DEF NodeInv, TypeInv
  <1>2. EndBatch(n) /\ UNCHANGED <<raftLog, snap>>
    BY DEF NothingToSave, SaveDeleted, SaveToDisk, MarkDirty
  <1>3. job'[n].pc = "idle" /\ applied'[n] = j.last /\ handed' = handed
    BY <1>1, <1>2, EndBatchEffect
  <1>4. /\ j.next \in Nat /\ j.last \in Nat /\ j.dirty \in BOOLEAN
        /\ j.game \in Slot /\ j.game # NoGame
    BY <1>1, StoreTyping
  <1>5. j.pc \in {"item", "mark"} /\ (j.pc = "item" => j.next - 1 = j.last)
    <2>1. j.pc = "mark" \/ (j.pc = "item" /\ j.next > j.last)
      BY DEF NothingToSave, SaveDeleted, SaveToDisk, MarkDirty, ItemsDone
    <2>2. j.pc = "item" => j.next <= j.last + 1
      BY <1>1 DEF Control
    <2>3. QED
      BY <1>4, <2>1, <2>2
  <1>6. /\ Recovers(raftLog, disk'[n], s, h)
        /\ Sound(n, LoadGame(n)', j.last)
    <2>1. CASE NothingToSave(n)
      <3>1. j.pc = "item" /\ ~j.dirty /\ UNCHANGED <<cache, disk>>
        BY <2>1 DEF NothingToSave, ItemsDone
      <3>2. LoadGame(n)' = LoadGame(n)
        BY <3>1 DEF LoadGame
      <3>3. CleanJob(n, j) /\ Sound(n, LoadGame(n), applied[n])
            /\ Recovers(raftLog, disk[n], s, h)
        BY <1>1, <3>1 DEF HistoryInv, SoundJob
      <3>4. QED
        BY <1>5, <3>1, <3>2, <3>3 DEF CleanJob, Sound
    <2>2. CASE SaveDeleted(n)
      <3>1. j.pc = "item" /\ j.deleted /\ DeleteGame(n)
        BY <2>2 DEF SaveDeleted, ItemsDone
      <3>2. Sound(n, Remains(n), j.last) /\ Recovers(raftLog, disk[n], s, h)
        BY <1>1, <3>1 DEF HistoryInv, SoundJob
      <3>3. CASE LoadGame(n) = NoGame
        <4>1. UNCHANGED <<disk, cache>>
          BY <3>1, <3>3 DEF DeleteGame
        <4>2. LoadGame(n)' = LoadGame(n)
          BY <4>1 DEF LoadGame
        <4>3. QED
          BY <3>2, <3>3, <4>1, <4>2 DEF Remains
      <3>4. CASE LoadGame(n) # NoGame
        <4>1. disk'[n] = Tombstone /\ cache'[n] = Tombstone
          BY <1>1, <3>1, <3>4 DEF DeleteGame, TypeOK
        <4>2. LoadGame(n)' = Tombstone
          BY <4>1, NoGameTyping DEF LoadGame
        <4>3. QED
          BY <3>2, <3>4, <4>1, <4>2 DEF Remains, Sound
      <3>5. QED
        BY <3>3, <3>4
    <2>3. CASE SaveToDisk(n)
      <3>1. /\ j.pc = "item" /\ j.dirty /\ ~j.deleted
            /\ disk'[n] = j.game /\ cache'[n] = j.game
        BY <1>1, <2>3 DEF SaveToDisk, ItemsDone, SaveGame, TypeOK
      <3>2. LoadGame(n)' = j.game
        BY <1>4, <3>1 DEF LoadGame
      <3>3. Sound(n, j.game, j.last)
        BY <1>1, <1>5, <3>1 DEF HistoryInv, SoundJob
      <3>4. QED
        BY <3>1, <3>2, <3>3 DEF Sound
    <2>4. CASE MarkDirty(n)
      <3>1. j.pc = "mark" /\ UNCHANGED <<cache, disk>>
        BY <2>4 DEF MarkDirty
      <3>2. cache[n] = j.game
        BY <1>1, <3>1 DEF StoreInv
      <3>3. LoadGame(n)' = j.game
        BY <1>4, <3>1, <3>2 DEF LoadGame
      <3>4. Sound(n, j.game, j.last) /\ Recovers(raftLog, disk[n], s, h)
        BY <1>1, <3>1 DEF HistoryInv, SoundJob
      <3>5. QED
        BY <3>1, <3>3, <3>4
    <2>5. QED
      BY <2>1, <2>2, <2>3, <2>4
  <1>7. (Recovers(raftLog, disk[n], snap[n], handed[n]))'
    BY <1>2, <1>3, <1>6
  <1>8. Sound(n, LoadGame(n), applied[n])'
    BY <1>2, <1>3, <1>6 DEF Sound
  <1>9. QED
    BY <1>3, <1>7, <1>8 DEF HistoryInv, SoundJob

LEMMA SaveInMemoryHistoryInv ==
    ASSUME NEW n \in Node, NodeInv(n), SaveInMemory(n)
    PROVE  HistoryInv(n)'
  <1>1. TypeInv /\ TypeOK /\ HistoryInv(n) /\ Control(n) /\ job[n] \in Job
        /\ job[n].next \in Nat /\ job[n].last \in Nat
    BY StoreTyping DEF NodeInv, TypeInv
  <1>2. /\ job[n].pc = "item" /\ job[n].next > job[n].last
        /\ job[n].dirty /\ ~job[n].deleted
        /\ job'[n].pc = "mark" /\ job'[n].game = job[n].game
        /\ job'[n].last = job[n].last
        /\ UNCHANGED <<raftLog, disk, snap, handed>>
    BY <1>1 DEF SaveInMemory, ItemsDone, TypeOK, Job
  <1>3. job[n].next - 1 = job[n].last
    BY <1>1, <1>2 DEF Control
  <1>4. Sound(n, job[n].game, job[n].last) /\ Recovers(raftLog, disk[n], snap[n], handed[n])
    BY <1>1, <1>2, <1>3 DEF HistoryInv, SoundJob
  <1>5. (Recovers(raftLog, disk[n], snap[n], handed[n]))'
    BY <1>2, <1>4
  <1>6. Sound(n, job[n].game, job[n].last)'
    BY <1>2, <1>4 DEF Sound
  <1>7. QED
    BY <1>2, <1>5, <1>6 DEF HistoryInv, SoundJob

LEMMA SnapshotHistoryInv ==
    ASSUME NEW n \in Node, NodeInv(n), BeginSnapshot(n) \/ SnapshotStep(n)
    PROVE  HistoryInv(n)'
  <1>1. TypeInv /\ TypeOK /\ HistoryInv(n) /\ StoreInv(n) /\ Control(n)
    BY DEF NodeInv, TypeInv
  <1>2. job[n].pc = "idle" /\ UNCHANGED <<raftLog, applied, job, handed>>
    BY <1>1 DEF BeginSnapshot, SnapshotStep, FlushCheck, FlushLoad, FlushWrite,
           FlushCache, BeginPersist, EndSnapshot, onlyFlusher, StoreInv
  <1>3. /\ Recovers(raftLog, disk[n], snap[n], handed[n])
        /\ Sound(n, LoadGame(n), applied[n])
    BY <1>1, <1>2 DEF HistoryInv
  <1>4. ASSUME Recovers(raftLog, disk'[n], snap'[n], handed[n]),
               LoadGame(n)' = LoadGame(n), snap'[n] \in {snap[n], applied[n]}
        PROVE  HistoryInv(n)'
    <2>1. Sound(n, LoadGame(n), applied[n])'
      BY <1>2, <1>3, <1>4 DEF Sound
    <2>2. (Recovers(raftLog, disk[n], snap[n], handed[n]))'
      BY <1>2, <1>4
    <2>3. QED
      BY <1>2, <2>1, <2>2 DEF HistoryInv, SoundJob
  <1>5. CASE FlushWrite(n)
    <2>1. flusher[n].pc = "write" /\ disk'[n] = flusher[n].val /\ UNCHANGED <<cache, snap>>
      BY <1>1, <1>5 DEF FlushWrite, TypeOK
    <2>2. dirty[n] /\ flusher[n].val = cache[n] /\ cache[n] # NoGame
      BY <1>1, <2>1 DEF StoreInv, Control
    <2>3. LoadGame(n) = cache[n] /\ LoadGame(n)' = cache[n]
      BY <2>1, <2>2 DEF LoadGame
    <2>4. Recovers(raftLog, disk'[n], snap'[n], handed[n])
      BY <1>3, <2>1, <2>2, <2>3 DEF Sound
    <2>5. QED
      BY <1>4, <2>1, <2>3, <2>4
  <1>6. CASE FlushCache(n)
    <2>1. flusher[n].pc = "cache" /\ cache'[n] = flusher[n].val /\ UNCHANGED <<disk, snap>>
      BY <1>1, <1>6 DEF FlushCache, TypeOK
    <2>2. flusher[n].val = cache[n]
      BY <1>1, <2>1 DEF StoreInv
    <2>3. LoadGame(n)' = LoadGame(n)
      BY <2>1, <2>2 DEF LoadGame
    <2>4. QED
      BY <1>3, <1>4, <2>1, <2>3
  <1>7. CASE EndSnapshot(n)
    <2>1. /\ flusher[n].phase # "none" /\ flusher[n].pc = "done"
          /\ snap'[n] = flusher[n].idx /\ UNCHANGED <<cache, dirty, disk>>
      BY <1>1, <1>7 DEF EndSnapshot, TypeOK
    <2>2. flusher[n].idx = applied[n] /\ ~dirty[n]
          /\ (cache[n] # NoGame => disk[n] = cache[n])
      BY <1>1, <1>2, <2>1 DEF StoreInv
    <2>3. LoadGame(n) = disk[n] /\ LoadGame(n)' = LoadGame(n)
      BY <2>1, <2>2 DEF LoadGame
    <2>4. Recovers(raftLog, disk'[n], snap'[n], handed[n])
      BY <1>3, <2>1, <2>2, <2>3 DEF Sound
    <2>5. QED
      BY <1>4, <2>1, <2>2, <2>3, <2>4
  <1>8. CASE UNCHANGED <<cache, disk, snap>>
    <2>1. LoadGame(n)' = LoadGame(n)
      BY <1>8 DEF LoadGame
    <2>2. QED
      BY <1>3, <1>4, <1>8, <2>1
  <1>9. QED
    BY <1>5, <1>6, <1>7, <1>8 DEF SnapshotStep, BeginSnapshot, FlushCheck, FlushLoad,
                                  BeginPersist, onlyFlusher

LEMMA CrashHistoryInv ==
    ASSUME NEW n \in Node, NodeInv(n), Crash(n)
    PROVE  HistoryInv(n)'
  <1>1. TypeOK /\ Recovers(raftLog, disk[n], snap[n], handed[n])
    BY DEF NodeInv, TypeInv, HistoryInv
  <1>2. /\ cache'[n] = NoGame /\ applied'[n] = snap[n] /\ job'[n].pc = "idle"
        /\ UNCHANGED <<raftLog, disk, snap, handed>>
    BY <1>1, IdleFields DEF Crash, TypeOK
  <1>3. LoadGame(n)' = disk[n]
    BY <1>2 DEF LoadGame
  <1>4. (Recovers(raftLog, disk[n], snap[n], handed[n]))'
    BY <1>1, <1>2
  <1>5. Sound(n, LoadGame(n), applied[n])'
    BY <1>1, <1>2, <1>3 DEF Sound
  <1>6. QED
    BY <1>2, <1>4, <1>5 DEF HistoryInv, SoundJob

LEMMA InitHistoryInv ==
    ASSUME Init, NEW n \in Node
    PROVE  HistoryInv(n)
  <1>1. /\ job[n].pc = "idle" /\ cache[n] = NoGame /\ disk[n] = NoGame
        /\ snap[n] = 0 /\ applied[n] = 0 /\ handed[n] = 0 /\ raftLog = <<>>
    BY IdleFields DEF Init
  <1>2. LoadGame(n) = NoGame
    BY <1>1 DEF LoadGame
  <1>3. Recovers(raftLog, NoGame, 0, 0)
    <2>1. raftLog \in Seq(Command)
      BY InitTypeInv DEF TypeInv, TypeOK
    <2>2. QED
      BY <2>1, RecoversStart
  <1>4. QED
    BY <1>1, <1>2, <1>3 DEF HistoryInv, SoundJob, Sound

\* A node that a step of another one leaves alone.
LEMMA ElsewhereHistoryInv ==
    ASSUME NEW m \in Node, HistoryInv(m), raftLog' = raftLog,
           cache'[m] = cache[m], disk'[m] = disk[m], applied'[m] = applied[m],
           snap'[m] = snap[m], job'[m] = job[m], handed'[m] = handed[m]
    PROVE  HistoryInv(m)'
  <1>1. LoadGame(m)' = LoadGame(m)
    BY DEF LoadGame
  <1>2. Remains(m)' = Remains(m)
    BY <1>1 DEF Remains
  <1>3. Outcome(job[m])' = Outcome(job[m])
    BY DEF Outcome
  <1>4. Sound(m, LoadGame(m), applied[m]) => Sound(m, LoadGame(m), applied[m])'
    BY <1>1 DEF Sound
  <1>5. CleanJob(m, job[m]) => CleanJob(m, job[m])'
    BY <1>1 DEF CleanJob, Content, Lri
  <1>6. SoundJob(m, job[m])'
    BY <1>2, <1>3, <1>5 DEF HistoryInv, SoundJob, Sound, DeletesAlone
  <1>7. QED
    BY <1>4, <1>6 DEF HistoryInv

\* A command committed changes nothing about what was handed out before.
LEMMA CommitHistoryInv ==
    ASSUME NEW c \in Command, Commit(c), NEW n \in Node, NodeInv(n)
    PROVE  HistoryInv(n)'
  <1> DEFINE j == job[n]
             h == handed[n]
  <1>1. TypeInv /\ HistoryInv(n) /\ Control(n) /\ j \in Job /\ raftLog \in Seq(Command)
        /\ snap[n] \in Nat /\ applied[n] \in Nat /\ h \in Nat
        /\ j.next \in Nat /\ j.last \in Nat /\ j.pc \in {"idle", "item", "acts", "mark"}
    BY StoreTyping DEF NodeInv
  <1>2. raftLog' = Append(raftLog, c)
        /\ UNCHANGED <<cache, disk, applied, snap, job, handed>>
    BY DEF Commit
  <1>3. h <= Len(raftLog) /\ j.last <= h
    BY <1>1 DEF Control
  <1>4. ASSUME NEW g, NEW p \in Nat, Recovers(raftLog, g, p, h)
        PROVE  Recovers(raftLog', g, p, h)
    BY <1>1, <1>2, <1>3, <1>4, RecoversGrows
  <1>5. ASSUME NEW g, NEW p \in Nat, Sound(n, g, p)
        PROVE  /\ Recovers(raftLog', g, p, handed'[n])
               /\ Recovers(raftLog', g, snap'[n], handed'[n])
    BY <1>1, <1>2, <1>4, <1>5 DEF Sound
  <1>6. \A i \in 1..Len(raftLog) : raftLog'[i] = raftLog[i]
    BY <1>1, <1>2
  <1>7. LoadGame(n)' = LoadGame(n)
    BY <1>2 DEF LoadGame
  <1>8. Remains(n)' = Remains(n)
    BY <1>7 DEF Remains
  <1>9. Outcome(j)' = Outcome(j)
    BY <1>2 DEF Outcome
  <1>10. j.pc \in {"item", "acts"} => j.next >= 1 /\ j.next - 1 \in Nat
    BY <1>1 DEF Control
  <1>11. j.pc \in {"item", "acts"} =>
            /\ DeletesAlone(j)'
            /\ ~j.dirty => CleanJob(n, j)'
            /\ j.deleted => j.next > j.last /\ Sound(n, Remains(n), j.last)'
    <2> SUFFICES ASSUME j.pc \in {"item", "acts"}
                 PROVE  /\ DeletesAlone(j)'
                        /\ ~j.dirty => CleanJob(n, j)'
                        /\ j.deleted => j.next > j.last /\ Sound(n, Remains(n), j.last)'
      OBVIOUS
    <2>1. DeletesAlone(j)'
      <3>1. DeletesAlone(j)
        BY <1>1 DEF HistoryInv, SoundJob
      <3>2. \A i \in j.next..j.last : raftLog'[i] = raftLog[i]
        BY <1>1, <1>3, <1>6, <1>10
      <3>3. QED
        BY <1>2, <3>1, <3>2 DEF DeletesAlone
    <2>2. ASSUME ~j.dirty PROVE CleanJob(n, j)'
      <3>1. CleanJob(n, j)
        BY <1>1, <2>2 DEF HistoryInv, SoundJob
      <3>2. Recovers(raftLog', LoadGame(n), j.next - 1, h)
        BY <1>4, <1>10, <3>1 DEF CleanJob
      <3>3. QED
        BY <1>2, <1>7, <3>1, <3>2 DEF CleanJob, Content, Lri
    <2>3. ASSUME j.deleted PROVE j.next > j.last /\ Sound(n, Remains(n), j.last)'
      <3>1. j.next > j.last /\ Sound(n, Remains(n), j.last)
        BY <1>1, <2>3 DEF HistoryInv, SoundJob
      <3>2. QED
        BY <1>1, <1>2, <1>5, <1>8, <3>1 DEF Sound
    <2>4. QED
      BY <2>1, <2>2, <2>3
  <1>12. j.pc = "mark" => Sound(n, j.game, j.last)'
    BY <1>1, <1>2, <1>5 DEF HistoryInv, SoundJob, Sound
  <1>13. j.pc = "item" /\ j.dirty /\ ~j.deleted => Sound(n, j.game, j.next - 1)'
    <2>1. j.pc = "item" /\ j.dirty /\ ~j.deleted => Sound(n, j.game, j.next - 1)
      BY <1>1 DEF HistoryInv, SoundJob
    <2>2. QED
      BY <1>2, <1>5, <1>10, <2>1 DEF Sound
  <1>14. j.pc = "acts" =>
            /\ ~j.deleted
            /\ raftLog'[j.next].type = "action"
            /\ (Recovers(raftLog, Outcome(j), j.next, h))'
    <2> SUFFICES ASSUME j.pc = "acts"
                 PROVE  /\ ~j.deleted
                        /\ raftLog'[j.next].type = "action"
                        /\ (Recovers(raftLog, Outcome(j), j.next, h))'
      OBVIOUS
    <2>1. /\ ~j.deleted /\ raftLog[j.next].type = "action"
          /\ Recovers(raftLog, Outcome(j), j.next, h)
      BY <1>1 DEF HistoryInv, SoundJob
    <2>2. j.next \in 1..Len(raftLog)
      BY <1>1, <1>3, <1>10 DEF Control
    <2>3. Recovers(raftLog', Outcome(j), j.next, h)
      BY <1>1, <1>4, <2>1
    <2>4. QED
      BY <1>2, <1>6, <1>9, <2>1, <2>2, <2>3
  <1>15. SoundJob(n, job[n])'
    <2>1. job'[n] = j /\ handed'[n] = h
      BY <1>2
    <2>2. QED
      BY <1>2, <1>11, <1>12, <1>13, <1>14, <2>1 DEF SoundJob
  <1>16. (Recovers(raftLog, disk[n], snap[n], handed[n]))'
    BY <1>1, <1>2, <1>4 DEF HistoryInv
  <1>17. job'[n].pc # "mark" => Sound(n, LoadGame(n), applied[n])'
    BY <1>1, <1>2, <1>5, <1>7 DEF HistoryInv, Sound
  <1>18. QED
    BY <1>15, <1>16, <1>17 DEF HistoryInv

-----------------------------------------------------------------------------
(* The theorems.                                                           *)

AllHistory == AllStore /\ \A n \in Node : HistoryInv(n)

LEMMA InitAllStore == Init => AllStore
  BY InitTypeInv, InitStoreInv DEF AllStore

LEMMA InitAllHistory == Init => AllHistory
  BY InitAllStore, InitHistoryInv DEF AllHistory

LEMMA NextAllHistory ==
    ASSUME Undisturbed, DeleteAlone = TRUE, AllHistory, [Next]_vars
    PROVE  AllHistory'
  <1>1. AllStore' /\ TypeInv /\ TypeOK
    BY NextAllStore DEF AllHistory, AllStore, TypeInv
  <1>2. \A n \in Node : NodeInv(n)
    BY DEF AllHistory, AllStore, NodeInv
  <1>3. ASSUME NEW n \in Node, NodeStep(n) PROVE \A m \in Node : HistoryInv(m)'
    <2>1. HistoryInv(n)'
      BY <1>2, <1>3, SkipItemHistoryInv, SaveItemHistoryInv, BeginActionsHistoryInv,
         ApplyOneActionHistoryInv, DeleteItemHistoryInv, LoadOnceHistoryInv,
         EndHistoryInv, SaveInMemoryHistoryInv, SnapshotHistoryInv, NoHubStep,
         CrashHistoryInv
         DEF NodeStep, FSMStep, NodeInv
    <2>2. ASSUME NEW m \in Node, m # n PROVE HistoryInv(m)'
      BY <1>1, <1>3, <2>2, StepsElsewhere, ElsewhereHistoryInv
         DEF AllHistory, Elsewhere
    <2>3. QED
      BY <2>1, <2>2
  <1>4. ASSUME UNCHANGED vars PROVE \A n \in Node : HistoryInv(n)'
    BY <1>1, <1>4, ElsewhereHistoryInv DEF AllHistory, vars
  <1>5. ASSUME Next PROVE \A n \in Node : HistoryInv(n)'
    BY <1>1, <1>2, <1>3, <1>5, CommitHistoryInv DEF Next, NodeStep
  <1>6. QED
    BY <1>1, <1>4, <1>5 DEF AllHistory

\* Under the conditions of the assumption nothing a node holds, in memory or
\* on disk, is ever more or less than a replay of the log can put right.
LEMMA AlwaysHistory ==
    ASSUME Undisturbed, DeleteAlone = TRUE
    PROVE  Spec => []AllHistory
  <1>1. AllHistory /\ [Next]_vars => AllHistory'
    BY NextAllHistory
  <1>2. QED
    BY <1>1, InitAllHistory, PTL DEF Spec

LEMMA AlwaysStore ==
    ASSUME Undisturbed
    PROVE  Spec => []AllStore
  <1>1. AllStore /\ [Next]_vars => AllStore'
    BY NextAllStore
  <1>2. QED
    BY <1>1, InitAllStore, PTL DEF Spec

LEMMA ServingIsTrue ==
    ASSUME AllHistory, NEW n \in Node, Serving(n)
    PROVE  SameDoc(LoadGame(n), Truth(raftLog)[applied[n]])
  <1>1. TypeInv /\ HistoryInv(n)
    BY DEF AllHistory, AllStore
  <1>2. applied[n] \in Nat /\ Recovers(raftLog, LoadGame(n), applied[n], applied[n])
    BY <1>1, StoreTyping DEF Serving, HistoryInv, Sound
  <1>3. QED
    BY <1>2, RecoversNow

\* A node that has caught up serves the game that the commands it has applied
\* make, one by one, from nothing: the write-behind cache, the deferred and
\* forced writes, snapshots and any number of crashes do not show.
THEOREM ServesTheTruth ==
    ASSUME Undisturbed, DeleteAlone = TRUE
    PROVE  Spec => []ServesTheLog
  <1>1. AllHistory => ServesTheLog
    BY ServingIsTrue DEF ServesTheLog, SameDoc
  <1>2. QED
    BY <1>1, AlwaysHistory, PTL

\* Nodes that have applied the same commands hold the same game, however Raft
\* batched the commands for each and whatever crashes and snapshots each had.
THEOREM ReplicasHoldTheSame ==
    ASSUME Undisturbed, DeleteAlone = TRUE
    PROVE  Spec => []ReplicasAgree
  <1>1. AllHistory => ReplicasAgree
    BY ServingIsTrue DEF ReplicasAgree, SameDoc
  <1>2. QED
    BY <1>1, AlwaysHistory, PTL

\* Wherever a crash strikes, in a batch, between the cache and the dirty flag,
\* or in the middle of a flush, the file and the commands after the last
\* snapshot give back everything that was committed.
THEOREM CrashesRecover ==
    ASSUME Undisturbed, DeleteAlone = TRUE
    PROVE  Spec => []CrashRecovers
  <1>1. ASSUME AllHistory, NEW n \in Node
        PROVE  SameDoc(Replay(raftLog, disk[n], snap[n])[Len(raftLog)],
                       Truth(raftLog)[Len(raftLog)])
    <2>1. TypeInv /\ Control(n) /\ Recovers(raftLog, disk[n], snap[n], handed[n])
      BY <1>1, StoreTyping DEF AllHistory, AllStore, HistoryInv
    <2>2. /\ raftLog \in Seq(Command) /\ disk[n] \in Slot
          /\ snap[n] \in Nat /\ handed[n] \in Nat
      BY <2>1, StoreTyping
    <2>3. snap[n] <= handed[n] /\ handed[n] <= Len(raftLog)
      BY <2>1 DEF Control
    <2>4. QED
      BY <2>1, <2>2, <2>3, ReplayRecovers
  <1>2. AllHistory => CrashRecovers
    BY <1>1 DEF CrashRecovers, SameDoc
  <1>3. QED
    BY <1>2, AlwaysHistory, PTL

\* A write of the file never takes it back to an earlier command.  Deletes may
\* share their batches here.
THEOREM FileNeverGoesBack ==
    ASSUME Undisturbed
    PROVE  Spec => FileNeverRollsBack
  <1> DEFINE Kept(n) ==
          disk[n] # NoGame /\ disk'[n] # Tombstone => disk'[n].lri >= disk[n].lri
  <1>1. ASSUME AllStore, NEW n \in Node, disk'[n] = disk[n] PROVE Kept(n)
    <2>1. disk[n] # NoGame => disk[n].lri \in Nat
      BY <1>1, StoreTyping DEF AllStore, Slot, Game
    <2>2. QED
      BY <1>1, <2>1
  <1>2. ASSUME AllStore, NEW n \in Node, SaveDeleted(n) \/ SaveToDisk(n) \/ FlushWrite(n)
        PROVE  Kept(n)
    <2>1. TypeInv /\ TypeOK /\ StoreInv(n) /\ Control(n)
      BY <1>2 DEF AllStore, TypeInv
    <2>2. CASE SaveDeleted(n)
      <3>1. disk'[n] \in {disk[n], Tombstone}
        BY <2>1, <2>2 DEF SaveDeleted, DeleteGame, TypeOK
      <3>2. QED
        BY <1>1, <1>2, <3>1
    <2>3. CASE SaveToDisk(n)
      <3>1. disk'[n] = job[n].game /\ job[n].pc = "item"
        BY <2>1, <2>3 DEF SaveToDisk, SaveGame, ItemsDone, TypeOK
      <3>2. Lri(disk[n]) <= Lri(LoadGame(n)) /\ Lri(LoadGame(n)) <= job[n].game.lri
        BY <2>1, <3>1 DEF StoreInv
      <3>3. Lri(disk[n]) <= job[n].game.lri
        BY <2>1, <3>2, StoreTyping
      <3>4. QED
        BY <2>1, <3>1, <3>3, StoreTyping DEF Lri, OrFresh
    <2>4. CASE FlushWrite(n)
      <3>1. flusher[n].pc = "write" /\ disk'[n] = flusher[n].val
        BY <2>1, <2>4 DEF FlushWrite, TypeOK
      <3>2. dirty[n] /\ disk'[n] = cache[n] /\ cache[n] # NoGame
        BY <2>1, <3>1 DEF StoreInv, Control
      <3>3. LoadGame(n) = cache[n] /\ Lri(disk[n]) <= Lri(LoadGame(n))
        BY <2>1, <3>2 DEF LoadGame, StoreInv
      <3>4. QED
        BY <2>1, <3>2, <3>3, StoreTyping DEF Lri, OrFresh
    <2>5. QED
      BY <1>2, <2>2, <2>3, <2>4
  <1>3. ASSUME AllStore, [Next]_vars, NEW n \in Node PROVE Kept(n)
    <2>1. ASSUME NEW m \in Node, NodeStep(m) PROVE Kept(n)
      <3>1. TypeOK
        BY <1>3 DEF AllStore, TypeInv
      <3>2. CASE m # n
        <4>1. disk'[n] = disk[n]
          BY <2>1, <3>1, <3>2, StepsElsewhere DEF Elsewhere
        <4>2. QED
          BY <1>1, <1>3, <4>1
      <3>3. CASE m = n
        <4>1. UNCHANGED disk \/ SaveDeleted(n) \/ SaveToDisk(n) \/ FlushWrite(n)
          BY <2>1, <3>3 DEF NodeStep, FSMStep, LoadOnce, SkipItem, SaveItem,
             BeginActions, ApplyOneAction, DeleteItem, NothingToSave, SaveInMemory,
             MarkDirty, BeginSnapshot, SnapshotStep, FlushCheck, FlushLoad, FlushCache,
             BeginPersist, EndSnapshot, HubMisses, HubReadsDisk, HubFillsCache, Crash,
             onlyJob, onlyFlusher, onlyReader
        <4>2. QED
          BY <1>1, <1>2, <1>3, <4>1
      <3>4. QED
        BY <3>2, <3>3
    <2>2. CASE UNCHANGED disk
      BY <1>1, <1>3, <2>2
    <2>3. QED
      BY <1>3, <2>1, <2>2 DEF Next, NodeStep, Commit, vars
  <1>4. AllStore /\ [Next]_vars => [\A n \in Node : Kept(n)]_vars
    BY <1>3
  <1> HIDE DEF Kept
  <1>5. Spec => [][\A n \in Node : Kept(n)]_vars
    BY <1>4, AlwaysStore, PTL DEF Spec
  <1>6. QED
    BY <1>5 DEF FileNeverRollsBack, Kept

====
