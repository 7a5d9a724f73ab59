---------------------------- MODULE ActionLog_proofs ----------------------------
(***************************************************************************)
(* What the operations on an action log return and preserve, for logs and *)
(* batches of any length: the facts the proofs about the replicated game   *)
(* and about the synchronised game share.                                  *)
(***************************************************************************)
EXTENDS ActionLog, TLAPS, WellFoundedInduction

-----------------------------------------------------------------------------
(* Induction over the natural numbers, for sets.                           *)

\* A set that holds 0 and the successor of every member holds Nat.
LEMMA SetInduction ==
    ASSUME NEW S, 0 \in S, \A n \in Nat : n \in S => n + 1 \in S
    PROVE  \A n \in Nat : n \in S
  <1> DEFINE T == {n \in Nat : n \notin S}
             R == OpToRel(<, Nat)
  <1>1. IsWellFoundedOn(R, Nat)
    BY NatLessThanWellFounded
  <1> SUFFICES ASSUME T # {} PROVE FALSE
    OBVIOUS
  <1>2. \A x, y \in Nat : y < x => <<y, x>> \in R
    BY DEF OpToRel
  <1> HIDE DEF R
  <1>3. PICK x \in T : \A y \in T : ~(<<y, x>> \in R)
    <2>1. T \subseteq Nat
      OBVIOUS
    <2>2. QED
      BY <1>1, <2>1, WFMin
  <1>4. x # 0 /\ x - 1 \in Nat
    OBVIOUS
  <1>5. x - 1 \in T
    BY <1>4
  <1>6. <<x - 1, x>> \in R
    BY <1>2, <1>4
  <1>7. QED
    BY <1>3, <1>5, <1>6

-----------------------------------------------------------------------------
(* One action.                                                             *)

LEMMA FreshTombstone == Fresh \in Game /\ Tombstone \in Game
  BY DEF Fresh, Tombstone, Game, Status

\* ApplyAction yields a document and leaves its index alone.
LEMMA ApplyActionTyping ==
    ASSUME NEW g \in Game, NEW a \in Action
    PROVE  /\ ApplyAction(g, a) \in Game
           /\ ApplyAction(g, a).lri = g.lri
           /\ ApplyAction(g, a).log = IF a \in Recent(g.log)
                                      THEN g.log ELSE Append(g.log, a)
  <1> DEFINE appended == [g EXCEPT !.log = Append(@, a),
                           !.status = IF a \in Finalizing THEN "final" ELSE @]
  <1>1. /\ appended \in Game
        /\ appended.lri = g.lri
        /\ appended.log = Append(g.log, a)
    <2>1. Append(g.log, a) \in Seq(Action) /\ g.status \in Status
      BY DEF Game
    <2>2. (IF a \in Finalizing THEN "final" ELSE g.status) \in Status
      BY <2>1 DEF Status
    <2>3. QED
      BY <2>1, <2>2 DEF Game
  <1>2. ApplyAction(g, a) = IF a \in Recent(g.log) THEN g ELSE appended
    BY DEF ApplyAction
  <1>3. QED
    BY <1>1, <1>2

\* The next element is beyond the reach of the duplicate scan.
LEMMA AppendSpaced ==
    ASSUME NEW log \in Seq(Action), NEW a \in Action, Spaced(log), a \notin Recent(log)
    PROVE  Spaced(Append(log, a))
  <1> DEFINE long == Append(log, a)
  <1>1. /\ Len(log) \in Nat /\ Len(long) = Len(log) + 1
        /\ \A i \in 1..Len(log) : long[i] = log[i]
        /\ long[Len(log) + 1] = a
    OBVIOUS
  <1>2. MaxScan \in Nat
    BY ActionLogAssumption
  <1> HIDE DEF long
  <1>3. SUFFICES ASSUME NEW i \in 1..Len(long), NEW j \in 1..Len(long),
                        i < j, long[i] = long[j]
                 PROVE  j - i > MaxScan
    BY DEF Spaced, long
  <1>4. CASE j <= Len(log)
    BY <1>1, <1>3, <1>4 DEF Spaced
  <1>5. CASE j = Len(log) + 1
    <2>1. i \in 1..Len(log) /\ log[i] = a
      BY <1>1, <1>3, <1>5
    <2>2. ~(i > Len(log) - MaxScan)
      BY <2>1 DEF Recent
    <2>3. QED
      BY <1>1, <1>2, <1>5, <2>1, <2>2
  <1>6. QED
    BY <1>1, <1>4, <1>5

-----------------------------------------------------------------------------
(* The actions of a command, one by one.                                   *)

\* The recursive function that AfterActions chooses.
IsAfterActions(f, g, acts, m) ==
    f = [j \in 0..m |-> IF j = 0 THEN g ELSE ApplyAction(f[j - 1], acts[j])]

LEMMA AfterActionsExists ==
    ASSUME NEW g, NEW acts
    PROVE  \A m \in Nat : \E f : IsAfterActions(f, g, acts, m)
  <1> DEFINE S == {m \in Nat : \E f : IsAfterActions(f, g, acts, m)}
  <1>1. 0 \in S
    <2> DEFINE f == [j \in 0..0 |-> g]
    <2>1. IsAfterActions(f, g, acts, 0)
      BY DEF IsAfterActions
    <2>2. QED
      BY <2>1
  <1>2. ASSUME NEW m \in Nat, m \in S PROVE m + 1 \in S
    <2>1. PICK f : IsAfterActions(f, g, acts, m)
      BY <1>2
    <2> DEFINE e == ApplyAction(f[m], acts[m + 1])
               h == [j \in 0..m + 1 |-> IF j = m + 1 THEN e ELSE f[j]]
    <2>2. /\ f[0] = g
          /\ \A j \in 1..m : f[j] = ApplyAction(f[j - 1], acts[j])
      BY <2>1 DEF IsAfterActions
    <2> HIDE DEF e
    <2>3. /\ h[0] = g
          /\ \A j \in 1..m : h[j] = ApplyAction(h[j - 1], acts[j])
      BY <2>2
    <2>4. h[m + 1] = ApplyAction(h[m + 1 - 1], acts[m + 1])
      BY DEF e
    <2>5. \A j \in 0..m + 1 :
            h[j] = IF j = 0 THEN g ELSE ApplyAction(h[j - 1], acts[j])
      <3>1. \A j \in 0..m + 1 : j = 0 \/ j \in 1..m \/ j = m + 1
        OBVIOUS
      <3> HIDE DEF h
      <3>2. QED
        BY <2>3, <2>4, <3>1
    <2>6. IsAfterActions(h, g, acts, m + 1)
      <3>1. h = [j \in 0..m + 1 |-> h[j]]
        OBVIOUS
      <3> HIDE DEF h
      <3>2. QED
        BY <2>5, <3>1 DEF IsAfterActions
    <2> HIDE DEF h
    <2>7. QED
      BY <2>6
  <1> HIDE DEF S
  <1>3. \A m \in Nat : m \in S
    BY <1>1, <1>2, SetInduction
  <1>4. QED
    BY <1>3 DEF S

LEMMA AfterActionsDef ==
    ASSUME NEW g, NEW acts, Len(acts) \in Nat
    PROVE  /\ AfterActions(g, acts)[0] = g
           /\ \A j \in 1..Len(acts) :
                AfterActions(g, acts)[j] = ApplyAction(AfterActions(g, acts)[j - 1], acts[j])
  <1> DEFINE f == AfterActions(g, acts)
             m == Len(acts)
  <1>1. \E h : IsAfterActions(h, g, acts, m)
    BY AfterActionsExists
  <1>2. IsAfterActions(f, g, acts, m)
    BY <1>1 DEF AfterActions, IsAfterActions
  <1> HIDE DEF f
  <1>3. /\ f[0] = g
        /\ \A j \in 1..m : f[j] = ApplyAction(f[j - 1], acts[j])
    BY <1>2 DEF IsAfterActions
  <1>4. QED
    BY <1>3 DEF f

\* Applying actions keeps a document a document, and its index.
LEMMA AfterActionsTyping ==
    ASSUME NEW g \in Game, NEW acts \in Seq(Action)
    PROVE  \A j \in 0..Len(acts) : /\ AfterActions(g, acts)[j] \in Game
                                   /\ AfterActions(g, acts)[j].lri = g.lri
  <1> DEFINE f == AfterActions(g, acts)
             S == {j \in Nat : j <= Len(acts) => f[j] \in Game /\ f[j].lri = g.lri}
  <1>1. /\ f[0] = g
        /\ \A j \in 1..Len(acts) : f[j] = ApplyAction(f[j - 1], acts[j])
    BY AfterActionsDef
  <1> HIDE DEF f
  <1>2. 0 \in S
    BY <1>1
  <1>3. ASSUME NEW j \in Nat, j \in S PROVE j + 1 \in S
    <2> SUFFICES ASSUME j + 1 <= Len(acts)
                 PROVE  f[j + 1] \in Game /\ f[j + 1].lri = g.lri
      OBVIOUS
    <2>1. f[j] \in Game /\ f[j].lri = g.lri
      BY <1>3
    <2>2. j + 1 \in 1..Len(acts) /\ acts[j + 1] \in Action
      OBVIOUS
    <2>3. f[j + 1] = ApplyAction(f[j], acts[j + 1])
      BY <1>1, <2>2
    <2>4. QED
      BY <2>1, <2>2, <2>3, ApplyActionTyping
  <1> HIDE DEF S
  <1>4. \A j \in Nat : j \in S
    BY <1>2, <1>3, SetInduction
  <1>5. QED
    BY <1>4 DEF S, f

\* What a reader sees after an action depends on what it saw before it only.
LEMMA ApplyActionContent ==
    ASSUME NEW g \in Game, NEW h \in Game, NEW a \in Action,
           g.log = h.log, g.status = h.status
    PROVE  /\ ApplyAction(g, a).log = ApplyAction(h, a).log
           /\ ApplyAction(g, a).status = ApplyAction(h, a).status
  BY DEF ApplyAction, Game

LEMMA AfterActionsContent ==
    ASSUME NEW g \in Game, NEW h \in Game, NEW acts \in Seq(Action),
           g.log = h.log, g.status = h.status
    PROVE  LET x == AfterActions(g, acts)[Len(acts)]
               y == AfterActions(h, acts)[Len(acts)]
           IN  x.log = y.log /\ x.status = y.status
  <1> DEFINE u == AfterActions(g, acts)
             v == AfterActions(h, acts)
             S == {j \in Nat : j <= Len(acts) =>
                      u[j].log = v[j].log /\ u[j].status = v[j].status}
  <1>1. /\ u[0] = g /\ v[0] = h
        /\ \A j \in 1..Len(acts) : /\ u[j] = ApplyAction(u[j - 1], acts[j])
                                   /\ v[j] = ApplyAction(v[j - 1], acts[j])
    BY AfterActionsDef
  <1>2. \A j \in 0..Len(acts) : u[j] \in Game /\ v[j] \in Game
    BY AfterActionsTyping
  <1> HIDE DEF u, v
  <1>3. 0 \in S
    BY <1>1
  <1>4. ASSUME NEW j \in Nat, j \in S PROVE j + 1 \in S
    <2> SUFFICES ASSUME j + 1 <= Len(acts)
                 PROVE  u[j + 1].log = v[j + 1].log /\ u[j + 1].status = v[j + 1].status
      OBVIOUS
    <2>1. u[j].log = v[j].log /\ u[j].status = v[j].status
      BY <1>4
    <2>2. j + 1 \in 1..Len(acts) /\ j \in 0..Len(acts) /\ acts[j + 1] \in Action
      OBVIOUS
    <2>3. /\ u[j + 1] = ApplyAction(u[j], acts[j + 1])
          /\ v[j + 1] = ApplyAction(v[j], acts[j + 1])
      BY <1>1, <2>2
    <2>4. QED
      BY <1>2, <2>1, <2>2, <2>3, ApplyActionContent
  <1> HIDE DEF S
  <1>5. \A j \in Nat : j \in S
    BY <1>3, <1>4, SetInduction
  <1>6. u[Len(acts)].log = v[Len(acts)].log /\ u[Len(acts)].status = v[Len(acts)].status
    BY <1>5 DEF S
  <1>7. QED
    BY <1>6 DEF u, v

\* Applying the first action and then the others is applying them all.
LEMMA AfterActionsHead ==
    ASSUME NEW g \in Game, NEW acts \in Seq(Action), acts # <<>>
    PROVE  AfterActions(ApplyAction(g, Head(acts)), Tail(acts))[Len(Tail(acts))]
              = AfterActions(g, acts)[Len(acts)]
  <1> DEFINE first == ApplyAction(g, Head(acts))
             rest == Tail(acts)
             u == AfterActions(first, rest)
             v == AfterActions(g, acts)
             S == {j \in Nat : j <= Len(rest) => u[j] = v[j + 1]}
  <1>1. /\ rest \in Seq(Action) /\ Len(acts) \in Nat /\ Len(acts) >= 1
        /\ Len(rest) = Len(acts) - 1
        /\ Head(acts) = acts[1]
        /\ \A j \in 1..Len(rest) : rest[j] = acts[j + 1]
    OBVIOUS
  <1>2. /\ u[0] = first
        /\ \A j \in 1..Len(rest) : u[j] = ApplyAction(u[j - 1], rest[j])
    <2>1. Len(rest) \in Nat
      BY <1>1
    <2> HIDE DEF first, rest
    <2>2. QED
      BY <2>1, AfterActionsDef
  <1>3. /\ v[0] = g
        /\ \A j \in 1..Len(acts) : v[j] = ApplyAction(v[j - 1], acts[j])
    BY AfterActionsDef
  <1> HIDE DEF u, v, rest
  <1>4. 0 \in S
    <2>1. 1 \in 1..Len(acts)
      BY <1>1
    <2>2. v[1] = ApplyAction(v[1 - 1], acts[1])
      BY <1>3, <2>1
    <2>3. v[1] = first
      BY <1>1, <1>3, <2>2
    <2>4. QED
      BY <1>2, <2>3
  <1>5. ASSUME NEW j \in Nat, j \in S PROVE j + 1 \in S
    <2> SUFFICES ASSUME j + 1 <= Len(rest) PROVE u[j + 1] = v[j + 2]
      OBVIOUS
    <2>1. u[j] = v[j + 1]
      BY <1>1, <1>5
    <2>2. j + 1 \in 1..Len(rest) /\ j + 2 \in 1..Len(acts)
      BY <1>1
    <2>3. u[j + 1] = ApplyAction(u[j + 1 - 1], rest[j + 1])
      BY <1>2, <2>2
    <2>4. v[j + 2] = ApplyAction(v[j + 2 - 1], acts[j + 2])
      BY <1>3, <2>2
    <2>5. rest[j + 1] = acts[j + 2]
      BY <1>1, <2>2
    <2>6. j + 1 - 1 = j /\ j + 2 - 1 = j + 1
      OBVIOUS
    <2>7. QED
      BY <2>1, <2>3, <2>4, <2>5, <2>6
  <1> HIDE DEF S
  <1>6. \A j \in Nat : j \in S
    BY <1>4, <1>5, SetInduction
  <1>7. u[Len(rest)] = v[Len(acts)]
    <2>1. Len(rest) \in Nat /\ Len(rest) \in S
      BY <1>1, <1>6
    <2>2. u[Len(rest)] = v[Len(rest) + 1]
      BY <2>1 DEF S
    <2>3. QED
      BY <1>1, <2>2
  <1>8. QED
    BY <1>7 DEF u, v, rest

=============================================================================
