----------------------------- MODULE Scorer_proofs -----------------------------
(***************************************************************************)
(* Proofs about the scorer at work (Scorer): undo and redo are those of a  *)
(* stack, the game the handlers build step by step is the one its log      *)
(* says, and the overlay shows its cell and the runners on base.  First    *)
(* what UNDOs mean in a log (EffectivelyUndone has one solution in a log   *)
(* whose UNDOs refer back) and how one more entry changes what is undone   *)
(* and what redos reach; then what the reducer keeps; then the handlers    *)
(* one by one, once more for what they leave of the cell, and again for    *)
(* the list of runners.                                                    *)
(***************************************************************************)
EXTENDS Scorer, TLAPS, WellFoundedInduction

-----------------------------------------------------------------------------
(* Induction over the natural numbers, for sets.                           *)

\* A set that holds 0 and the successor of every member holds Nat.
LEMMA SetInduction ==
    ASSUME NEW S, 0 \in S, \A n \in Nat : n \in S => n + 1 \in S
    PROVE  \A n \in Nat : n \in S
  <1> DEFINE T == {n \in Nat : n \notin S}
             R == OpToRel(<, Nat)
  <1>1. IsWellFoundedOn(R, Nat)
    BY NatLessThanWellFounded
  <1> SUFFICES ASSUME T # {} PROVE FALSE
    OBVIOUS
  <1>2. \A x, y \in Nat : y < x => <<y, x>> \in R
    BY DEF OpToRel
  <1> HIDE DEF R
  <1>3. PICK x \in T : \A y \in T : ~(<<y, x>> \in R)
    <2>1. T \subseteq Nat
      OBVIOUS
    <2>2. QED
      BY <1>1, <2>1, WFMin
  <1>4. x # 0 /\ x - 1 \in Nat
    OBVIOUS
  <1>5. x - 1 \in T
    BY <1>4
  <1>6. <<x - 1, x>> \in R
    BY <1>2, <1>4
  <1>7. QED
    BY <1>3, <1>5, <1>6

\* A bounded set of numbers with 0 in it has a greatest one.
LEMMA MaxIs ==
    ASSUME NEW n \in Nat, NEW S \in SUBSET (0..n), 0 \in S
    PROVE  Max(S) \in S /\ \A i \in S : Max(S) >= i
  <1> DEFINE P(m) == \A T \in SUBSET (0..m) : 0 \in T => \E i \in T : \A j \in T : i >= j
             Q == {m \in Nat : P(m)}
  <1>1. 0 \in Q
    OBVIOUS
  <1>2. ASSUME NEW m \in Nat, m \in Q PROVE m + 1 \in Q
    <2> SUFFICES ASSUME NEW T \in SUBSET (0..m + 1), 0 \in T
                 PROVE  \E i \in T : \A j \in T : i >= j
      OBVIOUS
    <2>1. CASE m + 1 \in T
      <3>1. \A j \in T : m + 1 >= j
        OBVIOUS
      <3>2. QED
        BY <2>1, <3>1
    <2>2. CASE m + 1 \notin T
      <3>1. T \in SUBSET (0..m)
        BY <2>2
      <3>2. P(m)
        BY <1>2
      <3>3. QED
        BY <3>1, <3>2
    <2>3. QED
      BY <2>1, <2>2
  <1> HIDE DEF Q
  <1>3. n \in Q
    BY <1>1, <1>2, SetInduction
  <1>4. \E i \in S : \A j \in S : i >= j
    BY <1>3 DEF Q
  <1>5. QED
    BY <1>4 DEF Max

-----------------------------------------------------------------------------
(* What is undone.                                                         *)

\* An UNDO refers to an earlier action.
RefersBack(acts) ==
    \A i \in 1..Len(acts) : acts[i].type = "UNDO" => acts[i].refId \in 1..i - 1

UndoPlaces(acts) == {i \in 1..Len(acts) : acts[i].type = "UNDO"}

\* What the UNDOs outside U refer to is U.
IsUndone(U, acts) == U = {acts[i].refId : i \in UndoPlaces(acts) \ U}

\* The recursive function that EffectivelyUndone chooses, from low on.
OneUndo(later, acts, i) ==
    IF acts[i].type # "UNDO" \/ i \in later THEN later ELSE later \cup {acts[i].refId}
IsUndoing(f, acts, low) ==
    f = [i \in low..Len(acts) + 1 |->
           IF i = Len(acts) + 1 THEN {} ELSE OneUndo(f[i + 1], acts, i)]

\* The recursive function that EffectivelyUndone chooses.
LEMMA UndoingExists ==
    ASSUME NEW X, NEW acts \in Seq(X)
    PROVE  \E f : IsUndoing(f, acts, 1)
  <1> DEFINE N == Len(acts)
             S == {m \in Nat : m <= N => \E f : IsUndoing(f, acts, N + 1 - m)}
  <1>0. N \in Nat
    OBVIOUS
  <1> HIDE DEF N
  <1>1. 0 \in S
    <2> DEFINE f == [i \in N + 1..N + 1 |-> {}]
    <2>1. IsUndoing(f, acts, N + 1)
      BY <1>0 DEF IsUndoing, N
    <2>2. QED
      BY <1>0, <2>1
  <1>2. ASSUME NEW m \in Nat, m \in S PROVE m + 1 \in S
    <2> SUFFICES ASSUME m + 1 <= N PROVE \E f : IsUndoing(f, acts, N + 1 - (m + 1))
      OBVIOUS
    <2> DEFINE low == N - m
    <2>0. low \in 1..N /\ N + 1 - (m + 1) = low /\ N + 1 - m = low + 1
      BY <1>0
    <2>1. PICK f : IsUndoing(f, acts, low + 1)
      BY <1>0, <1>2, <2>0
    <2> HIDE DEF low
    <2> DEFINE e == OneUndo(f[low + 1], acts, low)
               h == [i \in low..N + 1 |-> IF i = low THEN e ELSE f[i]]
    <2>2. \A i \in low + 1..N + 1 :
            f[i] = IF i = N + 1 THEN {} ELSE OneUndo(f[i + 1], acts, i)
      BY <2>1 DEF IsUndoing, N
    <2> HIDE DEF e
    <2>3. h[low] = e /\ \A i \in low + 1..N + 1 : h[i] = f[i]
      BY <1>0, <2>0
    <2>4. h = [i \in low..N + 1 |-> h[i]]
      OBVIOUS
    <2> HIDE DEF h
    <2>5. h[low] = OneUndo(h[low + 1], acts, low)
      BY <1>0, <2>0, <2>3 DEF e
    <2>6. \A i \in low..N + 1 :
            h[i] = IF i = N + 1 THEN {} ELSE OneUndo(h[i + 1], acts, i)
      <3> SUFFICES ASSUME NEW i \in low..N + 1
                   PROVE  h[i] = IF i = N + 1 THEN {} ELSE OneUndo(h[i + 1], acts, i)
        OBVIOUS
      <3>1. CASE i = low
        BY <1>0, <2>0, <2>5, <3>1
      <3>2. CASE i # low
        <4>1. i \in low + 1..N + 1 /\ (i # N + 1 => i + 1 \in low + 1..N + 1)
          BY <1>0, <2>0, <3>2
        <4>2. QED
          BY <2>2, <2>3, <4>1
      <3>3. QED
        BY <3>1, <3>2
    <2>7. IsUndoing(h, acts, low)
      BY <2>4, <2>6 DEF IsUndoing, N
    <2>8. QED
      BY <2>0, <2>7
  <1> HIDE DEF S
  <1>3. \A m \in Nat : m \in S
    BY <1>1, <1>2, SetInduction
  <1>4. N \in S /\ N + 1 - N = 1
    BY <1>0, <1>3
  <1>5. QED
    BY <1>0, <1>4 DEF S

\* What EffectivelyUndone returns is what the UNDOs outside it refer to.
LEMMA EffectivelyUndoneIs ==
    ASSUME NEW X, NEW acts \in Seq(X), RefersBack(acts)
    PROVE  IsUndone(EffectivelyUndone(acts), acts)
  <1> DEFINE N == Len(acts)
             f == CHOOSE f : IsUndoing(f, acts, 1)
             Added(low) == {acts[u].refId : u \in {v \in low..N : acts[v].type = "UNDO" /\ v \notin f[v + 1]}}
             P(low) == /\ f[low] = Added(low)
                       /\ \A i \in 1..N : i >= low => (i \in f[low] <=> i \in f[i + 1])
             S == {m \in Nat : m <= N => P(N + 1 - m)}
  <1>0. N \in Nat
    OBVIOUS
  <1>1. IsUndoing(f, acts, 1)
    BY UndoingExists
  <1>2. EffectivelyUndone(acts) = f[1]
    BY DEF EffectivelyUndone, IsUndoing, OneUndo
  <1>3. \A i \in 1..N + 1 : f[i] = IF i = N + 1 THEN {} ELSE OneUndo(f[i + 1], acts, i)
    BY <1>1 DEF IsUndoing
  <1>4. \A i \in 1..N : acts[i].type = "UNDO" => acts[i].refId \in 1..i - 1
    BY DEF RefersBack
  <1> HIDE DEF N, f
  <1>5. 0 \in S
    <2>1. f[N + 1] = {}
      BY <1>0, <1>3
    <2>2. Added(N + 1) = {}
      BY <1>0
    <2>3. \A i \in 1..N : ~(i >= N + 1)
      BY <1>0
    <2>4. N + 1 - 0 = N + 1
      BY <1>0
    <2>5. P(N + 1)
      BY <2>1, <2>2, <2>3
    <2> HIDE DEF P
    <2>6. QED
      BY <2>4, <2>5
  <1>6. ASSUME NEW m \in Nat, m \in S PROVE m + 1 \in S
    <2> SUFFICES ASSUME m + 1 <= N PROVE P(N + 1 - (m + 1))
      OBVIOUS
    <2> DEFINE low == N - m
    <2>1. low \in 1..N /\ N + 1 - (m + 1) = low /\ N + 1 - m = low + 1 /\ low # N + 1
      BY <1>0
    <2>2. P(low + 1)
      <3> HIDE DEF P, low
      <3>1. QED
        BY <1>0, <1>6, <2>1
    <2> HIDE DEF low
    <2>3. f[low] = OneUndo(f[low + 1], acts, low)
      BY <1>0, <1>3, <2>1
    <2>4. \A v \in low..N : v = low \/ v \in low + 1..N
      BY <1>0, <2>1
    <2>5. low \in low..N /\ \A v \in low + 1..N : v \in low..N
      BY <1>0, <2>1
    <2>6. f[low] = Added(low)
      <3>1. CASE acts[low].type # "UNDO" \/ low \in f[low + 1]
        <4>1. f[low] = f[low + 1]
          BY <2>3, <3>1 DEF OneUndo
        <4>2. Added(low) = Added(low + 1)
          BY <2>4, <2>5, <3>1
        <4>3. QED
          BY <2>2, <4>1, <4>2
      <3>2. CASE acts[low].type = "UNDO" /\ low \notin f[low + 1]
        <4>1. f[low] = f[low + 1] \cup {acts[low].refId}
          BY <2>3, <3>2 DEF OneUndo
        <4>2. Added(low) = Added(low + 1) \cup {acts[low].refId}
          BY <2>4, <2>5, <3>2
        <4>3. QED
          BY <2>2, <4>1, <4>2
      <3>3. QED
        BY <3>1, <3>2
    <2>7. ASSUME NEW i \in 1..N, i >= low PROVE i \in f[low] <=> i \in f[i + 1]
      <3>1. i \in f[low] <=> i \in f[low + 1]
        <4>1. \/ f[low] = f[low + 1]
              \/ acts[low].type = "UNDO" /\ f[low] = f[low + 1] \cup {acts[low].refId}
          BY <2>3 DEF OneUndo
        <4>2. acts[low].type = "UNDO" => acts[low].refId # i
          BY <1>0, <1>4, <2>1, <2>7
        <4>3. QED
          BY <4>1, <4>2
      <3>2. CASE i = low
        BY <3>1, <3>2
      <3>3. CASE i # low
        <4>1. i >= low + 1
          BY <1>0, <2>1, <2>7, <3>3
        <4>2. QED
          BY <2>2, <3>1, <4>1
      <3>4. QED
        BY <3>2, <3>3
    <2>8. P(low)
      BY <2>6, <2>7
    <2> HIDE DEF P
    <2>9. QED
      BY <2>1, <2>8
  <1> HIDE DEF S
  <1>7. \A m \in Nat : m \in S
    BY <1>5, <1>6, SetInduction
  <1>8. P(1)
    <2> HIDE DEF P
    <2>1. N \in S /\ N + 1 - N = 1
      BY <1>0, <1>7
    <2>2. QED
      BY <1>0, <2>1 DEF S
  <1>9. \A u \in 1..N : u \in f[1] <=> u \in f[u + 1]
    BY <1>8
  <1>10. f[1] = {acts[u].refId : u \in {v \in 1..N : acts[v].type = "UNDO" /\ v \notin f[v + 1]}}
    BY <1>8
  <1>11. {v \in 1..N : acts[v].type = "UNDO" /\ v \notin f[v + 1]} = UndoPlaces(acts) \ f[1]
    BY <1>9 DEF UndoPlaces, N
  <1>12. QED
    BY <1>2, <1>10, <1>11 DEF IsUndone

\* There is one such set.
LEMMA UndoneIsUnique ==
    ASSUME NEW X, NEW acts \in Seq(X), RefersBack(acts),
           NEW U, IsUndone(U, acts), NEW V, IsUndone(V, acts)
    PROVE  U = V
  <1> DEFINE N == Len(acts)
             S == {m \in Nat : \A i \in 1..N : i > N - m => (i \in U <=> i \in V)}
  <1>0. N \in Nat
    OBVIOUS
  <1>1. /\ U = {acts[i].refId : i \in UndoPlaces(acts) \ U}
        /\ V = {acts[i].refId : i \in UndoPlaces(acts) \ V}
    BY DEF IsUndone
  <1>2. \A i \in UndoPlaces(acts) : i \in 1..N /\ acts[i].refId \in 1..i - 1
    BY DEF RefersBack, UndoPlaces
  <1> HIDE DEF N
  <1>3. 0 \in S
    BY <1>0
  <1>4. ASSUME NEW m \in Nat, m \in S PROVE m + 1 \in S
    <2> SUFFICES ASSUME NEW i \in 1..N, i > N - (m + 1) PROVE i \in U <=> i \in V
      OBVIOUS
    <2>1. \A u \in UndoPlaces(acts) : acts[u].refId = i => (u \in U <=> u \in V)
      <3> SUFFICES ASSUME NEW u \in UndoPlaces(acts), acts[u].refId = i
                   PROVE  u \in U <=> u \in V
        OBVIOUS
      <3>1. u \in 1..N /\ u > i
        BY <1>2, <1>0
      <3>2. u > N - m
        BY <1>0, <3>1
      <3>3. QED
        BY <1>4, <3>1, <3>2
    <2>2. i \in U <=> \E u \in UndoPlaces(acts) : u \notin U /\ acts[u].refId = i
      BY <1>1
    <2>3. i \in V <=> \E u \in UndoPlaces(acts) : u \notin V /\ acts[u].refId = i
      BY <1>1
    <2>4. QED
      BY <2>1, <2>2, <2>3
  <1> HIDE DEF S
  <1>5. \A m \in Nat : m \in S
    BY <1>3, <1>4, SetInduction
  <1>6. \A i \in 1..N : i \in U <=> i \in V
    <2>1. N \in S /\ N - N = 0
      BY <1>0, <1>5
    <2>2. QED
      BY <1>0, <2>1 DEF S
  <1>7. \A r : r \in U \/ r \in V => r \in 1..N
    <2>1. ASSUME NEW r, r \in U \/ r \in V PROVE r \in 1..N
      <3>1. PICK u \in UndoPlaces(acts) : r = acts[u].refId
        BY <1>1, <2>1
      <3>2. u \in 1..N /\ r \in 1..u - 1
        BY <1>2, <3>1
      <3>3. QED
        BY <1>0, <3>2
    <2>2. QED
      BY <2>1
  <1>8. QED
    BY <1>6, <1>7

-----------------------------------------------------------------------------
(* What one more entry of a log undoes.                                    *)

\* A list with one more element.
LEMMA AppendIs ==
    ASSUME NEW X, NEW acts \in Seq(X), NEW a \in X
    PROVE  /\ Append(acts, a) \in Seq(X)
           /\ Len(acts) \in Nat /\ Len(Append(acts, a)) = Len(acts) + 1
           /\ DOMAIN acts = 1..Len(acts)
           /\ DOMAIN Append(acts, a) = 1..Len(acts) + 1
           /\ \A i \in 1..Len(acts) : Append(acts, a)[i] = acts[i]
           /\ Append(acts, a)[Len(acts) + 1] = a
  OBVIOUS

\* An entry that refers to an earlier one, or to none, keeps the log in order.
LEMMA OneMoreRefersBack ==
    ASSUME NEW X, NEW acts \in Seq(X), NEW a \in X, RefersBack(acts),
           a.type = "UNDO" => a.refId \in 1..Len(acts)
    PROVE  RefersBack(Append(acts, a))
  <1> DEFINE long == Append(acts, a)
             n == Len(acts)
  <1>1. /\ n \in Nat /\ Len(long) = n + 1
        /\ \A i \in 1..n : long[i] = acts[i]
        /\ long[n + 1] = a
    OBVIOUS
  <1>2. \A i \in 1..n : acts[i].type = "UNDO" => acts[i].refId \in 1..i - 1
    BY DEF RefersBack
  <1> HIDE DEF long, n
  <1>3. SUFFICES ASSUME NEW i \in 1..n + 1, long[i].type = "UNDO"
                 PROVE  long[i].refId \in 1..i - 1
    BY <1>1 DEF RefersBack, long
  <1>4. CASE i = n + 1
    BY <1>1, <1>3, <1>4 DEF n
  <1>5. CASE i # n + 1
    BY <1>1, <1>2, <1>3, <1>5
  <1>6. QED
    BY <1>4, <1>5

\* The UNDOs of the longer log.
LEMMA OneMoreUndoPlaces ==
    ASSUME NEW X, NEW acts \in Seq(X), NEW a \in X
    PROVE  /\ a.type # "UNDO" => UndoPlaces(Append(acts, a)) = UndoPlaces(acts)
           /\ a.type = "UNDO" =>
                UndoPlaces(Append(acts, a)) = UndoPlaces(acts) \cup {Len(acts) + 1}
           /\ \A i \in UndoPlaces(acts) : i \in 1..Len(acts) /\ Append(acts, a)[i] = acts[i]
  <1> DEFINE long == Append(acts, a)
             n == Len(acts)
  <1>1. /\ n \in Nat /\ Len(long) = n + 1
        /\ \A i \in 1..n : long[i] = acts[i]
        /\ long[n + 1] = a
    OBVIOUS
  <1> HIDE DEF long, n
  <1>2. \A i \in 1..n + 1 : i \in 1..n \/ i = n + 1
    BY <1>1
  <1>3. \A i \in 1..n : i \in 1..n + 1
    BY <1>1
  <1>4. n + 1 \in 1..n + 1 /\ n + 1 \notin 1..n
    BY <1>1
  <1>5. UndoPlaces(long) = {i \in 1..n + 1 : long[i].type = "UNDO"}
    BY <1>1 DEF UndoPlaces
  <1>6. UndoPlaces(acts) = {i \in 1..n : acts[i].type = "UNDO"}
    BY DEF UndoPlaces, n
  <1>7. QED
    BY <1>1, <1>2, <1>3, <1>4, <1>5, <1>6 DEF long, n

\* The UNDOs in force are those not undone, and what they refer to is undone.
LEMMA UndosAre ==
    ASSUME NEW X, NEW acts \in Seq(X), RefersBack(acts)
    PROVE  /\ Undos(acts) = UndoPlaces(acts) \ EffectivelyUndone(acts)
           /\ EffectivelyUndone(acts) = {acts[u].refId : u \in Undos(acts)}
           /\ \A u \in Undos(acts) : /\ u \in 1..Len(acts) /\ acts[u].type = "UNDO"
                                     /\ acts[u].refId \in 1..u - 1
           /\ \A r \in EffectivelyUndone(acts) : r \in 1..Len(acts)
  <1>1. DOMAIN acts = 1..Len(acts) /\ Len(acts) \in Nat
    OBVIOUS
  <1>2. Undos(acts) = UndoPlaces(acts) \ EffectivelyUndone(acts)
    BY <1>1 DEF Undos, UndoPlaces
  <1>3. EffectivelyUndone(acts) = {acts[u].refId : u \in Undos(acts)}
    BY <1>2, EffectivelyUndoneIs DEF IsUndone
  <1>4. \A u \in Undos(acts) : /\ u \in 1..Len(acts) /\ acts[u].type = "UNDO"
                               /\ acts[u].refId \in 1..u - 1
    BY <1>2 DEF UndoPlaces, RefersBack
  <1>5. \A r \in EffectivelyUndone(acts) : r \in 1..Len(acts)
    <2>1. ASSUME NEW r \in EffectivelyUndone(acts) PROVE r \in 1..Len(acts)
      <3>1. PICK u \in Undos(acts) : r = acts[u].refId
        BY <1>3, <2>1
      <3>2. QED
        BY <1>1, <1>4, <3>1
    <2>2. QED
      BY <2>1
  <1>6. QED
    BY <1>2, <1>3, <1>4, <1>5

\* An action undoes nothing.
LEMMA ActionUndoesNothing ==
    ASSUME NEW X, NEW acts \in Seq(X), NEW a \in X, RefersBack(acts), a.type # "UNDO"
    PROVE  EffectivelyUndone(Append(acts, a)) = EffectivelyUndone(acts)
  <1> DEFINE long == Append(acts, a)
             U == EffectivelyUndone(acts)
  <1>1. long \in Seq(X) /\ RefersBack(long)
    BY OneMoreRefersBack
  <1>2. UndoPlaces(long) = UndoPlaces(acts) /\ \A i \in UndoPlaces(acts) : long[i] = acts[i]
    BY OneMoreUndoPlaces
  <1>3. U = {acts[i].refId : i \in UndoPlaces(acts) \ U}
    BY EffectivelyUndoneIs DEF IsUndone
  <1>4. IsUndone(EffectivelyUndone(long), long)
    BY <1>1, EffectivelyUndoneIs
  <1> HIDE DEF long, U
  <1>5. IsUndone(U, long)
    BY <1>2, <1>3 DEF IsUndone
  <1>6. EffectivelyUndone(long) = U
    BY <1>1, <1>4, <1>5, UndoneIsUnique
  <1>7. QED
    BY <1>6 DEF long, U

\* An UNDO of an action undoes that one.
LEMMA UndoUndoesAction ==
    ASSUME NEW X, NEW acts \in Seq(X), NEW a \in X, RefersBack(acts),
           a.type = "UNDO", a.refId \in 1..Len(acts), acts[a.refId].type # "UNDO"
    PROVE  EffectivelyUndone(Append(acts, a)) = EffectivelyUndone(acts) \cup {a.refId}
  <1> DEFINE long == Append(acts, a)
             n == Len(acts)
             U == EffectivelyUndone(acts)
             V == U \cup {a.refId}
  <1>1. long \in Seq(X) /\ RefersBack(long) /\ long[n + 1] = a /\ n \in Nat
    BY OneMoreRefersBack
  <1>2. /\ UndoPlaces(long) = UndoPlaces(acts) \cup {n + 1}
        /\ \A i \in UndoPlaces(acts) : i \in 1..n /\ long[i] = acts[i]
    BY OneMoreUndoPlaces
  <1>3. U = {acts[i].refId : i \in UndoPlaces(acts) \ U} /\ \A r \in U : r \in 1..n
    BY EffectivelyUndoneIs, UndosAre DEF IsUndone
  <1>4. IsUndone(EffectivelyUndone(long), long)
    BY <1>1, EffectivelyUndoneIs
  <1>5. a.refId \notin UndoPlaces(acts)
    BY DEF UndoPlaces
  <1>6. n + 1 \notin V
    BY <1>1, <1>3
  <1> HIDE DEF long, U, n
  <1>7. UndoPlaces(long) \ V = (UndoPlaces(acts) \ U) \cup {n + 1}
    BY <1>2, <1>5, <1>6
  <1>8. V = {long[i].refId : i \in UndoPlaces(long) \ V}
    <2>1. {long[i].refId : i \in UndoPlaces(long) \ V}
            = {long[i].refId : i \in UndoPlaces(acts) \ U} \cup {long[n + 1].refId}
      BY <1>7
    <2>2. {long[i].refId : i \in UndoPlaces(acts) \ U} = U
      BY <1>2, <1>3
    <2>3. QED
      BY <1>1, <2>1, <2>2
  <1> HIDE DEF V
  <1>9. IsUndone(V, long)
    BY <1>8 DEF IsUndone
  <1>10. EffectivelyUndone(long) = V
    BY <1>1, <1>4, <1>9, UndoneIsUnique
  <1>11. QED
    BY <1>10 DEF long, U, V

\* An UNDO of an UNDO takes its effect back, unless another one has it too.
LEMMA RedoUndoesUndo ==
    ASSUME NEW X, NEW acts \in Seq(X), NEW a \in X, RefersBack(acts),
           a.type = "UNDO", a.refId \in Undos(acts),
           acts[acts[a.refId].refId].type # "UNDO"
    PROVE  EffectivelyUndone(Append(acts, a))
             = {acts[u].refId : u \in Undos(acts) \ {a.refId}} \cup {a.refId}
  <1> DEFINE long == Append(acts, a)
             n == Len(acts)
             U == EffectivelyUndone(acts)
             t == a.refId
             W == {acts[u].refId : u \in Undos(acts) \ {t}}
             V == W \cup {t}
  <1>0. /\ Undos(acts) = UndoPlaces(acts) \ U
        /\ U = {acts[u].refId : u \in Undos(acts)}
        /\ \A u \in Undos(acts) : u \in 1..n /\ acts[u].type = "UNDO"
        /\ \A r \in U : r \in 1..n
    BY UndosAre
  <1>1. long \in Seq(X) /\ RefersBack(long) /\ long[n + 1] = a /\ n \in Nat
    <2>1. a.refId \in 1..Len(acts)
      BY <1>0
    <2>2. QED
      BY <2>1, OneMoreRefersBack
  <1>2. /\ UndoPlaces(long) = UndoPlaces(acts) \cup {n + 1}
        /\ \A i \in UndoPlaces(acts) : i \in 1..n /\ long[i] = acts[i]
    BY OneMoreUndoPlaces
  <1>4. IsUndone(EffectivelyUndone(long), long)
    BY <1>1, EffectivelyUndoneIs
  <1>5. acts[t].refId \notin UndoPlaces(acts)
    BY DEF UndoPlaces
  <1>6. t \in Undos(acts) /\ a.refId = t
    OBVIOUS
  <1> HIDE DEF long, U, n, t
  <1>7. W \subseteq U /\ \A r \in U : r \in W \/ r = acts[t].refId
    BY <1>0
  <1>8. n + 1 \notin V
    <2>1. t # n + 1
      <3>1. t \in 1..n
        BY <1>0, <1>6
      <3>2. QED
        BY <1>1, <3>1
    <2>2. n + 1 \notin U
      <3>1. n + 1 \notin 1..n
        BY <1>1
      <3>2. \A r \in U : r \in 1..n
        BY <1>0
      <3>3. QED
        BY <3>1, <3>2
    <2>3. QED
      BY <1>7, <2>1, <2>2
  <1> HIDE DEF W
  <1>9. UndoPlaces(long) \ V = (Undos(acts) \ {t}) \cup {n + 1}
    <2>1. \A i \in UndoPlaces(acts) : i \in U <=> i \in W
      BY <1>5, <1>7
    <2>2. QED
      BY <1>0, <1>2, <1>8, <2>1
  <1>10. V = {long[i].refId : i \in UndoPlaces(long) \ V}
    <2>1. {long[i].refId : i \in UndoPlaces(long) \ V}
            = {long[i].refId : i \in Undos(acts) \ {t}} \cup {long[n + 1].refId}
      BY <1>9
    <2>2. {long[i].refId : i \in Undos(acts) \ {t}} = W
      BY <1>0, <1>2 DEF W
    <2>3. QED
      BY <1>1, <1>6, <2>1, <2>2
  <1> HIDE DEF V
  <1>11. IsUndone(V, long)
    BY <1>10 DEF IsUndone
  <1>12. EffectivelyUndone(long) = V
    BY <1>1, <1>4, <1>11, UndoneIsUnique
  <1>13. QED
    BY <1>12 DEF long, V, W, t

-----------------------------------------------------------------------------
(* What is in force, and what can be redone.                               *)

IsAction(acts, i) == i \in 1..Len(acts) /\ acts[i].type # "UNDO"

\* What is in force, what can come back, and what brings it back.
LEMMA InForceIs ==
    ASSUME NEW X, NEW acts \in Seq(X), RefersBack(acts)
    PROVE  /\ InForce(acts) = {i \in 1..Len(acts) : acts[i].type # "UNDO"}
                                \ EffectivelyUndone(acts)
           /\ Redoable(acts) = {u \in Undos(acts) : acts[acts[u].refId].type # "UNDO"}
           /\ \A i \in InForce(acts) : i \in 1..Len(acts)
           /\ \A u \in Redoable(acts) : /\ u \in 1..Len(acts) /\ acts[u].refId \in 1..u - 1
                                        /\ acts[u].refId \in 1..Len(acts)
                                        /\ acts[u].refId \notin InForce(acts)
           /\ \A r : IsAction(acts, r) =>
                \/ r \in InForce(acts)
                \/ \E u \in Redoable(acts) : acts[u].refId = r
  <1> DEFINE n == Len(acts)
             U == EffectivelyUndone(acts)
  <1>1. DOMAIN acts = 1..n /\ n \in Nat
    OBVIOUS
  <1>2. InForce(acts) = {i \in 1..n : acts[i].type # "UNDO"} \ U
    BY <1>1 DEF InForce
  <1>3. Redoable(acts) = {u \in Undos(acts) : acts[acts[u].refId].type # "UNDO"}
    BY DEF Redoable
  <1>4. /\ U = {acts[u].refId : u \in Undos(acts)}
        /\ \A u \in Undos(acts) : u \in 1..n /\ acts[u].refId \in 1..u - 1
    BY UndosAre
  <1> HIDE DEF n, U
  <1>5. \A u \in Redoable(acts) : /\ u \in 1..n /\ acts[u].refId \in 1..u - 1
                                  /\ acts[u].refId \in 1..n
                                  /\ acts[u].refId \notin InForce(acts)
    <2> SUFFICES ASSUME NEW u \in Redoable(acts)
                 PROVE  /\ u \in 1..n /\ acts[u].refId \in 1..u - 1
                        /\ acts[u].refId \in 1..n
                        /\ acts[u].refId \notin InForce(acts)
      OBVIOUS
    <2>1. u \in 1..n /\ acts[u].refId \in 1..u - 1
      BY <1>3, <1>4
    <2>2. acts[u].refId \in U
      BY <1>3, <1>4
    <2>3. QED
      BY <1>1, <1>2, <2>1, <2>2
  <1>6. ASSUME NEW r, IsAction(acts, r), r \notin InForce(acts)
        PROVE  \E u \in Redoable(acts) : acts[u].refId = r
    <2>1. r \in U /\ acts[r].type # "UNDO"
      BY <1>2, <1>6 DEF IsAction, n
    <2>2. PICK u \in Undos(acts) : r = acts[u].refId
      BY <1>4, <2>1
    <2>3. QED
      BY <1>3, <2>1, <2>2
  <1>7. \A i \in InForce(acts) : i \in 1..n
    BY <1>2
  <1>8. QED
    BY <1>2, <1>3, <1>5, <1>6, <1>7 DEF n, U

\* The undo button takes the last action in force.
LEMMA TargetIs ==
    ASSUME NEW X, NEW acts \in Seq(X), RefersBack(acts)
    PROVE  /\ UndoTarget(acts) \in 0..Len(acts)
           /\ UndoTarget(acts) = 0 \/ UndoTarget(acts) \in InForce(acts)
           /\ \A i \in InForce(acts) : UndoTarget(acts) >= i
  <1> DEFINE S == {0} \cup InForce(acts)
  <1>1. Len(acts) \in Nat
    OBVIOUS
  <1>2. S \in SUBSET (0..Len(acts)) /\ 0 \in S
    BY <1>1, InForceIs
  <1>3. UndoTarget(acts) = Max(S)
    BY DEF UndoTarget
  <1> HIDE DEF S
  <1>4. Max(S) \in S /\ \A i \in S : Max(S) >= i
    BY <1>1, <1>2, MaxIs
  <1>5. QED
    BY <1>2, <1>3, <1>4 DEF S

\* The redo button takes an UNDO made after that action.
LEMMA RedoTargetIs ==
    ASSUME NEW X, NEW acts \in Seq(X), RefersBack(acts), RedoTarget(acts) # 0
    PROVE  /\ RedoTarget(acts) \in Redoable(acts)
           /\ RedoTarget(acts) > UndoTarget(acts)
           /\ \A i \in Redoable(acts) : RedoTarget(acts) >= i
  <1> DEFINE S == {0} \cup Redoable(acts)
  <1>1. Len(acts) \in Nat
    OBVIOUS
  <1>2. S \in SUBSET (0..Len(acts)) /\ 0 \in S
    BY <1>1, InForceIs
  <1>3. RedoTarget(acts) = Max(S) /\ Max(S) > UndoTarget(acts)
    BY DEF RedoTarget
  <1> HIDE DEF S
  <1>4. Max(S) \in S /\ \A i \in S : Max(S) >= i
    BY <1>1, <1>2, MaxIs
  <1>5. QED
    BY <1>3, <1>4 DEF S

\* An action comes into force and takes nothing back.
LEMMA AfterAction ==
    ASSUME NEW X, NEW acts \in Seq(X), NEW a \in X, RefersBack(acts), a.type # "UNDO"
    PROVE  /\ InForce(Append(acts, a)) = InForce(acts) \cup {Len(acts) + 1}
           /\ Redoable(Append(acts, a)) = Redoable(acts)
  <1> DEFINE long == Append(acts, a)
             n == Len(acts)
             U == EffectivelyUndone(acts)
  <1>1. /\ long \in Seq(X) /\ RefersBack(long) /\ n \in Nat /\ Len(long) = n + 1
        /\ \A i \in 1..n : long[i] = acts[i]
        /\ long[n + 1] = a
    BY OneMoreRefersBack
  <1>2. EffectivelyUndone(long) = U
    BY ActionUndoesNothing
  <1>3. /\ InForce(acts) = {i \in 1..n : acts[i].type # "UNDO"} \ U
        /\ Redoable(acts) = {u \in Undos(acts) : acts[acts[u].refId].type # "UNDO"}
    BY InForceIs
  <1>4. /\ InForce(long) = {i \in 1..n + 1 : long[i].type # "UNDO"} \ U
        /\ Redoable(long) = {u \in Undos(long) : long[long[u].refId].type # "UNDO"}
    BY <1>1, <1>2, InForceIs
  <1>5. /\ Undos(acts) = UndoPlaces(acts) \ U /\ \A r \in U : r \in 1..n
        /\ \A u \in Undos(acts) : u \in 1..n /\ acts[u].refId \in 1..u - 1
    BY UndosAre
  <1>6. Undos(long) = UndoPlaces(long) \ U
    BY <1>1, <1>2, UndosAre
  <1>7. UndoPlaces(long) = UndoPlaces(acts)
    BY OneMoreUndoPlaces
  <1> HIDE DEF long, n, U
  <1>8. /\ n + 1 \in 1..n + 1 /\ n + 1 \notin 1..n
        /\ \A i \in 1..n + 1 : i \in 1..n \/ i = n + 1
        /\ \A i \in 1..n : i \in 1..n + 1
    BY <1>1
  <1>9. n + 1 \notin U
    BY <1>5, <1>8
  <1>10. InForce(long) = InForce(acts) \cup {n + 1}
    BY <1>1, <1>3, <1>4, <1>8, <1>9
  <1>11. \A u \in Undos(acts) : acts[u].refId \in 1..n
    BY <1>1, <1>5
  <1>12. \A u \in Undos(acts) : long[long[u].refId] = acts[acts[u].refId]
    BY <1>1, <1>5, <1>11
  <1>13. Undos(long) = Undos(acts)
    BY <1>5, <1>6, <1>7
  <1>14. Redoable(long) = Redoable(acts)
    BY <1>3, <1>4, <1>12, <1>13
  <1>15. QED
    BY <1>10, <1>14 DEF long, n

\* An UNDO of an action takes it out, and can be undone.
LEMMA AfterUndo ==
    ASSUME NEW X, NEW acts \in Seq(X), NEW a \in X, RefersBack(acts),
           a.type = "UNDO", IsAction(acts, a.refId)
    PROVE  /\ InForce(Append(acts, a)) = InForce(acts) \ {a.refId}
           /\ Redoable(Append(acts, a)) = Redoable(acts) \cup {Len(acts) + 1}
  <1> DEFINE long == Append(acts, a)
             n == Len(acts)
             U == EffectivelyUndone(acts)
             r == a.refId
  <1>0. r \in 1..n /\ acts[r].type # "UNDO"
    BY DEF IsAction
  <1>1. /\ long \in Seq(X) /\ RefersBack(long) /\ n \in Nat /\ Len(long) = n + 1
        /\ \A i \in 1..n : long[i] = acts[i]
        /\ long[n + 1] = a
    BY <1>0, OneMoreRefersBack
  <1>2. EffectivelyUndone(long) = U \cup {r}
    BY <1>0, UndoUndoesAction
  <1>3. /\ InForce(acts) = {i \in 1..n : acts[i].type # "UNDO"} \ U
        /\ Redoable(acts) = {u \in Undos(acts) : acts[acts[u].refId].type # "UNDO"}
    BY InForceIs
  <1>4. /\ InForce(long) = {i \in 1..n + 1 : long[i].type # "UNDO"} \ (U \cup {r})
        /\ Redoable(long) = {u \in Undos(long) : long[long[u].refId].type # "UNDO"}
    BY <1>1, <1>2, InForceIs
  <1>5. /\ Undos(acts) = UndoPlaces(acts) \ U /\ \A i \in U : i \in 1..n
        /\ \A u \in Undos(acts) : u \in 1..n /\ acts[u].refId \in 1..u - 1
    BY UndosAre
  <1>6. Undos(long) = UndoPlaces(long) \ (U \cup {r})
    BY <1>1, <1>2, UndosAre
  <1>7. UndoPlaces(long) = UndoPlaces(acts) \cup {n + 1} /\ r \notin UndoPlaces(acts)
    BY <1>0, OneMoreUndoPlaces DEF UndoPlaces
  <1>71. long[n + 1].type = "UNDO" /\ long[n + 1].refId = r
    BY <1>1
  <1> HIDE DEF long, n, U, r
  <1>8. /\ n + 1 \in 1..n + 1 /\ n + 1 \notin 1..n
        /\ \A i \in 1..n + 1 : i \in 1..n \/ i = n + 1
        /\ \A i \in 1..n : i \in 1..n + 1
    BY <1>1
  <1>9. n + 1 \notin U /\ n + 1 # r
    BY <1>0, <1>5, <1>8
  <1>10. InForce(long) = InForce(acts) \ {r}
    BY <1>1, <1>3, <1>4, <1>71, <1>8, <1>9
  <1>11. \A u \in Undos(acts) : acts[u].refId \in 1..n
    BY <1>1, <1>5
  <1>12. \A u \in Undos(acts) : long[long[u].refId] = acts[acts[u].refId]
    BY <1>1, <1>5, <1>11
  <1>13. Undos(long) = Undos(acts) \cup {n + 1}
    BY <1>5, <1>6, <1>7, <1>9
  <1>14. long[long[n + 1].refId].type # "UNDO"
    BY <1>0, <1>1, <1>71
  <1>15. Redoable(long) = Redoable(acts) \cup {n + 1}
    BY <1>3, <1>4, <1>12, <1>13, <1>14
  <1>16. QED
    BY <1>10, <1>15 DEF long, n, r

\* An UNDO of an UNDO takes that one out, and brings the action back if no
\* other UNDO keeps it out.
LEMMA AfterRedo ==
    ASSUME NEW X, NEW acts \in Seq(X), NEW a \in X, RefersBack(acts),
           a.type = "UNDO", a.refId \in Redoable(acts)
    PROVE  /\ Redoable(Append(acts, a)) = Redoable(acts) \ {a.refId}
           /\ InForce(Append(acts, a))
                = IF \E u \in Redoable(acts) \ {a.refId} : acts[u].refId = acts[a.refId].refId
                  THEN InForce(acts) ELSE InForce(acts) \cup {acts[a.refId].refId}
  <1> DEFINE long == Append(acts, a)
             n == Len(acts)
             U == EffectivelyUndone(acts)
             t == a.refId
             x == acts[t].refId
             V == {acts[u].refId : u \in Undos(acts) \ {t}} \cup {t}
  <1>0. /\ t \in Redoable(acts) /\ t \in 1..n /\ x \in 1..n
        /\ x \notin InForce(acts) /\ t \in Undos(acts) /\ acts[x].type # "UNDO"
    BY InForceIs
  <1>1. /\ long \in Seq(X) /\ RefersBack(long) /\ n \in Nat /\ Len(long) = n + 1
        /\ \A i \in 1..n : long[i] = acts[i]
        /\ long[n + 1] = a
    BY <1>0, OneMoreRefersBack
  <1>2. EffectivelyUndone(long) = V
    BY <1>0, RedoUndoesUndo
  <1>3. /\ InForce(acts) = {i \in 1..n : acts[i].type # "UNDO"} \ U
        /\ Redoable(acts) = {u \in Undos(acts) : acts[acts[u].refId].type # "UNDO"}
    BY InForceIs
  <1>4. /\ InForce(long) = {i \in 1..n + 1 : long[i].type # "UNDO"} \ V
        /\ Redoable(long) = {u \in Undos(long) : long[long[u].refId].type # "UNDO"}
    BY <1>1, <1>2, InForceIs
  <1>5. /\ Undos(acts) = UndoPlaces(acts) \ U
        /\ U = {acts[u].refId : u \in Undos(acts)}
        /\ \A u \in Undos(acts) : u \in 1..n /\ acts[u].refId \in 1..u - 1
                                  /\ acts[u].type = "UNDO"
    BY UndosAre
  <1>6. Undos(long) = UndoPlaces(long) \ V
    BY <1>1, <1>2, UndosAre
  <1>7. UndoPlaces(long) = UndoPlaces(acts) \cup {n + 1} /\ x \notin UndoPlaces(acts)
    BY <1>0, OneMoreUndoPlaces DEF UndoPlaces
  <1>71. long[n + 1].type = "UNDO" /\ long[n + 1].refId = t
    BY <1>1
  <1>72. \A i \in UndoPlaces(acts) : acts[i].type = "UNDO"
    BY DEF UndoPlaces
  <1> HIDE DEF long, n, U, t, V
  <1>8. /\ n + 1 \in 1..n + 1 /\ n + 1 \notin 1..n
        /\ \A i \in 1..n + 1 : i \in 1..n \/ i = n + 1
        /\ \A i \in 1..n : i \in 1..n + 1
    BY <1>1
  <1>11. \A u \in Undos(acts) : acts[u].refId \in 1..n
    BY <1>1, <1>5
  <1>12. \A u \in Undos(acts) : long[long[u].refId] = acts[acts[u].refId]
    BY <1>1, <1>5, <1>11
  <1>9. n + 1 \notin V
    <2>1. n + 1 # t
      BY <1>0, <1>8
    <2>2. \A u \in Undos(acts) : acts[u].refId # n + 1
      BY <1>8, <1>11
    <2>3. QED
      BY <2>1, <2>2 DEF V
  <1>13. /\ \A r \in V : r \in U \/ r = t
         /\ \A r \in U : r \in V \/ r = x
         /\ t \in V
    BY <1>5 DEF V
  <1>14. Undos(long) = (Undos(acts) \ {t}) \cup {n + 1}
    <2>1. \A i \in UndoPlaces(acts) : i \in V <=> (i \in U \/ i = t)
      BY <1>7, <1>13
    <2>2. QED
      BY <1>5, <1>6, <1>7, <1>9, <2>1
  <1>15. long[long[n + 1].refId].type = "UNDO"
    BY <1>0, <1>1, <1>5, <1>71
  <1>16. Redoable(long) = Redoable(acts) \ {t}
    BY <1>3, <1>4, <1>12, <1>14, <1>15
  <1>17. acts[t].type = "UNDO" /\ t # x
    BY <1>0, <1>5
  <1>18. x \in V <=> \E u \in Redoable(acts) \ {t} : acts[u].refId = x
    <2>1. x \in V <=> \E u \in Undos(acts) \ {t} : acts[u].refId = x
      BY <1>17 DEF V
    <2>2. QED
      BY <1>0, <1>3, <2>1
  <1>19. InForce(long) = {i \in 1..n : acts[i].type # "UNDO"} \ V
    BY <1>1, <1>4, <1>71, <1>8
  <1>20. \A i \in 1..n : acts[i].type # "UNDO" /\ i # x => (i \in V <=> i \in U)
    BY <1>13, <1>17
  <1>21. CASE x \in V
    <2>1. x \in U
      BY <1>13, <1>17, <1>21
    <2>2. InForce(long) = InForce(acts)
      BY <1>3, <1>19, <1>20, <1>21, <2>1
    <2>3. QED
      BY <1>16, <1>18, <1>21, <2>2 DEF long, t
  <1>22. CASE x \notin V
    <2>1. InForce(long) = InForce(acts) \cup {x}
      BY <1>0, <1>3, <1>19, <1>20, <1>22
    <2>2. QED
      BY <1>16, <1>18, <1>22, <2>1 DEF long, t
  <1>23. QED
    BY <1>21, <1>22

-----------------------------------------------------------------------------
(* The stack of redos.                                                     *)

\* The recursive function that RedoStack chooses.
OneBack(stack, acts, left, i) ==
    IF i \in left THEN Append(stack, <<acts[i].refId, i>>) ELSE stack
IsStack(f, acts, left, n) ==
    f = [i \in 0..n |-> IF i = 0 THEN <<>> ELSE OneBack(f[i - 1], acts, left, i)]

\* The recursive function that RedoStack chooses.
LEMMA StackExists ==
    ASSUME NEW acts, NEW left
    PROVE  \A m \in Nat : \E f : IsStack(f, acts, left, m)
  <1> DEFINE S == {m \in Nat : \E f : IsStack(f, acts, left, m)}
  <1>1. 0 \in S
    <2> DEFINE f == [n \in 0..0 |-> <<>>]
    <2>1. IsStack(f, acts, left, 0)
      BY DEF IsStack
    <2>2. QED
      BY <2>1
  <1>2. ASSUME NEW m \in Nat, m \in S PROVE m + 1 \in S
    <2>1. PICK f : IsStack(f, acts, left, m)
      BY <1>2
    <2> DEFINE e == OneBack(f[m], acts, left, m + 1)
               h == [n \in 0..m + 1 |-> IF n = m + 1 THEN e ELSE f[n]]
    <2>2. /\ f[0] = <<>>
          /\ \A n \in 1..m : f[n] = OneBack(f[n - 1], acts, left, n)
      BY <2>1 DEF IsStack
    <2> HIDE DEF e
    <2>3. /\ h[0] = <<>> /\ h[m + 1] = e /\ h[m] = f[m]
          /\ \A n \in 1..m : h[n] = f[n] /\ h[n - 1] = f[n - 1]
      BY <2>2
    <2>4. h = [n \in 0..m + 1 |-> h[n]]
      OBVIOUS
    <2> HIDE DEF h
    <2>5. h[m + 1] = OneBack(h[m + 1 - 1], acts, left, m + 1)
      BY <2>3 DEF e
    <2>6. \A n \in 0..m + 1 :
            h[n] = IF n = 0 THEN <<>> ELSE OneBack(h[n - 1], acts, left, n)
      <3>1. \A n \in 0..m + 1 : n = 0 \/ n \in 1..m \/ n = m + 1
        OBVIOUS
      <3>2. QED
        BY <2>2, <2>3, <2>5, <3>1
    <2>7. IsStack(h, acts, left, m + 1)
      BY <2>4, <2>6 DEF IsStack
    <2>8. QED
      BY <2>7
  <1> HIDE DEF S
  <1>3. \A m \in Nat : m \in S
    BY <1>1, <1>2, SetInduction
  <1>4. QED
    BY <1>3 DEF S

\* The same, one entry of the log after the other.
LEMMA StackSteps ==
    ASSUME NEW f, NEW acts, NEW left, NEW n \in Nat, IsStack(f, acts, left, n)
    PROVE  f[0] = <<>> /\ \A i \in 1..n : f[i] = OneBack(f[i - 1], acts, left, i)
  BY DEF IsStack

\* RedoStack is that function at the end of the log.
LEMMA RedoStackIs ==
    ASSUME NEW X, NEW acts \in Seq(X)
    PROVE  \E f : /\ IsStack(f, acts, Repeatable(acts), Len(acts))
                  /\ RedoStack(acts) = f[Len(acts)]
  <1> DEFINE f == CHOOSE f : IsStack(f, acts, Repeatable(acts), Len(acts))
  <1>1. Len(acts) \in Nat
    OBVIOUS
  <1>2. IsStack(f, acts, Repeatable(acts), Len(acts))
    BY <1>1, StackExists
  <1>3. RedoStack(acts) = f[Len(acts)]
    BY DEF RedoStack, IsStack, OneBack
  <1> HIDE DEF f
  <1>4. QED
    BY <1>2, <1>3

\* Two stacks agree as far as what they are built from does.
LEMMA SameStack ==
    ASSUME NEW f, NEW acts, NEW left, NEW n \in Nat, IsStack(f, acts, left, n),
           NEW g, NEW others, NEW right, NEW k \in Nat, IsStack(g, others, right, k),
           NEW m \in Nat, m <= n, m <= k,
           \A i \in 1..m : /\ i \in left <=> i \in right
                           /\ i \in left => acts[i].refId = others[i].refId
    PROVE  f[m] = g[m]
  <1> DEFINE S == {j \in Nat : j <= m => f[j] = g[j]}
  <1>1. /\ f[0] = <<>> /\ \A i \in 1..n : f[i] = OneBack(f[i - 1], acts, left, i)
        /\ g[0] = <<>> /\ \A i \in 1..k : g[i] = OneBack(g[i - 1], others, right, i)
    BY StackSteps
  <1>2. 0 \in S
    BY <1>1
  <1>3. ASSUME NEW j \in Nat, j \in S PROVE j + 1 \in S
    <2> SUFFICES ASSUME j + 1 <= m PROVE f[j + 1] = g[j + 1]
      OBVIOUS
    <2>1. j + 1 \in 1..n /\ j + 1 \in 1..k /\ j + 1 \in 1..m /\ j + 1 - 1 = j
      OBVIOUS
    <2>2. f[j] = g[j]
      BY <1>3
    <2>3. /\ f[j + 1] = OneBack(f[j], acts, left, j + 1)
          /\ g[j + 1] = OneBack(g[j], others, right, j + 1)
      BY <1>1, <2>1
    <2>4. QED
      BY <2>1, <2>2, <2>3 DEF OneBack
  <1> HIDE DEF S
  <1>4. m \in S
    BY <1>2, <1>3, SetInduction
  <1>5. QED
    BY <1>4 DEF S

\* Where nothing is added the stack stays.
LEMMA StackStays ==
    ASSUME NEW f, NEW acts, NEW left, NEW n \in Nat, IsStack(f, acts, left, n),
           NEW m \in Nat, m <= n, \A i \in m + 1..n : i \notin left
    PROVE  f[n] = f[m]
  <1> DEFINE S == {j \in Nat : m + j <= n => f[m + j] = f[m]}
  <1>1. \A i \in 1..n : f[i] = OneBack(f[i - 1], acts, left, i)
    BY DEF IsStack
  <1>2. 0 \in S
    OBVIOUS
  <1>3. ASSUME NEW j \in Nat, j \in S PROVE j + 1 \in S
    <2> SUFFICES ASSUME m + (j + 1) <= n PROVE f[m + (j + 1)] = f[m]
      OBVIOUS
    <2> DEFINE i == m + (j + 1)
    <2>1. i \in 1..n /\ i \in m + 1..n /\ i - 1 = m + j
      OBVIOUS
    <2>2. f[m + j] = f[m]
      BY <1>3
    <2> HIDE DEF i
    <2>3. f[i] = OneBack(f[i - 1], acts, left, i)
      BY <1>1, <2>1
    <2>4. f[i] = f[i - 1]
      BY <2>1, <2>3 DEF OneBack
    <2>5. QED
      BY <2>1, <2>2, <2>4 DEF i
  <1> HIDE DEF S
  <1>4. n - m \in S
    BY <1>2, <1>3, SetInduction
  <1>5. m + (n - m) = n
    OBVIOUS
  <1>6. QED
    BY <1>4, <1>5 DEF S

Pairs(acts, left) == {<<acts[u].refId, u>> : u \in left}

\* It stacks what UNDOs of the log took back.
LEMMA StackTyped ==
    ASSUME NEW f, NEW acts, NEW left, NEW n \in Nat, IsStack(f, acts, left, n),
           NEW m \in 0..n
    PROVE  f[m] \in Seq(Pairs(acts, left))
  <1> DEFINE S == {j \in Nat : j <= n => f[j] \in Seq(Pairs(acts, left))}
  <1>1. f[0] = <<>> /\ \A i \in 1..n : f[i] = OneBack(f[i - 1], acts, left, i)
    BY StackSteps
  <1>2. 0 \in S
    <2>1. \A Y : <<>> \in Seq(Y)
      OBVIOUS
    <2>2. f[0] \in Seq(Pairs(acts, left))
      BY <1>1, <2>1
    <2>3. QED
      BY <2>2
  <1>3. ASSUME NEW j \in Nat, j \in S PROVE j + 1 \in S
    <2> SUFFICES ASSUME j + 1 <= n PROVE f[j + 1] \in Seq(Pairs(acts, left))
      OBVIOUS
    <2>1. j + 1 \in 1..n /\ j + 1 - 1 = j
      OBVIOUS
    <2>2. f[j] \in Seq(Pairs(acts, left))
      BY <1>3
    <2>3. f[j + 1] = OneBack(f[j], acts, left, j + 1)
      BY <1>1, <2>1
    <2>4. j + 1 \in left => <<acts[j + 1].refId, j + 1>> \in Pairs(acts, left)
      BY DEF Pairs
    <2>5. QED
      BY <2>2, <2>3, <2>4 DEF OneBack
  <1> HIDE DEF S
  <1>4. m \in S
    BY <1>2, <1>3, SetInduction
  <1>5. QED
    BY <1>4 DEF S

\* With nothing to repeat the stack is empty.
LEMMA EmptyStack ==
    ASSUME NEW X, NEW acts \in Seq(X), Repeatable(acts) = {}
    PROVE  RedoStack(acts) = <<>>
  <1>1. Len(acts) \in Nat
    OBVIOUS
  <1>2. PICK f : /\ IsStack(f, acts, Repeatable(acts), Len(acts))
                 /\ RedoStack(acts) = f[Len(acts)]
    BY RedoStackIs
  <1>3. f[0] = <<>>
    BY <1>1, <1>2 DEF IsStack
  <1>4. f[Len(acts)] = f[0]
    BY <1>1, <1>2, StackStays
  <1>5. QED
    BY <1>2, <1>3, <1>4

\* One more redo, at the top.
LEMMA StackGrows ==
    ASSUME NEW X, NEW acts \in Seq(X), NEW a \in X,
           Repeatable(acts) \subseteq 1..Len(acts),
           Repeatable(Append(acts, a)) = Repeatable(acts) \cup {Len(acts) + 1}
    PROVE  RedoStack(Append(acts, a)) = Append(RedoStack(acts), <<a.refId, Len(acts) + 1>>)
  <1> DEFINE long == Append(acts, a)
             n == Len(acts)
  <1>1. /\ long \in Seq(X) /\ n \in Nat /\ Len(long) = n + 1
        /\ \A i \in 1..n : long[i] = acts[i]
        /\ long[n + 1] = a
    OBVIOUS
  <1> HIDE DEF long
  <1>2. PICK f : /\ IsStack(f, acts, Repeatable(acts), n)
                 /\ RedoStack(acts) = f[n]
    BY RedoStackIs
  <1>3. PICK g : /\ IsStack(g, long, Repeatable(long), n + 1)
                 /\ RedoStack(long) = g[n + 1]
    BY <1>1, RedoStackIs
  <1> HIDE DEF n
  <1>4. Repeatable(long) = Repeatable(acts) \cup {n + 1}
    BY DEF long, n
  <1>5. \A i \in 1..n : /\ i \in Repeatable(acts) <=> i \in Repeatable(long)
                        /\ i \in Repeatable(acts) => acts[i].refId = long[i].refId
    BY <1>1, <1>4
  <1>6. n + 1 \in Nat /\ n <= n + 1 /\ n <= n
    BY <1>1
  <1>7. f[n] = g[n]
    BY <1>1, <1>2, <1>3, <1>5, <1>6, SameStack
  <1>8. g[n + 1] = OneBack(g[n], long, Repeatable(long), n + 1)
    <2>1. n + 1 \in 1..n + 1 /\ n + 1 - 1 = n /\ n + 1 \in Nat
      BY <1>1
    <2>2. \A i \in 1..n + 1 : g[i] = OneBack(g[i - 1], long, Repeatable(long), i)
      BY <1>3, <2>1, StackSteps
    <2>3. QED
      BY <1>1, <2>1, <2>2
  <1>9. g[n + 1] = Append(g[n], <<a.refId, n + 1>>)
    BY <1>1, <1>4, <1>8 DEF OneBack
  <1>10. QED
    BY <1>2, <1>3, <1>7, <1>9 DEF long, n

\* One redo less, from the top.
LEMMA StackShrinks ==
    ASSUME NEW X, NEW acts \in Seq(X), NEW a \in X,
           Repeatable(acts) \subseteq 1..Len(acts),
           NEW t \in Repeatable(acts), \A u \in Repeatable(acts) : t >= u,
           Repeatable(Append(acts, a)) = Repeatable(acts) \ {t}
    PROVE  /\ RedoStack(acts) = Append(RedoStack(Append(acts, a)), <<acts[t].refId, t>>)
           /\ \E Y : RedoStack(Append(acts, a)) \in Seq(Y)
  <1> DEFINE long == Append(acts, a)
             n == Len(acts)
  <1>1. /\ long \in Seq(X) /\ n \in Nat /\ Len(long) = n + 1
        /\ \A i \in 1..n : long[i] = acts[i]
        /\ long[n + 1] = a
    OBVIOUS
  <1> HIDE DEF long
  <1>2. PICK f : /\ IsStack(f, acts, Repeatable(acts), n)
                 /\ RedoStack(acts) = f[n]
    BY RedoStackIs
  <1>3. PICK g : /\ IsStack(g, long, Repeatable(long), n + 1)
                 /\ RedoStack(long) = g[n + 1]
    BY <1>1, RedoStackIs
  <1>4. Repeatable(long) = Repeatable(acts) \ {t}
    BY DEF long
  <1> HIDE DEF n
  <1>5. /\ t \in 1..n /\ \A u \in Repeatable(acts) : u \in 1..n
    BY DEF n
  <1>6. /\ t - 1 \in Nat /\ t - 1 <= n /\ t - 1 <= n + 1 /\ n + 1 \in Nat
        /\ t <= n /\ t \in Nat
    BY <1>1, <1>5
  <1>7. \A i \in 1..t - 1 : /\ i \in Repeatable(acts) <=> i \in Repeatable(long)
                            /\ i \in Repeatable(acts) => acts[i].refId = long[i].refId
    <2> SUFFICES ASSUME NEW i \in 1..t - 1
                 PROVE  /\ i \in Repeatable(acts) <=> i \in Repeatable(long)
                        /\ i \in Repeatable(acts) => acts[i].refId = long[i].refId
      OBVIOUS
    <2>1. i \in 1..n /\ i # t
      BY <1>1, <1>5
    <2>2. QED
      BY <1>1, <1>4, <2>1
  <1>8. f[t - 1] = g[t - 1]
    BY <1>1, <1>2, <1>3, <1>6, <1>7, SameStack
  <1>9. g[n + 1] = g[t - 1]
    <2>1. \A i \in t - 1 + 1..n + 1 : i \notin Repeatable(long)
      <3> SUFFICES ASSUME NEW i \in t - 1 + 1..n + 1, i \in Repeatable(acts) \ {t}
                   PROVE  FALSE
        BY <1>4
      <3>1. i \in 1..n /\ t >= i /\ i >= t
        BY <1>1, <1>5
      <3>2. QED
        BY <1>5, <3>1
    <2>2. QED
      BY <1>3, <1>6, <2>1, StackStays
  <1>10. f[n] = f[t]
    <2>1. \A i \in t + 1..n : i \notin Repeatable(acts)
      BY <1>1, <1>5
    <2>2. QED
      BY <1>1, <1>2, <1>6, <2>1, StackStays
  <1>11. f[t] = Append(f[t - 1], <<acts[t].refId, t>>)
    <2>1. t \in 0..n /\ t # 0
      BY <1>1, <1>5
    <2>2. f[t] = OneBack(f[t - 1], acts, Repeatable(acts), t)
      BY <1>2, <2>1 DEF IsStack
    <2>3. QED
      BY <2>2 DEF OneBack
  <1>12. f[t - 1] \in Seq(Pairs(acts, Repeatable(acts)))
    <2>1. t - 1 \in 0..n
      BY <1>1, <1>5
    <2>2. QED
      BY <1>1, <1>2, <2>1, StackTyped
  <1>13. RedoStack(long) = f[t - 1]
    BY <1>3, <1>8, <1>9
  <1>14. RedoStack(acts) = Append(RedoStack(long), <<acts[t].refId, t>>)
    BY <1>2, <1>10, <1>11, <1>13
  <1>15. QED
    BY <1>12, <1>13, <1>14 DEF long

-----------------------------------------------------------------------------
(* What repeated redos bring back, after one more entry.                   *)

\* The UNDOs that repeated redos reach, for a log in order.
LEMMA RepeatableIs ==
    ASSUME NEW X, NEW acts \in Seq(X), RefersBack(acts)
    PROVE  /\ Repeatable(acts) = {u \in Redoable(acts) :
                 /\ u > UndoTarget(acts)
                 /\ \A j \in Redoable(acts) : j > u => u > acts[j].refId}
           /\ Repeatable(acts) \subseteq 1..Len(acts)
  <1>1. \A u \in Redoable(acts) : u \in 1..Len(acts)
    BY InForceIs
  <1>2. Repeatable(acts) \subseteq Redoable(acts)
    BY DEF Repeatable
  <1>3. QED
    BY <1>1, <1>2 DEF Repeatable

\* Nothing, after an action.
LEMMA ActionEndsRedo ==
    ASSUME NEW X, NEW acts \in Seq(X), NEW a \in X, RefersBack(acts), a.type # "UNDO"
    PROVE  Repeatable(Append(acts, a)) = {}
  <1> DEFINE long == Append(acts, a)
             n == Len(acts)
  <1>1. long \in Seq(X) /\ RefersBack(long) /\ n \in Nat
    BY OneMoreRefersBack
  <1>2. /\ Redoable(long) = Redoable(acts) /\ InForce(long) = InForce(acts) \cup {n + 1}
        /\ \A u \in Redoable(acts) : u \in 1..n
    BY AfterAction, InForceIs
  <1> HIDE DEF long, n
  <1>3. UndoTarget(long) >= n + 1
    BY <1>1, <1>2, TargetIs
  <1>4. UndoTarget(long) \in Nat
    <2>1. UndoTarget(long) \in 0..Len(long) /\ Len(long) \in Nat
      BY <1>1, TargetIs
    <2>2. QED
      BY <2>1
  <1>5. \A u \in Redoable(long) : ~(u > UndoTarget(long))
    BY <1>1, <1>2, <1>3, <1>4
  <1>6. Repeatable(long) = {}
    BY <1>1, <1>5, RepeatableIs
  <1>7. QED
    BY <1>6 DEF long

\* The UNDO of an action, after it.
LEMMA UndoAddsRedo ==
    ASSUME NEW X, NEW acts \in Seq(X), NEW a \in X, RefersBack(acts),
           a.type = "UNDO", IsAction(acts, a.refId)
    PROVE  Repeatable(Append(acts, a)) = Repeatable(acts) \cup {Len(acts) + 1}
  <1> DEFINE long == Append(acts, a)
             n == Len(acts)
             r == a.refId
             R == Redoable(acts)
             last == UndoTarget(acts)
             end == UndoTarget(long)
  <1>0. r \in 1..n
    BY DEF IsAction
  <1>1. /\ long \in Seq(X) /\ RefersBack(long) /\ n \in Nat /\ Len(long) = n + 1
        /\ \A i \in 1..n : long[i] = acts[i]
        /\ long[n + 1] = a
    BY <1>0, OneMoreRefersBack
  <1>2. /\ Redoable(long) = R \cup {n + 1} /\ InForce(long) = InForce(acts) \ {r}
        /\ \A u \in R : u \in 1..n /\ acts[u].refId \in 1..u - 1
        /\ r \in InForce(acts) \/ \E u \in R : acts[u].refId = r
    BY AfterUndo, InForceIs
  <1>3. /\ last \in 0..n /\ (last = 0 \/ last \in InForce(acts))
        /\ \A i \in InForce(acts) : last >= i
    BY TargetIs
  <1>4. /\ end \in 0..n + 1 /\ (end = 0 \/ end \in InForce(long))
        /\ \A i \in InForce(long) : end >= i
    BY <1>1, TargetIs
  <1>5. Repeatable(acts) = {u \in R : u > last /\ \A j \in R : j > u => u > acts[j].refId}
    BY RepeatableIs
  <1>6. Repeatable(long) = {u \in Redoable(long) :
            /\ u > end
            /\ \A j \in Redoable(long) : j > u => u > long[j].refId}
    BY <1>1, RepeatableIs
  <1>61. \A i \in InForce(acts) : i \in 1..n
    BY InForceIs
  <1>62. long[n + 1].refId = r
    BY <1>1
  <1> HIDE DEF long, n, r, R, last, end
  <1>7. end <= last /\ end <= n
    <2>1. end = 0 \/ end \in InForce(acts)
      BY <1>2, <1>4
    <2>2. QED
      BY <1>1, <1>3, <1>4, <1>61, <2>1
  <1>8. ASSUME NEW u \in R
        PROVE  u \in Repeatable(long) <=> u \in Repeatable(acts)
    <2>1. u \in 1..n /\ n + 1 > u /\ n + 1 \in Redoable(long) /\ u \in Redoable(long)
      BY <1>1, <1>2
    <2>2. ASSUME u \in Repeatable(acts) PROVE u \in Repeatable(long)
      <3>1. u > last /\ \A j \in R : j > u => u > acts[j].refId
        BY <1>5, <2>2
      <3>2. u > r
        <4>1. CASE r \in InForce(acts)
          BY <1>0, <1>1, <1>3, <2>1, <3>1, <4>1
        <4>2. CASE \E w \in R : acts[w].refId = r
          <5>1. PICK w \in R : acts[w].refId = r
            BY <4>2
          <5>2. w \in 1..n /\ r \in 1..w - 1
            BY <1>2, <5>1
          <5>3. CASE w > u
            BY <3>1, <5>1, <5>3
          <5>4. CASE ~(w > u)
            BY <1>1, <2>1, <5>2, <5>4
          <5>5. QED
            BY <5>3, <5>4
        <4>3. QED
          BY <1>2, <4>1, <4>2
      <3>3. u > end
        BY <1>1, <1>3, <1>4, <1>7, <2>1, <3>1
      <3>4. ASSUME NEW j \in Redoable(long), j > u PROVE u > long[j].refId
        <4>1. CASE j = n + 1
          BY <1>62, <3>2, <4>1
        <4>2. CASE j # n + 1
          <5>1. j \in R /\ j \in 1..n
            BY <1>2, <3>4, <4>2
          <5>2. QED
            BY <1>1, <3>1, <3>4, <5>1
        <4>3. QED
          BY <4>1, <4>2
      <3>5. QED
        BY <1>6, <2>1, <3>3, <3>4
    <2>3. ASSUME u \in Repeatable(long) PROVE u \in Repeatable(acts)
      <3>1. u > end /\ \A j \in Redoable(long) : j > u => u > long[j].refId
        BY <1>6, <2>3
      <3>2. u > r
        BY <1>62, <2>1, <3>1
      <3>3. u > last
        <4>1. last = r \/ last = 0 \/ last \in InForce(long)
          BY <1>2, <1>3
        <4>2. QED
          BY <1>1, <1>3, <1>4, <2>1, <3>1, <3>2, <4>1
      <3>4. ASSUME NEW j \in R, j > u PROVE u > acts[j].refId
        <4>1. j \in Redoable(long) /\ j \in 1..n
          BY <1>2
        <4>2. QED
          BY <1>1, <3>1, <3>4, <4>1
      <3>5. QED
        BY <1>5, <3>3, <3>4
    <2>4. QED
      BY <2>2, <2>3
  <1>9. n + 1 \in Repeatable(long)
    <2>1. n + 1 > end /\ n + 1 \in Redoable(long)
      BY <1>1, <1>2, <1>4, <1>7
    <2>2. \A j \in Redoable(long) : ~(j > n + 1)
      BY <1>1, <1>2
    <2>3. QED
      BY <1>6, <2>1, <2>2
  <1>10. \A u \in Repeatable(long) : u \in R \/ u = n + 1
    BY <1>2, <1>6
  <1>11. \A u \in Repeatable(acts) : u \in R
    BY <1>5
  <1>12. Repeatable(long) = Repeatable(acts) \cup {n + 1}
    BY <1>8, <1>9, <1>10, <1>11
  <1>13. QED
    BY <1>12 DEF long, n

\* The UNDO that is undone is gone.
LEMMA RedoTakesRedo ==
    ASSUME NEW X, NEW acts \in Seq(X), NEW a \in X, RefersBack(acts),
           a.type = "UNDO", RedoTarget(acts) # 0, a.refId = RedoTarget(acts)
    PROVE  /\ a.refId \in Repeatable(acts)
           /\ \A u \in Repeatable(acts) : a.refId >= u
           /\ Repeatable(Append(acts, a)) = Repeatable(acts) \ {a.refId}
  <1> DEFINE long == Append(acts, a)
             n == Len(acts)
             t == a.refId
             x == acts[t].refId
             R == Redoable(acts)
             last == UndoTarget(acts)
             end == UndoTarget(long)
  <1>0. t \in R /\ t > last /\ (\A i \in R : t >= i) /\ t \in 1..n
    BY RedoTargetIs, InForceIs
  <1>1. /\ long \in Seq(X) /\ RefersBack(long) /\ n \in Nat /\ Len(long) = n + 1
        /\ \A i \in 1..n : long[i] = acts[i]
    BY <1>0, OneMoreRefersBack
  <1>2. /\ Redoable(long) = R \ {t}
        /\ InForce(long) = IF \E u \in R \ {t} : acts[u].refId = x
                           THEN InForce(acts) ELSE InForce(acts) \cup {x}
        /\ \A u \in R : u \in 1..n /\ acts[u].refId \in 1..u - 1
    BY <1>0, AfterRedo, InForceIs
  <1>3. /\ last \in 0..n /\ (last = 0 \/ last \in InForce(acts))
        /\ \A i \in InForce(acts) : last >= i
    BY TargetIs
  <1>4. /\ end \in 0..n + 1 /\ (end = 0 \/ end \in InForce(long))
        /\ \A i \in InForce(long) : end >= i
    BY <1>1, TargetIs
  <1>5. Repeatable(acts) = {u \in R : u > last /\ \A j \in R : j > u => u > acts[j].refId}
    BY RepeatableIs
  <1>6. Repeatable(long) = {u \in Redoable(long) :
            /\ u > end
            /\ \A j \in Redoable(long) : j > u => u > long[j].refId}
    BY <1>1, RepeatableIs
  <1>61. \A i \in InForce(acts) : i \in 1..n
    BY InForceIs
  <1> HIDE DEF long, n, t, R, last, end
  <1>62. x \in 1..t - 1 /\ x \in 1..n
    BY <1>0, <1>1, <1>2
  <1> HIDE DEF x
  <1>63. InForce(acts) \subseteq InForce(long)
    BY <1>2
  <1>7. t \in Repeatable(acts)
    <2>1. \A j \in R : ~(j > t)
      BY <1>0, <1>1, <1>2
    <2>2. QED
      BY <1>0, <1>5, <2>1
  <1>8. ASSUME NEW u \in R, u # t
        PROVE  u \in Repeatable(long) <=> u \in Repeatable(acts)
    <2>1. u \in 1..n /\ t > u /\ u \in Redoable(long)
      BY <1>0, <1>1, <1>2, <1>8
    <2>2. ASSUME u \in Repeatable(acts) PROVE u \in Repeatable(long)
      <3>1. u > last /\ \A j \in R : j > u => u > acts[j].refId
        BY <1>5, <2>2
      <3>2. u > x
        BY <1>0, <2>1, <3>1 DEF x
      <3>3. u > end
        <4>1. end = 0 \/ end = x \/ end \in InForce(acts)
          BY <1>2, <1>4
        <4>2. CASE end \in InForce(acts)
          <5>1. end \in 1..n /\ last >= end
            BY <1>3, <1>61, <4>2
          <5>2. QED
            BY <1>1, <1>3, <2>1, <3>1, <5>1
        <4>3. QED
          BY <1>1, <2>1, <3>2, <4>1, <4>2
      <3>4. ASSUME NEW j \in Redoable(long), j > u PROVE u > long[j].refId
        <4>1. j \in R /\ j \in 1..n
          BY <1>2
        <4>2. QED
          BY <1>1, <3>1, <3>4, <4>1
      <3>5. QED
        BY <1>6, <2>1, <3>3, <3>4
    <2>3. ASSUME u \in Repeatable(long) PROVE u \in Repeatable(acts)
      <3>1. u > end /\ \A j \in Redoable(long) : j > u => u > long[j].refId
        BY <1>6, <2>3
      <3>2. u > last
        <4>1. last = 0 \/ end >= last
          BY <1>3, <1>4, <1>63
        <4>2. QED
          BY <1>1, <1>3, <1>4, <2>1, <3>1, <4>1
      <3>3. u > x
        <4>1. CASE \E w \in R \ {t} : acts[w].refId = x
          <5>1. PICK w \in R \ {t} : acts[w].refId = x
            BY <4>1
          <5>2. w \in 1..n /\ x \in 1..w - 1 /\ w \in Redoable(long) /\ long[w].refId = x
            BY <1>1, <1>2, <5>1
          <5>3. CASE w > u
            BY <3>1, <5>2, <5>3
          <5>4. CASE ~(w > u)
            BY <1>1, <2>1, <5>2, <5>4
          <5>5. QED
            BY <5>3, <5>4
        <4>2. CASE ~(\E w \in R \ {t} : acts[w].refId = x)
          <5>1. x \in InForce(long)
            BY <1>2, <4>2
          <5>2. end >= x
            BY <1>4, <5>1
          <5>3. QED
            BY <1>1, <1>4, <1>62, <2>1, <3>1, <5>2
        <4>3. QED
          BY <4>1, <4>2
      <3>4. ASSUME NEW j \in R, j > u PROVE u > acts[j].refId
        <4>1. CASE j = t
          BY <3>3, <4>1 DEF x
        <4>2. CASE j # t
          <5>1. j \in Redoable(long) /\ j \in 1..n
            BY <1>2, <4>2
          <5>2. QED
            BY <1>1, <3>1, <3>4, <5>1
        <4>3. QED
          BY <4>1, <4>2
      <3>5. QED
        BY <1>5, <3>2, <3>4
    <2>4. QED
      BY <2>2, <2>3
  <1>9. \A u \in Repeatable(long) : u \in R /\ u # t
    BY <1>2, <1>6
  <1>10. \A u \in Repeatable(acts) : u \in R
    BY <1>5
  <1>11. Repeatable(long) = Repeatable(acts) \ {t}
    BY <1>8, <1>9, <1>10
  <1>12. \A u \in Repeatable(acts) : t >= u
    BY <1>0, <1>10
  <1>13. QED
    BY <1>7, <1>11, <1>12 DEF long, t

-----------------------------------------------------------------------------
(* The steps of the stack.                                                 *)

\* What is taken back, before and after one more entry.
LEMMA TakenBackIs ==
    ASSUME NEW X, NEW acts \in Seq(X), NEW a \in X, RefersBack(acts)
    PROVE  /\ TakenBack(acts) = Pairs(acts, Redoable(acts))
           /\ TakenBack(Append(acts, a)) = Pairs(Append(acts, a), Redoable(Append(acts, a)))
           /\ \A u \in Redoable(acts) : Append(acts, a)[u].refId = acts[u].refId
  <1>1. \A u \in Redoable(acts) : u \in 1..Len(acts)
    BY InForceIs
  <1>2. \A i \in 1..Len(acts) : Append(acts, a)[i] = acts[i]
    OBVIOUS
  <1>3. QED
    BY <1>1, <1>2 DEF TakenBack, Pairs

\* An action that is logged is a step Do of the stack.
LEMMA DoStep ==
    ASSUME NEW X, log \in Seq(X), NEW a \in X, RefersBack(log), a.type # "UNDO",
           log' = Append(log, a)
    PROVE  Promise!Next
  <1> DEFINE n == Len(log)
             long == Append(log, a)
  <1>1. /\ InForce(long) = InForce(log) \cup {n + 1}
        /\ Redoable(long) = Redoable(log)
    BY AfterAction
  <1>2. TakenBack(long) = TakenBack(log)
    <2>1. /\ TakenBack(log) = Pairs(log, Redoable(log))
          /\ TakenBack(long) = Pairs(long, Redoable(long))
          /\ \A u \in Redoable(log) : long[u].refId = log[u].refId
      BY TakenBackIs
    <2> HIDE DEF long
    <2>2. QED
      BY <1>1, <2>1 DEF Pairs
  <1>3. RedoStack(long) = <<>>
    <2>1. long \in Seq(X) /\ Repeatable(long) = {}
      BY ActionEndsRedo
    <2>2. QED
      BY <2>1, EmptyStack
  <1>4. n \in Nat /\ (\A d \in InForce(log) : d \in 1..n) /\ log' = long
    BY InForceIs
  <1> HIDE DEF n, long
  <1>5. \A d \in InForce(log) : n + 1 > d
    BY <1>4
  <1>6. Promise!Do(n + 1)
    BY <1>1, <1>2, <1>3, <1>4, <1>5 DEF Promise!Do
  <1>7. n + 1 \in InForce(long) \ InForce(log)
    BY <1>1, <1>4
  <1>8. QED
    BY <1>4, <1>6, <1>7 DEF Promise!Next

\* The UNDO of an action, in force or not, is a step of the stack.
LEMMA UndoStep ==
    ASSUME NEW X, log \in Seq(X), NEW a \in X, RefersBack(log), a.type = "UNDO",
           IsAction(log, a.refId), log' = Append(log, a)
    PROVE  Promise!Next
  <1> DEFINE n == Len(log)
             long == Append(log, a)
             p == <<a.refId, n + 1>>
  <1>1. /\ InForce(long) = InForce(log) \ {a.refId}
        /\ Redoable(long) = Redoable(log) \cup {n + 1}
    BY AfterUndo
  <1>2. /\ n \in Nat /\ (\A u \in Redoable(log) : u \in 1..n) /\ log' = long
        /\ long[n + 1] = a
    BY InForceIs
  <1>3. TakenBack(log) = Pairs(log, Redoable(log)) /\ TakenBack(long) = TakenBack(log) \cup {p}
    <2>1. /\ TakenBack(log) = Pairs(log, Redoable(log))
          /\ TakenBack(long) = Pairs(long, Redoable(long))
          /\ \A u \in Redoable(log) : long[u].refId = log[u].refId
      BY TakenBackIs
    <2> HIDE DEF long, n
    <2>2. QED
      BY <1>1, <1>2, <2>1 DEF Pairs
  <1>4. RedoStack(long) = Append(RedoStack(log), p)
    <2>1. Repeatable(log) \subseteq 1..n
      BY RepeatableIs
    <2>2. Repeatable(long) = Repeatable(log) \cup {n + 1}
      BY UndoAddsRedo
    <2>3. QED
      BY <2>1, <2>2, StackGrows
  <1>5. \/ a.refId \in InForce(log)
        \/ \E u \in Redoable(log) : log[u].refId = a.refId
    BY InForceIs
  <1> HIDE DEF n, long
  <1>6. a.refId \in InForce(log) \cup {q[1] : q \in TakenBack(log)}
    <2>1. CASE a.refId \in InForce(log)
      BY <2>1
    <2>2. CASE \E u \in Redoable(log) : log[u].refId = a.refId
      <3>1. PICK u \in Redoable(log) : log[u].refId = a.refId
        BY <2>2
      <3>2. <<log[u].refId, u>> \in TakenBack(log)
        BY <1>3 DEF Pairs
      <3>3. <<log[u].refId, u>>[1] = a.refId
        BY <3>1
      <3>4. QED
        BY <3>2, <3>3
    <2>3. QED
      BY <1>5, <2>1, <2>2
  <1>7. \A q \in TakenBack(log) : n + 1 > q[2]
    <2> SUFFICES ASSUME NEW u \in Redoable(log) PROVE n + 1 > <<log[u].refId, u>>[2]
      BY <1>3 DEF Pairs
    <2>1. u \in 1..n
      BY <1>2
    <2>2. QED
      BY <1>2, <2>1
  <1>8. p[1] = a.refId /\ p[2] = n + 1
    OBVIOUS
  <1>9. p \notin TakenBack(log)
    <2>1. ~(n + 1 > p[2])
      BY <1>2, <1>8
    <2>2. QED
      BY <1>7, <2>1
  <1>10. Promise!Undo(a.refId, n + 1)
    BY <1>1, <1>2, <1>3, <1>4, <1>6, <1>7 DEF Promise!Undo
  <1> HIDE DEF p
  <1>11. p \in TakenBack(long) \ TakenBack(log) /\ Promise!Undo(p[1], p[2])
    BY <1>3, <1>8, <1>9, <1>10
  <1>12. QED
    BY <1>2, <1>11 DEF Promise!Next

\* The UNDO that the redo button records is a step Redo of the stack.
LEMMA RedoStep ==
    ASSUME NEW X, log \in Seq(X), NEW a \in X, RefersBack(log), a.type = "UNDO",
           RedoTarget(log) # 0, a.refId = RedoTarget(log), log' = Append(log, a)
    PROVE  Promise!Next
  <1> DEFINE t == a.refId
             long == Append(log, a)
             x == log[t].refId
             p == <<x, t>>
             s == RedoStack(long)
  <1>1. t \in Redoable(log)
    BY RedoTargetIs
  <1>2. /\ Redoable(long) = Redoable(log) \ {t}
        /\ InForce(long) = IF \E u \in Redoable(log) \ {t} : log[u].refId = x
                           THEN InForce(log) ELSE InForce(log) \cup {x}
    BY <1>1, AfterRedo
  <1>3. /\ TakenBack(log) = Pairs(log, Redoable(log))
        /\ TakenBack(long) = Pairs(log, Redoable(log) \ {t})
    <2>1. /\ TakenBack(log) = Pairs(log, Redoable(log))
          /\ TakenBack(long) = Pairs(long, Redoable(long))
          /\ \A u \in Redoable(log) : long[u].refId = log[u].refId
      BY TakenBackIs
    <2> HIDE DEF long
    <2>2. QED
      BY <1>2, <2>1 DEF Pairs
  <1>4. RedoStack(log) = Append(s, p) /\ \E Y : s \in Seq(Y)
    <2>1. /\ t \in Repeatable(log)
          /\ \A u \in Repeatable(log) : t >= u
          /\ Repeatable(long) = Repeatable(log) \ {t}
      BY RedoTakesRedo
    <2>2. Repeatable(log) \subseteq 1..Len(log)
      BY RepeatableIs
    <2> HIDE DEF t
    <2>3. QED
      BY <2>1, <2>2, StackShrinks
  <1>5. log' = long
    OBVIOUS
  <1> HIDE DEF long, s, x, t
  <1>6. /\ RedoStack(log) # <<>> /\ p = RedoStack(log)[Len(RedoStack(log))]
        /\ s = SubSeq(RedoStack(log), 1, Len(RedoStack(log)) - 1)
    <2>1. PICK Y : s \in Seq(Y)
      BY <1>4
    <2>2. ASSUME NEW Z, NEW z \in Seq(Z), NEW e \in Z
          PROVE  /\ Append(z, e) # <<>> /\ e = Append(z, e)[Len(Append(z, e))]
                 /\ z = SubSeq(Append(z, e), 1, Len(Append(z, e)) - 1)
      OBVIOUS
    <2>3. s \in Seq(Y \cup {p}) /\ p \in Y \cup {p}
      BY <2>1
    <2>4. QED
      BY <1>4, <2>2, <2>3
  <1>7. p[1] = x /\ p[2] = t
    OBVIOUS
  <1>8. \A q \in Pairs(log, Redoable(log)) : q = p \/ q \in Pairs(log, Redoable(log) \ {t})
    BY DEF Pairs, x
  <1>9. \A q \in Pairs(log, Redoable(log) \ {t}) : q # p /\ q \in Pairs(log, Redoable(log))
    BY DEF Pairs
  <1>10. p \in Pairs(log, Redoable(log))
    BY <1>1 DEF Pairs, x
  <1>11. TakenBack(long) = TakenBack(log) \ {p}
    BY <1>3, <1>8, <1>9
  <1>12. (\E q \in TakenBack(long) : q[1] = p[1]) <=> \E u \in Redoable(log) \ {t} : log[u].refId = x
    <2>1. \A u \in Redoable(log) \ {t} : /\ <<log[u].refId, u>> \in TakenBack(long)
                                         /\ <<log[u].refId, u>>[1] = log[u].refId
      BY <1>3 DEF Pairs
    <2>2. ASSUME NEW q \in TakenBack(long)
          PROVE  \E u \in Redoable(log) \ {t} : q[1] = log[u].refId
      BY <1>3 DEF Pairs
    <2>3. QED
      BY <1>7, <2>1, <2>2
  <1>13. InForce(long) = IF \E q \in TakenBack(long) : q[1] = p[1]
                         THEN InForce(log) ELSE InForce(log) \cup {p[1]}
    BY <1>2, <1>7, <1>12
  <1>14. p \in TakenBack(log) \ TakenBack(long)
    BY <1>3, <1>10, <1>11
  <1>15. RedoStack(long) = s
    BY DEF s
  <1> HIDE DEF p
  <1>16. Promise!Redo(p)
    BY <1>5, <1>6, <1>11, <1>13, <1>15 DEF Promise!Redo
  <1>17. QED
    BY <1>5, <1>14, <1>16 DEF Promise!Next

-----------------------------------------------------------------------------
(* What the reducer does with the marks in the pitches.                    *)

Marked(g, S) == /\ "events" \in DOMAIN g
                /\ \A k \in DOMAIN g.events : KnownMarks(g.events[k], S)
                /\ {"roster", "columns"} \subseteq DOMAIN g /\ AreLineups(g.roster)

Kept(g, h) == /\ "events" \in DOMAIN h /\ h.events = g.events
              /\ {"roster", "columns"} \subseteq DOMAIN h /\ h.roster = g.roster

\* An event with the same pitches.
LEMMA SamePitches ==
    ASSUME NEW e, NEW S, KnownMarks(e, S),
           NEW f, DOMAIN e \subseteq DOMAIN f, f.pitches = e.pitches
    PROVE  KnownMarks(f, S)
  BY DEF KnownMarks

\* One pitch or marker more.
LEMMA OnePitchMore ==
    ASSUME NEW e, NEW S, KnownMarks(e, S), NEW p, p.refId \in S,
           NEW f, DOMAIN e \subseteq DOMAIN f, f.pitches = Append(e.pitches, p)
    PROVE  KnownMarks(f, S)
  <1> DEFINE s == e.pitches
             t == Append(s, p)
             R == Range(s)
  <1>1. s \in Seq(R) /\ \A q \in R : q.refId \in S
    BY DEF KnownMarks, IsList
  <1>2. R = {s[i] : i \in DOMAIN s} /\ Range(t) = {t[i] : i \in DOMAIN t}
    BY DEF Range
  <1> HIDE DEF s, R
  <1>3. /\ DOMAIN s = 1..Len(s) /\ DOMAIN t = 1..Len(s) + 1 /\ Len(s) \in Nat
        /\ \A i \in 1..Len(s) : t[i] = s[i] /\ i \in 1..Len(s) + 1
        /\ t[Len(s) + 1] = p /\ Len(s) + 1 \in 1..Len(s) + 1
        /\ t \in Seq(R \cup {p})
        /\ \A i \in 1..Len(s) + 1 : i \in 1..Len(s) \/ i = Len(s) + 1
    BY <1>1
  <1> HIDE DEF t
  <1>4. Range(t) = R \cup {p}
    <2>1. \A q \in R \cup {p} : q \in Range(t)
      BY <1>2, <1>3
    <2>2. \A q \in Range(t) : q \in R \cup {p}
      BY <1>2, <1>3
    <2>3. QED
      BY <2>1, <2>2
  <1>5. t \in Seq(Range(t)) /\ \A q \in Range(t) : q.refId \in S
    BY <1>1, <1>3, <1>4
  <1>6. f.pitches = t
    BY DEF s, t
  <1>7. QED
    BY <1>5, <1>6 DEF KnownMarks, IsList

\* An event without pitches has no marks.
LEMMA NoPitchesKnown ==
    ASSUME NEW S, NEW f, EventFields \subseteq DOMAIN f, f.pitches = <<>>
    PROVE  KnownMarks(f, S)
  <1>1. Range(<<>>) = {}
    BY DEF Range
  <1>2. \A Y : <<>> \in Seq(Y)
    OBVIOUS
  <1>3. QED
    BY <1>1, <1>2 DEF KnownMarks, IsList

LEMMA EmptyEventKnown ==
    ASSUME NEW S, NEW pid PROVE KnownMarks(EmptyEvent(pid), S)
  <1>1. EventFields \subseteq DOMAIN EmptyEvent(pid) /\ EmptyEvent(pid).pitches = <<>>
    BY DEF EmptyEvent, EventFields
  <1>2. QED
    BY <1>1, NoPitchesKnown

\* The event of a cell, recorded or new.
LEMMA EventAtKnown ==
    ASSUME NEW S, NEW g, Marked(g, S), NEW key, NEW pid
    PROVE  KnownMarks(EventAt(g, key, pid), S)
  BY EmptyEventKnown DEF EventAt, Marked

\* More is known of a longer log.
LEMMA KnownMore ==
    ASSUME NEW S, NEW T, S \subseteq T
    PROVE  /\ \A e : KnownMarks(e, S) => KnownMarks(e, T)
           /\ \A g : Marked(g, S) => Marked(g, T)
           /\ \A a : IsHeld(a, S) => IsHeld(a, T)
  <1>1. \A e : KnownMarks(e, S) => KnownMarks(e, T)
    BY DEF KnownMarks
  <1>2. QED
    BY <1>1 DEF Marked, IsHeld

\* A game with the same events and lineups.
LEMMA SameEventsMarked ==
    ASSUME NEW S, NEW g, Marked(g, S),
           NEW h, Kept(g, h)
    PROVE  Marked(h, S)
  BY DEF Marked, Kept

\* What PutEvent replaces.
LEMMA PutEventIs ==
    ASSUME NEW g, "events" \in DOMAIN g, NEW key, NEW event
    PROVE  /\ DOMAIN PutEvent(g, key, event) = DOMAIN g
           /\ "events" \in DOMAIN PutEvent(g, key, event)
           /\ PutEvent(g, key, event).events
                = [k \in DOMAIN g.events \cup {key} |-> IF k = key THEN event ELSE g.events[k]]
           /\ \A x \in DOMAIN g : x # "events" => PutEvent(g, key, event)[x] = g[x]
  BY DEF PutEvent

\* A cell whose marks are known is put into the game.
LEMMA PutEventMarked ==
    ASSUME NEW S, NEW g, Marked(g, S), NEW key, NEW event, KnownMarks(event, S)
    PROVE  Marked(PutEvent(g, key, event), S)
  <1> DEFINE h == PutEvent(g, key, event)
  <1>1. /\ "events" \in DOMAIN h
        /\ h.events = [k \in DOMAIN g.events \cup {key} |->
                         IF k = key THEN event ELSE g.events[k]]
        /\ {"roster", "columns"} \subseteq DOMAIN h /\ h.roster = g.roster
    BY PutEventIs DEF Marked
  <1> HIDE DEF h
  <1>2. QED
    BY <1>1 DEF Marked, h

\* Cells are dropped.
LEMMA DropEventsMarked ==
    ASSUME NEW S, NEW g, Marked(g, S), NEW keys
    PROVE  Marked(DropEvents(g, keys), S)
  <1> DEFINE h == DropEvents(g, keys)
  <1>1. /\ "events" \in DOMAIN h
        /\ h.events = [k \in DOMAIN g.events \ keys |-> g.events[k]]
        /\ {"roster", "columns"} \subseteq DOMAIN h /\ h.roster = g.roster
    BY DEF DropEvents, Marked
  <1> HIDE DEF h
  <1>2. QED
    BY <1>1 DEF Marked, h

\* A record with a field replaced.
LEMMA FieldReplaced ==
    ASSUME NEW S, NEW g, Marked(g, S), NEW f, f # "events", f # "roster", NEW v
    PROVE  Marked([g EXCEPT ![f] = v], S)
  <1>1. Kept(g, [g EXCEPT ![f] = v])
    BY DEF Marked, Kept
  <1>2. QED
    BY <1>1, SameEventsMarked

\* Every action of the reducer keeps the marks known, one lemma for each.
LEMMA GameStartMarked ==
    ASSUME NEW S, NEW g, Marked(g, S), NEW a PROVE Marked(ApplyGameStart(g, a), S)
  <1> DEFINE h == ApplyGameStart(g, a)
             slots(t) == [i \in 1..Slots |-> [starter |-> a.rosters[t][i],
                             current |-> a.rosters[t][i], history |-> <<>>]]
  <1>1. /\ "events" \in DOMAIN h /\ h.events = g.events
        /\ {"roster", "columns"} \subseteq DOMAIN h /\ h.roster = [t \in Team |-> slots(t)]
    BY DEF ApplyGameStart, Marked
  <1>2. ASSUME NEW t \in Team PROVE IsList(slots(t))
    <2>1. Slots \in Nat
      BY ReducerConstants
    <2>2. QED
      BY <2>1 DEF IsList, Range
  <1> HIDE DEF h, slots
  <1>3. QED
    BY <1>1, <1>2 DEF Marked, AreLineups, h

LEMMA GameImportMarked ==
    ASSUME NEW S, NEW g, Marked(g, S), NEW a, a.type = "GAME_IMPORT", IsHeld(a, S)
    PROVE  Marked(ApplyGameImport(g, a), S)
  <1> DEFINE h == ApplyGameImport(g, a)
  <1>1. /\ "events" \in DOMAIN h
        /\ h.events = IF "events" \in DOMAIN a.game THEN a.game.events ELSE g.events
        /\ {"roster", "columns"} \subseteq DOMAIN h
        /\ h.roster = IF "roster" \in DOMAIN a.game THEN a.game.roster ELSE g.roster
    BY DEF ApplyGameImport, Over, Marked
  <1> HIDE DEF h
  <1>2. /\ "events" \in DOMAIN a.game =>
             \A k \in DOMAIN a.game.events : KnownMarks(a.game.events[k], S)
        /\ "roster" \in DOMAIN a.game => AreLineups(a.game.roster)
    BY DEF IsHeld
  <1>3. QED
    BY <1>1, <1>2 DEF Marked, h

LEMMA MetadataUpdateMarked ==
    ASSUME NEW S, NEW g, Marked(g, S), NEW a PROVE Marked(ApplyGameMetadataUpdate(g, a), S)
  <1> DEFINE h == ApplyGameMetadataUpdate(g, a)
  <1>1. Kept(g, h)
    BY DEF ApplyGameMetadataUpdate, Marked, Kept
  <1> HIDE DEF h
  <1>2. QED
    BY <1>1, SameEventsMarked DEF h

LEMMA GameFinalizeMarked ==
    ASSUME NEW S, NEW g, Marked(g, S) PROVE Marked(ApplyGameFinalize(g), S)
  BY FieldReplaced DEF ApplyGameFinalize

LEMMA LineupUpdateMarked ==
    ASSUME NEW S, NEW g, Marked(g, S), NEW a, IsList(a.roster)
    PROVE  Marked(ApplyLineupUpdate(g, a), S)
  <1> DEFINE h == ApplyLineupUpdate(g, a)
  <1>1. /\ "events" \in DOMAIN h /\ h.events = g.events
        /\ {"roster", "columns"} \subseteq DOMAIN h /\ h.roster = [g.roster EXCEPT ![a.team] = a.roster]
    BY DEF ApplyLineupUpdate, Marked
  <1> HIDE DEF h
  <1>2. ASSUME NEW t \in Team PROVE t \in DOMAIN h.roster /\ IsList(h.roster[t])
    <2>1. t \in DOMAIN g.roster /\ IsList(g.roster[t])
      BY DEF Marked, AreLineups
    <2>2. QED
      BY <1>1, <2>1
  <1>3. QED
    BY <1>1, <1>2 DEF Marked, AreLineups, h

LEMMA PitcherUpdateMarked ==
    ASSUME NEW S, NEW g, Marked(g, S), NEW a PROVE Marked(ApplyPitcherUpdate(g, a), S)
  <1> DEFINE h == ApplyPitcherUpdate(g, a)
  <1>1. Kept(g, h)
    BY DEF ApplyPitcherUpdate, Marked, Kept
  <1> HIDE DEF h
  <1>2. QED
    BY <1>1, SameEventsMarked DEF h

LEMMA ScoreOverrideMarked ==
    ASSUME NEW S, NEW g, Marked(g, S), NEW a PROVE Marked(ApplyScoreOverride(g, a), S)
  <1> DEFINE v == IF a.score = "" THEN [i \in DOMAIN g.overrides[a.team] \ {a.inning} |-> g.overrides[a.team][i]]
                  ELSE Over([i \in {a.inning} |-> a.score], g.overrides[a.team])
             h == [g EXCEPT !.overrides = [@ EXCEPT ![a.team] = v]]
  <1>1. ApplyScoreOverride(g, a) = h
    BY Zenon DEF ApplyScoreOverride
  <1> HIDE DEF v
  <1>2. Kept(g, h)
    BY DEF Marked, Kept
  <1> HIDE DEF h
  <1>3. QED
    BY <1>1, <1>2, SameEventsMarked

LEMMA AddInningMarked ==
    ASSUME NEW S, NEW g, Marked(g, S) PROVE Marked(ApplyAddInning(g), S)
  <1> DEFINE h == ApplyAddInning(g)
  <1>1. Kept(g, h)
    BY DEF ApplyAddInning, Marked, Kept
  <1> HIDE DEF h
  <1>2. QED
    BY <1>1, SameEventsMarked DEF h

LEMMA AddColumnMarked ==
    ASSUME NEW S, NEW g, Marked(g, S), NEW a PROVE Marked(ApplyAddColumn(g, a), S)
  <1> DEFINE h == ApplyAddColumn(g, a)
  <1>1. Kept(g, h)
    BY DEF ApplyAddColumn, Marked, Kept
  <1> HIDE DEF h
  <1>2. QED
    BY <1>1, SameEventsMarked DEF h

LEMMA SetInningLeadMarked ==
    ASSUME NEW S, NEW g, Marked(g, S), NEW a PROVE Marked(ApplySetInningLead(g, a), S)
  <1> DEFINE h == ApplySetInningLead(g, a)
  <1>1. Kept(g, h)
    BY DEF ApplySetInningLead, Marked, Kept
  <1> HIDE DEF h
  <1>2. QED
    BY <1>1, SameEventsMarked DEF h

LEMMA RemoveColumnMarked ==
    ASSUME NEW S, NEW g, Marked(g, S), NEW a PROVE Marked(ApplyRemoveColumn(g, a), S)
  <1>1. ASSUME NEW columns, NEW keys
        PROVE  Marked(DropEvents([g EXCEPT !.columns = columns], keys), S)
    BY FieldReplaced, DropEventsMarked
  <1>2. QED
    BY <1>1 DEF ApplyRemoveColumn

LEMMA MovePlayMarked ==
    ASSUME NEW S, NEW g, Marked(g, S), NEW a, KnownMarks(a.event, S)
    PROVE  Marked(ApplyMovePlay(g, a), S)
  <1>1. ASSUME NEW columns PROVE Marked([g EXCEPT !.columns = columns], S)
    BY FieldReplaced
  <1>2. ASSUME NEW h, Marked(h, S)
        PROVE  Marked(DropEvents(PutEvent(h, a.target, a.event), {a.source}), S)
    BY <1>2, PutEventMarked, DropEventsMarked
  <1>3. QED
    BY <1>1, <1>2 DEF ApplyMovePlay

LEMMA ClearDataMarked ==
    ASSUME NEW S, NEW g, Marked(g, S), NEW a PROVE Marked(ApplyClearData(g, a), S)
  BY EmptyEventKnown, PutEventMarked DEF ApplyClearData

\* An event of the game with a field replaced.
LEMMA EventFieldReplaced ==
    ASSUME NEW S, NEW g, Marked(g, S), NEW key \in DOMAIN g.events,
           NEW event, KnownMarks(event, S)
    PROVE  Marked([g EXCEPT !.events = [@ EXCEPT ![key] = event]], S)
  <1> DEFINE h == [g EXCEPT !.events = [@ EXCEPT ![key] = event]]
  <1>1. /\ "events" \in DOMAIN h /\ h.events = [g.events EXCEPT ![key] = event]
        /\ {"roster", "columns"} \subseteq DOMAIN h /\ h.roster = g.roster
    BY DEF Marked
  <1> HIDE DEF h
  <1>2. QED
    BY <1>1 DEF Marked, h

LEMMA RBIEditMarked ==
    ASSUME NEW S, NEW g, Marked(g, S), NEW a PROVE Marked(ApplyRBIEdit(g, a), S)
  <1> DEFINE event == [g.events[a.key] EXCEPT !.rbi = a.credit]
             h == [g EXCEPT !.events = [@ EXCEPT ![a.key] = event]]
  <1>1. ApplyRBIEdit(g, a) = IF a.key \in DOMAIN g.events THEN h ELSE g
    BY Zenon DEF ApplyRBIEdit
  <1>2. ASSUME a.key \in DOMAIN g.events PROVE KnownMarks(event, S)
    <2>1. KnownMarks(g.events[a.key], S)
      BY <1>2 DEF Marked
    <2>2. DOMAIN g.events[a.key] \subseteq DOMAIN event /\ event.pitches = g.events[a.key].pitches
      BY <2>1 DEF KnownMarks
    <2> HIDE DEF event
    <2>3. QED
      BY <2>1, <2>2, SamePitches
  <1> HIDE DEF event
  <1>3. QED
    BY <1>1, <1>2, EventFieldReplaced

LEMMA OutNumUpdateMarked ==
    ASSUME NEW S, NEW g, Marked(g, S), NEW a PROVE Marked(ApplyOutNumUpdate(g, a), S)
  <1> DEFINE event == [g.events[a.key] EXCEPT !.outNum = a.outNum]
             h == [g EXCEPT !.events = [@ EXCEPT ![a.key] = event]]
  <1>1. ApplyOutNumUpdate(g, a) = IF a.key \in DOMAIN g.events THEN h ELSE g
    BY Zenon DEF ApplyOutNumUpdate
  <1>2. ASSUME a.key \in DOMAIN g.events PROVE KnownMarks(event, S)
    <2>1. KnownMarks(g.events[a.key], S)
      BY <1>2 DEF Marked
    <2>2. DOMAIN g.events[a.key] \subseteq DOMAIN event /\ event.pitches = g.events[a.key].pitches
      BY <2>1 DEF KnownMarks
    <2> HIDE DEF event
    <2>3. QED
      BY <2>1, <2>2, SamePitches
  <1> HIDE DEF event
  <1>3. QED
    BY <1>1, <1>2, EventFieldReplaced

LEMMA ManualPathOverrideMarked ==
    ASSUME NEW S, NEW g, Marked(g, S), NEW a, "pitches" \notin DOMAIN a.data
    PROVE  Marked(ApplyManualPathOverride(g, a), S)
  <1> DEFINE e == EventAt(g, a.key, NoPlayer)
             f == Over(a.data, e)
  <1>1. KnownMarks(e, S)
    BY EventAtKnown
  <1>2. DOMAIN e \subseteq DOMAIN f /\ f.pitches = e.pitches
    BY <1>1 DEF Over, KnownMarks, EventFields
  <1> HIDE DEF e, f
  <1>3. KnownMarks(f, S)
    BY <1>1, <1>2, SamePitches
  <1>4. QED
    BY <1>3, PutEventMarked DEF ApplyManualPathOverride, e, f

LEMMA PitchMarked ==
    ASSUME NEW S, 0 \in S, NEW g, Marked(g, S), NEW a PROVE Marked(ApplyPitch(g, a), S)
  <1> DEFINE key == KeyOf(a)
             was == EventAt(g, key, a.batter)
             p == [type |-> a.pitch, code |-> a.code,
                   pitcher |-> g.pitchers[Other(a.team)], refId |-> 0]
             pitches == Append(was.pitches, p)
             event == [was EXCEPT !.pitches = pitches,
                           !.pId = IF @ = NoPlayer THEN a.batter ELSE @,
                           !.balls = CountBalls(pitches),
                           !.strikes = CountStrikes(pitches)]
             walk == [event EXCEPT !.outcome = "BB", !.multi = 1, !.paths[0] = Safe]
             strikeOut == [event EXCEPT
               !.multi = 1,
               !.outcome = IF a.pitch = "strike" /\ a.code = "Called" THEN "Kc" ELSE "K",
               !.outNum = IF a.pitch = "strike" /\ a.code = "Dropped" THEN @
                          ELSE AtMost3(OutsExcluding(g, a.team, a.ctx.i, {key}) + 1)]
  <1>1. KnownMarks(was, S)
    BY EventAtKnown
  <1>2. p.refId \in S
    OBVIOUS
  <1>3. ApplyPitch(g, a) = PutEvent(g, key,
           CASE event.balls >= BallsForWalk -> walk
             [] event.balls < BallsForWalk /\ event.strikes >= StrikesForOut -> strikeOut
             [] OTHER -> event)
    BY DEF ApplyPitch
  <1> HIDE DEF was, p
  <1>4. DOMAIN was \subseteq DOMAIN event /\ event.pitches = pitches
    BY <1>1 DEF KnownMarks
  <1>5. KnownMarks(event, S)
    <2> HIDE DEF event
    <2>1. QED
      BY <1>1, <1>2, <1>4, OnePitchMore
  <1> HIDE DEF event, key
  <1>6. DOMAIN event \subseteq DOMAIN walk /\ walk.pitches = event.pitches
    BY <1>5 DEF KnownMarks
  <1>7. DOMAIN event \subseteq DOMAIN strikeOut /\ strikeOut.pitches = event.pitches
    BY <1>5 DEF KnownMarks
  <1> HIDE DEF walk, strikeOut
  <1>8. KnownMarks(walk, S) /\ KnownMarks(strikeOut, S)
    BY <1>5, <1>6, <1>7, SamePitches
  <1> DEFINE put == CASE event.balls >= BallsForWalk -> walk
             [] event.balls < BallsForWalk /\ event.strikes >= StrikesForOut -> strikeOut
             [] OTHER -> event
  <1>9. put = walk \/ put = strikeOut \/ put = event
    OBVIOUS
  <1>10. ApplyPitch(g, a) = PutEvent(g, key, put)
    BY <1>3
  <1> HIDE DEF put
  <1>11. QED
    BY <1>5, <1>8, <1>9, <1>10, PutEventMarked

\* A slot of a lineup replaced.
LEMMA ListReplaced ==
    ASSUME NEW s, IsList(s), NEW i, NEW v PROVE IsList([s EXCEPT ![i] = v])
  <1> DEFINE R == Range(s)
             t == [s EXCEPT ![i] = v]
  <1>1. s \in Seq(R)
    BY DEF IsList
  <1>2. DOMAIN s = 1..Len(s) /\ Len(s) \in Nat
    BY <1>1
  <1>3. t = [j \in 1..Len(s) |-> t[j]]
    BY <1>2
  <1> HIDE DEF t
  <1>4. \A j \in 1..Len(s) : t[j] \in Range(t)
    BY <1>3 DEF Range
  <1>5. t \in Seq(Range(t))
    BY <1>2, <1>3, <1>4
  <1>6. QED
    BY <1>5 DEF IsList, t

\* One slot of a lineup is replaced.
LEMMA SlotReplaced ==
    ASSUME NEW S, NEW g, Marked(g, S), NEW team, NEW i, NEW v, NEW roster,
           roster = [g.roster EXCEPT ![team] = [@ EXCEPT ![i] = v]]
    PROVE  Marked([g EXCEPT !.roster = roster], S)
  <1> DEFINE h == [g EXCEPT !.roster = roster]
  <1>1. /\ "events" \in DOMAIN h /\ h.events = g.events
        /\ {"roster", "columns"} \subseteq DOMAIN h /\ h.roster = roster
    BY DEF Marked
  <1> HIDE DEF h
  <1>2. ASSUME NEW t \in Team PROVE IsList(roster[t])
    <2>1. IsList(g.roster[t]) /\ IsList([g.roster[t] EXCEPT ![i] = v])
      BY ListReplaced DEF Marked, AreLineups
    <2>2. t \in DOMAIN g.roster
      BY DEF Marked, AreLineups
    <2>3. roster[t] = g.roster[t] \/ roster[t] = [g.roster[t] EXCEPT ![i] = v]
      BY <2>2
    <2>4. QED
      BY <2>1, <2>3
  <1>3. Team \subseteq DOMAIN roster
    BY DEF Marked, AreLineups
  <1>4. QED
    BY <1>1, <1>2, <1>3 DEF Marked, AreLineups, h

LEMMA SubstitutionMarked ==
    ASSUME NEW S, NEW g, Marked(g, S), NEW a, a.id \in S
    PROVE  Marked(ApplySubstitution(g, a), S)
  <1> DEFINE slot == g.roster[a.team][a.index + 1]
             roster == [g.roster EXCEPT ![a.team] = [@ EXCEPT ![a.index + 1] =
              [slot EXCEPT !.history = Append(@, slot.current), !.current = a.player]]]
             h == [g EXCEPT !.roster = roster]
             key == <<a.team, a.index, a.ctx.col>>
             was == EventAt(g, key, a.player)
             p == [type |-> "substitution", code |-> "SUB", pitcher |-> NoPlayer, refId |-> a.id]
             event == [was EXCEPT !.pId = a.player, !.pitches = Append(@, p)]
  <1>1. ApplySubstitution(g, a) = IF a.ctx = <<>> THEN h ELSE PutEvent(h, key, event)
    BY Zenon DEF ApplySubstitution
  <1>2. Marked(h, S)
    <2> HIDE DEF slot
    <2>1. QED
      BY SlotReplaced
  <1> HIDE DEF roster, slot
  <1>3. KnownMarks(was, S)
    BY EventAtKnown
  <1>4. p.refId \in S
    OBVIOUS
  <1> HIDE DEF h, key, was, p
  <1>5. DOMAIN was \subseteq DOMAIN event /\ event.pitches = Append(was.pitches, p)
    BY <1>3 DEF KnownMarks
  <1> HIDE DEF event
  <1>6. KnownMarks(event, S)
    BY <1>3, <1>4, <1>5, OnePitchMore
  <1>7. QED
    BY <1>1, <1>2, <1>6, PutEventMarked

-----------------------------------------------------------------------------
(* The runners of a play or a batch, one after the other.                  *)

\* The recursive functions that MoveRunners and ApplyRunnerBatchUpdate choose.
IsMoving(f, g, team, inning, runners, first, rbi, n) ==
    f = [i \in 0..n |-> IF i = 0 THEN [g |-> g, next |-> first]
                        ELSE MoveRunner(f[i - 1], runners[i], team, inning, rbi)]
IsUpdating(f, start, a, n) ==
    f = [i \in 0..n |-> IF i = 0 THEN start
                        ELSE UpdateRunner(f[i - 1], a.updates[i], a.batter)]

\* The recursive functions that MoveRunners and ApplyRunnerBatchUpdate choose.
LEMMA MovingExists ==
    ASSUME NEW g, NEW team, NEW inning, NEW runners, NEW first, NEW rbi
    PROVE  \A m \in Nat : \E f : IsMoving(f, g, team, inning, runners, first, rbi, m)
  <1> DEFINE S == {m \in Nat : \E f : IsMoving(f, g, team, inning, runners, first, rbi, m)}
             start == [g |-> g, next |-> first]
  <1>0. \A f, m : IsMoving(f, g, team, inning, runners, first, rbi, m)
                    <=> f = [i \in 0..m |-> IF i = 0 THEN start
                               ELSE MoveRunner(f[i - 1], runners[i], team, inning, rbi)]
    BY DEF IsMoving
  <1> HIDE DEF start
  <1>1. 0 \in S
    <2> DEFINE f == [n \in 0..0 |-> start]
    <2>0. f = [i \in 0..0 |-> IF i = 0 THEN start
                 ELSE MoveRunner(f[i - 1], runners[i], team, inning, rbi)]
      OBVIOUS
    <2> HIDE DEF f
    <2>1. IsMoving(f, g, team, inning, runners, first, rbi, 0)
      BY <1>0, <2>0
    <2>2. QED
      BY <2>1
  <1>2. ASSUME NEW m \in Nat, m \in S PROVE m + 1 \in S
    <2>1. PICK f : IsMoving(f, g, team, inning, runners, first, rbi, m)
      BY <1>2
    <2> DEFINE e == MoveRunner(f[m], runners[m + 1], team, inning, rbi)
               h == [n \in 0..m + 1 |-> IF n = m + 1 THEN e ELSE f[n]]
    <2>11. f = [i \in 0..m |-> IF i = 0 THEN start
                       ELSE MoveRunner(f[i - 1], runners[i], team, inning, rbi)]
      BY <1>0, <2>1
    <2>2. /\ f[0] = start
          /\ \A n \in 1..m : f[n] = MoveRunner(f[n - 1], runners[n], team, inning, rbi)
      BY <2>11
    <2> HIDE DEF e
    <2>3. /\ h[0] = start /\ h[m + 1] = e /\ h[m] = f[m]
          /\ \A n \in 1..m : h[n] = f[n] /\ h[n - 1] = f[n - 1]
      BY <2>2
    <2>4. h = [n \in 0..m + 1 |-> h[n]]
      OBVIOUS
    <2> HIDE DEF h
    <2>5. h[m + 1] = MoveRunner(h[m + 1 - 1], runners[m + 1], team, inning, rbi)
      BY <2>3 DEF e
    <2>6. \A n \in 0..m + 1 :
            h[n] = IF n = 0 THEN start
                   ELSE MoveRunner(h[n - 1], runners[n], team, inning, rbi)
      <3>1. \A n \in 0..m + 1 : n = 0 \/ n \in 1..m \/ n = m + 1
        OBVIOUS
      <3>2. QED
        BY <2>2, <2>3, <2>5, <3>1
    <2>7. h = [n \in 0..m + 1 |-> IF n = 0 THEN start
                   ELSE MoveRunner(h[n - 1], runners[n], team, inning, rbi)]
      BY <2>4, <2>6
    <2>8. IsMoving(h, g, team, inning, runners, first, rbi, m + 1)
      BY <1>0, <2>7
    <2>9. QED
      BY <2>8
  <1> HIDE DEF S
  <1>3. \A m \in Nat : m \in S
    BY <1>1, <1>2, SetInduction
  <1>4. QED
    BY <1>3 DEF S

LEMMA UpdatingExists ==
    ASSUME NEW start, NEW a
    PROVE  \A m \in Nat : \E f : IsUpdating(f, start, a, m)
  <1> DEFINE S == {m \in Nat : \E f : IsUpdating(f, start, a, m)}
  <1>1. 0 \in S
    <2> DEFINE f == [n \in 0..0 |-> start]
    <2>1. IsUpdating(f, start, a, 0)
      BY DEF IsUpdating
    <2>2. QED
      BY <2>1
  <1>2. ASSUME NEW m \in Nat, m \in S PROVE m + 1 \in S
    <2>1. PICK f : IsUpdating(f, start, a, m)
      BY <1>2
    <2> DEFINE e == UpdateRunner(f[m], a.updates[m + 1], a.batter)
               h == [n \in 0..m + 1 |-> IF n = m + 1 THEN e ELSE f[n]]
    <2>2. /\ f[0] = start
          /\ \A n \in 1..m : f[n] = UpdateRunner(f[n - 1], a.updates[n], a.batter)
      BY <2>1 DEF IsUpdating
    <2> HIDE DEF e
    <2>3. /\ h[0] = start /\ h[m + 1] = e /\ h[m] = f[m]
          /\ \A n \in 1..m : h[n] = f[n] /\ h[n - 1] = f[n - 1]
      BY <2>2
    <2>4. h = [n \in 0..m + 1 |-> h[n]]
      OBVIOUS
    <2> HIDE DEF h
    <2>5. h[m + 1] = UpdateRunner(h[m + 1 - 1], a.updates[m + 1], a.batter)
      BY <2>3 DEF e
    <2>6. \A n \in 0..m + 1 :
            h[n] = IF n = 0 THEN start ELSE UpdateRunner(h[n - 1], a.updates[n], a.batter)
      <3>1. \A n \in 0..m + 1 : n = 0 \/ n \in 1..m \/ n = m + 1
        OBVIOUS
      <3>2. QED
        BY <2>2, <2>3, <2>5, <3>1
    <2>7. IsUpdating(h, start, a, m + 1)
      BY <2>4, <2>6 DEF IsUpdating
    <2>8. QED
      BY <2>7
  <1> HIDE DEF S
  <1>3. \A m \in Nat : m \in S
    BY <1>1, <1>2, SetInduction
  <1>4. QED
    BY <1>3 DEF S

\* One runner after the other, then the plays that move them.
LEMMA MoveRunnerMarked ==
    ASSUME NEW S, NEW acc, Marked(acc.g, S), NEW r, NEW team, NEW inning, NEW rbi
    PROVE  Marked(MoveRunner(acc, r, team, inning, rbi).g, S)
  <1> DEFINE e == acc.g.events[r.key]
             numbered == r.outcome = "Out" /\ acc.next > 0
             n == IF r.outcome # "Out" THEN e.outNum
                  ELSE IF numbered THEN acc.next
                  ELSE IF inning = 0 THEN e.outNum
                  ELSE AtMost3(OutsExcluding(acc.g, team, inning, {r.key}) + 1)
             f == [e EXCEPT !.paths = RunnerPaths(@, r.base, r.outcome),
                            !.outNum = n,
                            !.rbi = IF r.outcome = "Score" /\ rbi # NoPlayer THEN rbi ELSE @]
             next == IF numbered THEN acc.next + 1 ELSE acc.next
  <1>1. MoveRunner(acc, r, team, inning, rbi)
          = IF r.key \notin DOMAIN acc.g.events THEN acc
            ELSE [g |-> PutEvent(acc.g, r.key, f), next |-> next]
    BY DEF MoveRunner
  <1> HIDE DEF n, next
  <1>2. ASSUME r.key \in DOMAIN acc.g.events PROVE KnownMarks(f, S)
    <2>1. KnownMarks(e, S)
      BY <1>2 DEF Marked
    <2>2. DOMAIN e \subseteq DOMAIN f /\ f.pitches = e.pitches
      BY <2>1 DEF KnownMarks
    <2> HIDE DEF e, f
    <2>3. QED
      BY <2>1, <2>2, SamePitches
  <1> HIDE DEF f
  <1>3. CASE r.key \notin DOMAIN acc.g.events
    BY <1>1, <1>3
  <1>4. CASE r.key \in DOMAIN acc.g.events
    <2>1. Marked(PutEvent(acc.g, r.key, f), S)
      BY <1>2, <1>4, PutEventMarked
    <2>2. MoveRunner(acc, r, team, inning, rbi).g = PutEvent(acc.g, r.key, f)
      BY <1>1, <1>4
    <2>3. QED
      BY <2>1, <2>2
  <1>5. QED
    BY <1>3, <1>4

LEMMA MoveRunnersMarked ==
    ASSUME NEW S, NEW g, Marked(g, S), NEW team, NEW inning, NEW runners,
           Len(runners) \in Nat, NEW first, NEW rbi
    PROVE  Marked(MoveRunners(g, team, inning, runners, first, rbi), S)
  <1> DEFINE m == Len(runners)
             f == CHOOSE f : IsMoving(f, g, team, inning, runners, first, rbi, m)
             T == {n \in Nat : n <= m => Marked(f[n].g, S)}
  <1>1. IsMoving(f, g, team, inning, runners, first, rbi, m)
    BY MovingExists
  <1>2. MoveRunners(g, team, inning, runners, first, rbi) = f[m].g
    BY DEF MoveRunners, IsMoving
  <1> HIDE DEF f
  <1>3. /\ f[0].g = g
        /\ \A n \in 1..m : f[n] = MoveRunner(f[n - 1], runners[n], team, inning, rbi)
    BY <1>1 DEF IsMoving
  <1>4. 0 \in T
    BY <1>3
  <1>5. ASSUME NEW n \in Nat, n \in T PROVE n + 1 \in T
    <2> SUFFICES ASSUME n + 1 <= m PROVE Marked(f[n + 1].g, S)
      OBVIOUS
    <2>1. n + 1 \in 1..m /\ n + 1 - 1 = n
      OBVIOUS
    <2>2. Marked(f[n].g, S)
      BY <1>5
    <2>3. f[n + 1] = MoveRunner(f[n], runners[n + 1], team, inning, rbi)
      BY <1>3, <2>1
    <2>4. QED
      BY <2>2, <2>3, MoveRunnerMarked
  <1> HIDE DEF T
  <1>6. m \in T
    BY <1>4, <1>5, SetInduction
  <1>7. QED
    BY <1>2, <1>6 DEF T

LEMMA UpdateRunnerMarked ==
    ASSUME NEW S, NEW acc, "g" \in DOMAIN acc, Marked(acc.g, S), NEW u, NEW batter
    PROVE  /\ "g" \in DOMAIN UpdateRunner(acc, u, batter)
           /\ Marked(UpdateRunner(acc, u, batter).g, S)
  <1> DEFINE e == EventAt(acc.g, u.key, batter)
             p == u.base + 1
             event(way, n) == [e EXCEPT !.paths[p] = way, !.info[p] = u.action, !.outNum = n]
             put(way, n) == PutEvent(acc.g, u.key, event(way, n))
  <1>1. UpdateRunner(acc, u, batter)
          = IF p <= 3 /\ u.action \in SafeActions
            THEN [acc EXCEPT !.g = put(Safe, e.outNum)]
            ELSE IF p <= 3 /\ u.action \in OutActions
            THEN [g |-> put(Out, AtMost3(acc.outs + 1)), outs |-> acc.outs + 1]
            ELSE [acc EXCEPT !.g = PutEvent(acc.g, u.key, e)]
    BY DEF UpdateRunner
  <1>2. KnownMarks(e, S)
    BY EventAtKnown
  <1> HIDE DEF e, p
  <1>3. ASSUME NEW way, NEW n PROVE Marked(put(way, n), S)
    <2>1. DOMAIN e \subseteq DOMAIN event(way, n) /\ event(way, n).pitches = e.pitches
      BY <1>2 DEF KnownMarks
    <2> HIDE DEF event
    <2>2. KnownMarks(event(way, n), S)
      BY <1>2, <2>1, SamePitches
    <2>3. QED
      BY <2>2, PutEventMarked
  <1>4. Marked(PutEvent(acc.g, u.key, e), S)
    BY <1>2, PutEventMarked
  <1> HIDE DEF put
  <1>5. ASSUME NEW h, Marked(h, S)
        PROVE  /\ "g" \in DOMAIN [acc EXCEPT !.g = h] /\ [acc EXCEPT !.g = h].g = h
    OBVIOUS
  <1>6. CASE p <= 3 /\ u.action \in SafeActions
    BY <1>1, <1>3, <1>5, <1>6
  <1>7. CASE ~(p <= 3 /\ u.action \in SafeActions) /\ p <= 3 /\ u.action \in OutActions
    BY <1>1, <1>3, <1>7
  <1>8. CASE ~(p <= 3 /\ u.action \in SafeActions) /\ ~(p <= 3 /\ u.action \in OutActions)
    BY <1>1, <1>4, <1>5, <1>8
  <1>9. QED
    BY <1>6, <1>7, <1>8

LEMMA RunnerBatchMarked ==
    ASSUME NEW S, NEW g, Marked(g, S), NEW a, Len(a.updates) \in Nat
    PROVE  Marked(ApplyRunnerBatchUpdate(g, a), S)
  <1> DEFINE m == Len(a.updates)
             keys == {u.key : u \in Range(a.updates)}
             start == [g |-> g, outs |-> OutsExcluding(g, a.team, a.ctx.i, keys)]
             f == CHOOSE f : IsUpdating(f, start, a, m)
             T == {n \in Nat : n <= m => "g" \in DOMAIN f[n] /\ Marked(f[n].g, S)}
  <1>1. IsUpdating(f, start, a, m)
    BY UpdatingExists
  <1>2. ApplyRunnerBatchUpdate(g, a) = f[m].g
    BY DEF ApplyRunnerBatchUpdate, IsUpdating
  <1>3. start.g = g /\ "g" \in DOMAIN start
    OBVIOUS
  <1> HIDE DEF f, start
  <1>4. /\ f[0] = start
        /\ \A n \in 1..m : f[n] = UpdateRunner(f[n - 1], a.updates[n], a.batter)
    BY <1>1 DEF IsUpdating
  <1>5. 0 \in T
    BY <1>3, <1>4
  <1>6. ASSUME NEW n \in Nat, n \in T PROVE n + 1 \in T
    <2> SUFFICES ASSUME n + 1 <= m
                 PROVE  "g" \in DOMAIN f[n + 1] /\ Marked(f[n + 1].g, S)
      OBVIOUS
    <2>1. n + 1 \in 1..m /\ n + 1 - 1 = n
      OBVIOUS
    <2>2. "g" \in DOMAIN f[n] /\ Marked(f[n].g, S)
      BY <1>6
    <2>3. f[n + 1] = UpdateRunner(f[n], a.updates[n + 1], a.batter)
      BY <1>4, <2>1
    <2>4. QED
      BY <2>2, <2>3, UpdateRunnerMarked
  <1> HIDE DEF T
  <1>7. m \in T
    BY <1>5, <1>6, SetInduction
  <1>8. QED
    BY <1>2, <1>7 DEF T

LEMMA PlayResultMarked ==
    ASSUME NEW S, NEW g, Marked(g, S), NEW a, IsList(a.runners)
    PROVE  Marked(ApplyPlayResult(g, a), S)
  <1> DEFINE key == KeyOf(a)
             bip == a.bip
             was == EventAt(g, key, a.batter)
             batterOut == bip.res # "Safe"
             runnersOut == OutsIn(a.runners)
             outs == runnersOut + (IF batterOut THEN 1 ELSE 0)
             before == OutsExcluding(g, a.team, a.ctx.i, {key})
             outNum == IF ~batterOut THEN 0
                       ELSE AtMost3(before + (IF AirOut(bip) THEN 1 ELSE outs))
             event == [was EXCEPT
               !.pId = IF @ = NoPlayer THEN a.batter ELSE @,
               !.bip = bip, !.outNum = outNum,
               !.outcome = IF OutcomeOf(bip) = "" /\ outs \in {2, 3} THEN "G" ELSE OutcomeOf(bip),
               !.multi = IF outs \in {2, 3} THEN outs ELSE 1,
               !.paths = BatterPaths(bip, @),
               !.rbi = IF bip.res = "Safe" /\ bip.base = "Home" /\ OutcomeOf(bip) # "E"
                          /\ a.batter # NoPlayer THEN a.batter ELSE @]
             first == IF ~AirOut(bip) /\ outNum > 0 /\ runnersOut > 0
                      THEN outNum - runnersOut ELSE 0
             credit == IF bip.res = "Safe" \/ outs \notin {2, 3} THEN a.batter ELSE NoPlayer
  <1>1. ApplyPlayResult(g, a)
          = MoveRunners(PutEvent(g, key, event), a.team, a.ctx.i, a.runners, first, credit)
    BY Zenon DEF ApplyPlayResult
  <1>2. KnownMarks(was, S)
    BY EventAtKnown
  <1> HIDE DEF was, key, outNum, outs, first, credit, bip
  <1>3. DOMAIN was \subseteq DOMAIN event /\ event.pitches = was.pitches
    BY <1>2 DEF KnownMarks
  <1> HIDE DEF event
  <1>4. Marked(PutEvent(g, key, event), S)
    BY <1>2, <1>3, SamePitches, PutEventMarked
  <1>5. Len(a.runners) \in Nat
    BY DEF IsList
  <1>6. QED
    BY <1>1, <1>4, <1>5, MoveRunnersMarked

\* Blanking a note on a base leaves every event where it is, with its pitches.
LEMMA BlankOutsMarked ==
    ASSUME NEW S, NEW g, Marked(g, S), NEW runners
    PROVE  Marked(BlankOuts(g, runners), S)
  <1> DEFINE outs == {<<r.key, r.base + 1>> : r \in {s \in Range(runners) : s.outcome = "Out"}}
             was(k) == g.events[k].info
             info(k) == [p \in DOMAIN was(k) |-> IF <<k, p>> \in outs THEN "" ELSE was(k)[p]]
             blanked == BlankOuts(g, runners)
  <1>1. blanked = [g EXCEPT !.events = [k \in DOMAIN g.events |-> [g.events[k] EXCEPT !.info = info(k)]]]
    BY Zenon DEF BlankOuts
  <1>2. "events" \in DOMAIN g /\ {"roster", "columns"} \subseteq DOMAIN g
    BY DEF Marked
  <1> HIDE DEF info, blanked
  <1>3. /\ "events" \in DOMAIN blanked /\ DOMAIN blanked.events = DOMAIN g.events
        /\ \A k \in DOMAIN g.events : blanked.events[k] = [g.events[k] EXCEPT !.info = info(k)]
        /\ {"roster", "columns"} \subseteq DOMAIN blanked /\ blanked.roster = g.roster
    BY <1>1, <1>2
  <1>4. ASSUME NEW k \in DOMAIN g.events PROVE KnownMarks(blanked.events[k], S)
    <2> DEFINE e == g.events[k]
               f == [e EXCEPT !.info = info(k)]
    <2>1. KnownMarks(e, S)
      BY DEF Marked
    <2>2. DOMAIN e \subseteq DOMAIN f /\ f.pitches = e.pitches
      BY <2>1 DEF KnownMarks
    <2>3. blanked.events[k] = f
      BY <1>3
    <2> HIDE DEF e, f
    <2>4. QED
      BY <2>1, <2>2, <2>3, SamePitches
  <1>5. QED
    BY <1>3, <1>4 DEF Marked, blanked

LEMMA RunnerAdvanceMarked ==
    ASSUME NEW S, NEW g, Marked(g, S), NEW a, IsList(a.runners)
    PROVE  Marked(ApplyRunnerAdvance(g, a), S)
  <1> DEFINE key == KeyOf(a)
             runnersOut == OutsIn(a.runners)
             known == a.ctx # <<>> /\ key \in DOMAIN g.events
             shift == /\ a.sequencing = "RunnersFirst" /\ known
                      /\ g.events[key].outNum > 0 /\ runnersOut > 0
             event == [g.events[key] EXCEPT !.outNum = AtMost3(@ + runnersOut)]
             h == IF shift THEN [g EXCEPT !.events = [@ EXCEPT ![key] = event]] ELSE g
             inning == IF a.ctx = <<>> THEN 0 ELSE a.ctx.i
             first == IF shift THEN g.events[key].outNum ELSE 0
             credit == IF a.rbiEligible THEN a.batter ELSE NoPlayer
             moved == MoveRunners(h, a.team, inning, a.runners, first, credit)
  <1>1. ApplyRunnerAdvance(g, a) = BlankOuts(moved, a.runners)
    BY Zenon DEF ApplyRunnerAdvance
  <1>2. ASSUME key \in DOMAIN g.events PROVE KnownMarks(event, S)
    <2>1. KnownMarks(g.events[key], S)
      BY <1>2 DEF Marked
    <2>2. DOMAIN g.events[key] \subseteq DOMAIN event /\ event.pitches = g.events[key].pitches
      BY <2>1 DEF KnownMarks
    <2> HIDE DEF event
    <2>3. QED
      BY <2>1, <2>2, SamePitches
  <1>3. shift => key \in DOMAIN g.events
    OBVIOUS
  <1> HIDE DEF event, shift, inning, first, credit
  <1>4. Marked(h, S)
    BY <1>2, <1>3, EventFieldReplaced
  <1> HIDE DEF h
  <1>5. Len(a.runners) \in Nat
    BY DEF IsList
  <1>6. Marked(moved, S)
    BY <1>4, <1>5, MoveRunnersMarked
  <1> HIDE DEF moved
  <1>7. QED
    BY <1>1, <1>6, BlankOutsMarked

-----------------------------------------------------------------------------
(* Any action, and a whole log.                                            *)

\* The reducer keeps the marks known, whatever action the log may hold.
LEMMA ReducerMarked ==
    ASSUME NEW S, 0 \in S, NEW g, Marked(g, S), NEW a, IsHeld(a, S),
           a.type # "UNDO", a.id \in S
    PROVE  Marked(GameReducer(g, a), S)
  <1>0. a.type \in ActionTypes
    BY DEF IsHeld
  <1>1. CASE a.type = "GAME_IMPORT"
    <2>1. GameReducer(g, a) = ApplyGameImport(g, a)
      BY <1>1 DEF GameReducer
    <2>2. QED
      BY <1>1, <2>1, GameImportMarked
  <1>2. CASE a.type = "GAME_START"
    <2>1. GameReducer(g, a) = ApplyGameStart(g, a)
      BY <1>2 DEF GameReducer
    <2>2. QED
      BY <2>1, GameStartMarked
  <1>3. CASE a.type = "PITCH"
    <2>1. GameReducer(g, a) = ApplyPitch(g, a)
      BY <1>3 DEF GameReducer
    <2>2. QED
      BY <2>1, PitchMarked
  <1>4. CASE a.type = "PLAY_RESULT"
    <2>1. GameReducer(g, a) = ApplyPlayResult(g, a)
      BY <1>4 DEF GameReducer
    <2>2. IsList(a.runners)
      BY <1>4 DEF IsHeld, HasList
    <2>3. QED
      BY <2>1, <2>2, PlayResultMarked
  <1>5. CASE a.type = "RUNNER_ADVANCE"
    <2>1. GameReducer(g, a) = ApplyRunnerAdvance(g, a)
      BY <1>5 DEF GameReducer
    <2>2. IsList(a.runners)
      BY <1>5 DEF IsHeld, HasList
    <2>3. QED
      BY <2>1, <2>2, RunnerAdvanceMarked
  <1>6. CASE a.type = "SUBSTITUTION"
    <2>1. GameReducer(g, a) = ApplySubstitution(g, a)
      BY <1>6 DEF GameReducer
    <2>2. QED
      BY <2>1, SubstitutionMarked
  <1>7. CASE a.type = "LINEUP_UPDATE"
    <2>1. GameReducer(g, a) = ApplyLineupUpdate(g, a)
      BY <1>7 DEF GameReducer
    <2>2. IsList(a.roster)
      BY <1>7 DEF IsHeld, HasList
    <2>3. QED
      BY <2>1, <2>2, LineupUpdateMarked
  <1>8. CASE a.type = "SCORE_OVERRIDE"
    <2>1. GameReducer(g, a) = ApplyScoreOverride(g, a)
      BY <1>8 DEF GameReducer
    <2>2. QED
      BY <2>1, ScoreOverrideMarked
  <1>9. CASE a.type = "PITCHER_UPDATE"
    <2>1. GameReducer(g, a) = ApplyPitcherUpdate(g, a)
      BY <1>9 DEF GameReducer
    <2>2. QED
      BY <2>1, PitcherUpdateMarked
  <1>10. CASE a.type = "MOVE_PLAY"
    <2>1. GameReducer(g, a) = ApplyMovePlay(g, a)
      BY <1>10 DEF GameReducer
    <2>2. KnownMarks(a.event, S)
      BY <1>10 DEF IsHeld
    <2>3. QED
      BY <2>1, <2>2, MovePlayMarked
  <1>11. CASE a.type = "CLEAR_DATA"
    <2>1. GameReducer(g, a) = ApplyClearData(g, a)
      BY <1>11 DEF GameReducer
    <2>2. QED
      BY <2>1, ClearDataMarked
  <1>12. CASE a.type = "RUNNER_BATCH_UPDATE"
    <2>1. GameReducer(g, a) = ApplyRunnerBatchUpdate(g, a)
      BY <1>12 DEF GameReducer
    <2>2. IsList(a.updates)
      BY <1>12 DEF IsHeld, HasList
    <2>3. Len(a.updates) \in Nat
      BY <2>2 DEF IsList
    <2>4. QED
      BY <2>1, <2>3, RunnerBatchMarked
  <1>13. CASE a.type = "ADD_INNING"
    <2>1. GameReducer(g, a) = ApplyAddInning(g)
      BY <1>13 DEF GameReducer
    <2>2. QED
      BY <2>1, AddInningMarked
  <1>14. CASE a.type = "ADD_COLUMN"
    <2>1. GameReducer(g, a) = ApplyAddColumn(g, a)
      BY <1>14 DEF GameReducer
    <2>2. QED
      BY <2>1, AddColumnMarked
  <1>15. CASE a.type = "REMOVE_COLUMN"
    <2>1. GameReducer(g, a) = ApplyRemoveColumn(g, a)
      BY <1>15 DEF GameReducer
    <2>2. QED
      BY <2>1, RemoveColumnMarked
  <1>16. CASE a.type = "GAME_METADATA_UPDATE"
    <2>1. GameReducer(g, a) = ApplyGameMetadataUpdate(g, a)
      BY <1>16 DEF GameReducer
    <2>2. QED
      BY <2>1, MetadataUpdateMarked
  <1>17. CASE a.type = "SET_INNING_LEAD"
    <2>1. GameReducer(g, a) = ApplySetInningLead(g, a)
      BY <1>17 DEF GameReducer
    <2>2. QED
      BY <2>1, SetInningLeadMarked
  <1>18. CASE a.type = "GAME_FINALIZE"
    <2>1. GameReducer(g, a) = ApplyGameFinalize(g)
      BY <1>18 DEF GameReducer
    <2>2. QED
      BY <2>1, GameFinalizeMarked
  <1>19. CASE a.type = "RBI_EDIT"
    <2>1. GameReducer(g, a) = ApplyRBIEdit(g, a)
      BY <1>19 DEF GameReducer
    <2>2. QED
      BY <2>1, RBIEditMarked
  <1>20. CASE a.type = "OUT_NUM_UPDATE"
    <2>1. GameReducer(g, a) = ApplyOutNumUpdate(g, a)
      BY <1>20 DEF GameReducer
    <2>2. QED
      BY <2>1, OutNumUpdateMarked
  <1>21. CASE a.type = "MANUAL_PATH_OVERRIDE"
    <2>1. GameReducer(g, a) = ApplyManualPathOverride(g, a)
      BY <1>21 DEF GameReducer
    <2>2. "pitches" \notin DOMAIN a.data
      BY <1>21 DEF IsHeld
    <2>3. QED
      BY <2>1, <2>2, ManualPathOverrideMarked
  <1>22. QED
    BY <1>0, <1>1, <1>2, <1>3, <1>4, <1>5, <1>6, <1>7, <1>8, <1>9, <1>10, <1>11,
       <1>12, <1>13, <1>14, <1>15, <1>16, <1>17, <1>18, <1>19, <1>20, <1>21
       DEF ActionTypes

-----------------------------------------------------------------------------
(* The state of a log.                                                     *)

\* One action of a log, unless it is undone.
OneState(g, acts, U, i) ==
    IF i \in U \/ acts[i].type = "UNDO" THEN g ELSE GameReducer(g, acts[i])

\* The recursive function that ComputeStateFromLog chooses.
IsReducing(f, acts, U, n) ==
    f = [i \in 0..n |-> IF i = 0 THEN InitialState ELSE OneState(f[i - 1], acts, U, i)]

\* The recursive function that ComputeStateFromLog chooses.
LEMMA ReducingExists ==
    ASSUME NEW acts, NEW U
    PROVE  \A m \in Nat : \E f : IsReducing(f, acts, U, m)
  <1> DEFINE S == {m \in Nat : \E f : IsReducing(f, acts, U, m)}
             start == InitialState
  <1>0. \A f, m : IsReducing(f, acts, U, m)
                    <=> f = [i \in 0..m |-> IF i = 0 THEN start ELSE OneState(f[i - 1], acts, U, i)]
    BY DEF IsReducing
  <1> HIDE DEF start
  <1>1. 0 \in S
    <2> DEFINE f == [n \in 0..0 |-> start]
    <2>0. f = [i \in 0..0 |-> IF i = 0 THEN start ELSE OneState(f[i - 1], acts, U, i)]
      OBVIOUS
    <2> HIDE DEF f
    <2>1. IsReducing(f, acts, U, 0)
      BY <1>0, <2>0
    <2>2. QED
      BY <2>1
  <1>2. ASSUME NEW m \in Nat, m \in S PROVE m + 1 \in S
    <2>1. PICK f : IsReducing(f, acts, U, m)
      BY <1>2
    <2> DEFINE e == OneState(f[m], acts, U, m + 1)
               h == [n \in 0..m + 1 |-> IF n = m + 1 THEN e ELSE f[n]]
    <2>11. f = [i \in 0..m |-> IF i = 0 THEN start ELSE OneState(f[i - 1], acts, U, i)]
      BY <1>0, <2>1
    <2>2. f[0] = start /\ \A n \in 1..m : f[n] = OneState(f[n - 1], acts, U, n)
      BY <2>11
    <2> HIDE DEF e
    <2>3. /\ h[0] = start /\ h[m + 1] = e /\ h[m] = f[m]
          /\ \A n \in 1..m : h[n] = f[n] /\ h[n - 1] = f[n - 1]
      BY <2>2
    <2>4. h = [n \in 0..m + 1 |-> h[n]]
      OBVIOUS
    <2> HIDE DEF h
    <2>5. h[m + 1] = OneState(h[m + 1 - 1], acts, U, m + 1)
      BY <2>3 DEF e
    <2>6. \A n \in 0..m + 1 :
            h[n] = IF n = 0 THEN start ELSE OneState(h[n - 1], acts, U, n)
      <3>1. \A n \in 0..m + 1 : n = 0 \/ n \in 1..m \/ n = m + 1
        OBVIOUS
      <3>2. QED
        BY <2>2, <2>3, <2>5, <3>1
    <2>7. h = [n \in 0..m + 1 |-> IF n = 0 THEN start ELSE OneState(h[n - 1], acts, U, n)]
      BY <2>4, <2>6
    <2>8. IsReducing(h, acts, U, m + 1)
      BY <1>0, <2>7
    <2>9. QED
      BY <2>8
  <1> HIDE DEF S
  <1>3. \A m \in Nat : m \in S
    BY <1>1, <1>2, SetInduction
  <1>4. QED
    BY <1>3 DEF S

\* The states after the first actions of a log, up to that of the whole log.
LEMMA StateIs ==
    ASSUME NEW X, NEW acts \in Seq(X)
    PROVE  \E f : /\ f[0] = InitialState /\ ComputeStateFromLog(acts) = f[Len(acts)]
                  /\ \A i \in 1..Len(acts) :
                       f[i] = OneState(f[i - 1], acts, EffectivelyUndone(acts), i)
  <1> DEFINE m == Len(acts)
             U == EffectivelyUndone(acts)
             f == CHOOSE f : IsReducing(f, acts, U, m)
  <1>0. m \in Nat
    OBVIOUS
  <1>1. IsReducing(f, acts, U, m)
    BY <1>0, ReducingExists
  <1>2. ComputeStateFromLog(acts) = f[m]
    BY Zenon DEF ComputeStateFromLog, IsReducing, OneState
  <1> HIDE DEF f, U, m
  <1>3. f[0] = InitialState /\ \A i \in 1..m : f[i] = OneState(f[i - 1], acts, U, i)
    <2> DEFINE start == InitialState
    <2>1. f = [i \in 0..m |-> IF i = 0 THEN start ELSE OneState(f[i - 1], acts, U, i)]
      BY <1>1 DEF IsReducing
    <2> HIDE DEF start
    <2>2. f[0] = start /\ \A i \in 1..m : f[i] = OneState(f[i - 1], acts, U, i)
      BY <1>0, <2>1
    <2>3. QED
      BY <2>2 DEF start
  <1>4. QED
    BY <1>2, <1>3 DEF U, m

\* An action at the end of a log is applied to the state of the log.
LEMMA StateGrows ==
    ASSUME NEW X, NEW acts \in Seq(X), NEW a \in X, RefersBack(acts), a.type # "UNDO"
    PROVE  ComputeStateFromLog(Append(acts, a)) = GameReducer(ComputeStateFromLog(acts), a)
  <1> DEFINE n == Len(acts)
             long == Append(acts, a)
             U == EffectivelyUndone(acts)
  <1>1. /\ long \in Seq(X) /\ Len(long) = n + 1 /\ n \in Nat /\ long[n + 1] = a
        /\ \A i \in 1..n : long[i] = acts[i]
    OBVIOUS
  <1>2. EffectivelyUndone(long) = U
    BY ActionUndoesNothing
  <1>3. n + 1 \notin U
    <2>1. IsUndone(U, acts)
      BY EffectivelyUndoneIs
    <2>2. \A i \in UndoPlaces(acts) : acts[i].refId \in 1..n
      BY <1>1 DEF RefersBack, UndoPlaces
    <2>3. \A r \in U : r \in 1..n
      BY <2>1, <2>2 DEF IsUndone
    <2>4. n + 1 \notin 1..n
      BY <1>1
    <2>5. QED
      BY <2>3, <2>4
  <1>4. PICK f : /\ f[0] = InitialState /\ ComputeStateFromLog(acts) = f[n]
                 /\ \A i \in 1..n : f[i] = OneState(f[i - 1], acts, U, i)
    BY StateIs
  <1> HIDE DEF n
  <1>5. PICK h : /\ h[0] = InitialState /\ ComputeStateFromLog(long) = h[n + 1]
                 /\ \A i \in 1..n + 1 : h[i] = OneState(h[i - 1], long, U, i)
    <2> HIDE DEF long, U
    <2>1. QED
      BY <1>1, <1>2, StateIs
  <1> HIDE DEF long, U
  <1> DEFINE T == {i \in Nat : i <= n => h[i] = f[i]}
  <1>6. 0 \in T
    BY <1>4, <1>5
  <1>7. ASSUME NEW i \in Nat, i \in T PROVE i + 1 \in T
    <2> SUFFICES ASSUME i + 1 <= n PROVE h[i + 1] = f[i + 1]
      OBVIOUS
    <2>1. i + 1 \in 1..n /\ i + 1 \in 1..n + 1 /\ i + 1 - 1 = i /\ h[i] = f[i]
      BY <1>1, <1>7
    <2>2. f[i + 1] = OneState(f[i], acts, U, i + 1) /\ h[i + 1] = OneState(h[i], long, U, i + 1)
      BY <1>4, <1>5, <2>1
    <2>3. long[i + 1] = acts[i + 1]
      BY <1>1, <2>1
    <2>4. QED
      BY <2>1, <2>2, <2>3 DEF OneState
  <1> HIDE DEF T
  <1>8. n \in T
    BY <1>1, <1>6, <1>7, SetInduction
  <1>9. h[n] = f[n]
    BY <1>1, <1>8 DEF T
  <1>10. n + 1 \in 1..n + 1 /\ n + 1 - 1 = n
    BY <1>1
  <1>11. h[n + 1] = OneState(h[n], long, U, n + 1)
    <2>1. h[n + 1] = OneState(h[n + 1 - 1], long, U, n + 1)
      BY <1>1, <1>5, <1>10
    <2>2. QED
      BY <1>10, <2>1
  <1>12. OneState(h[n], long, U, n + 1) = GameReducer(h[n], a)
    BY <1>1, <1>3 DEF OneState
  <1>13. QED
    BY <1>4, <1>5, <1>9, <1>11, <1>12 DEF long

\* The game before any action.
LEMMA InitialMarked == ASSUME NEW S PROVE Marked(InitialState, S)
  <1> DEFINE none == [t \in Team |-> <<>>]
  <1>1. /\ "events" \in DOMAIN InitialState /\ InitialState.events = <<>>
        /\ {"roster", "columns"} \subseteq DOMAIN InitialState /\ InitialState.roster = none
    BY DEF InitialState
  <1>2. AreLineups(none)
    <2>1. Range(<<>>) = {} /\ \A Y : <<>> \in Seq(Y)
      BY DEF Range
    <2>2. IsList(<<>>)
      BY <2>1 DEF IsList
    <2>3. QED
      BY <2>2 DEF AreLineups
  <1>3. DOMAIN <<>> = {}
    OBVIOUS
  <1> HIDE DEF none
  <1>4. QED
    BY <1>1, <1>2, <1>3 DEF Marked

\* Every substitution marked in the state of a log is one of the log.
LEMMA StateMarked ==
    ASSUME NEW acts, IsLog(acts)
    PROVE  Marked(ComputeStateFromLog(acts), Places(acts))
  <1> DEFINE S == Places(acts)
             U == EffectivelyUndone(acts)
             n == Len(acts)
  <1>1. acts \in Seq(Range(acts)) /\ n \in Nat /\ DOMAIN acts = 1..n
    BY DEF IsLog, IsList
  <1>2. PICK f : /\ f[0] = InitialState /\ ComputeStateFromLog(acts) = f[n]
                 /\ \A i \in 1..n : f[i] = OneState(f[i - 1], acts, U, i)
    BY <1>1, StateIs
  <1> HIDE DEF U, n
  <1> DEFINE T == {i \in Nat : i <= n => Marked(f[i], S)}
  <1>3. 0 \in T
    BY <1>2, InitialMarked
  <1>4. ASSUME NEW i \in Nat, i \in T PROVE i + 1 \in T
    <2> SUFFICES ASSUME i + 1 <= n PROVE Marked(f[i + 1], S)
      OBVIOUS
    <2>1. i + 1 \in 1..n /\ i + 1 - 1 = i /\ Marked(f[i], S)
      BY <1>1, <1>4
    <2>2. f[i + 1] = OneState(f[i], acts, U, i + 1)
      BY <1>2, <2>1
    <2>3. CASE i + 1 \in U \/ acts[i + 1].type = "UNDO"
      BY <2>1, <2>2, <2>3 DEF OneState
    <2>4. CASE ~(i + 1 \in U \/ acts[i + 1].type = "UNDO")
      <3>1. f[i + 1] = GameReducer(f[i], acts[i + 1])
        BY <2>2, <2>4 DEF OneState
      <3>2. IsHeld(acts[i + 1], S) /\ acts[i + 1].id = i + 1
        BY <1>1, <2>1 DEF IsLog
      <3>3. i + 1 \in S /\ 0 \in S
        BY <1>1, <2>1, <2>4 DEF Places
      <3> HIDE DEF S
      <3>4. QED
        BY <2>1, <2>4, <3>1, <3>2, <3>3, ReducerMarked
    <2>5. QED
      BY <2>3, <2>4
  <1> HIDE DEF T
  <1>5. n \in T
    BY <1>1, <1>3, <1>4, SetInduction
  <1>6. QED
    BY <1>1, <1>2, <1>5 DEF T

-----------------------------------------------------------------------------
(* A log with one more entry.                                              *)

\* A list stays one with one more element.
LEMMA ListGrows ==
    ASSUME NEW s, IsList(s), NEW p PROVE IsList(Append(s, p))
  <1> DEFINE t == Append(s, p)
             R == Range(s)
  <1>1. s \in Seq(R)
    BY DEF IsList
  <1>2. R = {s[i] : i \in DOMAIN s} /\ Range(t) = {t[i] : i \in DOMAIN t}
    BY DEF Range
  <1> HIDE DEF R
  <1>3. /\ DOMAIN s = 1..Len(s) /\ DOMAIN t = 1..Len(s) + 1 /\ Len(s) \in Nat
        /\ \A i \in 1..Len(s) : t[i] = s[i] /\ i \in 1..Len(s) + 1
        /\ t[Len(s) + 1] = p /\ Len(s) + 1 \in 1..Len(s) + 1
        /\ t \in Seq(R \cup {p})
        /\ \A i \in 1..Len(s) + 1 : i \in 1..Len(s) \/ i = Len(s) + 1
    BY <1>1
  <1> HIDE DEF t
  <1>4. Range(t) = R \cup {p}
    <2>1. \A q \in R \cup {p} : q \in Range(t)
      BY <1>2, <1>3
    <2>2. \A q \in Range(t) : q \in R \cup {p}
      BY <1>2, <1>3
    <2>3. QED
      BY <2>1, <2>2
  <1>5. t \in Seq(Range(t))
    BY <1>3, <1>4
  <1>6. QED
    BY <1>5 DEF IsList, t

\* A record laid over another one.
LEMMA OverIs ==
    ASSUME NEW a, NEW b
    PROVE  /\ DOMAIN Over(a, b) = DOMAIN a \cup DOMAIN b
           /\ \A x \in DOMAIN a : Over(a, b)[x] = a[x]
           /\ \A x \in DOMAIN b \ DOMAIN a : Over(a, b)[x] = b[x]
  BY DEF Over

\* More fields of an action.
LEMMA HeldOver ==
    ASSUME NEW S, NEW a, "type" \in DOMAIN a, IsHeld(a, S), NEW b
    PROVE  Over(a, b).type = a.type /\ IsHeld(Over(a, b), S)
  <1> DEFINE c == Over(a, b)
  <1>1. \A x \in DOMAIN a : x \in DOMAIN c /\ c[x] = a[x]
    BY OverIs
  <1> HIDE DEF c
  <1>2. c.type = a.type
    BY <1>1
  <1>3. \A x : HasList(a, x) => HasList(c, x)
    BY <1>1 DEF HasList
  <1>4. IsHeld(c, S)
    <2>1. a.type \in ActionTypes
      BY DEF IsHeld
    <2>2. c.type \in {"PLAY_RESULT", "RUNNER_ADVANCE"} => HasList(c, "runners")
      BY <1>2, <1>3 DEF IsHeld
    <2>3. /\ c.type = "RUNNER_BATCH_UPDATE" => HasList(c, "updates")
          /\ c.type = "LINEUP_UPDATE" => HasList(c, "roster")
      BY <1>2, <1>3 DEF IsHeld
    <2>4. c.type = "MOVE_PLAY" => "event" \in DOMAIN c /\ KnownMarks(c.event, S)
      BY <1>1, <1>2 DEF IsHeld
    <2>5. c.type = "MANUAL_PATH_OVERRIDE" => "data" \in DOMAIN c /\ "pitches" \notin DOMAIN c.data
      BY <1>1, <1>2 DEF IsHeld
    <2>6. c.type = "GAME_IMPORT" => "game" \in DOMAIN c /\ c.game = a.game /\ a.type = "GAME_IMPORT"
      BY <1>1, <1>2 DEF IsHeld
    <2>7. a.type = "GAME_IMPORT" =>
       /\ "events" \in DOMAIN a.game =>
            \A k \in DOMAIN a.game.events : KnownMarks(a.game.events[k], S)
       /\ "roster" \in DOMAIN a.game => AreLineups(a.game.roster)
      BY DEF IsHeld
    <2>8. c.type = "GAME_IMPORT" =>
       /\ "game" \in DOMAIN c
       /\ "events" \in DOMAIN c.game =>
            \A k \in DOMAIN c.game.events : KnownMarks(c.game.events[k], S)
       /\ "roster" \in DOMAIN c.game => AreLineups(c.game.roster)
      BY <2>6, <2>7
    <2>9. QED
      BY <1>2, <2>1, <2>2, <2>3, <2>4, <2>5, <2>8 DEF IsHeld
  <1>5. QED
    BY <1>2, <1>4 DEF c

\* A log is a sequence whose UNDOs refer back.
LEMMA LogIs ==
    ASSUME NEW acts, IsLog(acts)
    PROVE  /\ acts \in Seq(Range(acts)) /\ RefersBack(acts) /\ Len(acts) \in Nat
           /\ 0 \in Places(acts) /\ DOMAIN acts = 1..Len(acts)
           /\ \A r \in Places(acts) : r = 0 \/ IsAction(acts, r)
  <1>1. acts \in Seq(Range(acts))
    BY DEF IsLog, IsList
  <1>2. DOMAIN acts = 1..Len(acts) /\ Len(acts) \in Nat
    BY <1>1
  <1>3. RefersBack(acts)
    BY <1>2 DEF RefersBack, IsLog
  <1>4. QED
    BY <1>1, <1>2, <1>3 DEF Places, IsAction

\* A log stays one with the next entry.
LEMMA LongerLog ==
    ASSUME NEW acts, IsLog(acts), NEW b, b.id = Len(acts) + 1, IsHeld(b, Places(acts)),
           b.type = "UNDO" => b.refId \in 1..Len(acts)
    PROVE  /\ IsLog(Append(acts, b)) /\ Places(acts) \subseteq Places(Append(acts, b))
           /\ b.type # "UNDO" => Len(acts) + 1 \in Places(Append(acts, b))
           /\ IsHeld(b, Places(Append(acts, b)))
  <1> DEFINE n == Len(acts)
             long == Append(acts, b)
  <1>1. acts \in Seq(Range(acts)) /\ IsList(acts)
    BY LogIs DEF IsLog
  <1>2. /\ n \in Nat /\ DOMAIN acts = 1..n /\ DOMAIN long = 1..n + 1
        /\ \A i \in 1..n : long[i] = acts[i] /\ i \in 1..n + 1
        /\ \A i \in 1..n + 1 : i \in 1..n \/ i = n + 1
        /\ long[n + 1] = b /\ n + 1 \in 1..n + 1
    BY <1>1
  <1>3. IsList(long)
    BY <1>1, ListGrows
  <1> HIDE DEF long, n
  <1>4. Places(acts) \subseteq Places(long)
    BY <1>2 DEF Places
  <1>5. b.type # "UNDO" => n + 1 \in Places(long)
    BY <1>2 DEF Places
  <1>6. \A i \in 1..n : /\ acts[i].id = i /\ IsHeld(acts[i], Places(acts))
                        /\ acts[i].type = "UNDO" => acts[i].refId \in 1..i - 1
    BY <1>2 DEF IsLog
  <1>7. \A a : IsHeld(a, Places(acts)) => IsHeld(a, Places(long))
    BY <1>4, KnownMore
  <1>8. ASSUME NEW i \in 1..n + 1
        PROVE  /\ long[i].id = i /\ IsHeld(long[i], Places(long))
               /\ long[i].type = "UNDO" => long[i].refId \in 1..i - 1
    <2>1. CASE i \in 1..n
      BY <1>2, <1>6, <1>7, <2>1
    <2>2. CASE i = n + 1
      <3>1. long[i] = b /\ i - 1 = n
        BY <1>2, <2>2
      <3>2. b.id = n + 1 /\ IsHeld(b, Places(long)) /\ (b.type = "UNDO" => b.refId \in 1..n)
        BY <1>7 DEF n
      <3>3. QED
        BY <2>2, <3>1, <3>2
    <2>3. QED
      BY <1>2, <2>1, <2>2
  <1>9. IsLog(long)
    BY <1>2, <1>3, <1>8 DEF IsLog
  <1>10. QED
    BY <1>4, <1>5, <1>7, <1>9 DEF n, long

-----------------------------------------------------------------------------
(* What the handlers dispatch.                                             *)

Held(a) == /\ "type" \in DOMAIN a /\ "id" \notin DOMAIN a
           /\ a.type # "UNDO" /\ IsHeld(a, Places(log))
Taking(r) == [type |-> "UNDO", refId |-> r]
CanTake(r) == IsAction(log, r) \/ (r = RedoTarget(log) /\ r # 0)
Numbered(a) == Over(a, [id |-> Len(log) + 1])

\* A handler that dispatches at most one action, over the game as it is.
Plain == \/ Quiet
         \/ \E a : Held(a) /\ Dispatch(a)
         \/ \E r : CanTake(r) /\ Dispatch(Taking(r))

\* What it leaves behind.
LogStep == IsLog(log') /\ Places(log) \subseteq Places(log') /\ (log' = log \/ Promise!Next)
Tame == LogStep /\ Marked(game', Places(log'))

\* An action with the id it gets in the log.
LEMMA NumberedIs ==
    ASSUME NEW a, Held(a)
    PROVE  /\ Numbered(a).id = Len(log) + 1 /\ Numbered(a).type = a.type
           /\ Numbered(a).type # "UNDO" /\ IsHeld(Numbered(a), Places(log))
           /\ \A x \in DOMAIN a : x \in DOMAIN Numbered(a) /\ Numbered(a)[x] = a[x]
  <1> DEFINE m == Len(log) + 1
             e == [id |-> m]
  <1>1. "id" \in DOMAIN e /\ e.id = m
    OBVIOUS
  <1> HIDE DEF e, m
  <1>2. Over(a, e).id = m
    <2>1. "id" \in DOMAIN e \ DOMAIN a
      BY <1>1 DEF Held
    <2>2. \A x \in DOMAIN e \ DOMAIN a : Over(a, e)[x] = e[x]
      BY OverIs
    <2>3. QED
      BY <1>1, <2>1, <2>2
  <1>3. Over(a, e).type = a.type /\ IsHeld(Over(a, e), Places(log))
    BY HeldOver DEF Held
  <1>4. \A x \in DOMAIN a : x \in DOMAIN Over(a, e) /\ Over(a, e)[x] = a[x]
    BY OverIs
  <1>5. Numbered(a) = Over(a, e)
    BY DEF Numbered, e, m
  <1>6. QED
    BY <1>2, <1>3, <1>4, <1>5 DEF Held, m

\* An UNDO with the id it gets in the log.
LEMMA TakingIs ==
    ASSUME NEW r
    PROVE  /\ Numbered(Taking(r)).id = Len(log) + 1 /\ Numbered(Taking(r)).type = "UNDO"
           /\ Numbered(Taking(r)).refId = r /\ Taking(r).type = "UNDO"
           /\ IsHeld(Numbered(Taking(r)), Places(log))
  <1> DEFINE e == [id |-> Len(log) + 1]
             t == Taking(r)
  <1>1. "id" \in DOMAIN e /\ e.id = Len(log) + 1
    OBVIOUS
  <1>2. /\ "id" \notin DOMAIN t /\ "type" \in DOMAIN t /\ "refId" \in DOMAIN t
        /\ t.type = "UNDO" /\ t.refId = r
    BY DEF Taking
  <1> HIDE DEF e, t
  <1>3. Numbered(t) = Over(t, e)
    BY DEF Numbered, e
  <1>4. Over(t, e).id = e.id /\ Over(t, e).type = t.type /\ Over(t, e).refId = t.refId
    <2>1. "id" \in DOMAIN e \ DOMAIN t
      BY <1>1, <1>2
    <2>2. /\ \A x \in DOMAIN e \ DOMAIN t : Over(t, e)[x] = e[x]
          /\ \A x \in DOMAIN t : Over(t, e)[x] = t[x]
      BY OverIs
    <2>3. QED
      BY <1>2, <2>1, <2>2
  <1>5. IsHeld(Over(t, e), Places(log))
    BY <1>2, <1>4 DEF IsHeld, ActionTypes
  <1>6. QED
    BY <1>1, <1>2, <1>3, <1>4, <1>5 DEF t

\* What logging an action, and then an UNDO, means for log and stack.
LEMMA ActionLogged ==
    ASSUME IsLog(log), NEW a, Held(a), log' = Append(log, Numbered(a))
    PROVE  LogStep /\ Len(log) + 1 \in Places(log') /\ IsHeld(Numbered(a), Places(log'))
  <1> DEFINE b == Numbered(a)
             X == Range(log) \cup {b}
  <1>1. b.id = Len(log) + 1 /\ b.type # "UNDO" /\ IsHeld(b, Places(log))
    BY NumberedIs
  <1> HIDE DEF b
  <1>2. /\ IsLog(log') /\ Places(log) \subseteq Places(log')
        /\ Len(log) + 1 \in Places(log') /\ IsHeld(b, Places(log'))
    BY <1>1, LongerLog DEF b
  <1>3. log \in Seq(X) /\ b \in X /\ RefersBack(log)
    BY LogIs
  <1> HIDE DEF X
  <1>4. Promise!Next
    BY <1>1, <1>3, DoStep DEF b
  <1>5. QED
    BY <1>2, <1>4 DEF LogStep, b

LEMMA UndoLogged ==
    ASSUME IsLog(log), NEW r, CanTake(r), log' = Append(log, Numbered(Taking(r)))
    PROVE  LogStep
  <1> DEFINE b == Numbered(Taking(r))
             X == Range(log) \cup {b}
  <1>1. b.id = Len(log) + 1 /\ b.type = "UNDO" /\ b.refId = r /\ IsHeld(b, Places(log))
    BY TakingIs
  <1>2. log \in Seq(X) /\ b \in X /\ RefersBack(log)
    BY LogIs
  <1> HIDE DEF X, b
  <1>3. r \in 1..Len(log)
    <2>1. CASE IsAction(log, r)
      BY <2>1 DEF IsAction
    <2>2. CASE r = RedoTarget(log) /\ r # 0
      <3>1. r \in Redoable(log)
        BY <1>2, <2>2, RedoTargetIs
      <3>2. QED
        BY <1>2, <3>1, InForceIs
    <2>3. QED
      BY <2>1, <2>2 DEF CanTake
  <1>4. IsLog(log') /\ Places(log) \subseteq Places(log')
    BY <1>1, <1>3, LongerLog DEF b
  <1>5. Promise!Next
    <2>1. CASE IsAction(log, r)
      BY <1>1, <1>2, <2>1, UndoStep DEF b
    <2>2. CASE r = RedoTarget(log) /\ r # 0
      BY <1>1, <1>2, <2>2, RedoStep DEF b
    <2>3. QED
      BY <2>1, <2>2 DEF CanTake
  <1>6. QED
    BY <1>4, <1>5 DEF LogStep

\* What dispatching does to log and game.
LEMMA DispatchTame ==
    ASSUME IsLog(log), NEW was, Marked(was, Places(log)), NEW a, Held(a), NEW left,
           DispatchOn(was, a, left)
    PROVE  Tame
  <1>1. log' = Append(log, Numbered(a)) /\ game' = GameReducer(was, Numbered(a))
    BY DEF DispatchOn, Numbered, Held
  <1>2. LogStep /\ Len(log) + 1 \in Places(log') /\ IsHeld(Numbered(a), Places(log'))
    BY <1>1, ActionLogged
  <1>3. Marked(was, Places(log'))
    BY <1>2, KnownMore DEF LogStep
  <1>4. 0 \in Places(log')
    BY <1>2, LogIs DEF LogStep
  <1>5. Numbered(a).id = Len(log) + 1 /\ Numbered(a).type # "UNDO"
    BY NumberedIs
  <1>6. QED
    BY <1>1, <1>2, <1>3, <1>4, <1>5, ReducerMarked DEF Tame

LEMMA TakingTame ==
    ASSUME IsLog(log), NEW r, CanTake(r), NEW was, NEW left, DispatchOn(was, Taking(r), left)
    PROVE  Tame
  <1>1. log' = Append(log, Numbered(Taking(r))) /\ game' = ComputeStateFromLog(log')
    BY TakingIs DEF DispatchOn, Numbered
  <1>2. LogStep
    BY <1>1, UndoLogged
  <1>3. QED
    BY <1>1, <1>2, StateMarked DEF Tame, LogStep

LEMMA PlainTame ==
    ASSUME IsLog(log), Marked(game, Places(log)), Plain
    PROVE  Tame
  <1>1. CASE Quiet
    BY <1>1 DEF Quiet, Tame, LogStep
  <1>2. CASE \E a : Held(a) /\ Dispatch(a)
    BY <1>2, DispatchTame DEF Dispatch
  <1>3. CASE \E r : CanTake(r) /\ Dispatch(Taking(r))
    BY <1>3, TakingTame DEF Dispatch
  <1>4. QED
    BY <1>1, <1>2, <1>3 DEF Plain

-----------------------------------------------------------------------------
(* Lists of runners.                                                       *)

\* Lists of none, of one, and two lists in a row.
LEMMA EmptyList == IsList(<<>>)
  <1>1. Range(<<>>) = {} /\ \A Y : <<>> \in Seq(Y)
    BY DEF Range
  <1>2. QED
    BY <1>1 DEF IsList

LEMMA OneList == ASSUME NEW x PROVE IsList(<<x>>)
  <1>1. <<x>> = Append(<<>>, x)
    OBVIOUS
  <1>2. QED
    BY <1>1, EmptyList, ListGrows

\* One value for each element.
LEMMA EachList ==
    ASSUME NEW s, IsList(s), NEW t, t = [i \in DOMAIN s |-> t[i]] PROVE IsList(t)
  <1>1. DOMAIN s = 1..Len(s) /\ Len(s) \in Nat
    BY DEF IsList
  <1>2. t = [i \in 1..Len(s) |-> t[i]]
    BY <1>1
  <1>3. \A j \in 1..Len(s) : t[j] \in Range(t)
    BY <1>2 DEF Range
  <1>4. t \in Seq(Range(t))
    BY <1>1, <1>2, <1>3
  <1>5. QED
    BY <1>4 DEF IsList

LEMMA JoinedList ==
    ASSUME NEW s, IsList(s), NEW t, IsList(t) PROVE IsList(s \o t)
  <1> DEFINE u == s \o t
             X == Range(s) \cup Range(t)
  <1>1. s \in Seq(X) /\ t \in Seq(X)
    <2>1. s \in Seq(Range(s)) /\ t \in Seq(Range(t))
      BY DEF IsList
    <2>2. Range(s) \subseteq X /\ Range(t) \subseteq X
      OBVIOUS
    <2> HIDE DEF X
    <2>3. QED
      BY <2>1, <2>2
  <1> HIDE DEF X
  <1>2. u \in Seq(X)
    BY <1>1
  <1> HIDE DEF u
  <1>3. u = [i \in 1..Len(u) |-> u[i]] /\ Len(u) \in Nat /\ DOMAIN u = 1..Len(u)
    BY <1>2
  <1>4. \A j \in 1..Len(u) : u[j] \in Range(u)
    BY <1>3 DEF Range
  <1>5. u \in Seq(Range(u))
    BY <1>3, <1>4
  <1>6. QED
    BY <1>5 DEF IsList, u

\* The recursive function that Picked chooses.
OnePicked(part, list, places, i) == IF i \in places THEN Append(part, list[i]) ELSE part
IsPicking(f, list, places, n) ==
    f = [i \in 0..n |-> IF i = 0 THEN <<>> ELSE OnePicked(f[i - 1], list, places, i)]

\* The recursive function that Picked chooses.
LEMMA PickingExists ==
    ASSUME NEW list, NEW places
    PROVE  \A m \in Nat : \E f : IsPicking(f, list, places, m)
  <1> DEFINE S == {m \in Nat : \E f : IsPicking(f, list, places, m)}
             start == <<>>
  <1>0. \A f, m : IsPicking(f, list, places, m)
                    <=> f = [i \in 0..m |-> IF i = 0 THEN start
                               ELSE OnePicked(f[i - 1], list, places, i)]
    BY DEF IsPicking
  <1> HIDE DEF start
  <1>1. 0 \in S
    <2> DEFINE f == [n \in 0..0 |-> start]
    <2>0. f = [i \in 0..0 |-> IF i = 0 THEN start ELSE OnePicked(f[i - 1], list, places, i)]
      OBVIOUS
    <2> HIDE DEF f
    <2>1. IsPicking(f, list, places, 0)
      BY <1>0, <2>0
    <2>2. QED
      BY <2>1
  <1>2. ASSUME NEW m \in Nat, m \in S PROVE m + 1 \in S
    <2>1. PICK f : IsPicking(f, list, places, m)
      BY <1>2
    <2> DEFINE e == OnePicked(f[m], list, places, m + 1)
               h == [n \in 0..m + 1 |-> IF n = m + 1 THEN e ELSE f[n]]
    <2>11. f = [i \in 0..m |-> IF i = 0 THEN start ELSE OnePicked(f[i - 1], list, places, i)]
      BY <1>0, <2>1
    <2>2. f[0] = start /\ \A n \in 1..m : f[n] = OnePicked(f[n - 1], list, places, n)
      BY <2>11
    <2> HIDE DEF e
    <2>3. /\ h[0] = start /\ h[m + 1] = e /\ h[m] = f[m]
          /\ \A n \in 1..m : h[n] = f[n] /\ h[n - 1] = f[n - 1]
      BY <2>2
    <2>4. h = [n \in 0..m + 1 |-> h[n]]
      OBVIOUS
    <2> HIDE DEF h
    <2>5. h[m + 1] = OnePicked(h[m + 1 - 1], list, places, m + 1)
      BY <2>3 DEF e
    <2>6. \A n \in 0..m + 1 :
            h[n] = IF n = 0 THEN start ELSE OnePicked(h[n - 1], list, places, n)
      <3>1. \A n \in 0..m + 1 : n = 0 \/ n \in 1..m \/ n = m + 1
        OBVIOUS
      <3>2. QED
        BY <2>2, <2>3, <2>5, <3>1
    <2>7. h = [n \in 0..m + 1 |-> IF n = 0 THEN start
                                  ELSE OnePicked(h[n - 1], list, places, n)]
      BY <2>4, <2>6
    <2>8. IsPicking(h, list, places, m + 1)
      BY <1>0, <2>7
    <2>9. QED
      BY <2>8
  <1> HIDE DEF S
  <1>3. \A m \in Nat : m \in S
    BY <1>1, <1>2, SetInduction
  <1>4. QED
    BY <1>3 DEF S

\* What is picked from a list is a list.
LEMMA PickedList ==
    ASSUME NEW list, IsList(list), NEW places PROVE IsList(Picked(list, places))
  <1> DEFINE m == Len(list)
             f == CHOOSE f : IsPicking(f, list, places, m)
  <1>0. m \in Nat
    BY DEF IsList
  <1>1. IsPicking(f, list, places, m)
    BY <1>0, PickingExists
  <1>2. Picked(list, places) = f[m]
    BY Zenon DEF Picked, IsPicking, OnePicked
  <1> HIDE DEF f, m
  <1>3. f[0] = <<>> /\ \A i \in 1..m : f[i] = OnePicked(f[i - 1], list, places, i)
    <2> DEFINE start == <<>>
    <2>1. f = [i \in 0..m |-> IF i = 0 THEN start ELSE OnePicked(f[i - 1], list, places, i)]
      BY <1>1 DEF IsPicking
    <2> HIDE DEF start
    <2>2. f[0] = start /\ \A i \in 1..m : f[i] = OnePicked(f[i - 1], list, places, i)
      BY <1>0, <2>1
    <2>3. QED
      BY <2>2 DEF start
  <1> DEFINE T == {i \in Nat : i <= m => IsList(f[i])}
  <1>4. 0 \in T
    BY <1>3, EmptyList
  <1>5. ASSUME NEW i \in Nat, i \in T PROVE i + 1 \in T
    <2> SUFFICES ASSUME i + 1 <= m PROVE IsList(f[i + 1])
      OBVIOUS
    <2>1. i + 1 \in 1..m /\ i + 1 - 1 = i /\ IsList(f[i])
      BY <1>0, <1>5
    <2>2. f[i + 1] = OnePicked(f[i], list, places, i + 1)
      BY <1>3, <2>1
    <2>3. f[i + 1] = f[i] \/ f[i + 1] = Append(f[i], list[i + 1])
      BY <2>2 DEF OnePicked
    <2>4. QED
      BY <2>1, <2>3, ListGrows
  <1> HIDE DEF T
  <1>6. m \in T
    BY <1>0, <1>4, <1>5, SetInduction
  <1>7. QED
    BY <1>0, <1>2, <1>6 DEF T

\* The runners on base are a list.
LEMMA RunnersListed ==
    ASSUME NEW g, NEW team, NEW ctx, IsList(g.roster[team])
    PROVE  IsList(GetRunnersOnBase(g, team, ctx))
  <1>1. PICK batters, on0, on1, on2 :
          /\ DOMAIN batters = 1..Len(g.roster[team])
          /\ batters = [i \in 1..Len(g.roster[team]) |-> batters[i]]
          /\ GetRunnersOnBase(g, team, ctx)
               = Picked(batters, on2) \o Picked(batters, on1) \o Picked(batters, on0)
    BY Zenon DEF GetRunnersOnBase
  <1>2. DOMAIN g.roster[team] = 1..Len(g.roster[team])
    BY DEF IsList
  <1>3. IsList(batters)
    <2>1. batters = [i \in DOMAIN g.roster[team] |-> batters[i]]
      BY <1>1, <1>2
    <2>2. QED
      BY <2>1, EachList
  <1>4. /\ IsList(Picked(batters, on0)) /\ IsList(Picked(batters, on1))
        /\ IsList(Picked(batters, on2))
    BY <1>3, PickedList
  <1>5. IsList(Picked(batters, on2) \o Picked(batters, on1))
    BY <1>4, JoinedList
  <1>6. QED
    BY <1>1, <1>4, <1>5, JoinedList

-----------------------------------------------------------------------------
(* The overlay.                                                            *)

UiFields == {"team", "ctx", "view", "menu", "bip", "mode", "pend", "runners", "editing"}
IsUi(u) == /\ DOMAIN u = UiFields
           /\ u.team \in Team /\ IsList(u.runners)
           /\ u.menu # <<>> => u.menu[1] \in 0..3

\* Fields in which IsUi does not look.
LEMMA UiField ==
    ASSUME NEW u, IsUi(u), NEW x \in {"ctx", "view", "bip", "mode", "pend", "editing"}, NEW v
    PROVE  IsUi([u EXCEPT ![x] = v])
  <1> DEFINE w == [u EXCEPT ![x] = v]
  <1>1. DOMAIN w = DOMAIN u /\ \A y \in UiFields : y # x => w[y] = u[y]
    BY DEF IsUi
  <1>2. {"team", "runners", "menu"} \subseteq UiFields \ {x}
    BY DEF UiFields
  <1> HIDE DEF w
  <1>3. w.team = u.team /\ w.runners = u.runners /\ w.menu = u.menu
    BY <1>1, <1>2
  <1>4. IsUi(w)
    BY <1>1, <1>3 DEF IsUi
  <1>5. QED
    BY <1>4 DEF w

\* One field at a time.
LEMMA UiRunners ==
    ASSUME NEW u, IsUi(u), NEW list, IsList(list) PROVE IsUi([u EXCEPT !.runners = list])
  <1> DEFINE w == [u EXCEPT !.runners = list]
  <1>1. /\ DOMAIN w = DOMAIN u /\ w.runners = list /\ w.team = u.team /\ w.menu = u.menu
    BY DEF IsUi, UiFields
  <1> HIDE DEF w
  <1>2. IsUi(w)
    BY <1>1 DEF IsUi
  <1>3. QED
    BY <1>2 DEF w

LEMMA UiTeam ==
    ASSUME NEW u, IsUi(u) PROVE IsUi([u EXCEPT !.team = Other(@)])
  <1> DEFINE w == [u EXCEPT !.team = Other(@)]
  <1>1. /\ DOMAIN w = DOMAIN u /\ w.runners = u.runners /\ w.team = Other(u.team)
        /\ w.menu = u.menu
    BY DEF IsUi, UiFields
  <1> HIDE DEF w
  <1>2. w.team \in Team
    BY <1>1 DEF Other, Team
  <1>3. IsUi(w)
    BY <1>1, <1>2 DEF IsUi
  <1>4. QED
    BY <1>3 DEF w

LEMMA UiMenu ==
    ASSUME NEW u, IsUi(u), NEW menu, menu # <<>> => menu[1] \in 0..3
    PROVE  IsUi([u EXCEPT !.menu = menu])
  <1> DEFINE w == [u EXCEPT !.menu = menu]
  <1>1. /\ DOMAIN w = DOMAIN u /\ w.runners = u.runners /\ w.team = u.team /\ w.menu = menu
    BY DEF IsUi, UiFields
  <1> HIDE DEF w
  <1>2. IsUi(w)
    BY <1>1 DEF IsUi
  <1>3. QED
    BY <1>2 DEF w

\* The views that are left, shown and closed.
LEMMA LeftIs == ASSUME NEW u, IsUi(u) PROVE IsUi(Left(u))
  <1> DEFINE dropped == {"dropped", "commit"} \cap Range(rest) # {}
             r == [u EXCEPT !.runners = <<>>]
             b == [r EXCEPT !.bip = IF dropped THEN @ ELSE <<>>]
  <1>1. Left(u) = [b EXCEPT !.mode = IF dropped THEN @ ELSE "normal"]
    BY Zenon DEF Left
  <1>2. IsUi(r)
    BY EmptyList, UiRunners
  <1> HIDE DEF r, dropped
  <1>3. IsUi(b)
    BY <1>2, UiField
  <1> HIDE DEF b
  <1>4. QED
    BY <1>1, <1>3, UiField

LEMMA ShownIs == ASSUME NEW u, IsUi(u), NEW view PROVE IsUi(Shown(u, view))
  BY UiField DEF Shown

LEMMA ClosedIs == ASSUME NEW u, IsUi(u) PROVE IsUi(Closed(u))
  <1>1. IsUi([Left(u) EXCEPT !.view = "grid"])
    BY LeftIs, UiField
  <1>2. Closed(u) = [[Left(u) EXCEPT !.view = "grid"] EXCEPT !.menu = <<>>]
    BY Zenon DEF Closed
  <1>3. <<>> # <<>> => <<>>[1] \in 0..3
    OBVIOUS
  <1> DEFINE w == [Left(u) EXCEPT !.view = "grid"]
  <1>4. IsUi(w) /\ Closed(u) = [w EXCEPT !.menu = <<>>]
    BY <1>1, <1>2
  <1> HIDE DEF w
  <1>5. QED
    BY <1>3, <1>4, UiMenu

\* The lists of runners the views show.
LEMMA RunnersOnListed ==
    ASSUME NEW S, Marked(game, S), NEW u, IsUi(u) PROVE IsList(RunnersOn(u))
  <1>1. IsList(game.roster[u.team])
    BY DEF Marked, AreLineups, IsUi
  <1>2. QED
    BY <1>1, RunnersListed DEF RunnersOn

LEMMA AdvancesListed ==
    ASSUME NEW runners, IsList(runners), NEW bip, NEW outs
    PROVE  IsList(DefaultAdvances(runners, bip, outs))
  <1>1. DefaultAdvances(runners, bip, outs)
          = [i \in DOMAIN runners |-> DefaultAdvances(runners, bip, outs)[i]]
    BY Zenon DEF DefaultAdvances
  <1>2. QED
    BY <1>1, EachList

LEMMA ListedListed ==
    ASSUME NEW runners, IsList(runners), NEW outcome PROVE IsList(Listed(runners, outcome))
  <1>1. Listed(runners, outcome) = [i \in DOMAIN runners |-> Listed(runners, outcome)[i]]
    BY Zenon DEF Listed
  <1>2. QED
    BY <1>1, EachList

LEMMA UpdatesListed ==
    ASSUME NEW runners, IsList(runners) PROVE IsList(Updates(runners))
  <1>1. Updates(runners) = [i \in DOMAIN runners |-> Updates(runners)[i]]
    BY Zenon DEF Updates
  <1>2. QED
    BY <1>1, EachList

LEMMA AdvanceShown ==
    ASSUME NEW S, Marked(game, S), NEW u, IsUi(u), NEW bip
    PROVE  IsUi(ShowRunnerAdvance(u, bip))
  <1> DEFINE list == DefaultAdvances(RunnersOn(u), bip, InningOuts(game, u.team, u.ctx.i))
  <1>1. IsList(list)
    BY RunnersOnListed, AdvancesListed
  <1>2. IsUi(Shown(u, "advance"))
    BY ShownIs
  <1>3. ShowRunnerAdvance(u, bip) = [Shown(u, "advance") EXCEPT !.runners = list]
    BY Zenon DEF ShowRunnerAdvance
  <1> HIDE DEF list
  <1>4. QED
    BY <1>1, <1>2, <1>3, UiRunners

LEMMA BallInPlayShown ==
    ASSUME NEW u, IsUi(u), NEW d PROVE IsUi(ShowBallInPlay(u, d))
  <1> DEFINE bip == IF d.bip = <<>> THEN NewBip ELSE d.bip
             v == [bip EXCEPT !.type = IF u.mode = "dropped" THEN "D3" ELSE @]
  <1>1. ShowBallInPlay(u, d) = [Shown(u, "bip") EXCEPT !.bip = v]
    BY Zenon DEF ShowBallInPlay
  <1> HIDE DEF v
  <1>2. IsUi(Shown(u, "bip"))
    BY ShownIs
  <1>3. QED
    BY <1>1, <1>2, UiField

LEMMA PendingIs ==
    ASSUME NEW u, IsUi(u), NEW res, NEW base, NEW type PROVE IsUi(WithPending(u, res, base, type))
  BY UiField DEF WithPending

LEMMA ForcedIs ==
    ASSUME NEW S, Marked(game, S), NEW u, IsUi(u) PROVE IsUi(ForcedAdvance(u))
  BY ClosedIs, AdvanceShown DEF ForcedAdvance

-----------------------------------------------------------------------------
(* Actions that are held.                                                  *)

SimpleTypes ==
  ActionTypes \ {"PLAY_RESULT", "RUNNER_ADVANCE", "RUNNER_BATCH_UPDATE", "LINEUP_UPDATE",
                 "MOVE_PLAY", "MANUAL_PATH_OVERRIDE", "GAME_IMPORT", "UNDO"}

\* Actions that carry nothing a log has to know of.
LEMMA SimpleHeld ==
    ASSUME NEW a, "type" \in DOMAIN a, "id" \notin DOMAIN a, a.type \in SimpleTypes
    PROVE  Held(a)
  BY DEF Held, IsHeld, SimpleTypes, ActionTypes

\* Actions with a list of runners.
LEMMA ListHeld ==
    ASSUME NEW a, "type" \in DOMAIN a, "id" \notin DOMAIN a,
           \/ a.type \in {"PLAY_RESULT", "RUNNER_ADVANCE"} /\ HasList(a, "runners")
           \/ a.type = "RUNNER_BATCH_UPDATE" /\ HasList(a, "updates")
    PROVE  Held(a)
  BY DEF Held, IsHeld, ActionTypes

\* An action with the cell it is about.
LEMMA AtCellHeld == ASSUME NEW a, Held(a) PROVE Held(AtCell(a))
  <1> DEFINE b == [team |-> ui.team, ctx |-> ui.ctx, batter |-> BatterId(game, ui)]
  <1>1. DOMAIN b = {"team", "ctx", "batter"}
    OBVIOUS
  <1> HIDE DEF b
  <1>2. "type" \in DOMAIN Over(a, b) /\ "id" \notin DOMAIN Over(a, b)
    <2>1. DOMAIN Over(a, b) = DOMAIN a \cup DOMAIN b
      BY OverIs
    <2>2. QED
      BY <1>1, <2>1 DEF Held
  <1>3. Over(a, b).type = a.type /\ IsHeld(Over(a, b), Places(log))
    BY HeldOver DEF Held
  <1>4. AtCell(a) = Over(a, b)
    BY DEF AtCell, b
  <1>5. QED
    BY <1>2, <1>3, <1>4 DEF Held

-----------------------------------------------------------------------------
(* The handlers, one by one.                                               *)

\* What every handler finds.
Ready == /\ IsLog(log) /\ Marked(game, Places(log))
         /\ KnownMarks(data, Places(log)) /\ IsUi(ui)

\* What it leaves in the overlay.
Copied == KnownMarks(data', Places(log)) \/ \E u : data' = CellData(game', u)
Step == Plain /\ Copied /\ IsUi(ui')

\* Copies of a cell.
LEMMA CellDataKnown ==
    ASSUME NEW S, NEW g, Marked(g, S), NEW u PROVE KnownMarks(CellData(g, u), S)
  BY EventAtKnown DEF CellData

LEMMA NoCellKnown == ASSUME NEW S PROVE KnownMarks(NoCell, S)
  BY EmptyEventKnown DEF NoCell

LEMMA CopyKnown ==
    ASSUME NEW S, NEW u, NEW d, KnownMarks(d, S) PROVE KnownMarks(Copy(u, d), S)
  BY NoCellKnown DEF Copy

\* Handlers that dispatch nothing, or one action.
LEMMA QuietIs == ASSUME Quiet PROVE Plain
  BY DEF Plain

LEMMA DispatchIs == ASSUME NEW a, Held(a), Dispatch(a) PROVE Plain
  BY DEF Plain

LEMMA SameUi == ASSUME Ready, ui' = ui PROVE IsUi(ui')
  BY DEF Ready

LEMMA SameData == ASSUME Ready, data' = data PROVE Copied
  BY DEF Ready, Copied

\* Nothing changed but the overlay.
LEMMA QuietStep == ASSUME Ready, Quiet, data' = data, IsUi(ui') PROVE Step
  BY QuietIs, SameData DEF Step

\* Every handler of the overlay is such a step, one lemma for each.
LEMMA OpenCSOStep == ASSUME Ready, NEW b, NEW c, OpenCSO(b, c) PROVE Step
  <1>1. ui' = [ui EXCEPT !.ctx = Ctx(b, ColumnId(c)), !.view = "main", !.menu = <<>>,
                         !.mode = "normal"]
    BY DEF OpenCSO
  <1> DEFINE u == [ui EXCEPT !.ctx = Ctx(b, ColumnId(c))]
             v == [u EXCEPT !.view = "main"]
             w == [v EXCEPT !.menu = <<>>]
  <1>2. ui' = [w EXCEPT !.mode = "normal"]
    BY <1>1
  <1>3. IsUi(u)
    BY UiField DEF Ready
  <1> HIDE DEF u
  <1>4. IsUi(v)
    BY <1>3, UiField
  <1>5. <<>> # <<>> => <<>>[1] \in 0..3
    OBVIOUS
  <1> HIDE DEF v
  <1>6. IsUi(w)
    BY <1>4, <1>5, UiMenu
  <1> HIDE DEF w
  <1>7. IsUi(ui')
    BY <1>2, <1>6, UiField
  <1>8. game' = game /\ data' = CellData(game, ui') /\ Quiet
    BY DEF OpenCSO, Quiet
  <1>9. Copied
    BY <1>8, CellDataKnown DEF Copied, Ready
  <1>10. QED
    BY <1>7, <1>8, <1>9, QuietIs DEF Step

LEMMA CloseCSOStep == ASSUME Ready, CloseCSO PROVE Step
  <1>1. Quiet /\ ui' = Closed(ui) /\ data' = NoCell
    BY DEF CloseCSO
  <1>2. QED
    BY <1>1, QuietIs, ClosedIs, NoCellKnown DEF Step, Copied, Ready

LEMMA SwitchTeamStep == ASSUME Ready, SwitchTeam PROVE Step
  <1>1. Quiet /\ ui' = [ui EXCEPT !.team = Other(@)] /\ data' = data
    BY DEF SwitchTeam
  <1>2. IsUi(ui')
    BY <1>1, UiTeam DEF Ready
  <1>3. QED
    BY <1>1, <1>2, QuietStep

LEMMA ToggleActionStep == ASSUME Ready, ToggleAction PROVE Step
  <1>1. Quiet /\ ui' = [ui EXCEPT !.editing = TRUE] /\ data' = data
    BY DEF ToggleAction
  <1>2. IsUi(ui')
    BY <1>1, UiField DEF Ready
  <1>3. QED
    BY <1>1, <1>2, QuietStep

LEMMA FinalizeStep ==
    ASSUME Ready, NEW u, IsUi(u), NEW list, IsList(list), NEW queue,
           FinalizePlay(u, list, queue)
    PROVE  Plain /\ IsUi(ui')
  <1> DEFINE bip == [u.pend EXCEPT !.mode = u.mode]
             a == [type |-> "PLAY_RESULT", bip |-> bip, runners |-> list]
  <1>1. Dispatch(AtCell(a)) /\ ui' = u
    BY DEF FinalizePlay
  <1> HIDE DEF bip
  <1>2. /\ "type" \in DOMAIN a /\ "id" \notin DOMAIN a /\ "runners" \in DOMAIN a
        /\ a.type = "PLAY_RESULT" /\ a.runners = list
    OBVIOUS
  <1> HIDE DEF a
  <1>3. HasList(a, "runners")
    BY <1>2 DEF HasList
  <1>4. Held(AtCell(a))
    BY <1>2, <1>3, ListHeld, AtCellHeld
  <1>5. QED
    BY <1>1, <1>4, DispatchIs

LEMMA PlayOrAdvanceStep ==
    ASSUME Ready, NEW u, IsUi(u), NEW mode, NEW queue, PlayOrAdvance(u, mode, queue)
    PROVE  Plain /\ IsUi(ui')
  <1>1. CASE RunnersOn(u) # <<>>
    <2>1. Quiet /\ ui' = [ShowRunnerAdvance(u, u.pend) EXCEPT !.mode = mode]
      BY <1>1 DEF PlayOrAdvance
    <2>2. IsUi(ShowRunnerAdvance(u, u.pend))
      BY AdvanceShown DEF Ready
    <2>3. QED
      BY <2>1, <2>2, UiField, QuietIs
  <1>2. CASE RunnersOn(u) = <<>>
    <2>1. FinalizePlay(u, <<>>, queue)
      BY <1>2 DEF PlayOrAdvance
    <2>2. QED
      BY <2>1, EmptyList, FinalizeStep
  <1>3. QED
    BY <1>1, <1>2

LEMMA RecordOutStep == ASSUME Ready, NEW code, RecordOut(code) PROVE Step
  <1> DEFINE u == WithPending(ui, "Out", "", code)
  <1>1. /\ data' = data
        /\ IF code = "BOO" THEN FinalizePlay(u, <<>>, rest)
           ELSE PlayOrAdvance(u, "normal", rest)
    BY Zenon DEF RecordOut
  <1>2. IsUi(u)
    <2> DEFINE none == ""
    <2>1. u = WithPending(ui, "Out", none, code)
      BY Zenon
    <2> HIDE DEF none, u
    <2>2. QED
      BY <2>1, PendingIs DEF Ready
  <1> HIDE DEF u
  <1>3. Plain /\ IsUi(ui')
    BY <1>1, <1>2, EmptyList, FinalizeStep, PlayOrAdvanceStep
  <1>4. QED
    BY <1>1, <1>3, SameData DEF Step

LEMMA RecordAutoAdvanceStep == ASSUME Ready, NEW code, RecordAutoAdvance(code) PROVE Step
  <1> DEFINE u == WithPending(ui, "Safe", "1B", code)
  <1>1. data' = data /\ PlayOrAdvance(u, ui.mode, rest)
    BY DEF RecordAutoAdvance
  <1>2. IsUi(u)
    BY PendingIs DEF Ready
  <1> HIDE DEF u
  <1>3. QED
    BY <1>1, <1>2, PlayOrAdvanceStep, SameData DEF Step

\* The pitch the overlay counts ahead.
LEMMA ThrowStep ==
    ASSUME Ready, NEW type, NEW code, NEW k, ThrowPitch(type, code, k)
    PROVE  Plain /\ Copied
  <1> DEFINE a == [type |-> "PITCH", pitch |-> type, code |-> code]
             p == [type |-> type, code |-> code,
                   pitcher |-> game.pitchers[Other(ui.team)], refId |-> 0]
             pitches == Append(data.pitches, p)
             balls == CountBalls(pitches)
             strikes == CountStrikes(pitches)
             d == [data EXCEPT !.pitches = pitches, !.balls = balls, !.strikes = strikes]
  <1>1. Dispatch(AtCell(a)) /\ data' = d
    BY DEF ThrowPitch
  <1>2. "type" \in DOMAIN a /\ "id" \notin DOMAIN a /\ a.type = "PITCH"
    OBVIOUS
  <1>3. "PITCH" \in SimpleTypes
    BY DEF SimpleTypes, ActionTypes
  <1> HIDE DEF a
  <1>4. Held(AtCell(a))
    BY <1>2, <1>3, SimpleHeld, AtCellHeld
  <1>5. p.refId \in Places(log)
    BY DEF Places
  <1> HIDE DEF p, balls, strikes
  <1>6. DOMAIN data \subseteq DOMAIN d /\ d.pitches = pitches
    BY DEF Ready, KnownMarks
  <1> HIDE DEF d
  <1>7. KnownMarks(d, Places(log))
    BY <1>5, <1>6, OnePitchMore DEF Ready
  <1>8. QED
    BY <1>1, <1>4, <1>7, DispatchIs DEF Copied

LEMMA RecordPitchStep == ASSUME Ready, NEW type, NEW code, RecordPitch(type, code) PROVE Step
  <1>1. ThrowPitch(type, code, "pitch") /\ ui' = ui
    BY DEF RecordPitch
  <1>2. QED
    BY <1>1, ThrowStep, SameUi DEF Step

LEMMA SelectDroppedStep == ASSUME Ready, SelectDropped PROVE Step
  <1>1. Quiet /\ ui' = ShowBallInPlay([ui EXCEPT !.mode = "dropped"], data) /\ data' = data
    BY DEF SelectDropped
  <1>2. IsUi([ui EXCEPT !.mode = "dropped"])
    BY UiField DEF Ready
  <1>3. IsUi(ui')
    BY <1>1, <1>2, BallInPlayShown
  <1>4. QED
    BY <1>1, <1>3, QuietStep

LEMMA ShowBipStep == ASSUME Ready, ShowBip PROVE Step
  <1>1. Quiet /\ ui' = ShowBallInPlay(ui, data) /\ data' = data
    BY DEF ShowBip
  <1>2. IsUi(ui')
    BY <1>1, BallInPlayShown DEF Ready
  <1>3. QED
    BY <1>1, <1>2, QuietStep

LEMMA HideBipStep == ASSUME Ready, HideBip PROVE Step
  <1> DEFINE u == [Left(ui) EXCEPT !.view = "main"]
  <1>1. Quiet /\ ui' = [u EXCEPT !.mode = "normal"] /\ data' = data
    BY DEF HideBip
  <1>2. IsUi(u)
    BY LeftIs, UiField DEF Ready
  <1> HIDE DEF u
  <1>3. IsUi(ui')
    BY <1>1, <1>2, UiField
  <1>4. QED
    BY <1>1, <1>3, QuietStep

LEMMA CycleBiPStep == ASSUME Ready, NEW key, CycleBiP(key) PROVE Step
  <1>1. Quiet /\ ui' = [ui EXCEPT !.bip = CycleBip(@, key, ui.mode)] /\ data' = data
    BY DEF CycleBiP
  <1>2. IsUi(ui')
    BY <1>1, UiField DEF Ready
  <1>3. QED
    BY <1>1, <1>2, QuietStep

LEMMA SequenceStep == ASSUME Ready, AddToSequence \/ BackspaceSequence PROVE Step
  <1>1. PICK v : Quiet /\ ui' = [ui EXCEPT !.bip = v] /\ data' = data
    BY DEF AddToSequence, BackspaceSequence
  <1>2. IsUi(ui')
    BY <1>1, UiField DEF Ready
  <1>3. QED
    BY <1>1, <1>2, QuietStep

LEMMA CommitBiPStep == ASSUME Ready, CommitBiP PROVE Step
  <1>1. CASE ui.mode = "dropped"
    <2>1. ThrowPitch("strike", "Dropped", "dropped") /\ ui' = ui
      BY <1>1 DEF CommitBiP
    <2>2. QED
      BY <2>1, ThrowStep, SameUi DEF Step
  <1>2. CASE ui.mode # "dropped"
    <2>1. PlayOrAdvance([ui EXCEPT !.pend = ui.bip], "normal", rest) /\ data' = data
      BY <1>2 DEF CommitBiP
    <2>2. IsUi([ui EXCEPT !.pend = ui.bip])
      BY UiField DEF Ready
    <2>3. QED
      BY <2>1, <2>2, PlayOrAdvanceStep, SameData DEF Step
  <1>3. QED
    BY <1>1, <1>2

LEMMA CloseRunnersStep ==
    ASSUME Ready, CloseRunnerAdvance \/ CloseRunnerAction PROVE Step
  <1>1. Quiet /\ ui' = [Left(ui) EXCEPT !.view = "main"] /\ data' = data
    BY DEF CloseRunnerAdvance, CloseRunnerAction
  <1>2. IsUi(ui')
    BY <1>1, LeftIs, UiField DEF Ready
  <1>3. QED
    BY <1>1, <1>2, QuietStep

LEMMA SetRunnerOutcomeStep ==
    ASSUME Ready, NEW i, NEW choice, SetRunnerOutcome(i, choice) PROVE Step
  <1> DEFINE r == [ui.runners[i] EXCEPT !.outcome = choice]
             list == [ui.runners EXCEPT ![i] = r]
  <1>1. Quiet /\ ui' = [ui EXCEPT !.runners = list] /\ data' = data
    BY DEF SetRunnerOutcome
  <1> HIDE DEF r
  <1>2. IsList(list)
    BY ListReplaced DEF Ready, IsUi
  <1> HIDE DEF list
  <1>3. IsUi(ui')
    BY <1>1, <1>2, UiRunners DEF Ready
  <1>4. QED
    BY <1>1, <1>3, QuietStep

LEMMA FinishTurnStep == ASSUME Ready, FinishTurn PROVE Step
  <1>1. data' = data /\ IsList(ui.runners)
    BY DEF FinishTurn, Ready, IsUi
  <1>2. CASE ui.pend # <<>>
    <2>1. FinalizePlay(ui, ui.runners, rest)
      BY <1>2 DEF FinishTurn
    <2>2. QED
      BY <1>1, <2>1, FinalizeStep, SameData DEF Step, Ready
  <1>3. CASE ui.pend = <<>>
    <2> DEFINE eligible == data.outcome # "E" /\ data.multi # 2
               a == [type |-> "RUNNER_ADVANCE", runners |-> ui.runners,
                     sequencing |-> "BatterFirst", rbiEligible |-> eligible]
    <2>1. Dispatch(AtCell(a)) /\ ui' = ui
      BY <1>3 DEF FinishTurn
    <2> HIDE DEF eligible
    <2>2. /\ "type" \in DOMAIN a /\ "id" \notin DOMAIN a /\ "runners" \in DOMAIN a
          /\ a.type = "RUNNER_ADVANCE" /\ a.runners = ui.runners
      OBVIOUS
    <2> HIDE DEF a
    <2>3. Held(AtCell(a))
      BY <1>1, <2>2, ListHeld, AtCellHeld DEF HasList
    <2>4. QED
      BY <1>1, <2>1, <2>3, DispatchIs, SameData, SameUi DEF Step
  <1>4. QED
    BY <1>2, <1>3

LEMMA OpenRunnerActionStep == ASSUME Ready, OpenRunnerAction PROVE Step
  <1> DEFINE list == Listed(RunnersOn(ui), "Stay")
             u == [ui EXCEPT !.view = "action"]
  <1>1. Quiet /\ ui' = [u EXCEPT !.runners = list] /\ data' = data
    BY DEF OpenRunnerAction
  <1>2. IsList(list)
    BY RunnersOnListed, ListedListed DEF Ready
  <1>3. IsUi(u)
    BY UiField DEF Ready
  <1> HIDE DEF list, u
  <1>4. IsUi(ui')
    BY <1>1, <1>2, <1>3, UiRunners
  <1>5. QED
    BY <1>1, <1>4, QuietStep

\* A batch for a list of runners.
LEMMA BatchHeld ==
    ASSUME NEW list, IsList(list)
    PROVE  Held(AtCell([type |-> "RUNNER_BATCH_UPDATE", updates |-> list]))
  <1> DEFINE a == [type |-> "RUNNER_BATCH_UPDATE", updates |-> list]
  <1>1. /\ "type" \in DOMAIN a /\ "id" \notin DOMAIN a /\ "updates" \in DOMAIN a
        /\ a.type = "RUNNER_BATCH_UPDATE" /\ a.updates = list
    OBVIOUS
  <1> HIDE DEF a
  <1>2. Held(AtCell(a))
    BY <1>1, ListHeld, AtCellHeld DEF HasList
  <1>3. QED
    BY <1>2 DEF a

LEMMA SaveRunnerActionsStep == ASSUME Ready, SaveRunnerActions PROVE Step
  <1> DEFINE moved == Picked(ui.runners,
                       {i \in DOMAIN ui.runners : ui.runners[i].outcome # "Stay"})
             a == [type |-> "RUNNER_BATCH_UPDATE", updates |-> Updates(moved)]
  <1>1. /\ ui' = ui /\ data' = data
        /\ IF moved = <<>> THEN Quiet ELSE Dispatch(AtCell(a))
    BY DEF SaveRunnerActions
  <1>2. IsList(moved)
    BY PickedList DEF Ready, IsUi
  <1> HIDE DEF moved
  <1>3. Held(AtCell(a))
    BY <1>2, UpdatesListed, BatchHeld
  <1> HIDE DEF a
  <1>4. Plain
    BY <1>1, <1>3, QuietIs, DispatchIs
  <1>5. QED
    BY <1>1, <1>4, SameData, SameUi DEF Step

LEMMA RecordBalkStep == ASSUME Ready, RecordBalk PROVE Step
  <1> DEFINE list == Updates(Listed(RunnersOn(ui), "BK"))
  <1>1. /\ ui' = ui /\ data' = data
        /\ Dispatch(AtCell([type |-> "RUNNER_BATCH_UPDATE", updates |-> list]))
    BY DEF RecordBalk
  <1>2. IsList(list)
    BY RunnersOnListed, ListedListed, UpdatesListed DEF Ready
  <1> HIDE DEF list
  <1>3. Plain
    BY <1>1, <1>2, BatchHeld, DispatchIs
  <1>4. QED
    BY <1>1, <1>3, SameData, SameUi DEF Step

-----------------------------------------------------------------------------
(* Corrections, the sheet, and other devices.                              *)

LEMMA CycleOutNumStep == ASSUME Ready, CycleOutNum PROVE Step
  <1> DEFINE n == (data.outNum + 1) % 4
             key == CellKey(ui)
             a == [type |-> "OUT_NUM_UPDATE", key |-> key, outNum |-> n]
  <1>1. ui' = ui /\ data' = data /\ Dispatch(a)
    BY DEF CycleOutNum
  <1> HIDE DEF n, key
  <1>2. "type" \in DOMAIN a /\ "id" \notin DOMAIN a /\ a.type \in SimpleTypes
    BY DEF SimpleTypes, ActionTypes
  <1> HIDE DEF a
  <1>3. QED
    BY <1>1, <1>2, SimpleHeld, DispatchIs, SameData, SameUi DEF Step

LEMMA EditRBIStep == ASSUME Ready, NEW credit, EditRBI(credit) PROVE Step
  <1> DEFINE key == CellKey(ui)
             a == [type |-> "RBI_EDIT", key |-> key, credit |-> credit]
  <1>1. ui' = ui /\ data' = CellData(game', ui) /\ Dispatch(a)
    BY DEF EditRBI
  <1> HIDE DEF key
  <1>2. "type" \in DOMAIN a /\ "id" \notin DOMAIN a /\ a.type \in SimpleTypes
    BY DEF SimpleTypes, ActionTypes
  <1> HIDE DEF a
  <1>3. QED
    BY <1>1, <1>2, SimpleHeld, DispatchIs, SameUi DEF Step, Copied

LEMMA ClearAllDataStep == ASSUME Ready, ClearAllData PROVE Step
  <1> DEFINE a == [type |-> "CLEAR_DATA"]
  <1>1. ui' = ui /\ data' = data /\ Dispatch(AtCell(a))
    BY DEF ClearAllData
  <1>2. "type" \in DOMAIN a /\ "id" \notin DOMAIN a /\ a.type \in SimpleTypes
    BY DEF SimpleTypes, ActionTypes
  <1> HIDE DEF a
  <1>3. QED
    BY <1>1, <1>2, SimpleHeld, AtCellHeld, DispatchIs, SameData, SameUi DEF Step

\* The places of the pitches of a cell that are not undone.
LEMMA PitchesAreActions ==
    ASSUME IsLog(log), NEW pitches, pitches # {},
           \A a \in pitches : a \in Range(log) /\ a.type = "PITCH"
    PROVE  IsAction(log, Max({a.id : a \in pitches}))
  <1> DEFINE ids == {a.id : a \in pitches}
             n == Len(log)
  <1>1. /\ log \in Seq(Range(log)) /\ n \in Nat /\ DOMAIN log = 1..n
        /\ \A i \in 1..n : log[i].id = i
    BY LogIs DEF IsLog
  <1>2. \A a \in pitches : \E i \in 1..n : a = log[i]
    BY <1>1 DEF Range
  <1>3. \A i \in ids : i \in 1..n /\ log[i].type = "PITCH"
    BY <1>1, <1>2
  <1>4. ids # {}
    OBVIOUS
  <1> HIDE DEF ids, n
  <1>5. Max(ids) \in ids
    <2>1. Max({0} \cup ids) \in {0} \cup ids /\ \A i \in {0} \cup ids : Max({0} \cup ids) >= i
      <3>1. {0} \cup ids \in SUBSET (0..n)
        BY <1>1, <1>3
      <3>2. QED
        BY <1>1, <3>1, MaxIs
    <2> DEFINE m == Max({0} \cup ids)
    <2>2. m \in ids /\ \A i \in ids : m >= i
      <3> HIDE DEF m
      <3>1. m \in {0} \cup ids /\ \A i \in ids : m >= i
        BY <2>1 DEF m
      <3>2. \A i \in ids : i \in Nat /\ i > 0
        BY <1>1, <1>3
      <3>3. QED
        BY <1>4, <3>1, <3>2
    <2> HIDE DEF m
    <2>3. \E x \in ids : \A y \in ids : x >= y
      BY <2>2
    <2>4. QED
      BY <2>3 DEF Max
  <1>6. QED
    BY <1>1, <1>3, <1>5 DEF IsAction, ids, n

LEMMA TakesIs == ASSUME NEW r, CanTake(r), Dispatch(Taking(r)) PROVE Plain
  BY DEF Plain

LEMMA UndoPitchStep == ASSUME Ready, UndoPitch PROVE Step
  <1> DEFINE last == IF data.pitches = <<>> THEN 0 ELSE data.pitches[Len(data.pitches)].refId
             undone == EffectivelyUndone(log)
             pitches == {a \in Range(log) : /\ a.type = "PITCH" /\ a.id \notin undone
                                            /\ a.ctx = ui.ctx /\ a.team = ui.team}
             r == Max({a.id : a \in pitches})
  <1>1. /\ ui' = ui
        /\ \/ last # 0 /\ Dispatch(Taking(last)) /\ data' = data
           \/ pitches # {} /\ Dispatch(Taking(r)) /\ data' = CellData(game', ui)
    BY Zenon DEF UndoPitch, Taking
  <1>2. last # 0 => CanTake(last)
    <2> SUFFICES ASSUME last # 0 PROVE CanTake(last)
      OBVIOUS
    <2> DEFINE s == data.pitches
    <2>1. s # <<>> /\ IsList(s) /\ \A p \in Range(s) : p.refId \in Places(log)
      BY DEF Ready, KnownMarks
    <2>2. last = s[Len(s)].refId
      BY <2>1
    <2> HIDE DEF last, s
    <2>3. s \in Seq(Range(s))
      BY <2>1 DEF IsList
    <2>4. Len(s) \in DOMAIN s
      BY <2>1, <2>3
    <2>5. s[Len(s)] \in Range(s)
      BY <2>4 DEF Range
    <2>6. last \in Places(log)
      BY <2>1, <2>2, <2>5
    <2>7. QED
      BY <2>6, LogIs DEF CanTake, Ready
  <1>3. \A a \in pitches : a \in Range(log) /\ a.type = "PITCH"
    OBVIOUS
  <1> HIDE DEF last, pitches
  <1>4. pitches # {} => CanTake(r)
    BY <1>3, PitchesAreActions DEF CanTake, Ready
  <1> HIDE DEF r
  <1>5. Plain /\ (data' = data \/ data' = CellData(game', ui))
    BY <1>1, <1>2, <1>4, TakesIs
  <1>6. Copied
    BY <1>5, SameData DEF Copied
  <1>7. QED
    BY <1>1, <1>5, <1>6, SameUi DEF Step

LEMMA ChangePitcherStep == ASSUME Ready, NEW player, ChangePitcher(player) PROVE Step
  <1> DEFINE team == Other(ui.team)
             a == [type |-> "PITCHER_UPDATE", team |-> team, pitcher |-> player]
  <1>1. ui' = ui /\ data' = data /\ Dispatch(a)
    BY DEF ChangePitcher
  <1> HIDE DEF team
  <1>2. "type" \in DOMAIN a /\ "id" \notin DOMAIN a /\ a.type \in SimpleTypes
    BY DEF SimpleTypes, ActionTypes
  <1> HIDE DEF a
  <1>3. QED
    BY <1>1, <1>2, SimpleHeld, DispatchIs, SameData, SameUi DEF Step

LEMMA SubstituteStep ==
    ASSUME Ready, NEW team, NEW index, NEW player, Substitute(team, index, player) PROVE Step
  <1> DEFINE live == ui.ctx # <<>> /\ ui.team = team /\ ui.ctx.b = index
             ctx == IF live THEN ui.ctx ELSE <<>>
             a == [type |-> "SUBSTITUTION", team |-> team, index |-> index,
                   player |-> player, ctx |-> ctx]
  <1>1. ui' = ui /\ data' = data /\ Dispatch(a)
    BY DEF Substitute
  <1> HIDE DEF ctx, live
  <1>2. "type" \in DOMAIN a /\ "id" \notin DOMAIN a /\ a.type \in SimpleTypes
    BY DEF SimpleTypes, ActionTypes
  <1> HIDE DEF a
  <1>3. QED
    BY <1>1, <1>2, SimpleHeld, DispatchIs, SameData, SameUi DEF Step

\* A button of the sheet.
LEMMA SheetStep ==
    ASSUME Ready, NEW a, Held(a), OnSheet(a) PROVE Step
  <1>1. ui' = ui /\ data' = data /\ Dispatch(a)
    BY DEF OnSheet
  <1>2. QED
    BY <1>1, DispatchIs, SameData, SameUi DEF Step

LEMMA SimpleSheetStep ==
    ASSUME Ready, NEW a, "type" \in DOMAIN a, "id" \notin DOMAIN a, a.type \in SimpleTypes,
           OnSheet(a)
    PROVE  Step
  BY SimpleHeld, SheetStep

\* The sheet's handlers.
LEMMA ToggleLeadStep == ASSUME Ready, NEW b, NEW c, ToggleLead(b, c) PROVE Step
  <1> DEFINE col == ColumnId(c)
             row == IF c.lead[ui.team] = b THEN -1 ELSE b
             a == [type |-> "SET_INNING_LEAD", team |-> ui.team, col |-> col, row |-> row]
  <1>1. OnSheet(a)
    BY DEF ToggleLead
  <1> HIDE DEF col, row
  <1>2. "type" \in DOMAIN a /\ "id" \notin DOMAIN a /\ a.type \in SimpleTypes
    BY DEF SimpleTypes, ActionTypes
  <1> HIDE DEF a
  <1>3. QED
    BY <1>1, <1>2, SimpleSheetStep

LEMMA AddColumnStep == ASSUME Ready, NEW inning, AddColumn(inning) PROVE Step
  <1> DEFINE a == [type |-> "ADD_COLUMN", inning |-> inning, team |-> ui.team]
  <1>1. OnSheet(a)
    BY DEF AddColumn
  <1>2. "type" \in DOMAIN a /\ "id" \notin DOMAIN a /\ a.type \in SimpleTypes
    BY DEF SimpleTypes, ActionTypes
  <1> HIDE DEF a
  <1>3. QED
    BY <1>1, <1>2, SimpleSheetStep

LEMMA RemoveColumnStep == ASSUME Ready, NEW c, RemoveColumn(c) PROVE Step
  <1> DEFINE col == ColumnId(c)
             a == [type |-> "REMOVE_COLUMN", col |-> col, team |-> ui.team]
  <1>1. OnSheet(a)
    BY DEF RemoveColumn
  <1> HIDE DEF col
  <1>2. "type" \in DOMAIN a /\ "id" \notin DOMAIN a /\ a.type \in SimpleTypes
    BY DEF SimpleTypes, ActionTypes
  <1> HIDE DEF a
  <1>3. QED
    BY <1>1, <1>2, SimpleSheetStep

LEMMA AddInningStep == ASSUME Ready, AddInning PROVE Step
  <1> DEFINE a == [type |-> "ADD_INNING"]
  <1>1. OnSheet(a)
    BY DEF AddInning
  <1>2. "type" \in DOMAIN a /\ "id" \notin DOMAIN a /\ a.type \in SimpleTypes
    BY DEF SimpleTypes, ActionTypes
  <1> HIDE DEF a
  <1>3. QED
    BY <1>1, <1>2, SimpleSheetStep

LEMMA EndGameStep == ASSUME Ready, EndGame PROVE Step
  <1> DEFINE a == [type |-> "GAME_FINALIZE"]
  <1>1. OnSheet(a)
    BY DEF EndGame
  <1>2. "type" \in DOMAIN a /\ "id" \notin DOMAIN a /\ a.type \in SimpleTypes
    BY DEF SimpleTypes, ActionTypes
  <1> HIDE DEF a
  <1>3. QED
    BY <1>1, <1>2, SimpleSheetStep

LEMMA EditScoreStep == ASSUME Ready, NEW inning, NEW score, EditScore(inning, score) PROVE Step
  <1> DEFINE a == [type |-> "SCORE_OVERRIDE", team |-> ui.team, inning |-> inning,
                   score |-> score]
  <1>1. OnSheet(a)
    BY DEF EditScore
  <1>2. "type" \in DOMAIN a /\ "id" \notin DOMAIN a /\ a.type \in SimpleTypes
    BY DEF SimpleTypes, ActionTypes
  <1> HIDE DEF a
  <1>3. QED
    BY <1>1, <1>2, SimpleSheetStep

LEMMA MovePlayStep ==
    ASSUME Ready, NEW key \in DOMAIN game.events, NEW b, MovePlay(key, b) PROVE Step
  <1>1. PICK target, pId, column :
          OnSheet([type |-> "MOVE_PLAY", source |-> key, target |-> target,
                   event |-> [game.events[key] EXCEPT !.pId = pId], newColumn |-> column])
    BY Zenon DEF MovePlay
  <1> DEFINE event == [game.events[key] EXCEPT !.pId = pId]
             a == [type |-> "MOVE_PLAY", source |-> key, target |-> target,
                   event |-> event, newColumn |-> column]
  <1>2. OnSheet(a)
    BY <1>1
  <1>3. KnownMarks(game.events[key], Places(log))
    BY DEF Ready, Marked
  <1>4. DOMAIN game.events[key] \subseteq DOMAIN event /\ event.pitches = game.events[key].pitches
    BY <1>3 DEF KnownMarks
  <1> HIDE DEF event
  <1>5. KnownMarks(event, Places(log))
    BY <1>3, <1>4, SamePitches
  <1>6. /\ "type" \in DOMAIN a /\ "id" \notin DOMAIN a /\ "event" \in DOMAIN a
        /\ a.type = "MOVE_PLAY" /\ a.event = event
    OBVIOUS
  <1> HIDE DEF a
  <1>7. Held(a)
    BY <1>5, <1>6 DEF Held, IsHeld, ActionTypes
  <1>8. QED
    BY <1>2, <1>7, SheetStep

LEMMA UndoStepTaken == ASSUME Ready, Undo PROVE Step
  <1> DEFINE r == UndoTarget(log)
  <1>1. r # 0 /\ Dispatch(Taking(r)) /\ ui' = ui /\ data' = data
    BY DEF Undo, OnSheet, Taking
  <1>2. CanTake(r)
    <2>1. log \in Seq(Range(log)) /\ RefersBack(log)
      BY LogIs DEF Ready
    <2>2. r \in InForce(log)
      BY <1>1, <2>1, TargetIs
    <2>3. InForce(log) = {i \in 1..Len(log) : log[i].type # "UNDO"} \ EffectivelyUndone(log)
      BY <2>1, InForceIs
    <2>4. QED
      BY <2>2, <2>3 DEF CanTake, IsAction
  <1> HIDE DEF r
  <1>3. QED
    BY <1>1, <1>2, TakesIs, SameData, SameUi DEF Step

LEMMA RedoStepTaken == ASSUME Ready, Redo PROVE Step
  <1> DEFINE r == RedoTarget(log)
  <1>1. r # 0 /\ Dispatch(Taking(r)) /\ ui' = ui /\ data' = data
    BY DEF Redo, OnSheet, Taking
  <1>2. CanTake(r)
    BY <1>1 DEF CanTake
  <1> HIDE DEF r
  <1>3. QED
    BY <1>1, <1>2, TakesIs, SameData, SameUi DEF Step

LEMMA ReceiveStep == ASSUME Ready, NEW a \in Remote, Receive(a) PROVE Step
  <1>1. ui' = ui /\ data' = data /\ Dispatch(a)
    BY DEF Receive
  <1>2. /\ "type" \in DOMAIN a /\ "id" \notin DOMAIN a
        /\ a.type # "UNDO" /\ IsHeld(a, {0})
    BY ScorerConstants
  <1>3. {0} \subseteq Places(log)
    BY DEF Places
  <1>4. IsHeld(a, Places(log))
    BY <1>2, <1>3, KnownMore
  <1>5. QED
    BY <1>1, <1>2, <1>4, DispatchIs, SameData, SameUi DEF Step, Held

-----------------------------------------------------------------------------
(* After the wait.                                                         *)

\* The lead of the next inning, after the third out.
LEMMA LeadStep == ASSUME NEW u, NEW b, LeadAfterThirdOut(u, b) PROVE Plain
  <1>1. CASE Quiet
    BY <1>1, QuietIs
  <1>2. CASE ~Quiet
    <2>1. SetNextInningLead(u, b)
      BY <1>2 DEF LeadAfterThirdOut
    <2>2. PICK col : Dispatch([type |-> "SET_INNING_LEAD", team |-> u.team, row |-> b,
                               col |-> col])
      BY <1>2, <2>1, Zenon DEF SetNextInningLead
    <2> DEFINE a == [type |-> "SET_INNING_LEAD", team |-> u.team, row |-> b, col |-> col]
    <2>3. Dispatch(a)
      BY <2>2
    <2>4. "type" \in DOMAIN a /\ "id" \notin DOMAIN a /\ a.type \in SimpleTypes
      BY DEF SimpleTypes, ActionTypes
    <2> HIDE DEF a
    <2>5. QED
      BY <2>3, <2>4, SimpleHeld, DispatchIs
  <1>3. QED
    BY <1>1, <1>2

\* What handlers do after their wait.
LEMMA AfterPitchStep == ASSUME Ready, AfterPitch PROVE Step
  <1> DEFINE d == CellData(game, ui)
             last == IF d.pitches = <<>> THEN "" ELSE d.pitches[Len(d.pitches)].code
             strikeOut == d.outcome \in {"K", "Kc"}
  <1>1. /\ ui' = CASE d.outcome = "BB" -> ForcedAdvance(ui)
                   [] strikeOut /\ last = "Dropped" ->
                        ShowBallInPlay([ui EXCEPT !.mode = "dropped"], d)
                   [] strikeOut /\ last # "Dropped" -> Closed(ui)
                   [] OTHER -> ui
        /\ data' = Copy(ui', d)
        /\ IF strikeOut /\ last # "Dropped" THEN LeadAfterThirdOut(ui, NextBatter(ui))
           ELSE Quiet
    BY Zenon DEF AfterPitch
  <1>2. KnownMarks(d, Places(log))
    BY CellDataKnown DEF Ready
  <1> HIDE DEF d, last
  <1>3. \/ ui' = ForcedAdvance(ui) \/ ui' = Closed(ui) \/ ui' = ui
        \/ ui' = ShowBallInPlay([ui EXCEPT !.mode = "dropped"], d)
    BY <1>1
  <1>4. IsUi([ui EXCEPT !.mode = "dropped"])
    BY UiField DEF Ready
  <1>5. IsUi(ui')
    BY <1>3, <1>4, ForcedIs, ClosedIs, BallInPlayShown DEF Ready
  <1>6. Copied
    BY <1>1, <1>2, CopyKnown DEF Copied
  <1>7. Plain
    BY <1>1, LeadStep, QuietIs
  <1>8. QED
    BY <1>5, <1>6, <1>7 DEF Step

LEMMA AfterPlayStep == ASSUME Ready, AfterPlay PROVE Step
  <1> DEFINE u == [Closed(ui) EXCEPT !.pend = <<>>]
             v == [u EXCEPT !.editing = FALSE]
  <1>1. ui' = [v EXCEPT !.mode = "normal"] /\ data' = NoCell
        /\ LeadAfterThirdOut(ui, NextBatter(ui))
    BY DEF AfterPlay
  <1>2. IsUi(u)
    BY ClosedIs, UiField DEF Ready
  <1> HIDE DEF u
  <1>3. IsUi(v)
    BY <1>2, UiField
  <1> HIDE DEF v
  <1>4. IsUi(ui')
    BY <1>1, <1>3, UiField
  <1>5. QED
    BY <1>1, <1>4, LeadStep, NoCellKnown DEF Step, Copied

LEMMA AfterAdvanceStep == ASSUME Ready, AfterAdvance PROVE Step
  <1>1. ui' = Closed(ui) /\ data' = NoCell /\ LeadAfterThirdOut(ui, NextBatter(ui))
    BY DEF AfterAdvance
  <1>2. QED
    BY <1>1, ClosedIs, LeadStep, NoCellKnown DEF Step, Copied, Ready

LEMMA AfterRunnerActionsStep == ASSUME Ready, AfterRunnerActions PROVE Step
  <1>1. ui' = Shown(Left(ui), "main") /\ data' = data /\ LeadAfterThirdOut(ui, ui.ctx.b)
    BY DEF AfterRunnerActions
  <1>2. IsUi(ui')
    BY <1>1, LeftIs, ShownIs DEF Ready
  <1>3. QED
    BY <1>1, <1>2, LeadStep, SameData DEF Step

LEMMA AfterSyncStep == ASSUME Ready, NEW close, NEW menu, AfterSync(close, menu) PROVE Step
  <1> DEFINE u == [ui EXCEPT !.view = IF close THEN "grid" ELSE @]
             m == IF menu THEN <<>> ELSE ui.menu
             d == CellData(game, ui)
  <1>1. /\ ui' = [u EXCEPT !.menu = IF menu THEN <<>> ELSE @]
        /\ data' = Copy(ui', d) /\ Quiet
    BY DEF AfterSync
  <1>2. IsUi(u) /\ u.menu = ui.menu
    <2>1. IsUi(u)
      BY UiField DEF Ready
    <2>2. u.menu = ui.menu
      BY DEF Ready, IsUi, UiFields
    <2>3. QED
      BY <2>1, <2>2
  <1>3. m # <<>> => m[1] \in 0..3
    BY DEF Ready, IsUi
  <1>4. ui' = [u EXCEPT !.menu = m]
    BY <1>1, <1>2
  <1>5. KnownMarks(d, Places(log))
    BY CellDataKnown DEF Ready
  <1> HIDE DEF u, m, d
  <1>6. IsUi(ui')
    BY <1>2, <1>3, <1>4, UiMenu
  <1>7. QED
    BY <1>1, <1>5, <1>6, CopyKnown, QuietIs DEF Step, Copied

LEMMA AfterRemoteStep == ASSUME Ready, AfterRemote PROVE Step
  <1>1. /\ Quiet /\ ui' = ui
        /\ data' = IF InCell /\ CellKey(ui) \in DOMAIN game.events
                   THEN game.events[CellKey(ui)] ELSE data
    BY DEF AfterRemote
  <1>2. KnownMarks(data', Places(log))
    BY <1>1 DEF Ready, Marked
  <1>3. QED
    BY <1>1, <1>2, QuietIs, SameUi DEF Step, Copied

LEMMA AfterDroppedStep == ASSUME Ready, AfterDropped PROVE Step
  <1>1. PlayOrAdvance([ui EXCEPT !.pend = ui.bip], "normal", Tail(rest)) /\ data' = data
    BY DEF AfterDropped
  <1>2. IsUi([ui EXCEPT !.pend = ui.bip])
    BY UiField DEF Ready
  <1>3. QED
    BY <1>1, <1>2, PlayOrAdvanceStep, SameData DEF Step

LEMMA ResumeStep == ASSUME Ready, Resume PROVE Step
  <1>1. PICK close, menu : \/ AfterPitch \/ AfterPlay \/ AfterAdvance \/ AfterRunnerActions
                           \/ AfterSync(close, menu) \/ AfterRemote \/ AfterDropped
    BY Zenon DEF Resume
  <1>2. QED
    BY <1>1, AfterPitchStep, AfterPlayStep, AfterAdvanceStep, AfterRunnerActionsStep,
       AfterSyncStep, AfterRemoteStep, AfterDroppedStep

-----------------------------------------------------------------------------
(* Changes that no action has recorded yet.                                *)

\* The player of a cell, and the cell as the overlay copies it.
Holder(g, key) ==
    IF key[2] < Len(g.roster[key[1]]) THEN g.roster[key[1]][key[2] + 1].current ELSE NoPlayer
CellOf(g, key) == EventAt(g, key, Holder(g, key))

\* Ways that differ at most at one base.
SameWay(way, was, base) == \A x : [way EXCEPT ![base] = x] = [was EXCEPT ![base] = x]

\* An event with another way, and a cell whose way differs at the loose bases.
Along(e, way) == [e EXCEPT !.paths = way]
OnlyIn(g, was, key, turned) ==
    \E way : /\ g = PutEvent(was, key, Along(CellOf(was, key), way))
             /\ \A base : turned \subseteq {<<key, base>>} =>
                            SameWay(way, CellOf(was, key).paths, base)

Told == loose = {} => game = ComputeStateFromLog(log)
Loose ==
    \A key : key # <<>> /\ loose # {} /\ (\A c \in loose : c[1] = key) =>
               OnlyIn(game, ComputeStateFromLog(log), key, loose)

\* The cell of the overlay.
LEMMA CellKeyIs ==
    ASSUME NEW g, NEW u
    PROVE  CellKey(u) # <<>> /\ CellData(g, u) = CellOf(g, CellKey(u))
           /\ BatterId(g, u) = Holder(g, CellKey(u))
  <1>1. CellKey(u) # <<>> /\ CellKey(u)[1] = u.team /\ CellKey(u)[2] = u.ctx.b
    BY DEF CellKey
  <1>2. BatterId(g, u) = Holder(g, CellKey(u))
    BY <1>1 DEF BatterId, Holder
  <1>3. QED
    BY <1>1, <1>2 DEF CellData, CellOf

\* The cell of a game in which its event was put.
LEMMA PutCell ==
    ASSUME NEW S, NEW g, Marked(g, S), NEW key, NEW e
    PROVE  /\ CellOf(PutEvent(g, key, e), key) = e
           /\ \A pId : EventAt(PutEvent(g, key, e), key, pId) = e
           /\ Holder(PutEvent(g, key, e), key) = Holder(g, key)
           /\ \A f : PutEvent(PutEvent(g, key, e), key, f) = PutEvent(g, key, f)
  <1> DEFINE h == PutEvent(g, key, e)
  <1>1. /\ DOMAIN h = DOMAIN g /\ {"events", "roster"} \subseteq DOMAIN g
        /\ h.events = [k \in DOMAIN g.events \cup {key} |-> IF k = key THEN e ELSE g.events[k]]
        /\ \A x \in DOMAIN g : x # "events" => h[x] = g[x]
    BY PutEventIs DEF Marked
  <1>2. h.roster = g.roster /\ key \in DOMAIN h.events /\ h.events[key] = e
    BY <1>1
  <1>3. ASSUME NEW f PROVE PutEvent(h, key, f) = PutEvent(g, key, f)
    <2> DEFINE a == PutEvent(h, key, f)
               b == PutEvent(g, key, f)
               evs == [k \in DOMAIN g.events \cup {key} |-> IF k = key THEN f ELSE g.events[k]]
    <2>1. b = [g EXCEPT !.events = evs]
      BY DEF PutEvent
    <2>2. [k \in DOMAIN h.events \cup {key} |-> IF k = key THEN f ELSE h.events[k]] = evs
      BY <1>1
    <2>3. a = [h EXCEPT !.events = evs]
      BY <2>2 DEF PutEvent
    <2>4. h = [g EXCEPT !.events = h.events]
      BY <1>1 DEF PutEvent
    <2> HIDE DEF h, evs
    <2>5. [h EXCEPT !.events = evs] = [g EXCEPT !.events = evs]
      BY <2>4
    <2>6. QED
      BY <2>1, <2>3, <2>5
  <1> HIDE DEF h
  <1>4. Holder(h, key) = Holder(g, key)
    BY <1>2 DEF Holder
  <1>5. \A pId : EventAt(h, key, pId) = e
    BY <1>2 DEF EventAt
  <1>6. QED
    BY <1>3, <1>4, <1>5 DEF CellOf, h

\* Replacing a way twice, and in an event that has none.
LEMMA AlongIs ==
    ASSUME NEW e, NEW way
    PROVE  /\ \A x : Along(Along(e, way), x) = Along(e, x)
           /\ "paths" \in DOMAIN e => Along(e, way).paths = way
           /\ "paths" \notin DOMAIN e => \A x : Along(e, x) = Along(e, way)
  <1>1. \A x : Along(e, x) = [f \in DOMAIN e |-> IF f = "paths" THEN x ELSE e[f]]
    BY DEF Along
  <1>2. DOMAIN Along(e, way) = DOMAIN e
    BY DEF Along
  <1>3. \A x : Along(Along(e, way), x) = Along(e, x)
    BY <1>1, <1>2 DEF Along
  <1>4. QED
    BY <1>1, <1>3

\* A base turned.
Turned(e, base) == [e EXCEPT !.paths[base] = (@ + 1) % 3]

\* A base turned in a cell that already goes another way.
LEMMA TurnedIs ==
    ASSUME NEW e, NEW way, NEW base
    PROVE  \E x : /\ Turned(Along(e, way), base) = Along(e, x)
                  /\ SameWay(way, e.paths, base) => SameWay(x, e.paths, base)
  <1> DEFINE f == Along(e, way)
             y == [f.paths EXCEPT ![base] = (@ + 1) % 3]
  <1>1. Turned(f, base) = Along(f, y)
    BY DEF Turned, Along
  <1> DEFINE v == (f.paths[base] + 1) % 3
  <1>2. y = [f.paths EXCEPT ![base] = v]
    OBVIOUS
  <1> HIDE DEF f, y, v
  <1>3. Turned(f, base) = Along(e, y)
    BY <1>1, AlongIs DEF f
  <1>4. CASE "paths" \in DOMAIN e
    <2>1. f.paths = way
      BY <1>4, AlongIs DEF f
    <2>2. y = [way EXCEPT ![base] = v]
      BY <1>2, <2>1
    <2>3. \A z : [y EXCEPT ![base] = z] = [way EXCEPT ![base] = z]
      BY <2>2
    <2>4. SameWay(way, e.paths, base) => SameWay(y, e.paths, base)
      BY <2>3 DEF SameWay
    <2>5. QED
      BY <1>3, <2>4 DEF f
  <1>5. CASE "paths" \notin DOMAIN e
    <2>1. Along(e, y) = Along(e, way)
      BY <1>5, AlongIs
    <2>2. QED
      BY <1>3, <2>1 DEF f
  <1>6. QED
    BY <1>4, <1>5

\* The same from an event as it is.
LEMMA TurnedOnce ==
    ASSUME NEW e, NEW base
    PROVE  \E x : Turned(e, base) = Along(e, x) /\ SameWay(x, e.paths, base)
  <1> DEFINE y == [e.paths EXCEPT ![base] = (@ + 1) % 3]
             v == (e.paths[base] + 1) % 3
             p == e.paths
  <1>1. Turned(e, base) = Along(e, y)
    BY DEF Turned, Along
  <1>2. y = [p EXCEPT ![base] = v]
    OBVIOUS
  <1> HIDE DEF y, v, p
  <1>3. \A z : [y EXCEPT ![base] = z] = [p EXCEPT ![base] = z]
    BY <1>2
  <1>4. SameWay(y, p, base)
    BY <1>3 DEF SameWay
  <1>5. QED
    BY <1>1, <1>4 DEF p

\* An action that is dispatched, over the game of the log.
LEMMA DispatchTold ==
    ASSUME IsLog(log), NEW a, Held(a), NEW was, NEW left, DispatchOn(was, a, left),
           left = {} => GameReducer(was, Numbered(a))
                          = GameReducer(ComputeStateFromLog(log), Numbered(a))
    PROVE  Told' /\ Loose'
  <1> DEFINE b == Numbered(a)
             X == Range(log) \cup {b}
  <1>1. /\ log' = Append(log, b) /\ game' = GameReducer(was, b)
        /\ loose' = IF left = {} THEN {} ELSE {<<<<>>, 0>>}
    BY DEF DispatchOn, Numbered, Held
  <1>2. b.type # "UNDO"
    BY NumberedIs
  <1>3. log \in Seq(X) /\ b \in X /\ RefersBack(log)
    BY LogIs
  <1> HIDE DEF X
  <1>4. ComputeStateFromLog(Append(log, b)) = GameReducer(ComputeStateFromLog(log), b)
    BY <1>2, <1>3, StateGrows
  <1>5. left = {} => GameReducer(was, b) = GameReducer(ComputeStateFromLog(log), b)
    OBVIOUS
  <1> HIDE DEF b
  <1>6. CASE left = {}
    <2>1. game' = ComputeStateFromLog(log') /\ loose' = {}
      BY <1>1, <1>4, <1>5, <1>6
    <2>2. QED
      BY <2>1 DEF Told, Loose
  <1>7. CASE left # {}
    <2>1. loose' = {<<<<>>, 0>>}
      BY <1>1, <1>7
    <2>2. ~\E key : key # <<>> /\ \A c \in loose' : c[1] = key
      BY <2>1
    <2>3. loose' # {}
      BY <2>1
    <2>4. QED
      BY <2>2, <2>3 DEF Told, Loose
  <1>8. QED
    BY <1>6, <1>7

\* Dispatching an action, or an UNDO, keeps the game told.
LEMMA PlainTold ==
    ASSUME IsLog(log), Told, Loose, Plain PROVE Told' /\ Loose'
  <1>1. CASE Quiet
    <2>1. game' = game /\ log' = log /\ loose' = loose
      BY <1>1 DEF Quiet
    <2>2. QED
      BY <2>1 DEF Told, Loose, OnlyIn
  <1>2. CASE \E a : Held(a) /\ Dispatch(a)
    <2>1. PICK a : Held(a) /\ Dispatch(a)
      BY <1>2
    <2>2. DispatchOn(game, a, loose)
      BY <2>1 DEF Dispatch
    <2>3. loose = {} => GameReducer(game, Numbered(a))
                          = GameReducer(ComputeStateFromLog(log), Numbered(a))
      BY DEF Told
    <2>4. QED
      BY <2>1, <2>2, <2>3, DispatchTold
  <1>3. CASE \E r : CanTake(r) /\ Dispatch(Taking(r))
    <2>1. PICK r : DispatchOn(game, Taking(r), loose)
      BY <1>3 DEF Dispatch
    <2>2. Taking(r).type = "UNDO"
      BY TakingIs
    <2>3. game' = ComputeStateFromLog(log') /\ loose' = {}
      BY <2>1, <2>2 DEF DispatchOn
    <2>4. QED
      BY <2>3 DEF Told, Loose
  <1>4. QED
    BY <1>1, <1>2, <1>3 DEF Plain

\* A record that says where the player went and who he is, laid over a cell.
LEMMA OverridesAgree ==
    ASSUME NEW S, NEW c, Marked(c, S), NEW key, NEW way, NEW was,
           was = c \/ was = PutEvent(c, key, Along(CellOf(c, key), way)),
           NEW a, a.type = "MANUAL_PATH_OVERRIDE", a.key = key,
           {"paths", "pId"} \subseteq DOMAIN a.data
    PROVE  GameReducer(was, a) = GameReducer(c, a)
  <1> DEFINE e == EventAt(c, key, NoPlayer)
             f == Along(CellOf(c, key), way)
             F == a.data
  <1>1. \A g : GameReducer(g, a) = PutEvent(g, key, Over(F, EventAt(g, key, NoPlayer)))
    <2>1. \A g : GameReducer(g, a) = ApplyManualPathOverride(g, a)
      BY DEF GameReducer
    <2>2. QED
      BY <2>1 DEF ApplyManualPathOverride
  <1>2. CASE was = PutEvent(c, key, f)
    <2>1. EventAt(was, key, NoPlayer) = f
      BY <1>2, PutCell
    <2>2. \A x : PutEvent(was, key, x) = PutEvent(c, key, x)
      BY <1>2, PutCell
    <2>3. DOMAIN f = DOMAIN e /\ \A x \in DOMAIN e \ {"paths", "pId"} : f[x] = e[x]
      <3> DEFINE E == CellOf(c, key)
      <3>1. DOMAIN f = DOMAIN E /\ \A x \in DOMAIN E \ {"paths"} : f[x] = E[x]
        BY DEF Along
      <3>2. CASE key \in DOMAIN c.events
        <4>1. E = e
          BY <3>2 DEF CellOf, EventAt
        <4>2. QED
          BY <3>1, <4>1
      <3>3. CASE key \notin DOMAIN c.events
        <4>1. E = EmptyEvent(Holder(c, key)) /\ e = EmptyEvent(NoPlayer)
          BY <3>3 DEF CellOf, EventAt
        <4>2. \A p, q : /\ DOMAIN EmptyEvent(p) = DOMAIN EmptyEvent(q)
                        /\ \A x \in DOMAIN EmptyEvent(p) \ {"pId"} :
                             EmptyEvent(p)[x] = EmptyEvent(q)[x]
          <5> DEFINE none == ""
                     infos == [p \in 0..3 |-> none]
                     ways == [p \in 0..3 |-> NotThere]
                     empty(p) == [outcome |-> none, multi |-> 1, outNum |-> 0, balls |-> 0,
                                  strikes |-> 0, paths |-> ways, info |-> infos,
                                  pitches |-> <<>>, pId |-> p, rbi |-> NoPlayer,
                                  bip |-> <<>>]
          <5>1. \A p : EmptyEvent(p) = empty(p)
            BY Zenon DEF EmptyEvent
          <5> HIDE DEF none, infos, ways
          <5>2. \A p, q : /\ DOMAIN empty(p) = DOMAIN empty(q)
                          /\ \A x \in DOMAIN empty(p) \ {"pId"} : empty(p)[x] = empty(q)[x]
            OBVIOUS
          <5> HIDE DEF empty
          <5>3. QED
            BY <5>1, <5>2
        <4> HIDE DEF E, e, f
        <4>3. DOMAIN E = DOMAIN e /\ \A x \in DOMAIN E \ {"pId"} : E[x] = e[x]
          BY <4>1, <4>2
        <4>4. QED
          BY <3>1, <4>3
      <3>4. QED
        BY <3>2, <3>3
    <2> HIDE DEF e, f
    <2>4. Over(F, f) = Over(F, e)
      <3>1. \A x \in DOMAIN F \cup DOMAIN e :
              (IF x \in DOMAIN F THEN F[x] ELSE f[x]) = (IF x \in DOMAIN F THEN F[x] ELSE e[x])
        BY <2>3
      <3>2. QED
        BY <2>3, <3>1 DEF Over
    <2>5. GameReducer(was, a) = PutEvent(c, key, Over(F, f))
      BY <1>1, <2>1, <2>2
    <2>6. GameReducer(c, a) = PutEvent(c, key, Over(F, e))
      BY <1>1 DEF e
    <2>7. QED
      BY <2>4, <2>5, <2>6
  <1>3. QED
    BY <1>2

\* One update of a batch, over a game and over one whose cell went another way.
LEMMA OneUpdate ==
    ASSUME NEW g, NEW a, NEW u, a.type = "RUNNER_BATCH_UPDATE", a.updates = <<u>>
    PROVE  GameReducer(g, a)
             = UpdateRunner([g |-> g, outs |-> OutsExcluding(g, a.team, a.ctx.i, {u.key})],
                            u, a.batter).g
  <1> DEFINE keys == {x.key : x \in Range(a.updates)}
             start == [g |-> g, outs |-> OutsExcluding(g, a.team, a.ctx.i, keys)]
             f == CHOOSE f : IsUpdating(f, start, a, 1)
  <1>1. Len(a.updates) = 1 /\ a.updates[1] = u
    OBVIOUS
  <1>2. IsUpdating(f, start, a, 1)
    <2>1. 1 \in Nat
      OBVIOUS
    <2> HIDE DEF start
    <2>2. QED
      BY <2>1, UpdatingExists
  <1>3. GameReducer(g, a) = f[1].g
    <2>1. GameReducer(g, a) = ApplyRunnerBatchUpdate(g, a)
      BY DEF GameReducer
    <2>2. ApplyRunnerBatchUpdate(g, a) = f[1].g
      BY <1>1 DEF ApplyRunnerBatchUpdate, IsUpdating
    <2>3. QED
      BY <2>1, <2>2
  <1>4. keys = {u.key}
    <2>1. Range(a.updates) = {u}
      BY DEF Range
    <2>2. QED
      BY <2>1
  <1> HIDE DEF f, start
  <1>5. f[0] = start /\ f[1] = UpdateRunner(f[0], a.updates[1], a.batter)
    BY <1>2 DEF IsUpdating
  <1>6. f[1] = UpdateRunner(start, u, a.batter)
    BY <1>1, <1>5
  <1>7. QED
    BY <1>3, <1>4, <1>6 DEF start

\* An event with a base set, its reason and its out number.
WithReason(e, p, reason, n) == [e EXCEPT !.info[p] = reason, !.outNum = n]
SetWay(e, p, way) == [e EXCEPT !.paths[p] = way]
SetBase(e, p, way, reason, n) == WithReason(SetWay(e, p, way), p, reason, n)

\* In an event without an out number its value does not matter.
LEMMA AnyOutNum ==
    ASSUME NEW e, "outNum" \notin DOMAIN e, NEW p, NEW way, NEW reason
    PROVE  \A m, n : SetBase(e, p, way, reason, m) = SetBase(e, p, way, reason, n)
  <1> DEFINE u == [e EXCEPT !.paths[p] = way]
             v == [u EXCEPT !.info[p] = reason]
  <1>1. \A n : SetBase(e, p, way, reason, n) = [v EXCEPT !.outNum = n]
    BY DEF SetBase, SetWay, WithReason
  <1>2. DOMAIN v = DOMAIN e
    OBVIOUS
  <1> HIDE DEF v
  <1>3. QED
    BY <1>1, <1>2

\* Outs outside a cell do not depend on what the cell holds.
LEMMA OutsElsewhere ==
    ASSUME NEW S, NEW c, Marked(c, S), NEW key, NEW e, NEW team, NEW inning
    PROVE  OutsExcluding(PutEvent(c, key, e), team, inning, {key})
             = OutsExcluding(c, team, inning, {key})
  <1> DEFINE was == PutEvent(c, key, e)
             Of(g) == {k \in DOMAIN g.events \ {key} :
                         k[1] = team /\ k[3] \in InningColumns(g, inning)}
             Outs(g) == {g.events[k].outNum : k \in Of(g)}
  <1>1. /\ "columns" \in DOMAIN c /\ was.columns = c.columns
        /\ was.events = [k \in DOMAIN c.events \cup {key} |-> IF k = key THEN e ELSE c.events[k]]
    BY PutEventIs DEF Marked
  <1> HIDE DEF was
  <1>2. InningColumns(was, inning) = InningColumns(c, inning)
    BY <1>1 DEF InningColumns
  <1>3. Of(was) = Of(c)
    BY <1>1, <1>2
  <1>4. \A k \in Of(c) : was.events[k].outNum = c.events[k].outNum
    BY <1>1
  <1>5. \A g : OutsExcluding(g, team, inning, {key}) = Max({0} \cup Outs(g))
    BY DEF OutsExcluding
  <1> HIDE DEF Of
  <1>6. Outs(was) = Outs(c)
    BY <1>3, <1>4
  <1> HIDE DEF Outs
  <1>7. QED
    BY <1>5, <1>6 DEF was

\* A reason given for a base that was turned settles its way.
LEMMA ReasonsAgree ==
    ASSUME NEW S, NEW c, Marked(c, S), NEW key, NEW way, NEW base \in 0..3,
           SameWay(way, CellOf(c, key).paths, base), NEW was,
           was = PutEvent(c, key, Along(CellOf(c, key), way)),
           NEW a, NEW u, a.type = "RUNNER_BATCH_UPDATE", a.updates = <<u>>,
           u.key = key, u.base = base - 1, u.action \in SafeActions \cup OutActions,
           a.batter = Holder(c, key)
    PROVE  GameReducer(was, a) = GameReducer(c, a)
  <1> DEFINE E == CellOf(c, key)
             f == Along(E, way)
             outs == OutsExcluding(c, a.team, a.ctx.i, {key})
             Put(e, w, n) == PutEvent(c, key, SetBase(e, base, w, u.action, n))
  <1>1. u.base + 1 = base /\ base <= 3
    OBVIOUS
  <1>2. \A w : SetWay(f, base, w) = SetWay(E, base, w)
    <2> SUFFICES ASSUME NEW w
                 PROVE  SetWay(f, base, w) = SetWay(E, base, w)
      OBVIOUS
    <2> DEFINE x == [f.paths EXCEPT ![base] = w]
               y == [E.paths EXCEPT ![base] = w]
    <2>1. SetWay(f, base, w) = Along(f, x) /\ SetWay(E, base, w) = Along(E, y)
      BY DEF Along, SetWay
    <2>2. "paths" \in DOMAIN E => x = y
      BY AlongIs DEF SameWay
    <2> HIDE DEF x, y, E, f
    <2>3. Along(f, x) = Along(E, x)
      BY AlongIs DEF f
    <2>4. Along(E, x) = Along(E, y)
      BY <2>2, AlongIs
    <2>5. QED
      BY <2>1, <2>3, <2>4
  <1>3. \A w, n : Put(f, w, n) = Put(E, w, n)
    <2> HIDE DEF f, E
    <2>1. ASSUME NEW w, NEW n
          PROVE  SetBase(f, base, w, u.action, n) = SetBase(E, base, w, u.action, n)
      <3>1. SetWay(f, base, w) = SetWay(E, base, w)
        BY <1>2
      <3>2. QED
        BY <3>1 DEF SetBase
    <2>2. QED
      BY <2>1
  <1>4. ASSUME NEW g, NEW e, EventAt(g, key, a.batter) = e,
               \A x : PutEvent(g, key, x) = PutEvent(c, key, x),
               OutsExcluding(g, a.team, a.ctx.i, {key}) = outs
        PROVE  GameReducer(g, a) = IF u.action \in SafeActions THEN Put(e, Safe, e.outNum)
                                   ELSE Put(e, Out, AtMost3(outs + 1))
    <2> DEFINE acc == [g |-> g, outs |-> outs]
    <2>1. GameReducer(g, a) = UpdateRunner(acc, u, a.batter).g
      BY <1>4, OneUpdate
    <2>2. acc.g = g /\ acc.outs = outs /\ DOMAIN acc = {"g", "outs"}
      OBVIOUS
    <2> HIDE DEF acc, outs
    <2>3. CASE u.action \in SafeActions
      <3> DEFINE put == PutEvent(g, key, SetBase(e, base, Safe, u.action, e.outNum))
      <3>1. UpdateRunner(acc, u, a.batter) = [acc EXCEPT !.g = put]
        BY <1>1, <1>4, <2>2, <2>3 DEF UpdateRunner, SetBase, SetWay, WithReason
      <3> HIDE DEF put
      <3>2. UpdateRunner(acc, u, a.batter).g = put
        BY <2>2, <3>1
      <3>3. QED
        BY <1>4, <2>1, <2>3, <3>2 DEF put
    <2>4. CASE u.action \notin SafeActions
      <3> DEFINE put == PutEvent(g, key, SetBase(e, base, Out, u.action, AtMost3(outs + 1)))
      <3>1. UpdateRunner(acc, u, a.batter) = [g |-> put, outs |-> outs + 1]
        BY <1>1, <1>4, <2>2, <2>4 DEF UpdateRunner, SetBase, SetWay, WithReason
      <3> HIDE DEF put
      <3>2. UpdateRunner(acc, u, a.batter).g = put
        BY <3>1
      <3>3. QED
        BY <1>4, <2>1, <2>4, <3>2 DEF put
    <2>5. QED
      BY <2>3, <2>4
  <1>5. /\ EventAt(was, key, a.batter) = f
        /\ \A x : PutEvent(was, key, x) = PutEvent(c, key, x)
    BY PutCell
  <1>6. OutsExcluding(was, a.team, a.ctx.i, {key}) = outs
    BY OutsElsewhere
  <1>7. EventAt(c, key, a.batter) = E
    BY DEF CellOf
  <1>8. "outNum" \in DOMAIN E => f.outNum = E.outNum
    BY DEF Along
  <1>9. "outNum" \in DOMAIN E \/ \A w, m, n : Put(E, w, m) = Put(E, w, n)
    <2> HIDE DEF E
    <2>1. CASE "outNum" \notin DOMAIN E
      BY <2>1, AnyOutNum
    <2>2. QED
      BY <2>1
  <1> HIDE DEF f, E, outs, Put
  <1>10. GameReducer(was, a) = IF u.action \in SafeActions THEN Put(f, Safe, f.outNum)
                               ELSE Put(f, Out, AtMost3(outs + 1))
    BY <1>4, <1>5, <1>6
  <1>11. GameReducer(c, a) = IF u.action \in SafeActions THEN Put(E, Safe, E.outNum)
                             ELSE Put(E, Out, AtMost3(outs + 1))
    BY <1>4, <1>7 DEF outs
  <1>12. Put(E, Safe, f.outNum) = Put(E, Safe, E.outNum)
    BY <1>8, <1>9
  <1>13. QED
    BY <1>3, <1>10, <1>11, <1>12

-----------------------------------------------------------------------------
(* Handlers that change the game themselves, and a reload.                 *)

\* The copy of the cell after a tap on a base.
Tapped(base) == [data EXCEPT !.paths[base] = (@ + 1) % 3]

\* A tap on a base marks no substitution.
LEMMA TappedKnown ==
    ASSUME NEW S, KnownMarks(data, S), NEW base PROVE KnownMarks(Tapped(base), S)
  <1> DEFINE paths == [data.paths EXCEPT ![base] = (@ + 1) % 3]
             d == [data EXCEPT !.paths = paths]
  <1>1. Tapped(base) = d
    BY DEF Tapped
  <1> HIDE DEF paths
  <1>2. DOMAIN data \subseteq DOMAIN d /\ d.pitches = data.pitches
    BY DEF KnownMarks
  <1> HIDE DEF d
  <1>3. QED
    BY <1>1, <1>2, SamePitches

\* The action that records the way.
LEMMA OverrideHeld == ASSUME NEW d PROVE Held(PathOverride(d))
  <1> DEFINE key == CellKey(ui)
             fields == [paths |-> d.paths, info |-> d.info, pId |-> BatterId(game, ui)]
             a == [type |-> "MANUAL_PATH_OVERRIDE", key |-> key, data |-> fields]
  <1>1. PathOverride(d) = a
    BY DEF PathOverride
  <1>2. "pitches" \notin DOMAIN fields
    OBVIOUS
  <1> HIDE DEF key, fields
  <1>3. /\ "type" \in DOMAIN a /\ "id" \notin DOMAIN a /\ "data" \in DOMAIN a
        /\ a.type = "MANUAL_PATH_OVERRIDE" /\ a.data = fields
    OBVIOUS
  <1> HIDE DEF a
  <1>4. QED
    BY <1>1, <1>2, <1>3 DEF Held, IsHeld, ActionTypes

\* The two ways a tap on a base goes.
LEMMA BaseClickCases ==
    ASSUME NEW base, HandleBaseClick(base)
    PROVE  LET d == Tapped(base)
               tapped == PutEvent(game, CellKey(ui), d)
           IN \/ /\ game' = tapped /\ data' = d /\ log' = log
                 /\ ui' = [ui EXCEPT !.menu = <<base, d.paths[base]>>]
                 /\ loose' = loose \cup {<<CellKey(ui), base>>} \cup Overwrites
              \/ /\ DispatchOn(tapped, PathOverride(d), (loose \ OfCell) \cup Overwrites)
                 /\ ui' = [ui EXCEPT !.menu = <<>>]
                 /\ data' = CellData(game', ui)
  BY Zenon DEF HandleBaseClick, Tapped

\* The action the menu of a base records.
MenuAction(code) ==
  AtCell([type |-> "RUNNER_BATCH_UPDATE",
          updates |-> <<[key |-> CellKey(ui), action |-> code, base |-> ui.menu[1] - 1]>>])

\* What a choice from the menu does.
LEMMA MenuIs ==
    ASSUME NEW code, ApplyRunnerAction(code)
    PROVE  /\ DispatchOn(game, MenuAction(code),
                loose \ IF code \in SafeActions \cup OutActions
                        THEN {<<CellKey(ui), ui.menu[1]>>} ELSE {})
           /\ ui' = ui /\ data' = data /\ ui.menu # <<>>
  BY Zenon DEF ApplyRunnerAction, MenuAction

LEMMA MenuHeld == ASSUME NEW code PROVE Held(MenuAction(code))
  <1> DEFINE x == [key |-> CellKey(ui), action |-> code, base |-> ui.menu[1] - 1]
             list == <<x>>
  <1>1. MenuAction(code) = AtCell([type |-> "RUNNER_BATCH_UPDATE", updates |-> list])
    BY DEF MenuAction
  <1> HIDE DEF x
  <1>2. IsList(list)
    BY OneList
  <1> HIDE DEF list
  <1>3. QED
    BY <1>1, <1>2, BatchHeld

\* When only one cell was changed, the game is that of the log but for its way.
LEMMA CellIsOnly ==
    ASSUME Told, Loose, NEW key, key # <<>>, \A c \in loose : c[1] = key
    PROVE  \/ loose = {} /\ game = ComputeStateFromLog(log)
           \/ OnlyIn(game, ComputeStateFromLog(log), key, loose)
  BY DEF Told, Loose

\* A base of the cell is turned.
LEMMA TappedOnly ==
    ASSUME IsLog(log), Told, Loose, data = CellData(game, ui),
           \A c \in loose : c[1] = CellKey(ui), NEW base
    PROVE  LET key == CellKey(ui)
               was == ComputeStateFromLog(log)
           IN \E x : /\ PutEvent(game, key, Tapped(base))
                          = PutEvent(was, key, Along(CellOf(was, key), x))
                     /\ \A b : loose \cup {<<key, base>>} \subseteq {<<key, b>>} =>
                                 SameWay(x, CellOf(was, key).paths, b)
  <1> DEFINE key == CellKey(ui)
             was == ComputeStateFromLog(log)
             E == CellOf(was, key)
  <1>1. key # <<>> /\ data = CellOf(game, key)
    BY CellKeyIs
  <1>2. Tapped(base) = Turned(data, base)
    BY DEF Tapped, Turned
  <1>3. Marked(was, Places(log))
    BY StateMarked
  <1>4. \A b : loose \cup {<<key, base>>} \subseteq {<<key, b>>} =>
                 b = base /\ loose \subseteq {<<key, base>>}
    OBVIOUS
  <1>5. \/ loose = {} /\ game = was
        \/ OnlyIn(game, was, key, loose)
    BY <1>1, CellIsOnly
  <1> HIDE DEF key, was
  <1>6. CASE game = was
    <2>1. PICK x : Turned(E, base) = Along(E, x) /\ SameWay(x, E.paths, base)
      BY TurnedOnce
    <2>2. data = E
      BY <1>1, <1>6
    <2> HIDE DEF E
    <2>3. PutEvent(game, key, Tapped(base)) = PutEvent(was, key, Along(E, x))
      BY <1>2, <1>6, <2>1, <2>2
    <2>4. QED
      BY <1>4, <2>1, <2>3 DEF E, key, was
  <1>7. CASE OnlyIn(game, was, key, loose)
    <2>1. PICK way : /\ game = PutEvent(was, key, Along(E, way))
                     /\ \A b : loose \subseteq {<<key, b>>} => SameWay(way, E.paths, b)
      BY <1>7 DEF OnlyIn
    <2>2. /\ CellOf(game, key) = Along(E, way)
          /\ \A f : PutEvent(game, key, f) = PutEvent(was, key, f)
      BY <1>3, <2>1, PutCell
    <2> HIDE DEF E
    <2>3. PICK x : /\ Turned(Along(E, way), base) = Along(E, x)
                   /\ SameWay(way, E.paths, base) => SameWay(x, E.paths, base)
      BY TurnedIs
    <2>4. PutEvent(game, key, Tapped(base)) = PutEvent(was, key, Along(E, x))
      BY <1>1, <1>2, <2>2, <2>3
    <2>5. \A b : loose \cup {<<key, base>>} \subseteq {<<key, b>>} => SameWay(x, E.paths, b)
      BY <1>4, <2>1, <2>3
    <2>6. QED
      BY <2>4, <2>5 DEF E, key, was
  <1>8. QED
    BY <1>5, <1>6, <1>7

\* The fields of the action that records the way.
LEMMA OverrideIs ==
    ASSUME NEW d
    PROVE  LET a == Numbered(PathOverride(d))
           IN /\ a.type = "MANUAL_PATH_OVERRIDE" /\ a.key = CellKey(ui)
              /\ {"paths", "pId"} \subseteq DOMAIN a.data
  <1> DEFINE way == [paths |-> d.paths, info |-> d.info, pId |-> BatterId(game, ui)]
             p == PathOverride(d)
  <1>1. {"paths", "pId"} \subseteq DOMAIN way
    OBVIOUS
  <1> HIDE DEF way
  <1>2. /\ {"type", "key", "data"} \subseteq DOMAIN p
        /\ p.type = "MANUAL_PATH_OVERRIDE" /\ p.key = CellKey(ui) /\ p.data = way
    BY DEF PathOverride, way
  <1> HIDE DEF p
  <1>3. \A x \in DOMAIN p : Numbered(p)[x] = p[x]
    BY OverrideHeld, NumberedIs DEF p
  <1>4. QED
    BY <1>1, <1>2, <1>3 DEF p

\* A tap leaves the way of its own cell open, or records it.
LEMMA BaseClickTold ==
    ASSUME Ready, Told, Loose, NEW base, HandleBaseClick(base) PROVE Told' /\ Loose'
  <1> DEFINE d == Tapped(base)
             key == CellKey(ui)
             was == ComputeStateFromLog(log)
             tapped == PutEvent(game, key, d)
             left == (loose \ OfCell) \cup Overwrites
             E == CellOf(was, key)
  <1>1. \/ /\ game' = tapped /\ log' = log
           /\ loose' = loose \cup {<<key, base>>} \cup Overwrites
        \/ DispatchOn(tapped, PathOverride(d), left)
    BY BaseClickCases
  <1>2. IsLog(log) /\ Marked(was, Places(log))
    BY StateMarked DEF Ready
  <1>3. key # <<>>
    BY CellKeyIs
  <1>4. Overwrites = {} => data = CellData(game, ui)
    BY DEF Overwrites
  <1>5. Overwrites # {} => Overwrites = {<<<<>>, 0>>}
    BY DEF Overwrites
  <1>6. CASE game' = tapped /\ log' = log /\ loose' = loose \cup {<<key, base>>} \cup Overwrites
    <2>1. <<key, base>> \in loose'
      BY <1>6
    <2>2. Told'
      BY <2>1 DEF Told
    <2>3. ASSUME NEW k, k # <<>>, \A c \in loose' : c[1] = k
          PROVE  OnlyIn(game', ComputeStateFromLog(log'), k, loose')
      <3>1. k = key
        BY <2>1, <2>3
      <3>2. Overwrites = {}
        <4>1. <<<<>>, 0>> \notin loose'
          BY <2>3
        <4>2. QED
          BY <1>5, <1>6, <4>1
      <3>3. \A c \in loose : c[1] = key
        BY <1>6, <2>3, <3>1
      <3>4. PICK x : /\ tapped = PutEvent(was, key, Along(E, x))
                     /\ \A b : loose \cup {<<key, base>>} \subseteq {<<key, b>>} =>
                                 SameWay(x, E.paths, b)
        BY <1>2, <1>4, <3>2, <3>3, TappedOnly
      <3>5. loose' = loose \cup {<<key, base>>}
        BY <1>6, <3>2
      <3> HIDE DEF key, tapped, was
      <3>6. game' = PutEvent(was, key, Along(E, x))
        BY <1>6, <3>4
      <3>7. \A b : loose' \subseteq {<<key, b>>} => SameWay(x, E.paths, b)
        BY <3>4, <3>5
      <3>8. ComputeStateFromLog(log') = was
        BY <1>6 DEF was
      <3>9. QED
        BY <3>1, <3>6, <3>7, <3>8 DEF OnlyIn
    <2>4. Loose'
      BY <2>3 DEF Loose
    <2>5. QED
      BY <2>2, <2>4
  <1>7. CASE DispatchOn(tapped, PathOverride(d), left)
    <2>1. ASSUME left = {}
          PROVE  GameReducer(tapped, Numbered(PathOverride(d)))
                   = GameReducer(was, Numbered(PathOverride(d)))
      <3>1. Overwrites = {} /\ \A c \in loose : c[1] = key
        BY <2>1 DEF OfCell
      <3>2. PICK x : tapped = PutEvent(was, key, Along(E, x))
        BY <1>2, <1>4, <3>1, TappedOnly
      <3> HIDE DEF key, tapped, was, d
      <3>3. QED
        BY <1>2, <3>2, OverrideIs, OverridesAgree DEF key
    <2>2. Held(PathOverride(d))
      BY OverrideHeld
    <2> HIDE DEF key, tapped, d, left
    <2>3. QED
      BY <1>2, <1>7, <2>1, <2>2, DispatchTold
  <1>8. QED
    BY <1>1, <1>6, <1>7

\* Closing the menu records it.
LEMMA CloseMenuTold == ASSUME Ready, Told, Loose, CloseRunnerMenu PROVE Told' /\ Loose'
  <1> DEFINE key == CellKey(ui)
             was == ComputeStateFromLog(log)
             left == loose \ OfCell
             a == Numbered(PathOverride(data))
  <1>1. DispatchOn(game, PathOverride(data), left)
    BY DEF CloseRunnerMenu
  <1>2. IsLog(log) /\ Marked(was, Places(log)) /\ key # <<>>
    BY StateMarked, CellKeyIs DEF Ready
  <1>3. ASSUME left = {} PROVE GameReducer(game, a) = GameReducer(was, a)
    <2>1. \A c \in loose : c[1] = key
      BY <1>3 DEF OfCell
    <2>2. game = was \/ OnlyIn(game, was, key, loose)
      BY <1>2, <2>1, CellIsOnly
    <2>3. game = was \/ \E way : game = PutEvent(was, key, Along(CellOf(was, key), way))
      BY <2>2 DEF OnlyIn
    <2>4. /\ a.type = "MANUAL_PATH_OVERRIDE" /\ a.key = key
          /\ {"paths", "pId"} \subseteq DOMAIN a.data
      BY OverrideIs
    <2> HIDE DEF key, was, a
    <2>5. QED
      BY <1>2, <2>3, <2>4, OverridesAgree
  <1>4. Held(PathOverride(data))
    BY OverrideHeld
  <1> HIDE DEF left
  <1>5. QED
    BY <1>1, <1>2, <1>3, <1>4, DispatchTold

\* The fields of the action the menu records.
LEMMA MenuActionIs ==
    ASSUME NEW code
    PROVE  LET a == Numbered(MenuAction(code))
               u == [key |-> CellKey(ui), action |-> code, base |-> ui.menu[1] - 1]
           IN /\ a.type = "RUNNER_BATCH_UPDATE" /\ a.updates = <<u>>
              /\ a.batter = BatterId(game, ui)
  <1> DEFINE u == [key |-> CellKey(ui), action |-> code, base |-> ui.menu[1] - 1]
             list == <<u>>
             x == [type |-> "RUNNER_BATCH_UPDATE", updates |-> list]
             y == [team |-> ui.team, ctx |-> ui.ctx, batter |-> BatterId(game, ui)]
             b == MenuAction(code)
             a == Numbered(b)
  <1>1. b = Over(x, y)
    BY DEF MenuAction, AtCell
  <1> HIDE DEF list
  <1>2. /\ DOMAIN x = {"type", "updates"} /\ x.type = "RUNNER_BATCH_UPDATE" /\ x.updates = list
        /\ DOMAIN y = {"team", "ctx", "batter"} /\ y.batter = BatterId(game, ui)
    OBVIOUS
  <1> HIDE DEF x, y, b
  <1>3. /\ DOMAIN b = DOMAIN x \cup DOMAIN y
        /\ \A f \in DOMAIN x : b[f] = x[f]
        /\ \A f \in DOMAIN y \ DOMAIN x : b[f] = y[f]
    <2>1. /\ DOMAIN Over(x, y) = DOMAIN x \cup DOMAIN y
          /\ \A f \in DOMAIN x : Over(x, y)[f] = x[f]
          /\ \A f \in DOMAIN y \ DOMAIN x : Over(x, y)[f] = y[f]
      BY OverIs
    <2>2. QED
      BY Zenon, <1>1, <2>1
  <1>4. /\ {"type", "updates", "batter"} \subseteq DOMAIN b
        /\ b.type = "RUNNER_BATCH_UPDATE" /\ b.updates = list
        /\ b.batter = BatterId(game, ui)
    BY <1>2, <1>3
  <1>5. \A f \in DOMAIN b : a[f] = b[f]
    BY MenuHeld, NumberedIs DEF b
  <1> HIDE DEF a
  <1>6. /\ a.type = "RUNNER_BATCH_UPDATE" /\ a.updates = list
        /\ a.batter = BatterId(game, ui)
    BY <1>4, <1>5
  <1>7. QED
    BY <1>6 DEF a, b, list

\* A reason from the menu settles the base it was opened for.
LEMMA MenuTold ==
    ASSUME Ready, Told, Loose, NEW code, ApplyRunnerAction(code) PROVE Told' /\ Loose'
  <1> DEFINE key == CellKey(ui)
             was == ComputeStateFromLog(log)
             base == ui.menu[1]
             known == IF code \in SafeActions \cup OutActions THEN {<<key, base>>} ELSE {}
             left == loose \ known
             u == [key |-> key, action |-> code, base |-> base - 1]
             a == Numbered(MenuAction(code))
  <1>1. DispatchOn(game, MenuAction(code), left) /\ ui.menu # <<>>
    BY MenuIs
  <1>2. IsLog(log) /\ Marked(was, Places(log)) /\ key # <<>> /\ base \in 0..3
    BY <1>1, StateMarked, CellKeyIs DEF Ready, IsUi
  <1>3. ASSUME left = {} PROVE GameReducer(game, a) = GameReducer(was, a)
    <2>1. CASE loose = {}
      BY <2>1 DEF Told
    <2>2. CASE loose # {}
      <3>1. code \in SafeActions \cup OutActions /\ loose = {<<key, base>>}
        BY <1>3, <2>2
      <3>2. OnlyIn(game, was, key, loose)
        <4>1. \A c \in loose : c[1] = key
          BY <3>1
        <4> HIDE DEF key
        <4>2. \/ loose = {} /\ game = ComputeStateFromLog(log)
              \/ OnlyIn(game, ComputeStateFromLog(log), key, loose)
          BY <1>2, <4>1, CellIsOnly
        <4>3. QED
          BY <2>2, <4>2
      <3>3. PICK way : /\ game = PutEvent(was, key, Along(CellOf(was, key), way))
                       /\ SameWay(way, CellOf(was, key).paths, base)
        BY <3>1, <3>2 DEF OnlyIn
      <3>4. /\ a.type = "RUNNER_BATCH_UPDATE" /\ a.updates = <<u>>
            /\ a.batter = BatterId(game, ui)
        BY MenuActionIs
      <3>5. u.key = key /\ u.base = base - 1 /\ u.action = code
        OBVIOUS
      <3>6. BatterId(game, ui) = Holder(game, key)
        BY CellKeyIs
      <3> HIDE DEF key, was, a, u, base
      <3>7. Holder(game, key) = Holder(was, key)
        BY <1>2, <3>3, PutCell
      <3>8. a.batter = Holder(was, key) /\ u.action \in SafeActions \cup OutActions
        BY <3>1, <3>4, <3>5, <3>6, <3>7
      <3>9. QED
        BY <1>2, <3>3, <3>4, <3>5, <3>8, ReasonsAgree
    <2>3. QED
      BY <2>1, <2>2
  <1>4. Held(MenuAction(code))
    BY MenuHeld
  <1> HIDE DEF left
  <1>5. QED
    BY <1>1, <1>2, <1>3, <1>4, DispatchTold

\* A player corrected in place is in no action until a reload.
LEMMA CorrectPlayerTold == ASSUME NEW player, CorrectPlayer(player) PROVE Told' /\ Loose'
  <1>1. <<<<>>, 0>> \in loose'
    BY DEF CorrectPlayer
  <1>2. \A key : (\A c \in loose' : c[1] = key) => key = <<>>
    BY <1>1
  <1>3. QED
    BY <1>1, <1>2 DEF Told, Loose

LEMMA ReloadTold == ASSUME Reload PROVE Told' /\ Loose'
  BY DEF Reload, Told, Loose

\* What every handler leaves.
Telling == Told /\ Loose => Told' /\ Loose'
Settled == Tame /\ Copied /\ IsUi(ui') /\ Telling

\* A handler that dispatches at most one action.
LEMMA StepSettled == ASSUME Ready, Step PROVE Settled
  <1>1. Tame
    BY PlainTame DEF Ready, Step
  <1>2. Telling
    BY PlainTold DEF Ready, Step, Telling
  <1>3. QED
    BY <1>1, <1>2 DEF Step, Settled

\* The other handlers, one by one.
LEMMA BaseClickSettled ==
    ASSUME Ready, NEW base \in Bases, HandleBaseClick(base) PROVE Settled
  <1> DEFINE d == Tapped(base)
             key == CellKey(ui)
             tapped == PutEvent(game, key, d)
             menu == <<base, d.paths[base]>>
             left == (loose \ OfCell) \cup Overwrites
  <1>0. Telling
    BY BaseClickTold DEF Telling
  <1>1. \/ /\ game' = tapped /\ data' = d /\ log' = log
           /\ ui' = [ui EXCEPT !.menu = menu]
        \/ /\ DispatchOn(tapped, PathOverride(d), left)
           /\ ui' = [ui EXCEPT !.menu = <<>>]
           /\ data' = CellData(game', ui)
    BY BaseClickCases
  <1>2. KnownMarks(d, Places(log))
    BY TappedKnown DEF Ready
  <1>3. Held(PathOverride(d))
    BY OverrideHeld
  <1>4. menu # <<>> => menu[1] \in 0..3
    BY ScorerConstants
  <1>5. <<>> # <<>> => <<>>[1] \in 0..3
    OBVIOUS
  <1> HIDE DEF menu, d, key, left
  <1>6. Marked(tapped, Places(log))
    BY <1>2, PutEventMarked DEF Ready
  <1> HIDE DEF tapped
  <1>7. IsUi(ui')
    BY <1>1, <1>4, <1>5, UiMenu DEF Ready
  <1>8. Copied
    BY <1>1, <1>2 DEF Copied
  <1>9. CASE game' = tapped /\ log' = log
    <2>1. IsLog(log') /\ Places(log') = Places(log)
      BY <1>9 DEF Ready
    <2>2. Tame
      BY <1>6, <1>9, <2>1 DEF Tame, LogStep
    <2>3. QED
      BY <1>7, <1>8, <2>2, <1>0 DEF Settled
  <1>10. CASE DispatchOn(tapped, PathOverride(d), left)
    <2>1. Tame
      BY <1>3, <1>6, <1>10, DispatchTame DEF Ready
    <2>2. QED
      BY <1>7, <1>8, <2>1, <1>0 DEF Settled
  <1>11. QED
    BY <1>1, <1>9, <1>10

LEMMA MenuSettled == ASSUME Ready, NEW code, ApplyRunnerAction(code) PROVE Settled
  <1>0. Telling
    BY MenuTold DEF Telling
  <1>1. PICK left : DispatchOn(game, MenuAction(code), left) /\ ui' = ui /\ data' = data
    BY MenuIs
  <1>2. Tame
    BY <1>1, MenuHeld, DispatchTame DEF Ready
  <1>3. QED
    BY <1>1, <1>2, SameData, SameUi, <1>0 DEF Settled

LEMMA CloseMenuSettled == ASSUME Ready, CloseRunnerMenu PROVE Settled
  <1>0. Telling
    BY CloseMenuTold DEF Telling
  <1>1. DispatchOn(game, PathOverride(data), loose \ OfCell) /\ ui' = [ui EXCEPT !.menu = <<>>]
        /\ data' = data
    BY DEF CloseRunnerMenu
  <1>2. Tame
    BY <1>1, OverrideHeld, DispatchTame DEF Ready
  <1>3. <<>> # <<>> => <<>>[1] \in 0..3
    OBVIOUS
  <1>4. IsUi(ui')
    BY <1>1, <1>3, UiMenu DEF Ready
  <1>5. QED
    BY <1>1, <1>2, <1>4, SameData, <1>0 DEF Settled

LEMMA CorrectPlayerSettled == ASSUME Ready, NEW player, CorrectPlayer(player) PROVE Settled
  <1> DEFINE slot == [game.roster[ui.team][ui.ctx.b + 1] EXCEPT !.current = player]
             roster == [game.roster EXCEPT ![ui.team] = [@ EXCEPT ![ui.ctx.b + 1] = slot]]
             pId == IF data.pId = BatterId(game, ui) THEN player ELSE data.pId
             d == [data EXCEPT !.pId = pId]
  <1>0. Telling
    BY CorrectPlayerTold DEF Telling
  <1>1. /\ game' = [game EXCEPT !.roster = roster] /\ data' = d /\ log' = log /\ ui' = ui
    BY DEF CorrectPlayer
  <1> HIDE DEF slot, pId
  <1>2. Marked(game', Places(log))
    BY <1>1, SlotReplaced DEF Ready
  <1> HIDE DEF roster
  <1>3. DOMAIN data \subseteq DOMAIN d /\ d.pitches = data.pitches
    BY DEF Ready, KnownMarks
  <1> HIDE DEF d
  <1>4. KnownMarks(d, Places(log))
    BY <1>3, SamePitches DEF Ready
  <1>5. IsLog(log') /\ Places(log') = Places(log)
    BY <1>1 DEF Ready
  <1>6. Tame
    BY <1>1, <1>2, <1>5 DEF Tame, LogStep
  <1>7. QED
    BY <1>1, <1>4, <1>6, SameUi, <1>0 DEF Settled, Copied

\* The overlay when the page is loaded.
LEMMA FreshUi ==
  IsUi([team |-> "away", ctx |-> <<>>, view |-> "grid", menu |-> <<>>,
        bip |-> <<>>, mode |-> "normal", pend |-> <<>>, runners |-> <<>>,
        editing |-> FALSE])
  <1> DEFINE none == <<>>
             u == [team |-> "away", ctx |-> none, view |-> "grid", menu |-> none,
                   bip |-> none, mode |-> "normal", pend |-> none, runners |-> none,
                   editing |-> FALSE]
  <1>1. IsList(none) /\ "away" \in Team
    BY EmptyList DEF Team
  <1>2. none = <<>>
    OBVIOUS
  <1> HIDE DEF none
  <1>3. /\ DOMAIN u = UiFields /\ u.team = "away" /\ u.runners = none /\ u.menu = none
    BY DEF UiFields
  <1> HIDE DEF u
  <1>4. IsUi(u)
    BY <1>1, <1>2, <1>3 DEF IsUi
  <1>5. QED
    BY <1>4 DEF u, none

LEMMA ReloadSettled == ASSUME Ready, Reload PROVE Settled
  <1>0. Telling
    BY ReloadTold DEF Telling
  <1>1. /\ game' = ComputeStateFromLog(log) /\ log' = log /\ data' = NoCell
        /\ ui' = [team |-> "away", ctx |-> <<>>, view |-> "grid", menu |-> <<>>,
                  bip |-> <<>>, mode |-> "normal", pend |-> <<>>, runners |-> <<>>,
                  editing |-> FALSE]
    BY DEF Reload
  <1>2. IsLog(log') /\ Places(log') = Places(log)
    BY <1>1 DEF Ready
  <1>3. Marked(game', Places(log'))
    BY <1>1, <1>2, StateMarked
  <1>4. Tame
    BY <1>1, <1>2, <1>3 DEF Tame, LogStep
  <1>5. QED
    BY <1>1, <1>4, FreshUi, NoCellKnown, <1>0 DEF Settled, Copied

-----------------------------------------------------------------------------
(* Every step.                                                             *)

\* By the parts of the next-state relation.
LEMMA OverlaySettled == ASSUME Ready, InOverlay PROVE Settled
  <1>1. CASE CloseCSO \/ ToggleAction
    BY <1>1, CloseCSOStep, ToggleActionStep, StepSettled
  <1>2. CASE \E p \in Pitches : IF p[1] = "out" THEN RecordOut(p[2]) ELSE RecordPitch(p[1], p[2])
    <2>1. \/ \E code : RecordOut(code)
          \/ \E type, code : RecordPitch(type, code)
      BY <1>2
    <2>2. QED
      BY <2>1, RecordOutStep, RecordPitchStep, StepSettled
  <1>3. CASE \E code : RecordAutoAdvance(code)
    BY <1>3, RecordAutoAdvanceStep, StepSettled
  <1>4. CASE SelectDropped \/ ShowBip \/ HideBip \/ CommitBiP
    BY <1>4, SelectDroppedStep, ShowBipStep, HideBipStep, CommitBiPStep, StepSettled
  <1>5. CASE AddToSequence \/ BackspaceSequence
    BY <1>5, SequenceStep, StepSettled
  <1>6. CASE \E key : CycleBiP(key)
    BY <1>6, CycleBiPStep, StepSettled
  <1>7. CASE CloseRunnerAdvance \/ CloseRunnerAction
    BY <1>7, CloseRunnersStep, StepSettled
  <1>8. CASE FinishTurn \/ OpenRunnerAction \/ SaveRunnerActions \/ RecordBalk
    BY <1>8, FinishTurnStep, OpenRunnerActionStep, SaveRunnerActionsStep, RecordBalkStep,
       StepSettled
  <1>9. CASE \E i, way : SetRunnerOutcome(i, way)
    BY <1>9, SetRunnerOutcomeStep, StepSettled
  <1>10. CASE \E base \in Bases : HandleBaseClick(base)
    BY <1>10, BaseClickSettled
  <1>11. CASE \E code : ApplyRunnerAction(code)
    BY <1>11, MenuSettled
  <1>12. CASE CloseRunnerMenu
    BY <1>12, CloseMenuSettled
  <1>13. CASE CycleOutNum \/ ClearAllData \/ UndoPitch
    BY <1>13, CycleOutNumStep, ClearAllDataStep, UndoPitchStep, StepSettled
  <1>14. CASE \E player : ChangePitcher(player) \/ EditRBI(player)
    BY <1>14, ChangePitcherStep, EditRBIStep, StepSettled
  <1>15. CASE \E player : CorrectPlayer(player)
    BY <1>15, CorrectPlayerSettled
  <1>16. \/ CloseCSO \/ ToggleAction
         \/ \E p \in Pitches : IF p[1] = "out" THEN RecordOut(p[2]) ELSE RecordPitch(p[1], p[2])
         \/ \E code : RecordAutoAdvance(code)
         \/ SelectDropped \/ ShowBip \/ HideBip \/ CommitBiP
         \/ AddToSequence \/ BackspaceSequence
         \/ \E key : CycleBiP(key)
         \/ CloseRunnerAdvance \/ FinishTurn
         \/ OpenRunnerAction \/ CloseRunnerAction \/ SaveRunnerActions \/ RecordBalk
         \/ \E i, way : SetRunnerOutcome(i, way)
         \/ \E base \in Bases : HandleBaseClick(base)
         \/ \E code : ApplyRunnerAction(code)
         \/ CloseRunnerMenu
         \/ CycleOutNum \/ ClearAllData \/ UndoPitch
         \/ \E player : ChangePitcher(player) \/ EditRBI(player)
         \/ \E player : CorrectPlayer(player)
    BY Zenon DEF InOverlay
  <1>17. QED
    BY <1>1, <1>2, <1>3, <1>4, <1>5, <1>6, <1>7, <1>8, <1>9, <1>10, <1>11, <1>12, <1>13,
       <1>14, <1>15, <1>16

LEMMA SheetSettled == ASSUME Ready, OnTheSheet PROVE Settled
  <1>1. CASE \E b, c : OpenCSO(b, c) \/ ToggleLead(b, c)
    BY <1>1, OpenCSOStep, ToggleLeadStep, StepSettled
  <1>2. CASE SwitchTeam
    BY <1>2, SwitchTeamStep, StepSettled
  <1>3. CASE \E key \in DOMAIN game.events, b \in Touched : MovePlay(key, b)
    BY <1>3, MovePlayStep, StepSettled
  <1>4. CASE \E inning, score : AddColumn(inning) \/ EditScore(inning, score)
    BY <1>4, AddColumnStep, EditScoreStep, StepSettled
  <1>5. CASE \E c : RemoveColumn(c)
    BY <1>5, RemoveColumnStep, StepSettled
  <1>6. CASE AddInning \/ EndGame \/ Undo \/ Redo
    BY <1>6, AddInningStep, EndGameStep, UndoStepTaken, RedoStepTaken, StepSettled
  <1>7. \/ \E b, c : OpenCSO(b, c) \/ ToggleLead(b, c)
        \/ SwitchTeam
        \/ \E key \in DOMAIN game.events, b \in Touched : MovePlay(key, b)
        \/ \E inning, score : AddColumn(inning) \/ EditScore(inning, score)
        \/ \E c : RemoveColumn(c)
        \/ AddInning \/ EndGame \/ Undo \/ Redo
    BY Zenon DEF OnTheSheet
  <1>8. QED
    BY <1>1, <1>2, <1>3, <1>4, <1>5, <1>6, <1>7

LEMMA NextSettled == ASSUME Ready, Next PROVE Settled
  <1>1. CASE Resume
    BY <1>1, ResumeStep, StepSettled
  <1>2. CASE \E b, player : Substitute(ui.team, b, player)
    BY <1>2, SubstituteStep, StepSettled
  <1>3. CASE \E a \in Remote : Receive(a)
    BY <1>3, ReceiveStep, StepSettled
  <1>4. \/ InOverlay \/ OnTheSheet \/ Resume \/ Reload
        \/ \E b, player : Substitute(ui.team, b, player)
        \/ \E a \in Remote : Receive(a)
    BY Zenon DEF Next
  <1>5. QED
    BY <1>1, <1>2, <1>3, <1>4, OverlaySettled, SheetSettled, ReloadSettled

\* What every handler leaves is what the next one finds.
LEMMA SettledReady == ASSUME Ready, Settled PROVE Ready'
  <1>1. IsLog(log') /\ Places(log) \subseteq Places(log') /\ Marked(game', Places(log'))
    BY DEF Settled, Tame, LogStep
  <1>2. KnownMarks(data', Places(log'))
    <2>1. CASE KnownMarks(data', Places(log))
      BY <1>1, <2>1, KnownMore
    <2>2. CASE \E u : data' = CellData(game', u)
      BY <1>1, <2>2, CellDataKnown
    <2>3. QED
      BY <2>1, <2>2 DEF Settled, Copied
  <1>3. QED
    BY <1>1, <1>2 DEF Ready, Settled

\* So does the page when it is loaded.
LEMMA InitReady == ASSUME Init PROVE Ready
  <1>1. /\ log \in Openings /\ game = ComputeStateFromLog(log) /\ data = NoCell
        /\ ui = [team |-> "away", ctx |-> <<>>, view |-> "grid", menu |-> <<>>,
                 bip |-> <<>>, mode |-> "normal", pend |-> <<>>, runners |-> <<>>,
                 editing |-> FALSE]
    BY DEF Init
  <1>2. IsLog(log)
    BY <1>1, ScorerConstants
  <1>3. QED
    BY <1>1, <1>2, StateMarked, FreshUi, NoCellKnown DEF Ready

\* What is taken back at the start, and what of it can come back.
LEMMA InitStack == ASSUME IsLog(log) PROVE Promise!Init
  <1> DEFINE X == Range(log)
             n == Len(log)
  <1>1. log \in Seq(X) /\ RefersBack(log) /\ n \in Nat
    BY LogIs
  <1> HIDE DEF X
  <1>2. /\ \A i \in InForce(log) : i \in 1..n
        /\ \A u \in Redoable(log) : /\ u \in 1..n /\ log[u].refId \in 1..n
                                    /\ log[u].refId \notin InForce(log)
    BY <1>1, InForceIs
  <1>3. TakenBack(log) = Pairs(log, Redoable(log))
    BY DEF TakenBack, Pairs
  <1>4. InForce(log) \subseteq Nat
    BY <1>1, <1>2
  <1>5. \A u \in Redoable(log) : <<log[u].refId, u>> \in (Nat \ InForce(log)) \X Nat
    BY <1>1, <1>2
  <1>6. TakenBack(log) \subseteq (Nat \ InForce(log)) \X Nat
    BY <1>3, <1>5 DEF Pairs
  <1>7. RedoStack(log) \in Seq(TakenBack(log))
    <2>1. PICK f : IsStack(f, log, Repeatable(log), n) /\ RedoStack(log) = f[n]
      BY <1>1, RedoStackIs
    <2>2. n \in 0..n
      BY <1>1
    <2>3. f[n] \in Seq(Pairs(log, Repeatable(log)))
      BY <1>1, <2>1, <2>2, StackTyped
    <2>4. Repeatable(log) \subseteq Redoable(log)
      BY <1>1, RepeatableIs
    <2>5. Pairs(log, Repeatable(log)) \subseteq TakenBack(log)
      BY <1>3, <2>4 DEF Pairs
    <2> DEFINE Y == Pairs(log, Repeatable(log))
               Z == TakenBack(log)
    <2>6. f[n] \in Seq(Y) /\ Y \subseteq Z
      BY <2>3, <2>5
    <2> HIDE DEF Y, Z
    <2>7. f[n] \in Seq(Z)
      BY <2>6
    <2>8. QED
      BY <2>1, <2>7 DEF Z
  <1>8. QED
    BY <1>4, <1>6, <1>7 DEF Promise!Init

\* The log is in order, the marks in the pitches refer to its actions, and what
\* the overlay lists are lists, at any time.
LEMMA ReadyHolds == Spec => []Ready
  <1>1. Init => Ready
    BY InitReady
  <1>2. Ready /\ [Next]_vars => Ready'
    <2> SUFFICES ASSUME Ready, [Next]_vars PROVE Ready'
      OBVIOUS
    <2>1. CASE Next
      BY <2>1, NextSettled, SettledReady
    <2>2. CASE UNCHANGED vars
      BY <2>2 DEF vars, Ready
    <2>3. QED
      BY <2>1, <2>2
  <1>3. QED
    BY <1>1, <1>2, PTL DEF Spec

\* The game at the start.
LEMMA InitTold == ASSUME Init PROVE Told /\ Loose
  BY DEF Init, Told, Loose

\* STATE-MANAGEMENT.md: as long as nothing was left out of the log, the game
\* the handlers have built is the one its log says.
THEOREM GameIsTold == Spec => []LogTellsTheGame
  <1>1. Init => Told /\ Loose
    BY InitTold
  <1>2. Ready /\ Told /\ Loose /\ [Next]_vars => Told' /\ Loose'
    <2> SUFFICES ASSUME Ready, Told, Loose, [Next]_vars PROVE Told' /\ Loose'
      OBVIOUS
    <2>1. CASE Next
      BY <2>1, NextSettled DEF Settled, Telling
    <2>2. CASE UNCHANGED vars
      <3>1. game' = game /\ log' = log /\ loose' = loose
        BY <2>2 DEF vars
      <3>2. QED
        BY <3>1 DEF Told, Loose, OnlyIn
    <2>3. QED
      BY <2>1, <2>2
  <1>3. Told => LogTellsTheGame
    BY DEF Told, LogTellsTheGame
  <1>4. QED
    BY <1>1, <1>2, <1>3, ReadyHolds, PTL DEF Spec

\* Undo and redo, in any order with anything else the scorer and other devices
\* do, are those of a stack: the history buttons of historyManager.js.
THEOREM UndoRedo == Spec => UndoIsAStack
  <1>1. Init => Promise!Init
    BY InitReady, InitStack DEF Ready
  <1>2. Ready /\ [Next]_vars => [Promise!Next]_<<InForce(log), TakenBack(log), RedoStack(log)>>
    <2> SUFFICES ASSUME Ready, [Next]_vars
                 PROVE  [Promise!Next]_<<InForce(log), TakenBack(log), RedoStack(log)>>
      OBVIOUS
    <2>1. CASE Next
      <3>1. log' = log \/ Promise!Next
        BY <2>1, NextSettled DEF Settled, Tame, LogStep
      <3>2. QED
        BY <3>1
    <2>2. CASE UNCHANGED vars
      BY <2>2 DEF vars
    <2>3. QED
      BY <2>1, <2>2
  <1>3. QED
    BY <1>1, <1>2, ReadyHolds, PTL DEF Spec, UndoIsAStack, Promise!Spec

-----------------------------------------------------------------------------
(* The cell the overlay shows.                                             *)

\* Handlers whose continuation copies the cell again: after a save of the
\* scorer's own, and after another device's action.
OwnSyncs == {"pitch", "dropped", "play", "advance", "sync", "base", "clear"}
Syncs == OwnSyncs \cup {"remote"}

\* An event but for its player, who may be corrected in place.
Plays(e) == [e EXCEPT !.pId = NoPlayer]

\* A cell without an event is shown empty, one with an event as it is, unless a
\* continuation is going to copy it again.
CellShown(g, u, d, queue) ==
    u.view # "grid" =>
      /\ Range(queue) \cap OwnSyncs = {} /\ CellKey(u) \notin DOMAIN g.events =>
           Plays(d) = Plays(EmptyEvent(NoPlayer))
      /\ Range(queue) \cap Syncs = {} /\ CellKey(u) \in DOMAIN g.events =>
           Plays(d) = Plays(g.events[CellKey(u)])

\* The runners whose actions are asked for are those of other cells.
Elsewhere(u) ==
    u.view = "action" =>
      \A r \in Range(u.runners) : "key" \in DOMAIN r /\ r.key # CellKey(u)
Shows == IsList(rest) /\ CellShown(game, ui, data, rest) /\ Elsewhere(ui)

\* A list with one more element, and without its first.
LEMMA QueueGrows ==
    ASSUME NEW s, IsList(s), NEW k
    PROVE  IsList(Append(s, k)) /\ Range(Append(s, k)) = Range(s) \cup {k}
  <1> DEFINE t == Append(s, k)
             R == Range(s)
  <1>1. R = {s[i] : i \in DOMAIN s} /\ Range(t) = {t[i] : i \in DOMAIN t}
    BY DEF Range
  <1>2. s \in Seq(R)
    BY DEF IsList
  <1> HIDE DEF R
  <1>3. /\ DOMAIN s = 1..Len(s) /\ DOMAIN t = 1..Len(s) + 1 /\ Len(s) \in Nat
        /\ \A i \in 1..Len(s) : t[i] = s[i] /\ i \in 1..Len(s) + 1
        /\ t[Len(s) + 1] = k /\ Len(s) + 1 \in 1..Len(s) + 1
        /\ \A i \in 1..Len(s) + 1 : i \in 1..Len(s) \/ i = Len(s) + 1
    BY <1>2
  <1> HIDE DEF t
  <1>4. \A q \in R \cup {k} : q \in Range(t)
    BY <1>1, <1>3
  <1>5. \A q \in Range(t) : q \in R \cup {k}
    BY <1>1, <1>3
  <1>6. Range(t) = R \cup {k}
    BY <1>4, <1>5
  <1>7. QED
    BY <1>6, ListGrows DEF t, R

LEMMA QueueShrinks ==
    ASSUME NEW s, IsList(s), s # <<>>
    PROVE  IsList(Tail(s)) /\ Range(s) = Range(Tail(s)) \cup {Head(s)}
  <1> DEFINE t == Tail(s)
             R == Range(s)
  <1>1. R = {s[i] : i \in DOMAIN s} /\ Range(t) = {t[i] : i \in DOMAIN t}
    BY DEF Range
  <1>2. s \in Seq(R)
    BY DEF IsList
  <1> HIDE DEF R
  <1>3. /\ Len(s) \in Nat /\ Len(s) >= 1 /\ DOMAIN s = 1..Len(s) /\ Head(s) = s[1]
        /\ DOMAIN t = 1..Len(s) - 1 /\ Len(t) = Len(s) - 1
        /\ \A i \in 1..Len(s) - 1 : t[i] = s[i + 1]
        /\ t \in Seq(R)
    BY <1>2
  <1> HIDE DEF t
  <1>4. \A i \in 1..Len(s) - 1 : i + 1 \in 1..Len(s) /\ t[i] \in R
    BY <1>1, <1>3
  <1>5. \A i \in 1..Len(s) : i = 1 \/ (i - 1 \in 1..Len(s) - 1 /\ (i - 1) + 1 = i)
    BY <1>3
  <1>6. \A q \in R : q = Head(s) \/ q \in Range(t)
    <2> SUFFICES ASSUME NEW i \in 1..Len(s) PROVE s[i] = Head(s) \/ s[i] \in Range(t)
      BY <1>1, <1>3
    <2>1. CASE i = 1
      BY <1>3, <2>1
    <2>2. CASE i - 1 \in 1..Len(s) - 1 /\ (i - 1) + 1 = i
      <3>1. t[i - 1] = s[i]
        BY <1>3, <2>2
      <3>2. QED
        BY <1>1, <1>3, <2>2, <3>1
    <2>3. QED
      BY <1>5, <2>1, <2>2
  <1>7. Head(s) \in R
    BY <1>1, <1>3
  <1>8. \A q \in Range(t) : q \in R
    BY <1>1, <1>3, <1>4
  <1>9. t \in Seq(Range(t))
    <2>1. t = [i \in 1..Len(t) |-> t[i]] /\ Len(t) \in Nat
      BY <1>3
    <2>2. \A i \in 1..Len(t) : t[i] \in Range(t)
      BY <1>1, <1>3
    <2>3. QED
      BY <2>1, <2>2
  <1>10. QED
    BY <1>6, <1>7, <1>8, <1>9 DEF IsList, t, R

\* The overlay stays at its cell, or is closed, and asks for no other runners.
Near(u, v) ==
    /\ DOMAIN v = UiFields /\ v.team = u.team /\ v.ctx = u.ctx
    /\ u.view = "grid" => v.view = "grid"
    /\ v.view = "action" => u.view = "action" /\ v.runners = u.runners

LEMMA NearSame == ASSUME NEW u, IsUi(u) PROVE Near(u, u)
  BY DEF Near, IsUi

LEMMA NearElsewhere ==
    ASSUME NEW u, NEW v, Near(u, v), Elsewhere(u) PROVE Elsewhere(v) /\ CellKey(v) = CellKey(u)
  BY DEF Near, Elsewhere, CellKey

LEMMA NearTwice ==
    ASSUME NEW u, NEW v, NEW w, Near(u, v), Near(v, w) PROVE Near(u, w)
  BY DEF Near

LEMMA NearField ==
    ASSUME NEW u, NEW v, Near(u, v), NEW x \in {"bip", "mode", "pend", "editing", "menu"}, NEW e
    PROVE  Near(u, [v EXCEPT ![x] = e])
  <1> DEFINE w == [v EXCEPT ![x] = e]
  <1>1. DOMAIN w = UiFields /\ \A y \in UiFields : y # x => w[y] = v[y]
    BY DEF Near
  <1>2. {"team", "ctx", "view", "runners"} \subseteq UiFields \ {x}
    BY DEF UiFields
  <1> HIDE DEF w
  <1>3. w.team = v.team /\ w.ctx = v.ctx /\ w.view = v.view /\ w.runners = v.runners
    BY <1>1, <1>2
  <1>4. Near(u, w)
    BY <1>1, <1>3 DEF Near
  <1>5. QED
    BY <1>4 DEF w

\* A view whose runners are not asked for actions.
LEMMA NearView ==
    ASSUME NEW u, NEW v, DOMAIN v = UiFields, v.team = u.team, v.ctx = u.ctx,
           NEW view, view # "action", u.view = "grid" => view = "grid"
    PROVE  Near(u, [v EXCEPT !.view = view])
  BY DEF Near, UiFields

LEMMA LeftAt ==
    ASSUME NEW u, IsUi(u)
    PROVE  /\ DOMAIN Left(u) = UiFields
           /\ Left(u).team = u.team /\ Left(u).ctx = u.ctx /\ Left(u).view = u.view
  <1> DEFINE dropped == {"dropped", "commit"} \cap Range(rest) # {}
             none == <<>>
             r == [u EXCEPT !.runners = none]
             b == [r EXCEPT !.bip = IF dropped THEN @ ELSE none]
             w == [b EXCEPT !.mode = IF dropped THEN @ ELSE "normal"]
  <1>1. Left(u) = w
    BY Zenon DEF Left
  <1> HIDE DEF dropped, none
  <1>2. /\ DOMAIN w = UiFields
        /\ w.team = u.team /\ w.ctx = u.ctx /\ w.view = u.view
    BY DEF IsUi, UiFields
  <1>3. QED
    BY <1>1, <1>2

LEMMA ClosedNear ==
    ASSUME NEW u, IsUi(u) PROVE Near(u, Closed(u)) /\ Closed(u).view = "grid"
  <1> DEFINE none == <<>>
             l == Left(u)
             w == [l EXCEPT !.view = "grid"]
  <1>1. Closed(u) = [w EXCEPT !.menu = none]
    BY Zenon DEF Closed
  <1> HIDE DEF none
  <1>2. DOMAIN l = UiFields /\ l.team = u.team /\ l.ctx = u.ctx
    BY LeftAt
  <1> HIDE DEF l
  <1>3. DOMAIN w = UiFields /\ w.view = "grid" /\ Near(u, w)
    BY <1>2, NearView DEF UiFields
  <1> HIDE DEF w
  <1>4. [w EXCEPT !.menu = none].view = "grid"
    BY <1>3 DEF UiFields
  <1>5. QED
    BY <1>1, <1>3, <1>4, NearField

LEMMA ShownNear ==
    ASSUME NEW u, DOMAIN u = UiFields, NEW view, view # "action"
    PROVE  /\ Near(u, Shown(u, view)) /\ DOMAIN Shown(u, view) = UiFields
           /\ Shown(u, view).view # "action"
           /\ Shown(u, view).team = u.team /\ Shown(u, view).ctx = u.ctx
  <1> DEFINE v == IF u.view = "grid" THEN "grid" ELSE view
             w == [u EXCEPT !.view = v]
  <1>1. Shown(u, view) = w
    BY Zenon DEF Shown
  <1>2. v # "action" /\ (u.view = "grid" => v = "grid")
    OBVIOUS
  <1> HIDE DEF v
  <1>3. Near(u, w)
    BY <1>2, NearView
  <1>4. w.view = v /\ DOMAIN w = UiFields /\ w.team = u.team /\ w.ctx = u.ctx
    BY DEF UiFields
  <1>5. QED
    BY <1>1, <1>2, <1>3, <1>4

LEMMA AdvanceNear ==
    ASSUME NEW u, IsUi(u), NEW bip PROVE Near(u, ShowRunnerAdvance(u, bip))
  <1> DEFINE list == DefaultAdvances(RunnersOn(u), bip, InningOuts(game, u.team, u.ctx.i))
             v == Shown(u, "advance")
             w == [v EXCEPT !.runners = list]
  <1>1. ShowRunnerAdvance(u, bip) = w
    BY Zenon DEF ShowRunnerAdvance
  <1>2. Near(u, v) /\ DOMAIN v = UiFields /\ v.view # "action"
    BY ShownNear DEF IsUi
  <1> HIDE DEF list, v
  <1>3. /\ DOMAIN w = UiFields /\ w.team = v.team /\ w.ctx = v.ctx /\ w.view = v.view
    BY <1>2 DEF UiFields
  <1> HIDE DEF w
  <1>4. Near(u, w)
    BY <1>2, <1>3 DEF Near
  <1>5. QED
    BY <1>1, <1>4

LEMMA BallInPlayNear ==
    ASSUME NEW u, IsUi(u), NEW d PROVE Near(u, ShowBallInPlay(u, d))
  <1> DEFINE bip == IF d.bip = <<>> THEN NewBip ELSE d.bip
             v == [bip EXCEPT !.type = IF u.mode = "dropped" THEN "D3" ELSE @]
  <1>1. ShowBallInPlay(u, d) = [Shown(u, "bip") EXCEPT !.bip = v]
    BY Zenon DEF ShowBallInPlay
  <1> HIDE DEF v
  <1>2. Near(u, Shown(u, "bip"))
    BY ShownNear DEF IsUi
  <1>3. QED
    BY <1>1, <1>2, NearField

LEMMA PendingNear ==
    ASSUME NEW u, IsUi(u), NEW res, NEW base, NEW type PROVE Near(u, WithPending(u, res, base, type))
  BY NearSame, NearField DEF WithPending

LEMMA ForcedNear == ASSUME NEW u, IsUi(u) PROVE Near(u, ForcedAdvance(u))
  BY ClosedNear, AdvanceNear DEF ForcedAdvance
-----------------------------------------------------------------------------
(* What a handler may leave of the cell.                                   *)

\* It leaves the cell and its copy as they are,
LEMMA KeptShows ==
    ASSUME Shows, Near(ui, ui'), IsList(rest'),
           Range(rest') \cap Syncs = Range(rest) \cap Syncs, Plays(data') = Plays(data),
           CellKey(ui) \in DOMAIN game'.events <=> CellKey(ui) \in DOMAIN game.events,
           CellKey(ui) \in DOMAIN game.events =>
             game'.events[CellKey(ui)] = game.events[CellKey(ui)]
    PROVE  Shows'
  <1>1. Elsewhere(ui') /\ CellKey(ui') = CellKey(ui)
    BY NearElsewhere DEF Shows
  <1>2. Range(rest') \cap OwnSyncs = Range(rest) \cap OwnSyncs
    BY DEF Syncs
  <1>3. ui'.view # "grid" => ui.view # "grid"
    BY DEF Near
  <1>4. CellShown(game', ui', data', rest')
    BY <1>1, <1>2, <1>3 DEF Shows, CellShown
  <1>5. QED
    BY <1>1, <1>4 DEF Shows

LEMMA QuietShows ==
    ASSUME Shows, Quiet, data' = data, Near(ui, ui'), IsList(rest'),
           Range(rest') \cap Syncs = Range(rest) \cap Syncs
    PROVE  Shows'
  <1>1. game' = game
    BY DEF Quiet
  <1>2. QED
    BY <1>1, KeptShows

\* waits for a continuation of its own,
LEMMA WaitShows ==
    ASSUME Shows, Near(ui, ui'), NEW queue, IsList(queue), NEW k \in OwnSyncs,
           rest' = Append(queue, k)
    PROVE  Shows'
  <1>1. Elsewhere(ui')
    BY NearElsewhere DEF Shows
  <1>2. IsList(rest') /\ k \in Range(rest') \cap OwnSyncs
    BY QueueGrows
  <1>3. Range(rest') \cap OwnSyncs # {} /\ Range(rest') \cap Syncs # {}
    BY <1>2 DEF Syncs
  <1>4. QED
    BY <1>1, <1>2, <1>3 DEF Shows, CellShown

\* copies the cell,
LEMMA EmptyAlike == \A pId : Plays(EmptyEvent(pId)) = Plays(EmptyEvent(NoPlayer))
  <1> DEFINE none == <<>>
             nothing == ""
             paths == [p \in 0..3 |-> NotThere]
             info == [p \in 0..3 |-> ""]
             e(pId) == [outcome |-> nothing, multi |-> 1, outNum |-> 0, balls |-> 0, strikes |-> 0,
                        paths |-> paths, info |-> info, pitches |-> none, pId |-> pId,
                        rbi |-> NoPlayer, bip |-> none]
  <1>1. \A pId : EmptyEvent(pId) = e(pId)
    BY Zenon DEF EmptyEvent
  <1> HIDE DEF none, nothing, paths, info
  <1>2. \A pId : [e(pId) EXCEPT !.pId = NoPlayer] = e(NoPlayer)
    OBVIOUS
  <1>3. QED
    BY <1>1, <1>2 DEF Plays

LEMMA CopyShows ==
    ASSUME Elsewhere(ui'), IsList(rest'), NEW pId,
           ui'.view # "grid" => data' = EventAt(game', CellKey(ui'), pId)
    PROVE  Shows'
  <1>1. CellShown(game', ui', data', rest')
    BY EmptyAlike DEF CellShown, EventAt
  <1>2. QED
    BY <1>1 DEF Shows

\* or is at the sheet.
LEMMA SheetShows == ASSUME ui'.view = "grid", IsList(rest') PROVE Shows'
  BY DEF Shows, CellShown, Elsewhere

\* What dispatching does to the game.
LEMMA DispatchGame ==
    ASSUME NEW was, NEW a, Held(a), NEW left, DispatchOn(was, a, left)
    PROVE  game' = GameReducer(was, Numbered(a))
  BY DEF DispatchOn, Numbered, Held

-----------------------------------------------------------------------------
(* What the reducer does to the events of other cells.                     *)

\* The event of a cell, if it has one, is the same.
SameAt(g, h, key) ==
    /\ "events" \in DOMAIN h /\ (key \in DOMAIN h.events <=> key \in DOMAIN g.events)
    /\ key \in DOMAIN g.events => h.events[key] = g.events[key]

\* No cell loses its event.
Grown(g, h) == "events" \in DOMAIN h /\ DOMAIN g.events \subseteq DOMAIN h.events

LEMMA PutElsewhere ==
    ASSUME NEW g, "events" \in DOMAIN g, NEW key, NEW e
    PROVE  /\ Grown(g, PutEvent(g, key, e))
           /\ \A k : k # key => SameAt(g, PutEvent(g, key, e), k)
  <1> DEFINE h == PutEvent(g, key, e)
  <1>1. /\ "events" \in DOMAIN h
        /\ h.events = [k \in DOMAIN g.events \cup {key} |-> IF k = key THEN e ELSE g.events[k]]
    BY PutEventIs
  <1> HIDE DEF h
  <1>2. Grown(g, h)
    BY <1>1 DEF Grown
  <1>3. \A k : k # key => SameAt(g, h, k)
    BY <1>1 DEF SameAt
  <1>4. QED
    BY <1>2, <1>3 DEF h

LEMMA UpdateRunnerPuts ==
    ASSUME NEW acc, "g" \in DOMAIN acc, NEW u, NEW batter
    PROVE  /\ "g" \in DOMAIN UpdateRunner(acc, u, batter)
           /\ \E e : UpdateRunner(acc, u, batter).g = PutEvent(acc.g, u.key, e)
  <1> DEFINE e == EventAt(acc.g, u.key, batter)
             p == u.base + 1
             event(way, n) == [e EXCEPT !.paths[p] = way, !.info[p] = u.action, !.outNum = n]
             put(way, n) == PutEvent(acc.g, u.key, event(way, n))
  <1>1. UpdateRunner(acc, u, batter)
          = IF p <= 3 /\ u.action \in SafeActions
            THEN [acc EXCEPT !.g = put(Safe, e.outNum)]
            ELSE IF p <= 3 /\ u.action \in OutActions
            THEN [g |-> put(Out, AtMost3(acc.outs + 1)), outs |-> acc.outs + 1]
            ELSE [acc EXCEPT !.g = PutEvent(acc.g, u.key, e)]
    BY DEF UpdateRunner
  <1> HIDE DEF e, p, event
  <1>5. ASSUME NEW h PROVE "g" \in DOMAIN [acc EXCEPT !.g = h] /\ [acc EXCEPT !.g = h].g = h
    OBVIOUS
  <1>6. CASE p <= 3 /\ u.action \in SafeActions
    BY <1>1, <1>5, <1>6
  <1>7. CASE ~(p <= 3 /\ u.action \in SafeActions) /\ p <= 3 /\ u.action \in OutActions
    BY <1>1, <1>7
  <1>8. CASE ~(p <= 3 /\ u.action \in SafeActions) /\ ~(p <= 3 /\ u.action \in OutActions)
    BY <1>1, <1>5, <1>8
  <1>9. QED
    BY <1>6, <1>7, <1>8

\* A batch of runner actions changes the events of its runners.
LEMMA BatchElsewhere ==
    ASSUME NEW g, "events" \in DOMAIN g, NEW a, Len(a.updates) \in Nat
    PROVE  LET h == ApplyRunnerBatchUpdate(g, a)
           IN /\ Grown(g, h)
              /\ \A key : (\A i \in 1..Len(a.updates) : a.updates[i].key # key) => SameAt(g, h, key)
  <1> DEFINE m == Len(a.updates)
             keys == {u.key : u \in Range(a.updates)}
             start == [g |-> g, outs |-> OutsExcluding(g, a.team, a.ctx.i, keys)]
             f == CHOOSE f : IsUpdating(f, start, a, m)
             others == {key \in DOMAIN g.events : \A i \in 1..m : a.updates[i].key # key}
             fine(h) == /\ Grown(g, h)
                        /\ \A key : (\A i \in 1..m : a.updates[i].key # key) => SameAt(g, h, key)
             T == {n \in Nat : n <= m => "g" \in DOMAIN f[n] /\ fine(f[n].g)}
  <1>1. IsUpdating(f, start, a, m)
    BY UpdatingExists
  <1>2. ApplyRunnerBatchUpdate(g, a) = f[m].g
    BY DEF ApplyRunnerBatchUpdate, IsUpdating
  <1>3. start.g = g /\ "g" \in DOMAIN start
    OBVIOUS
  <1> HIDE DEF f, start
  <1>4. /\ f[0] = start
        /\ \A n \in 1..m : f[n] = UpdateRunner(f[n - 1], a.updates[n], a.batter)
    BY <1>1 DEF IsUpdating
  <1>5. fine(g)
    BY DEF Grown, SameAt
  <1>6. ASSUME NEW h, fine(h), NEW n \in 1..m, NEW e
        PROVE  fine(PutEvent(h, a.updates[n].key, e))
    <2> DEFINE put == PutEvent(h, a.updates[n].key, e)
    <2>1. Grown(h, put) /\ \A k : k # a.updates[n].key => SameAt(h, put, k)
      BY <1>6, PutElsewhere DEF Grown
    <2> HIDE DEF put
    <2>2. Grown(g, put)
      BY <1>6, <2>1 DEF Grown
    <2>3. ASSUME NEW key, \A i \in 1..m : a.updates[i].key # key PROVE SameAt(g, put, key)
      <3>1. SameAt(h, put, key) /\ SameAt(g, h, key)
        BY <1>6, <2>1, <2>3
      <3>2. QED
        BY <3>1 DEF SameAt
    <2>4. QED
      BY <2>2, <2>3 DEF put
  <1> HIDE DEF fine
  <1>7. 0 \in T
    BY <1>3, <1>4, <1>5
  <1>8. ASSUME NEW n \in Nat, n \in T PROVE n + 1 \in T
    <2> SUFFICES ASSUME n + 1 <= m
                 PROVE  "g" \in DOMAIN f[n + 1] /\ fine(f[n + 1].g)
      OBVIOUS
    <2>1. n + 1 \in 1..m /\ n + 1 - 1 = n
      OBVIOUS
    <2>2. "g" \in DOMAIN f[n] /\ fine(f[n].g)
      BY <1>8
    <2>3. f[n + 1] = UpdateRunner(f[n], a.updates[n + 1], a.batter)
      BY <1>4, <2>1
    <2>4. QED
      BY <1>6, <2>1, <2>2, <2>3, UpdateRunnerPuts
  <1> HIDE DEF T
  <1>9. m \in T
    BY <1>7, <1>8, SetInduction
  <1>10. fine(f[m].g)
    BY <1>9 DEF T
  <1>11. QED
    BY <1>2, <1>10 DEF fine

\* Runners that move keep their events.
LEMMA MoveRunnersGrow ==
    ASSUME NEW g, "events" \in DOMAIN g, NEW team, NEW inning, NEW runners,
           Len(runners) \in Nat, NEW first, NEW rbi
    PROVE  Grown(g, MoveRunners(g, team, inning, runners, first, rbi))
  <1> DEFINE m == Len(runners)
             f == CHOOSE f : IsMoving(f, g, team, inning, runners, first, rbi, m)
             T == {n \in Nat : n <= m => Grown(g, f[n].g)}
  <1>1. IsMoving(f, g, team, inning, runners, first, rbi, m)
    BY MovingExists
  <1>2. MoveRunners(g, team, inning, runners, first, rbi) = f[m].g
    BY DEF MoveRunners, IsMoving
  <1> HIDE DEF f
  <1>3. /\ f[0].g = g
        /\ \A n \in 1..m : f[n] = MoveRunner(f[n - 1], runners[n], team, inning, rbi)
    BY <1>1 DEF IsMoving
  <1>4. 0 \in T
    BY <1>3 DEF Grown
  <1>5. ASSUME NEW acc, "events" \in DOMAIN acc.g, NEW r
        PROVE  Grown(acc.g, MoveRunner(acc, r, team, inning, rbi).g)
    <2>1. \/ MoveRunner(acc, r, team, inning, rbi) = acc
          \/ \E e, next : MoveRunner(acc, r, team, inning, rbi)
                            = [g |-> PutEvent(acc.g, r.key, e), next |-> next]
      BY Zenon DEF MoveRunner
    <2>2. QED
      BY <1>5, <2>1, PutElsewhere DEF Grown
  <1>6. ASSUME NEW n \in Nat, n \in T PROVE n + 1 \in T
    <2> SUFFICES ASSUME n + 1 <= m PROVE Grown(g, f[n + 1].g)
      OBVIOUS
    <2>1. n + 1 \in 1..m /\ n + 1 - 1 = n
      OBVIOUS
    <2>2. Grown(g, f[n].g)
      BY <1>6
    <2>3. f[n + 1] = MoveRunner(f[n], runners[n + 1], team, inning, rbi)
      BY <1>3, <2>1
    <2>4. Grown(f[n].g, f[n + 1].g)
      BY <1>5, <2>2, <2>3 DEF Grown
    <2>5. QED
      BY <2>2, <2>4 DEF Grown
  <1> HIDE DEF T
  <1>7. m \in T
    BY <1>4, <1>6, SetInduction
  <1>8. QED
    BY <1>2, <1>7 DEF T

LEMMA BlankOutsGrow ==
    ASSUME NEW g, "events" \in DOMAIN g, NEW runners
    PROVE  Grown(g, BlankOuts(g, runners))
  <1>1. \E events : /\ DOMAIN events = DOMAIN g.events
                    /\ BlankOuts(g, runners) = [g EXCEPT !.events = events]
    <2> DEFINE outs == {<<r.key, r.base + 1>> : r \in {s \in Range(runners) : s.outcome = "Out"}}
               was(k) == g.events[k].info
               event(k) == [g.events[k] EXCEPT !.info =
                              [p \in DOMAIN was(k) |-> IF <<k, p>> \in outs THEN "" ELSE was(k)[p]]]
               events == [k \in DOMAIN g.events |-> event(k)]
    <2>1. BlankOuts(g, runners) = [g EXCEPT !.events = events]
      BY Zenon DEF BlankOuts
    <2> HIDE DEF event
    <2>2. DOMAIN events = DOMAIN g.events
      OBVIOUS
    <2> HIDE DEF events
    <2>3. QED
      BY <2>1, <2>2
  <1>2. QED
    BY <1>1 DEF Grown

\* Actions that are not about events.
SheetTypes ==
  {"GAME_START", "LINEUP_UPDATE", "SCORE_OVERRIDE", "PITCHER_UPDATE", "ADD_INNING",
   "ADD_COLUMN", "SET_INNING_LEAD", "GAME_METADATA_UPDATE", "GAME_FINALIZE"}

LEMMA SheetTypesKeep ==
    ASSUME NEW g, "events" \in DOMAIN g, NEW a, a.type \in SheetTypes
    PROVE  "events" \in DOMAIN GameReducer(g, a) /\ GameReducer(g, a).events = g.events
  <1> DEFINE Fine(h) == "events" \in DOMAIN h /\ h.events = g.events
  <1>0. /\ \A v : Fine([g EXCEPT !.columns = v])
        /\ \A v : Fine([g EXCEPT !.pitchers = v])
        /\ \A v : Fine([g EXCEPT !.overrides = v])
        /\ \A v : Fine([g EXCEPT !.meta = v])
        /\ \A v : Fine([g EXCEPT !.status = v])
        /\ \A v, w, x : Fine([g EXCEPT !.meta = v, !.roster = w, !.subs = x])
        /\ \A v, w, x, y : Fine([g EXCEPT !.meta = v, !.columns = w, !.subs = x, !.roster = y])
    OBVIOUS
  <1> HIDE DEF Fine
  <1>1. CASE a.type = "GAME_START"
    <2>1. GameReducer(g, a) = ApplyGameStart(g, a)
      BY <1>1 DEF GameReducer
    <2>2. \E v, w, x, y : ApplyGameStart(g, a)
             = [g EXCEPT !.meta = v, !.columns = w, !.subs = x, !.roster = y]
      BY Zenon DEF ApplyGameStart
    <2>3. QED
      BY <1>0, <2>1, <2>2
  <1>2. CASE a.type = "LINEUP_UPDATE"
    <2>1. GameReducer(g, a) = ApplyLineupUpdate(g, a)
      BY <1>2 DEF GameReducer
    <2>2. "events" \in DOMAIN ApplyLineupUpdate(g, a) /\ ApplyLineupUpdate(g, a).events = g.events
      BY DEF ApplyLineupUpdate
    <2>3. QED
      BY <2>1, <2>2 DEF Fine
  <1>3. CASE a.type = "SCORE_OVERRIDE"
    <2>1. GameReducer(g, a) = ApplyScoreOverride(g, a)
      BY <1>3 DEF GameReducer
    <2>2. \E v : ApplyScoreOverride(g, a) = [g EXCEPT !.overrides = v]
      <3> DEFINE v == IF a.score = "" THEN [i \in DOMAIN g.overrides[a.team] \ {a.inning} |-> g.overrides[a.team][i]]
                  ELSE Over([i \in {a.inning} |-> a.score], g.overrides[a.team])
      <3>1. ApplyScoreOverride(g, a) = [g EXCEPT !.overrides = [@ EXCEPT ![a.team] = v]]
        BY Zenon DEF ApplyScoreOverride
      <3> HIDE DEF v
      <3>2. QED
        BY <3>1
    <2>3. QED
      BY <1>0, <2>1, <2>2
  <1>4. CASE a.type = "PITCHER_UPDATE"
    <2>1. GameReducer(g, a) = ApplyPitcherUpdate(g, a)
      BY <1>4 DEF GameReducer
    <2>2. "events" \in DOMAIN ApplyPitcherUpdate(g, a) /\ ApplyPitcherUpdate(g, a).events = g.events
      BY DEF ApplyPitcherUpdate
    <2>3. QED
      BY <2>1, <2>2 DEF Fine
  <1>5. CASE a.type = "ADD_INNING"
    <2>1. GameReducer(g, a) = ApplyAddInning(g)
      BY <1>5 DEF GameReducer
    <2>2. \E v : ApplyAddInning(g) = [g EXCEPT !.columns = v]
      BY Zenon DEF ApplyAddInning
    <2>3. QED
      BY <1>0, <2>1, <2>2
  <1>6. CASE a.type = "ADD_COLUMN"
    <2>1. GameReducer(g, a) = ApplyAddColumn(g, a)
      BY <1>6 DEF GameReducer
    <2>2. \E v : ApplyAddColumn(g, a) = [g EXCEPT !.columns = v]
      BY Zenon DEF ApplyAddColumn
    <2>3. QED
      BY <1>0, <2>1, <2>2
  <1>7. CASE a.type = "SET_INNING_LEAD"
    <2>1. GameReducer(g, a) = ApplySetInningLead(g, a)
      BY <1>7 DEF GameReducer
    <2>2. \E v : ApplySetInningLead(g, a) = [g EXCEPT !.columns = v]
      BY Zenon DEF ApplySetInningLead
    <2>3. QED
      BY <1>0, <2>1, <2>2
  <1>8. CASE a.type = "GAME_METADATA_UPDATE"
    <2>1. GameReducer(g, a) = ApplyGameMetadataUpdate(g, a)
      BY <1>8 DEF GameReducer
    <2>2. \E v : ApplyGameMetadataUpdate(g, a) = [g EXCEPT !.meta = v]
      BY Zenon DEF ApplyGameMetadataUpdate
    <2>3. QED
      BY <1>0, <2>1, <2>2
  <1>9. CASE a.type = "GAME_FINALIZE"
    <2>1. GameReducer(g, a) = ApplyGameFinalize(g)
      BY <1>9 DEF GameReducer
    <2>2. \E v : ApplyGameFinalize(g) = [g EXCEPT !.status = v]
      BY Zenon DEF ApplyGameFinalize
    <2>3. QED
      BY <1>0, <2>1, <2>2
  <1>10. Fine(GameReducer(g, a))
    BY <1>1, <1>2, <1>3, <1>4, <1>5, <1>6, <1>7, <1>8, <1>9 DEF SheetTypes, Fine
  <1>11. QED
    BY <1>10 DEF Fine

\* Actions that put an event, and those that move runners.
LEMMA PutsGrow ==
    ASSUME NEW g, "events" \in DOMAIN g, NEW a,
           a.type \in {"PITCH", "SUBSTITUTION", "CLEAR_DATA", "RBI_EDIT", "OUT_NUM_UPDATE",
                       "MANUAL_PATH_OVERRIDE"}
    PROVE  Grown(g, GameReducer(g, a))
  <1>1. CASE a.type = "PITCH"
    <2>1. GameReducer(g, a) = ApplyPitch(g, a)
      BY <1>1 DEF GameReducer
    <2>2. \E key, e : ApplyPitch(g, a) = PutEvent(g, key, e)
      BY Zenon DEF ApplyPitch
    <2>3. QED
      BY <2>1, <2>2, PutElsewhere
  <1>2. CASE a.type = "SUBSTITUTION"
    <2>1. GameReducer(g, a) = ApplySubstitution(g, a)
      BY <1>2 DEF GameReducer
    <2>2. \E h : /\ "events" \in DOMAIN h /\ h.events = g.events
                 /\ ApplySubstitution(g, a) = h
                    \/ \E key, e : ApplySubstitution(g, a) = PutEvent(h, key, e)
      <3> DEFINE slot == g.roster[a.team][a.index + 1]
                 roster == [g.roster EXCEPT ![a.team] = [@ EXCEPT ![a.index + 1] =
                  [slot EXCEPT !.history = Append(@, slot.current), !.current = a.player]]]
                 h == [g EXCEPT !.roster = roster]
      <3>1. ApplySubstitution(g, a) = h \/ \E key, e : ApplySubstitution(g, a) = PutEvent(h, key, e)
        BY Zenon DEF ApplySubstitution
      <3> HIDE DEF roster
      <3>2. "events" \in DOMAIN h /\ h.events = g.events
        OBVIOUS
      <3> HIDE DEF h
      <3>3. QED
        BY <3>1, <3>2
    <2>3. PICK h : /\ "events" \in DOMAIN h /\ h.events = g.events
                   /\ ApplySubstitution(g, a) = h
                      \/ \E key, e : ApplySubstitution(g, a) = PutEvent(h, key, e)
      BY <2>2
    <2>4. Grown(h, ApplySubstitution(g, a))
      BY <2>3, PutElsewhere DEF Grown
    <2>5. QED
      BY <2>1, <2>3, <2>4 DEF Grown
  <1>3. CASE a.type = "CLEAR_DATA"
    <2>1. GameReducer(g, a) = PutEvent(g, KeyOf(a), EmptyEvent(a.batter))
      BY <1>3 DEF GameReducer, ApplyClearData
    <2>2. QED
      BY <2>1, PutElsewhere
  <1>4. CASE a.type = "RBI_EDIT"
    <2>1. GameReducer(g, a) = ApplyRBIEdit(g, a)
      BY <1>4 DEF GameReducer
    <2>2. Grown(g, ApplyRBIEdit(g, a))
      BY DEF Grown, ApplyRBIEdit
    <2>3. QED
      BY <2>1, <2>2
  <1>5. CASE a.type = "OUT_NUM_UPDATE"
    <2>1. GameReducer(g, a) = ApplyOutNumUpdate(g, a)
      BY <1>5 DEF GameReducer
    <2>2. Grown(g, ApplyOutNumUpdate(g, a))
      BY DEF Grown, ApplyOutNumUpdate
    <2>3. QED
      BY <2>1, <2>2
  <1>6. CASE a.type = "MANUAL_PATH_OVERRIDE"
    <2>1. GameReducer(g, a) = PutEvent(g, a.key, Over(a.data, EventAt(g, a.key, NoPlayer)))
      BY <1>6 DEF GameReducer, ApplyManualPathOverride
    <2>2. QED
      BY <2>1, PutElsewhere
  <1>7. QED
    BY <1>1, <1>2, <1>3, <1>4, <1>5, <1>6

LEMMA MovesGrow ==
    ASSUME NEW g, "events" \in DOMAIN g, NEW a,
           a.type \in {"PLAY_RESULT", "RUNNER_ADVANCE"}, IsList(a.runners)
    PROVE  Grown(g, GameReducer(g, a))
  <1>0. Len(a.runners) \in Nat
    BY DEF IsList
  <1>1. CASE a.type = "PLAY_RESULT"
    <2>1. GameReducer(g, a) = ApplyPlayResult(g, a)
      BY <1>1 DEF GameReducer
    <2>2. \E key, e, first, rbi :
             ApplyPlayResult(g, a)
               = MoveRunners(PutEvent(g, key, e), a.team, a.ctx.i, a.runners, first, rbi)
      <3> DEFINE key == KeyOf(a)
                 bip == a.bip
                 was == EventAt(g, key, a.batter)
                 batterOut == bip.res # "Safe"
                 runnersOut == OutsIn(a.runners)
                 outs == runnersOut + (IF batterOut THEN 1 ELSE 0)
                 before == OutsExcluding(g, a.team, a.ctx.i, {key})
                 outNum == IF ~batterOut THEN 0
                           ELSE AtMost3(before + (IF AirOut(bip) THEN 1 ELSE outs))
                 event == [was EXCEPT
                   !.pId = IF @ = NoPlayer THEN a.batter ELSE @,
                   !.bip = bip, !.outNum = outNum,
                   !.outcome = IF OutcomeOf(bip) = "" /\ outs \in {2, 3} THEN "G" ELSE OutcomeOf(bip),
                   !.multi = IF outs \in {2, 3} THEN outs ELSE 1,
                   !.paths = BatterPaths(bip, @),
                   !.rbi = IF bip.res = "Safe" /\ bip.base = "Home" /\ OutcomeOf(bip) # "E"
                              /\ a.batter # NoPlayer THEN a.batter ELSE @]
                 first == IF ~AirOut(bip) /\ outNum > 0 /\ runnersOut > 0
                          THEN outNum - runnersOut ELSE 0
                 credit == IF bip.res = "Safe" \/ outs \notin {2, 3} THEN a.batter ELSE NoPlayer
      <3>1. ApplyPlayResult(g, a)
              = MoveRunners(PutEvent(g, key, event), a.team, a.ctx.i, a.runners, first, credit)
        BY Zenon DEF ApplyPlayResult
      <3> HIDE DEF key, event, first, credit
      <3>2. QED
        BY <3>1
    <2>3. PICK key, e, first, rbi :
             ApplyPlayResult(g, a)
               = MoveRunners(PutEvent(g, key, e), a.team, a.ctx.i, a.runners, first, rbi)
      BY <2>2
    <2> DEFINE h == PutEvent(g, key, e)
    <2>4. Grown(g, h)
      BY PutElsewhere
    <2> HIDE DEF h
    <2>5. Grown(h, ApplyPlayResult(g, a))
      BY <1>0, <2>3, <2>4, MoveRunnersGrow DEF Grown, h
    <2>6. QED
      BY <2>1, <2>4, <2>5 DEF Grown
  <1>2. CASE a.type = "RUNNER_ADVANCE"
    <2>1. GameReducer(g, a) = ApplyRunnerAdvance(g, a)
      BY <1>2 DEF GameReducer
    <2>2. \E h : /\ h = g \/ \E key, n : h = [g EXCEPT !.events[key].outNum = n]
                 /\ \E inning, first, rbi : ApplyRunnerAdvance(g, a)
                      = BlankOuts(MoveRunners(h, a.team, inning, a.runners, first, rbi), a.runners)
      <3> DEFINE key == KeyOf(a)
                 runnersOut == OutsIn(a.runners)
                 known == a.ctx # <<>> /\ key \in DOMAIN g.events
                 shift == /\ a.sequencing = "RunnersFirst" /\ known
                          /\ g.events[key].outNum > 0 /\ runnersOut > 0
                 h == IF shift THEN [g EXCEPT !.events[key].outNum = AtMost3(@ + runnersOut)]
                      ELSE g
      <3>1. \E inning, first, rbi : ApplyRunnerAdvance(g, a)
              = BlankOuts(MoveRunners(h, a.team, inning, a.runners, first, rbi), a.runners)
        BY Zenon DEF ApplyRunnerAdvance
      <3>2. h = g \/ h = [g EXCEPT !.events[key].outNum = AtMost3(g.events[key].outNum + runnersOut)]
        BY Zenon
      <3> HIDE DEF h
      <3>3. QED
        BY <3>1, <3>2
    <2>3. PICK h, inning, first, rbi :
            /\ h = g \/ \E key, n : h = [g EXCEPT !.events[key].outNum = n]
            /\ ApplyRunnerAdvance(g, a)
                 = BlankOuts(MoveRunners(h, a.team, inning, a.runners, first, rbi), a.runners)
      BY <2>2
    <2> DEFINE moved == MoveRunners(h, a.team, inning, a.runners, first, rbi)
    <2>4. Grown(g, h)
      BY <2>3 DEF Grown
    <2>5. Grown(h, moved)
      BY <1>0, <2>4, MoveRunnersGrow DEF Grown
    <2> HIDE DEF moved
    <2>6. Grown(moved, ApplyRunnerAdvance(g, a))
      BY <2>3, <2>5, BlankOutsGrow DEF Grown, moved
    <2>7. QED
      BY <2>1, <2>4, <2>5, <2>6 DEF Grown
  <1>3. QED
    BY <1>1, <1>2

\* Actions that may take a cell's event away: an import, a move, and a column
\* that is removed.
Takes == {"GAME_IMPORT", "MOVE_PLAY", "REMOVE_COLUMN"}
RemoteKeepsCells == \A a \in Remote : a.type \notin Takes

LEMMA ReducerGrows ==
    ASSUME NEW S, NEW g, "events" \in DOMAIN g, NEW a, IsHeld(a, S),
           a.type # "UNDO", a.type \notin Takes
    PROVE  Grown(g, GameReducer(g, a))
  <1>1. CASE a.type \in SheetTypes
    BY <1>1, SheetTypesKeep DEF Grown
  <1>2. CASE a.type \in {"PITCH", "SUBSTITUTION", "CLEAR_DATA", "RBI_EDIT", "OUT_NUM_UPDATE",
                         "MANUAL_PATH_OVERRIDE"}
    BY <1>2, PutsGrow
  <1>3. CASE a.type \in {"PLAY_RESULT", "RUNNER_ADVANCE"}
    <2>1. IsList(a.runners)
      BY <1>3 DEF IsHeld, HasList
    <2>2. QED
      BY <1>3, <2>1, MovesGrow
  <1>4. CASE a.type = "RUNNER_BATCH_UPDATE"
    <2>1. GameReducer(g, a) = ApplyRunnerBatchUpdate(g, a)
      BY <1>4 DEF GameReducer
    <2>2. IsList(a.updates)
      BY <1>4 DEF IsHeld, HasList
    <2>3. Len(a.updates) \in Nat
      BY <2>2 DEF IsList
    <2>4. QED
      BY <2>1, <2>3, BatchElsewhere
  <1>5. a.type \in ActionTypes
    BY DEF IsHeld
  <1>6. QED
    BY <1>1, <1>2, <1>3, <1>4, <1>5 DEF ActionTypes, SheetTypes, Takes
-----------------------------------------------------------------------------
(* The runners on base are in other cells.                                 *)

\* What is picked from a list stands at one of the places.
LEMMA PickedFrom ==
    ASSUME NEW list, IsList(list), NEW places
    PROVE  \A r \in Range(Picked(list, places)) : \E i \in places \cap DOMAIN list : r = list[i]
  <1> DEFINE m == Len(list)
             f == CHOOSE f : IsPicking(f, list, places, m)
             fine(part) == /\ IsList(part)
                           /\ \A r \in Range(part) : \E i \in places \cap DOMAIN list : r = list[i]
  <1>0. m \in Nat /\ DOMAIN list = 1..m
    BY DEF IsList
  <1>1. IsPicking(f, list, places, m)
    BY <1>0, PickingExists
  <1>2. Picked(list, places) = f[m]
    BY Zenon DEF Picked, IsPicking, OnePicked
  <1> HIDE DEF f, m
  <1>3. f[0] = <<>> /\ \A i \in 1..m : f[i] = OnePicked(f[i - 1], list, places, i)
    <2> DEFINE start == <<>>
    <2>1. f = [i \in 0..m |-> IF i = 0 THEN start ELSE OnePicked(f[i - 1], list, places, i)]
      BY <1>1 DEF IsPicking
    <2> HIDE DEF start
    <2>2. f[0] = start /\ \A i \in 1..m : f[i] = OnePicked(f[i - 1], list, places, i)
      BY <1>0, <2>1
    <2>3. QED
      BY <2>2 DEF start
  <1> DEFINE T == {i \in Nat : i <= m => fine(f[i])}
  <1>4. 0 \in T
    <2>1. Range(<<>>) = {}
      BY DEF Range
    <2>2. QED
      BY <1>3, <2>1, EmptyList
  <1>5. ASSUME NEW i \in Nat, i \in T PROVE i + 1 \in T
    <2> SUFFICES ASSUME i + 1 <= m PROVE fine(f[i + 1])
      OBVIOUS
    <2>1. i + 1 \in 1..m /\ i + 1 - 1 = i /\ fine(f[i])
      BY <1>0, <1>5
    <2>2. f[i + 1] = OnePicked(f[i], list, places, i + 1)
      BY <1>3, <2>1
    <2>3. \/ f[i + 1] = f[i]
          \/ f[i + 1] = Append(f[i], list[i + 1]) /\ i + 1 \in places \cap DOMAIN list
      BY <1>0, <2>1, <2>2 DEF OnePicked
    <2>4. /\ IsList(Append(f[i], list[i + 1]))
          /\ Range(Append(f[i], list[i + 1])) = Range(f[i]) \cup {list[i + 1]}
      BY <2>1, QueueGrows
    <2>5. QED
      BY <2>1, <2>3, <2>4
  <1> HIDE DEF T, fine
  <1>6. m \in T
    BY <1>0, <1>4, <1>5, SetInduction
  <1>7. fine(f[m])
    BY <1>0, <1>6 DEF T
  <1>8. QED
    BY <1>2, <1>7 DEF fine

LEMMA JoinedRange ==
    ASSUME NEW s, IsList(s), NEW t, IsList(t) PROVE Range(s \o t) \subseteq Range(s) \cup Range(t)
  <1> DEFINE u == s \o t
  <1>1. /\ Range(s) = {s[i] : i \in DOMAIN s} /\ Range(t) = {t[i] : i \in DOMAIN t}
        /\ Range(u) = {u[i] : i \in DOMAIN u}
    BY DEF Range
  <1>2. s \in Seq(Range(s)) /\ t \in Seq(Range(t))
    BY DEF IsList
  <1>3. /\ Len(s) \in Nat /\ Len(t) \in Nat /\ DOMAIN u = 1..Len(s) + Len(t)
        /\ DOMAIN s = 1..Len(s) /\ DOMAIN t = 1..Len(t)
        /\ \A i \in 1..Len(s) + Len(t) : u[i] = IF i <= Len(s) THEN s[i] ELSE t[i - Len(s)]
    BY <1>2
  <1> HIDE DEF u
  <1>4. ASSUME NEW i \in 1..Len(s) + Len(t) PROVE u[i] \in Range(s) \cup Range(t)
    <2>1. CASE i <= Len(s)
      <3>1. i \in DOMAIN s /\ u[i] = s[i]
        BY <1>3, <2>1
      <3>2. QED
        BY <1>1, <3>1
    <2>2. CASE ~(i <= Len(s))
      <3>1. i - Len(s) \in DOMAIN t /\ u[i] = t[i - Len(s)]
        BY <1>3, <2>2
      <3>2. QED
        BY <1>1, <3>1
    <2>3. QED
      BY <2>1, <2>2
  <1>5. QED
    BY <1>1, <1>3, <1>4 DEF u

\* No runner on base is the batter of the context.
LEMMA RunnersElsewhere ==
    ASSUME NEW g, NEW team, NEW ctx, IsList(g.roster[team])
    PROVE  \A r \in Range(GetRunnersOnBase(g, team, ctx)) : \A c : r.key # <<team, ctx.b, c>>
  <1> DEFINE columns == [j \in DOMAIN g.columns |-> ColumnId(g.columns[j])]
             before(b, c) ==
               \/ c[2] < ctx.col[2]
               \/ /\ c = ctx.col
                  /\ \/ OrderIn(g, team, ctx.i, b) < OrderIn(g, team, ctx.i, ctx.b)
                     \/ IsPlacedRunner(g.events[<<team, b, c>>])
             passed(b) == {j \in DOMAIN columns :
                            /\ g.columns[j].inning = ctx.i
                            /\ <<team, b, columns[j]>> \in DOMAIN g.events
                            /\ before(b, columns[j])}
             last(b) == Max({0} \cup passed(b))
             runner(b) ==
               IF b = ctx.b \/ last(b) \notin passed(b) THEN [key |-> <<>>, base |-> -1]
               ELSE LET key == <<team, b, columns[last(b)]>>
                    IN [key |-> key, base |-> BaseHeld(g.events[key])]
             batters == [i \in 1..Len(g.roster[team]) |-> runner(i - 1)]
             at(base) == {i \in DOMAIN batters : batters[i].base = base}
             on(base) == Picked(batters, at(base))
  <1>1. GetRunnersOnBase(g, team, ctx) = on(2) \o on(1) \o on(0)
    BY Zenon DEF GetRunnersOnBase
  <1> HIDE DEF columns, before, passed, last
  <1>2. ASSUME NEW b
        PROVE  runner(b).base = -1 \/ (b # ctx.b /\ \E c : runner(b).key = <<team, b, c>>)
    <2> DEFINE none == <<>>
               key == <<team, b, columns[last(b)]>>
               held == BaseHeld(g.events[key])
    <2>1. runner(b) = IF b = ctx.b \/ last(b) \notin passed(b) THEN [key |-> none, base |-> -1]
                      ELSE [key |-> key, base |-> held]
      BY Zenon
    <2>2. \E c : key = <<team, b, c>>
      OBVIOUS
    <2> DEFINE r == runner(b)
    <2> HIDE DEF none, held, key, runner
    <2>3. CASE b = ctx.b \/ last(b) \notin passed(b)
      <3>1. r = [key |-> none, base |-> -1]
        BY <2>1, <2>3
      <3> HIDE DEF r
      <3>2. r.base = -1
        BY <3>1
      <3>3. QED
        BY <3>2 DEF r
    <2>4. CASE ~(b = ctx.b \/ last(b) \notin passed(b))
      <3>1. r = [key |-> key, base |-> held]
        BY <2>1, <2>4
      <3> HIDE DEF r
      <3>2. r.key = key
        BY <3>1
      <3>3. QED
        BY <2>2, <2>4, <3>2 DEF r
    <2>5. QED
      BY <2>3, <2>4
  <1> HIDE DEF runner
  <1>3. IsList(batters)
    <2>1. DOMAIN g.roster[team] = 1..Len(g.roster[team])
      BY DEF IsList
    <2>2. batters = [i \in DOMAIN g.roster[team] |-> batters[i]]
      BY <2>1
    <2> HIDE DEF batters
    <2>3. QED
      BY <2>2, EachList
  <1>4. \A i \in DOMAIN batters : batters[i] = runner(i - 1)
    OBVIOUS
  <1> DEFINE Fine(r) == \A c : r.key # <<team, ctx.b, c>>
  <1>5. ASSUME NEW base \in 0..2, NEW r \in Range(on(base)) PROVE Fine(r)
    <2>0. \A i \in at(base) : batters[i].base = base
      OBVIOUS
    <2> HIDE DEF at, batters
    <2>1. PICK i \in at(base) \cap DOMAIN batters : r = batters[i]
      BY <1>3, PickedFrom
    <2>2. r = runner(i - 1) /\ r.base = base
      BY <1>4, <2>0, <2>1
    <2>3. r.base # -1
      BY <2>2
    <2>4. PICK c : i - 1 # ctx.b /\ r.key = <<team, i - 1, c>>
      BY <1>2, <2>2, <2>3
    <2>5. QED
      BY <2>4
  <1>6. IsList(on(0)) /\ IsList(on(1)) /\ IsList(on(2))
    BY <1>3, PickedList
  <1> HIDE DEF on, Fine
  <1>7. IsList(on(2) \o on(1))
    BY <1>6, JoinedList
  <1>8. Range(on(2) \o on(1) \o on(0)) \subseteq Range(on(2)) \cup Range(on(1)) \cup Range(on(0))
    BY <1>6, <1>7, JoinedRange
  <1>9. ASSUME NEW r \in Range(GetRunnersOnBase(g, team, ctx)) PROVE Fine(r)
    BY <1>1, <1>5, <1>8
  <1>10. QED
    BY <1>9 DEF Fine
-----------------------------------------------------------------------------
(* The handlers and the cell.                                              *)

\* The views that are opened and left.
LEMMA ViewShows == ASSUME Shows, Quiet, data' = data, rest' = rest, Near(ui, ui') PROVE Shows'
  BY QuietShows DEF Shows

LEMMA ToggleShows == ASSUME Ready, Shows, ToggleAction PROVE Shows'
  <1>1. Quiet /\ ui' = [ui EXCEPT !.editing = TRUE] /\ data' = data /\ rest' = rest
    BY DEF ToggleAction
  <1>2. Near(ui, ui')
    BY <1>1, NearSame, NearField DEF Ready
  <1>3. QED
    BY <1>1, <1>2, ViewShows

LEMMA BipShows ==
    ASSUME Ready, Shows, SelectDropped \/ ShowBip \/ HideBip PROVE Shows'
  <1>0. Near(ui, ui) /\ IsUi(ui)
    BY NearSame DEF Ready
  <1>1. CASE SelectDropped
    <2> DEFINE u == [ui EXCEPT !.mode = "dropped"]
    <2>1. Quiet /\ ui' = ShowBallInPlay(u, data) /\ data' = data /\ rest' = rest
      BY <1>1 DEF SelectDropped
    <2>2. IsUi(u) /\ Near(ui, u)
      BY <1>0, UiField, NearField
    <2> HIDE DEF u
    <2>3. Near(ui, ui')
      BY <2>1, <2>2, BallInPlayNear, NearTwice
    <2>4. QED
      BY <2>1, <2>3, ViewShows
  <1>2. CASE ShowBip
    <2>1. Quiet /\ ui' = ShowBallInPlay(ui, data) /\ data' = data /\ rest' = rest
      BY <1>2 DEF ShowBip
    <2>2. Near(ui, ui')
      BY <1>0, <2>1, BallInPlayNear
    <2>3. QED
      BY <2>1, <2>2, ViewShows
  <1>3. CASE HideBip
    <2> DEFINE l == Left(ui)
               u == [l EXCEPT !.view = "main"]
    <2>1. /\ Quiet /\ ui' = [u EXCEPT !.mode = "normal"] /\ data' = data /\ rest' = rest
          /\ ui.view = "bip"
      BY <1>3 DEF HideBip
    <2>2. DOMAIN l = UiFields /\ l.team = ui.team /\ l.ctx = ui.ctx
      BY <1>0, LeftAt
    <2> HIDE DEF l
    <2>3. Near(ui, u)
      BY <2>1, <2>2, NearView
    <2> HIDE DEF u
    <2>4. Near(ui, ui')
      BY <2>1, <2>3, NearField
    <2>5. QED
      BY <2>1, <2>4, ViewShows
  <1>4. QED
    BY <1>1, <1>2, <1>3

LEMMA ButtonShows ==
    ASSUME Ready, Shows, AddToSequence \/ BackspaceSequence \/ \E key : CycleBiP(key) PROVE Shows'
  <1>1. PICK v : Quiet /\ ui' = [ui EXCEPT !.bip = v] /\ data' = data /\ rest' = rest
    BY DEF AddToSequence, BackspaceSequence, CycleBiP
  <1>2. Near(ui, ui')
    BY <1>1, NearSame, NearField DEF Ready
  <1>3. QED
    BY <1>1, <1>2, ViewShows

LEMMA CloseRunnersShows ==
    ASSUME Ready, Shows, CloseRunnerAdvance \/ CloseRunnerAction PROVE Shows'
  <1> DEFINE l == Left(ui)
  <1>1. /\ Quiet /\ ui' = [l EXCEPT !.view = "main"] /\ data' = data /\ rest' = rest
        /\ ui.view # "grid"
    BY DEF CloseRunnerAdvance, CloseRunnerAction
  <1>2. DOMAIN l = UiFields /\ l.team = ui.team /\ l.ctx = ui.ctx
    BY LeftAt DEF Ready
  <1> HIDE DEF l
  <1>3. Near(ui, ui')
    BY <1>1, <1>2, NearView
  <1>4. QED
    BY <1>1, <1>3, ViewShows

\* The runners whose actions are asked for.
LEMMA ListedShows ==
    ASSUME Shows, Quiet, data' = data, rest' = rest, InCell,
           ui'.team = ui.team, ui'.ctx = ui.ctx, Elsewhere(ui')
    PROVE  Shows'
  <1>1. game' = game /\ CellKey(ui') = CellKey(ui)
    BY DEF Quiet, CellKey
  <1>2. CellShown(game', ui', data', rest')
    BY <1>1 DEF Shows, CellShown, InCell
  <1>3. QED
    BY <1>2 DEF Shows

LEMMA OutcomeShows ==
    ASSUME Ready, Shows, NEW i, NEW way, SetRunnerOutcome(i, way) PROVE Shows'
  <1> DEFINE s == ui.runners
             r == [s[i] EXCEPT !.outcome = way]
             list == [s EXCEPT ![i] = r]
  <1>1. /\ Quiet /\ ui' = [ui EXCEPT !.runners = list] /\ data' = data /\ rest' = rest
        /\ InCell /\ i \in DOMAIN s
    BY DEF SetRunnerOutcome, InCell
  <1>2. "key" \in DOMAIN s[i] => "key" \in DOMAIN r /\ r.key = s[i].key
    OBVIOUS
  <1> HIDE DEF r
  <1>3. /\ Range(s) = {s[j] : j \in DOMAIN s}
        /\ Range(list) = {list[j] : j \in DOMAIN s}
    BY DEF Range
  <1>4. \A j \in DOMAIN s : list[j] = IF j = i THEN r ELSE s[j]
    OBVIOUS
  <1> HIDE DEF list
  <1>5. /\ ui'.team = ui.team /\ ui'.ctx = ui.ctx /\ ui'.view = ui.view /\ ui'.runners = list
    BY <1>1 DEF Ready, IsUi, UiFields
  <1> HIDE DEF s
  <1>6. CellKey(ui') = CellKey(ui)
    BY <1>5 DEF CellKey
  <1>7. ASSUME ui.view = "action", NEW x \in Range(list)
        PROVE  "key" \in DOMAIN x /\ x.key # CellKey(ui)
    <2>1. PICK j \in DOMAIN s : x = list[j]
      BY <1>3
    <2>2. s[j] \in Range(s)
      BY <1>3
    <2>3. "key" \in DOMAIN s[j] /\ s[j].key # CellKey(ui)
      BY <1>7, <2>2 DEF Shows, Elsewhere, s
    <2>4. CASE j = i
      BY <1>2, <1>4, <2>1, <2>3, <2>4
    <2>5. CASE j # i
      BY <1>4, <2>1, <2>3, <2>5
    <2>6. QED
      BY <2>4, <2>5
  <1>8. Elsewhere(ui')
    BY <1>5, <1>6, <1>7 DEF Elsewhere
  <1>9. QED
    BY <1>1, <1>5, <1>8, ListedShows

\* What is listed of runners in other cells is in other cells.
Away(list) == \A i \in 1..Len(list) : "key" \in DOMAIN list[i] /\ list[i].key # CellKey(ui)

LEMMA RunnersAway ==
    ASSUME NEW S, Marked(game, S), IsUi(ui), NEW outcome PROVE Away(Listed(RunnersOn(ui), outcome))
  <1> DEFINE on == RunnersOn(ui)
             list == Listed(on, outcome)
  <1>1. IsList(game.roster[ui.team])
    BY DEF Marked, AreLineups, IsUi
  <1>2. IsList(on) /\ \A r \in Range(on) : r.key # CellKey(ui)
    BY <1>1, RunnersListed, RunnersElsewhere DEF RunnersOn, CellKey
  <1> HIDE DEF on
  <1>3. DOMAIN on = 1..Len(on) /\ Len(on) \in Nat /\ \A i \in 1..Len(on) : on[i] \in Range(on)
    BY <1>2 DEF IsList, Range
  <1>4. list = [i \in 1..Len(on) |-> [key |-> on[i].key, base |-> on[i].base, outcome |-> outcome]]
    BY <1>3 DEF Listed
  <1>5. Len(list) = Len(on)
    BY <1>3, <1>4
  <1>6. ASSUME NEW i \in 1..Len(on) PROVE "key" \in DOMAIN list[i] /\ list[i].key # CellKey(ui)
    BY <1>2, <1>3, <1>4
  <1> HIDE DEF list
  <1>7. QED
    BY <1>5, <1>6 DEF Away, list, on

LEMMA UpdatesAway ==
    ASSUME NEW runners, IsList(runners), Away(runners) PROVE Away(Updates(runners))
  <1> DEFINE list == Updates(runners)
  <1>1. DOMAIN runners = 1..Len(runners) /\ Len(runners) \in Nat
    BY DEF IsList
  <1>2. list = [i \in 1..Len(runners) |-> [key |-> runners[i].key, base |-> runners[i].base,
                                           action |-> runners[i].outcome]]
    BY <1>1 DEF Updates
  <1>3. Len(list) = Len(runners)
    BY <1>1, <1>2
  <1>4. ASSUME NEW i \in 1..Len(runners)
        PROVE  "key" \in DOMAIN list[i] /\ list[i].key # CellKey(ui)
    BY <1>2 DEF Away
  <1> HIDE DEF list
  <1>5. QED
    BY <1>3, <1>4 DEF Away, list

LEMMA OpenRunnersShows == ASSUME Ready, Shows, OpenRunnerAction PROVE Shows'
  <1> DEFINE list == Listed(RunnersOn(ui), "Stay")
  <1>1. /\ Quiet /\ ui' = [ui EXCEPT !.view = "action", !.runners = list]
        /\ data' = data /\ rest' = rest /\ InCell
    BY DEF OpenRunnerAction, PitchArea, InCell
  <1>2. IsList(list) /\ Away(list)
    BY RunnersOnListed, ListedListed, RunnersAway DEF Ready
  <1> HIDE DEF list
  <1>3. ui'.team = ui.team /\ ui'.ctx = ui.ctx /\ ui'.runners = list
    BY <1>1 DEF Ready, IsUi, UiFields
  <1>4. CellKey(ui') = CellKey(ui)
    BY <1>3 DEF CellKey
  <1>5. Elsewhere(ui')
    <2>1. DOMAIN list = 1..Len(list) /\ Range(list) = {list[i] : i \in DOMAIN list}
      BY <1>2 DEF IsList, Range
    <2>2. QED
      BY <1>2, <1>3, <1>4, <2>1 DEF Elsewhere, Away
  <1>6. QED
    BY <1>1, <1>3, <1>5, ListedShows
\* Plays, with the runners they ask for.
LEMMA FinalizeShows ==
    ASSUME Shows, NEW u, Near(ui, u), NEW list, NEW queue, IsList(queue),
           FinalizePlay(u, list, queue)
    PROVE  Shows'
  <1>1. rest' = Append(queue, "play") /\ ui' = u /\ "play" \in OwnSyncs
    BY DEF FinalizePlay, OwnSyncs
  <1>2. QED
    BY <1>1, WaitShows

LEMMA PlayShows ==
    ASSUME Ready, Shows, NEW u, IsUi(u), Near(ui, u), NEW mode, NEW queue, IsList(queue),
           Range(queue) \cap Syncs = Range(rest) \cap Syncs, data' = data,
           PlayOrAdvance(u, mode, queue)
    PROVE  Shows'
  <1>1. CASE RunnersOn(u) # <<>>
    <2> DEFINE v == ShowRunnerAdvance(u, u.pend)
    <2>1. Quiet /\ ui' = [v EXCEPT !.mode = mode] /\ rest' = queue
      BY <1>1 DEF PlayOrAdvance
    <2>2. Near(ui, v)
      BY AdvanceNear, NearTwice
    <2> HIDE DEF v
    <2>3. Near(ui, ui')
      BY <2>1, <2>2, NearField
    <2>4. QED
      BY <2>1, <2>3, QuietShows
  <1>2. CASE RunnersOn(u) = <<>>
    <2>1. FinalizePlay(u, <<>>, queue)
      BY <1>2 DEF PlayOrAdvance
    <2>2. QED
      BY <2>1, FinalizeShows
  <1>3. QED
    BY <1>1, <1>2

LEMMA RecordOutShows == ASSUME Ready, Shows, NEW code, RecordOut(code) PROVE Shows'
  <1> DEFINE none == ""
             u == WithPending(ui, "Out", none, code)
  <1>1. /\ data' = data
        /\ IF code = "BOO" THEN FinalizePlay(u, <<>>, rest)
           ELSE PlayOrAdvance(u, "normal", rest)
    BY Zenon DEF RecordOut
  <1> HIDE DEF none
  <1>2. IsUi(u) /\ Near(ui, u) /\ IsList(rest)
    BY PendingIs, PendingNear DEF Ready, Shows
  <1> HIDE DEF u
  <1>3. QED
    BY <1>1, <1>2, FinalizeShows, PlayShows

LEMMA AutoAdvanceShows == ASSUME Ready, Shows, NEW code, RecordAutoAdvance(code) PROVE Shows'
  <1> DEFINE u == WithPending(ui, "Safe", "1B", code)
  <1>1. data' = data /\ PlayOrAdvance(u, ui.mode, rest)
    BY DEF RecordAutoAdvance
  <1>2. IsUi(u) /\ Near(ui, u) /\ IsList(rest)
    BY PendingIs, PendingNear DEF Ready, Shows
  <1> HIDE DEF u
  <1>3. QED
    BY <1>1, <1>2, PlayShows

\* Handlers that wait for a save and copy the cell after it.
LEMMA AwaitShows ==
    ASSUME Ready, Shows, ui' = ui, NEW k \in OwnSyncs, Await(k) PROVE Shows'
  <1>1. Near(ui, ui') /\ IsList(rest) /\ rest' = Append(rest, k)
    BY NearSame DEF Ready, Shows, Await
  <1>2. QED
    BY <1>1, WaitShows

LEMMA ThrowShows ==
    ASSUME Ready, Shows, NEW type, NEW code, NEW k \in {"pitch", "dropped"},
           ThrowPitch(type, code, k), ui' = ui
    PROVE  Shows'
  <1>1. Await(k) /\ k \in OwnSyncs
    BY DEF ThrowPitch, OwnSyncs
  <1>2. QED
    BY <1>1, AwaitShows

LEMMA PitchShows == ASSUME Ready, Shows, NEW type, NEW code, RecordPitch(type, code) PROVE Shows'
  BY ThrowShows DEF RecordPitch

LEMMA CommitShows == ASSUME Ready, Shows, CommitBiP PROVE Shows'
  <1>1. CASE ui.mode = "dropped"
    <2>1. ThrowPitch("strike", "Dropped", "dropped") /\ ui' = ui
      BY <1>1 DEF CommitBiP
    <2>2. QED
      BY <2>1, ThrowShows
  <1>2. CASE ui.mode # "dropped"
    <2> DEFINE u == [ui EXCEPT !.pend = ui.bip]
    <2>1. PlayOrAdvance(u, "normal", rest) /\ data' = data
      BY <1>2 DEF CommitBiP
    <2>2. IsUi(u) /\ Near(ui, u) /\ IsList(rest)
      BY UiField, NearSame, NearField DEF Ready, Shows
    <2> HIDE DEF u
    <2>3. QED
      BY <2>1, <2>2, PlayShows
  <1>3. QED
    BY <1>1, <1>2

LEMMA FinishTurnShows == ASSUME Ready, Shows, FinishTurn PROVE Shows'
  <1>1. CASE ui.pend # <<>>
    <2>1. FinalizePlay(ui, ui.runners, rest)
      BY <1>1 DEF FinishTurn
    <2>2. Near(ui, ui) /\ IsList(rest)
      BY NearSame DEF Ready, Shows
    <2>3. QED
      BY <2>1, <2>2, FinalizeShows
  <1>2. CASE ui.pend = <<>>
    <2>1. Await("advance") /\ ui' = ui /\ "advance" \in OwnSyncs
      BY <1>2 DEF FinishTurn, OwnSyncs
    <2>2. QED
      BY <2>1, AwaitShows
  <1>3. QED
    BY <1>1, <1>2

LEMMA AwaitedShows ==
    ASSUME Ready, Shows,
           CycleOutNum \/ ClearAllData \/ \E code : ApplyRunnerAction(code)
    PROVE  Shows'
  <1>1. ui' = ui /\ \E k \in OwnSyncs : Await(k)
    BY DEF CycleOutNum, ClearAllData, ApplyRunnerAction, OwnSyncs
  <1>2. QED
    BY <1>1, AwaitShows

\* Batches of runner actions in other cells.
LEMMA BatchIs ==
    ASSUME NEW list, IsList(list)
    PROVE  LET a == Numbered(AtCell([type |-> "RUNNER_BATCH_UPDATE", updates |-> list]))
           IN a.type = "RUNNER_BATCH_UPDATE" /\ a.updates = list
  <1> DEFINE x == [type |-> "RUNNER_BATCH_UPDATE", updates |-> list]
             y == [team |-> ui.team, ctx |-> ui.ctx, batter |-> BatterId(game, ui)]
             b == AtCell(x)
             a == Numbered(b)
  <1>0. Held(b)
    BY BatchHeld
  <1>1. b = Over(x, y)
    BY DEF AtCell
  <1>2. DOMAIN x = {"type", "updates"} /\ x.type = "RUNNER_BATCH_UPDATE" /\ x.updates = list
    OBVIOUS
  <1> HIDE DEF x, y, b
  <1>3. DOMAIN b = DOMAIN x \cup DOMAIN y /\ \A f \in DOMAIN x : b[f] = x[f]
    BY <1>1, OverIs
  <1>4. \A f \in DOMAIN b : a[f] = b[f]
    BY <1>0, NumberedIs
  <1> HIDE DEF a
  <1>5. a.type = "RUNNER_BATCH_UPDATE" /\ a.updates = list
    BY <1>2, <1>3, <1>4
  <1>6. QED
    BY <1>5 DEF a, b, x

LEMMA BatchShows ==
    ASSUME Ready, Shows, ui' = ui, data' = data, IsList(rest'),
           Range(rest') \cap Syncs = Range(rest) \cap Syncs,
           NEW list, IsList(list), Away(list),
           Dispatch(AtCell([type |-> "RUNNER_BATCH_UPDATE", updates |-> list]))
    PROVE  Shows'
  <1> DEFINE b == AtCell([type |-> "RUNNER_BATCH_UPDATE", updates |-> list])
             a == Numbered(b)
  <1>1. Held(b) /\ a.type = "RUNNER_BATCH_UPDATE" /\ a.updates = list
    BY BatchHeld, BatchIs
  <1>2. Dispatch(b)
    OBVIOUS
  <1> HIDE DEF b
  <1>3. game' = GameReducer(game, a)
    BY <1>1, <1>2, DispatchGame DEF Dispatch
  <1> HIDE DEF a
  <1>4. game' = ApplyRunnerBatchUpdate(game, a)
    BY <1>1, <1>3 DEF GameReducer
  <1>5. "events" \in DOMAIN game /\ Len(a.updates) \in Nat
    BY <1>1 DEF Ready, Marked, IsList
  <1>6. SameAt(game, game', CellKey(ui))
    BY <1>1, <1>4, <1>5, BatchElsewhere DEF Away
  <1>7. Near(ui, ui')
    BY NearSame DEF Ready
  <1>8. QED
    BY <1>6, <1>7, KeptShows DEF SameAt

LEMMA BalkShows == ASSUME Ready, Shows, RecordBalk PROVE Shows'
  <1> DEFINE runners == Listed(RunnersOn(ui), "BK")
             list == Updates(runners)
  <1>1. /\ ui' = ui /\ data' = data /\ rest' = rest
        /\ Dispatch(AtCell([type |-> "RUNNER_BATCH_UPDATE", updates |-> list]))
    BY DEF RecordBalk
  <1>2. IsList(runners) /\ Away(runners)
    BY RunnersOnListed, ListedListed, RunnersAway DEF Ready
  <1> HIDE DEF runners
  <1>3. IsList(list) /\ Away(list)
    BY <1>2, UpdatesListed, UpdatesAway
  <1> HIDE DEF list
  <1>4. QED
    BY <1>1, <1>3, BatchShows DEF Shows

LEMMA SaveRunnersShows == ASSUME Ready, Shows, SaveRunnerActions PROVE Shows'
  <1> DEFINE moved == Picked(ui.runners,
                       {i \in DOMAIN ui.runners : ui.runners[i].outcome # "Stay"})
             list == Updates(moved)
  <1>1. /\ ui' = ui /\ data' = data /\ Await("runners") /\ ui.view = "action"
        /\ IF moved = <<>> THEN Quiet
           ELSE Dispatch(AtCell([type |-> "RUNNER_BATCH_UPDATE", updates |-> list]))
    BY DEF SaveRunnerActions
  <1>2. IsList(rest') /\ Range(rest') = Range(rest) \cup {"runners"}
    BY <1>1, QueueGrows DEF Await, Shows
  <1>3. Range(rest') \cap Syncs = Range(rest) \cap Syncs
    BY <1>2 DEF Syncs, OwnSyncs
  <1>4. IsList(ui.runners) /\ \A r \in Range(ui.runners) : "key" \in DOMAIN r /\ r.key # CellKey(ui)
    BY <1>1 DEF Ready, IsUi, Shows, Elsewhere
  <1>5. IsList(moved) /\ \A r \in Range(moved) : r \in Range(ui.runners)
    <2>1. \A i \in DOMAIN ui.runners : ui.runners[i] \in Range(ui.runners)
      BY DEF Range
    <2>2. QED
      BY <1>4, <2>1, PickedList, PickedFrom
  <1> HIDE DEF moved
  <1>6. Away(moved)
    <2>1. \A i \in 1..Len(moved) : moved[i] \in Range(moved)
      BY <1>5 DEF IsList, Range
    <2>2. QED
      BY <1>4, <1>5, <2>1 DEF Away
  <1>7. IsList(list) /\ Away(list)
    BY <1>5, <1>6, UpdatesListed, UpdatesAway
  <1> HIDE DEF list
  <1>8. CASE moved = <<>>
    <2>1. Near(ui, ui')
      BY <1>1, NearSame DEF Ready
    <2>2. QED
      BY <1>1, <1>2, <1>3, <1>8, <2>1, QuietShows
  <1>9. CASE moved # <<>>
    BY <1>1, <1>2, <1>3, <1>7, <1>9, BatchShows
  <1>10. QED
    BY <1>8, <1>9

\* Actions that are not about events.
LEMMA SheetActionShows ==
    ASSUME Ready, Shows, NEW a, Held(a), a.type \in SheetTypes, Dispatch(a),
           data' = data, Near(ui, ui'), IsList(rest'),
           Range(rest') \cap Syncs = Range(rest) \cap Syncs
    PROVE  Shows'
  <1>1. game' = GameReducer(game, Numbered(a)) /\ Numbered(a).type = a.type
    BY DispatchGame, NumberedIs DEF Dispatch
  <1>2. game'.events = game.events
    BY <1>1, SheetTypesKeep DEF Ready, Marked
  <1>3. QED
    BY <1>2, KeptShows

LEMMA PitcherShows == ASSUME Ready, Shows, NEW player, ChangePitcher(player) PROVE Shows'
  <1> DEFINE team == Other(ui.team)
             a == [type |-> "PITCHER_UPDATE", team |-> team, pitcher |-> player]
  <1>1. ui' = ui /\ data' = data /\ rest' = rest /\ Dispatch(a)
    BY DEF ChangePitcher
  <1> HIDE DEF team
  <1>2. /\ "type" \in DOMAIN a /\ "id" \notin DOMAIN a /\ a.type \in SimpleTypes
        /\ a.type \in SheetTypes
    BY DEF SimpleTypes, ActionTypes, SheetTypes
  <1> HIDE DEF a
  <1>3. Near(ui, ui') /\ IsList(rest')
    BY <1>1, NearSame DEF Ready, Shows
  <1>4. QED
    BY <1>1, <1>2, <1>3, SimpleHeld, SheetActionShows

\* A player corrected in place is not told apart.
LEMMA CorrectShows == ASSUME Ready, Shows, NEW player, CorrectPlayer(player) PROVE Shows'
  <1>1. PICK roster, pId : /\ game' = [game EXCEPT !.roster = roster]
                           /\ data' = [data EXCEPT !.pId = pId]
                           /\ ui' = ui /\ rest' = rest
    BY DEF CorrectPlayer
  <1>2. game'.events = game.events
    BY <1>1 DEF Ready, Marked
  <1>3. Plays(data') = Plays(data)
    BY <1>1 DEF Plays
  <1>4. Near(ui, ui') /\ IsList(rest')
    BY <1>1, NearSame DEF Ready, Shows
  <1>5. QED
    BY <1>1, <1>2, <1>3, <1>4, KeptShows

\* Handlers that close the overlay, and that copy the cell at once.
LEMMA CloseCSOShows == ASSUME Ready, Shows, CloseCSO PROVE Shows'
  <1>1. ui' = Closed(ui) /\ rest' = rest
    BY DEF CloseCSO
  <1>2. ui'.view = "grid" /\ IsList(rest')
    BY <1>1, ClosedNear DEF Ready, Shows
  <1>3. QED
    BY <1>2, SheetShows

LEMMA EditRBIShows == ASSUME Ready, Shows, NEW credit, EditRBI(credit) PROVE Shows'
  <1>1. ui' = ui /\ rest' = rest /\ data' = CellData(game', ui)
    BY DEF EditRBI
  <1>2. data' = EventAt(game', CellKey(ui'), BatterId(game', ui))
    BY <1>1 DEF CellData
  <1>3. Elsewhere(ui') /\ IsList(rest')
    BY <1>1 DEF Shows
  <1>4. QED
    BY <1>2, <1>3, CopyShows

LEMMA UndoPitchShows == ASSUME Ready, Shows, UndoPitch PROVE Shows'
  <1>1. ui' = ui /\ (Await("sync") \/ (data' = CellData(game', ui) /\ rest' = rest))
    BY Zenon DEF UndoPitch
  <1>2. CASE Await("sync")
    <2>1. "sync" \in OwnSyncs
      BY DEF OwnSyncs
    <2>2. QED
      BY <1>1, <1>2, <2>1, AwaitShows
  <1>3. CASE data' = CellData(game', ui) /\ rest' = rest
    <2>1. data' = EventAt(game', CellKey(ui'), BatterId(game', ui))
      BY <1>1, <1>3 DEF CellData
    <2>2. Elsewhere(ui') /\ IsList(rest')
      BY <1>1, <1>3 DEF Shows
    <2>3. QED
      BY <2>1, <2>2, CopyShows
  <1>4. QED
    BY <1>1, <1>2, <1>3

\* Taps on a base, and the menu they open.
LEMMA BaseClickShows == ASSUME Ready, Shows, NEW base, HandleBaseClick(base) PROVE Shows'
  <1> DEFINE d == Tapped(base)
             key == CellKey(ui)
             tapped == PutEvent(game, key, d)
  <1>1. PICK menu : /\ ui' = [ui EXCEPT !.menu = menu]
                    /\ \/ game' = tapped /\ data' = d
                       \/ data' = CellData(game', ui)
    BY BaseClickCases
  <1>2. rest' = rest
    BY DEF HandleBaseClick
  <1>3. Near(ui, ui')
    BY <1>1, NearSame, NearField DEF Ready
  <1>4. Elsewhere(ui') /\ CellKey(ui') = key /\ IsList(rest')
    BY <1>2, <1>3, NearElsewhere DEF Shows
  <1>5. CASE game' = tapped /\ data' = d
    <2>1. data' = EventAt(game', key, NoPlayer)
      BY <1>5, PutCell DEF Ready
    <2>2. QED
      BY <1>4, <2>1, CopyShows
  <1>6. CASE data' = CellData(game', ui)
    <2>1. data' = EventAt(game', key, BatterId(game', ui))
      BY <1>6 DEF CellData
    <2>2. QED
      BY <1>4, <2>1, CopyShows
  <1>7. QED
    BY <1>1, <1>5, <1>6

\* What closing the menu puts into the cell.
LEMMA OverrideWay ==
    ASSUME NEW d
    PROVE  Numbered(PathOverride(d)).data
             = [paths |-> d.paths, info |-> d.info, pId |-> BatterId(game, ui)]
  <1> DEFINE way == [paths |-> d.paths, info |-> d.info, pId |-> BatterId(game, ui)]
             p == PathOverride(d)
  <1>1. {"type", "key", "data"} \subseteq DOMAIN p /\ p.data = way
    BY DEF PathOverride
  <1> HIDE DEF p
  <1>2. \A x \in DOMAIN p : Numbered(p)[x] = p[x]
    BY OverrideHeld, NumberedIs DEF p
  <1>3. QED
    BY <1>1, <1>2 DEF p

\* A way put over an event that it is the way of changes but its player.
LEMMA SameWayOver ==
    ASSUME NEW d, EventFields \subseteq DOMAIN d, NEW e, EventFields \subseteq DOMAIN e,
           Plays(d) = Plays(e), NEW pId,
           NEW way, way = [paths |-> d.paths, info |-> d.info, pId |-> pId]
    PROVE  Plays(Over(way, e)) = Plays(d)
  <1> DEFINE f == Over(way, e)
  <1>1. DOMAIN way = {"paths", "info", "pId"} /\ way.paths = d.paths /\ way.info = d.info
    OBVIOUS
  <1>2. /\ DOMAIN Plays(d) = DOMAIN d /\ DOMAIN Plays(e) = DOMAIN e
        /\ \A x \in DOMAIN d : x # "pId" => Plays(d)[x] = d[x]
        /\ \A x \in DOMAIN e : x # "pId" => Plays(e)[x] = e[x]
    BY DEF Plays
  <1>3. DOMAIN d = DOMAIN e /\ \A x \in DOMAIN e : x # "pId" => d[x] = e[x]
    BY <1>2
  <1>4. /\ DOMAIN f = DOMAIN way \cup DOMAIN e
        /\ \A x \in DOMAIN way : f[x] = way[x]
        /\ \A x \in DOMAIN e \ DOMAIN way : f[x] = e[x]
        /\ f = [x \in DOMAIN f |-> f[x]]
    BY OverIs DEF Over
  <1> HIDE DEF f
  <1>5. DOMAIN f = DOMAIN e
    BY <1>1, <1>4 DEF EventFields
  <1>6. ASSUME NEW x \in DOMAIN e, x # "pId" PROVE f[x] = d[x]
    BY <1>1, <1>3, <1>4, <1>6
  <1>7. /\ Plays(f) = [x \in DOMAIN f |-> IF x = "pId" THEN NoPlayer ELSE f[x]]
    BY <1>4 DEF Plays
  <1>8. Plays(d) = [x \in DOMAIN d |-> IF x = "pId" THEN NoPlayer ELSE d[x]]
    BY DEF Plays
  <1>9. QED
    BY <1>3, <1>5, <1>6, <1>7, <1>8 DEF f

LEMMA CloseMenuShows == ASSUME Ready, Shows, CloseRunnerMenu PROVE Shows'
  <1> DEFINE none == <<>>
             key == CellKey(ui)
             a == Numbered(PathOverride(data))
             e == EventAt(game, key, NoPlayer)
             f == Over(a.data, e)
  <1>1. /\ DispatchOn(game, PathOverride(data), loose \ OfCell)
        /\ ui' = [ui EXCEPT !.menu = none] /\ data' = data /\ rest' = rest
        /\ ui.view # "grid"
    BY DEF CloseRunnerMenu
  <1> HIDE DEF none
  <1>2. Near(ui, ui')
    BY <1>1, NearSame, NearField DEF Ready
  <1>3. Elsewhere(ui') /\ CellKey(ui') = key
    BY <1>2, NearElsewhere DEF Shows
  <1>4. game' = GameReducer(game, a)
    BY <1>1, OverrideHeld, DispatchGame
  <1>5. game' = PutEvent(game, key, f)
    <2>1. a.type = "MANUAL_PATH_OVERRIDE" /\ a.key = key
      BY OverrideIs
    <2> HIDE DEF a
    <2>2. GameReducer(game, a) = PutEvent(game, key, Over(a.data, EventAt(game, key, NoPlayer)))
      BY <2>1 DEF GameReducer, ApplyManualPathOverride
    <2>3. QED
      BY <1>4, <2>2
  <1> HIDE DEF a, e, f
  <1>6. key \in DOMAIN game'.events /\ game'.events[key] = f
    <2> HIDE DEF key
    <2>1. "events" \in DOMAIN game
      BY DEF Ready, Marked
    <2>2. game'.events = [k \in DOMAIN game.events \cup {key} |-> IF k = key THEN f ELSE game.events[k]]
      BY <1>5, <2>1, PutEventIs
    <2>3. QED
      BY <2>2
  <1> USE DEF a, e, f
  <1>7. ASSUME Range(rest) \cap Syncs = {} PROVE Plays(data) = Plays(f)
    <2>1. Range(rest) \cap OwnSyncs = {}
      BY <1>7 DEF Syncs
    <2>2. Plays(data) = Plays(e)
      <3>1. CASE key \in DOMAIN game.events
        BY <1>1, <1>7, <3>1 DEF Shows, CellShown, EventAt
      <3>2. CASE key \notin DOMAIN game.events
        BY <1>1, <2>1, <3>2 DEF Shows, CellShown, EventAt
      <3>3. QED
        BY <3>1, <3>2
    <2>3. KnownMarks(e, Places(log)) /\ KnownMarks(data, Places(log))
      BY EventAtKnown DEF Ready
    <2>4. EventFields \subseteq DOMAIN e /\ EventFields \subseteq DOMAIN data
      BY <2>3 DEF KnownMarks
    <2> DEFINE way == a.data
    <2>5. way = [paths |-> data.paths, info |-> data.info, pId |-> BatterId(game, ui)]
      BY OverrideWay
    <2> HIDE DEF way, e
    <2>6. Plays(Over(way, e)) = Plays(data)
      BY <2>2, <2>4, <2>5, SameWayOver
    <2>7. QED
      BY <2>6 DEF way
  <1> HIDE DEF a, e, f
  <1>8. CellShown(game', ui', data', rest')
    BY <1>1, <1>3, <1>6, <1>7 DEF CellShown
  <1>9. QED
    BY <1>1, <1>3, <1>8 DEF Shows

\* A substitution waits when it is the slot's of the cell.
LEMMA SubstituteShows ==
    ASSUME Ready, Shows, NEW team, NEW index, NEW player, Substitute(team, index, player)
    PROVE  Shows'
  <1> DEFINE live == ui.ctx # <<>> /\ ui.team = team /\ ui.ctx.b = index
  <1>1. /\ ui' = ui /\ (InCell => live)
        /\ IF live THEN Await("sync") ELSE rest' = rest
    BY DEF Substitute
  <1> HIDE DEF live
  <1>2. CASE live
    <2>1. "sync" \in OwnSyncs
      BY DEF OwnSyncs
    <2>2. QED
      BY <1>1, <1>2, <2>1, AwaitShows
  <1>3. CASE ~live
    <2>1. ui'.view = "grid" /\ IsList(rest')
      BY <1>1, <1>3 DEF InCell, Shows
    <2>2. QED
      BY <2>1, SheetShows
  <1>4. QED
    BY <1>2, <1>3

\* The sheet.
LEMMA OpenCSOShows == ASSUME Ready, Shows, NEW b, NEW c, OpenCSO(b, c) PROVE Shows'
  <1> DEFINE none == <<>>
             ctx == Ctx(b, ColumnId(c))
             u == [ui EXCEPT !.ctx = ctx]
             v == [u EXCEPT !.view = "main"]
             w == [v EXCEPT !.menu = none]
  <1>1. /\ ui' = [w EXCEPT !.mode = "normal"] /\ rest' = rest
        /\ game' = game /\ data' = CellData(game, ui')
    BY Zenon DEF OpenCSO, Quiet
  <1> HIDE DEF none, ctx
  <1>2. ui'.view = "main"
    BY <1>1 DEF Ready, IsUi, UiFields
  <1>3. Elsewhere(ui') /\ IsList(rest')
    BY <1>1, <1>2 DEF Elsewhere, Shows
  <1>4. data' = EventAt(game', CellKey(ui'), BatterId(game, ui'))
    BY <1>1 DEF CellData
  <1>5. QED
    BY <1>3, <1>4, CopyShows

LEMMA SwitchTeamShows == ASSUME Ready, Shows, SwitchTeam PROVE Shows'
  <1> DEFINE team == Other(ui.team)
  <1>1. /\ ui' = [ui EXCEPT !.team = team] /\ rest' = rest /\ ui.view = "grid"
    BY DEF SwitchTeam, InCell
  <1> HIDE DEF team
  <1>2. ui'.view = "grid" /\ IsList(rest')
    BY <1>1 DEF Ready, IsUi, UiFields, Shows
  <1>3. QED
    BY <1>2, SheetShows

LEMMA OnSheetShows == ASSUME Ready, Shows, NEW a, OnSheet(a) PROVE Shows'
  <1>1. ui'.view = "grid" /\ IsList(rest')
    BY DEF OnSheet, InCell, Shows
  <1>2. QED
    BY <1>1, SheetShows

LEMMA SheetTapShows == ASSUME Ready, Shows, OnTheSheet PROVE Shows'
  <1>1. ASSUME NEW b, NEW c, ToggleLead(b, c) PROVE Shows'
    BY <1>1, OnSheetShows DEF ToggleLead
  <1>2. ASSUME NEW key, NEW b, MovePlay(key, b) PROVE Shows'
    <2>1. \E a : OnSheet(a)
      BY <1>2, Zenon DEF MovePlay
    <2>2. QED
      BY <2>1, OnSheetShows
  <1>3. ASSUME NEW inning, NEW score, AddColumn(inning) \/ EditScore(inning, score)
        PROVE  Shows'
    BY <1>3, OnSheetShows DEF AddColumn, EditScore
  <1>4. ASSUME NEW c, RemoveColumn(c) PROVE Shows'
    <2>1. \E a : OnSheet(a)
      BY <1>4, Zenon DEF RemoveColumn
    <2>2. QED
      BY <2>1, OnSheetShows
  <1>5. ASSUME AddInning \/ EndGame \/ Undo \/ Redo PROVE Shows'
    <2>1. \E a : OnSheet(a)
      BY <1>5, Zenon DEF AddInning, EndGame, Undo, Redo
    <2>2. QED
      BY <2>1, OnSheetShows
  <1>6. \/ \E b, c : OpenCSO(b, c) \/ ToggleLead(b, c)
        \/ SwitchTeam
        \/ \E key, b : MovePlay(key, b)
        \/ \E inning, score : AddColumn(inning) \/ EditScore(inning, score)
        \/ \E c : RemoveColumn(c)
        \/ AddInning \/ EndGame \/ Undo \/ Redo
    BY Zenon DEF OnTheSheet
  <1>7. QED
    BY <1>1, <1>2, <1>3, <1>4, <1>5, <1>6, OpenCSOShows, SwitchTeamShows

\* Another device's action, copied when its turn comes.
LEMMA ReceiveShows ==
    ASSUME Ready, Shows, RemoteKeepsCells, NEW a \in Remote, Receive(a) PROVE Shows'
  <1>1. /\ ui' = ui /\ data' = data /\ Dispatch(a) /\ rest' = Append(rest, "remote")
    BY DEF Receive, Await
  <1>2. /\ "type" \in DOMAIN a /\ "id" \notin DOMAIN a
        /\ a.type # "UNDO" /\ IsHeld(a, {0}) /\ a.type \notin Takes
    BY ScorerConstants DEF RemoteKeepsCells
  <1>3. IsHeld(a, Places(log))
    <2>1. {0} \subseteq Places(log)
      BY DEF Places
    <2>2. QED
      BY <1>2, <2>1, KnownMore
  <1>4. Held(a)
    BY <1>2, <1>3 DEF Held
  <1> DEFINE b == Numbered(a)
  <1>5. game' = GameReducer(game, b)
    BY <1>1, <1>4, DispatchGame DEF Dispatch
  <1>6. IsHeld(b, Places(log)) /\ b.type # "UNDO" /\ b.type \notin Takes
    BY <1>2, <1>4, NumberedIs
  <1> HIDE DEF b
  <1>7. Grown(game, game')
    BY <1>5, <1>6, ReducerGrows DEF Ready, Marked
  <1>8. IsList(rest') /\ Range(rest') = Range(rest) \cup {"remote"}
    BY <1>1, QueueGrows DEF Shows
  <1>9. /\ Range(rest') \cap OwnSyncs = Range(rest) \cap OwnSyncs
        /\ Range(rest') \cap Syncs # {}
    BY <1>8 DEF OwnSyncs, Syncs
  <1>10. CellShown(game', ui', data', rest')
    BY <1>1, <1>7, <1>9 DEF Shows, CellShown, Grown
  <1>11. QED
    BY <1>1, <1>8, <1>10 DEF Shows, Elsewhere

LEMMA ReloadShows == ASSUME Ready, Shows, Reload PROVE Shows'
  <1> DEFINE none == <<>>
  <1>1. /\ ui' = [team |-> "away", ctx |-> none, view |-> "grid", menu |-> none,
                  bip |-> none, mode |-> "normal", pend |-> none, runners |-> none,
                  editing |-> FALSE]
        /\ rest' = rest
    BY DEF Reload
  <1> HIDE DEF none
  <1>2. ui'.view = "grid" /\ IsList(rest')
    BY <1>1 DEF Shows
  <1>3. QED
    BY <1>2, SheetShows

-----------------------------------------------------------------------------
(* The continuations and the cell.                                         *)

LEMMA AfterPitchShows == ASSUME Ready, Shows, AfterPitch, IsList(rest') PROVE Shows'
  <1> DEFINE none == ""
             d == CellData(game, ui)
             last == IF d.pitches = <<>> THEN none ELSE d.pitches[Len(d.pitches)].code
             strikeOut == d.outcome \in {"K", "Kc"}
             u == [ui EXCEPT !.mode = "dropped"]
  <1>1. /\ ui' = CASE d.outcome = "BB" -> ForcedAdvance(ui)
                   [] strikeOut /\ last = "Dropped" -> ShowBallInPlay(u, d)
                   [] strikeOut /\ last # "Dropped" -> Closed(ui)
                   [] OTHER -> ui
        /\ data' = Copy(ui', d)
        /\ IF strikeOut /\ last # "Dropped" THEN LeadAfterThirdOut(ui, NextBatter(ui))
           ELSE Quiet
    BY Zenon DEF AfterPitch
  <1>2. d = EventAt(game, CellKey(ui), BatterId(game, ui))
    BY DEF CellData
  <1>3. strikeOut => d.outcome # "BB"
    OBVIOUS
  <1>4. Near(ui, ShowBallInPlay(u, d))
    <2>1. IsUi(u) /\ Near(ui, u)
      BY NearSame, UiField, NearField DEF Ready
    <2> HIDE DEF u, d
    <2>2. QED
      BY <2>1, BallInPlayNear, NearTwice
  <1>5. Near(ui, ForcedAdvance(ui)) /\ Near(ui, ui)
    BY ForcedNear, NearSame DEF Ready
  <1> HIDE DEF u, d, last, none
  <1>6. CASE strikeOut /\ last # "Dropped"
    <2>1. ui' = Closed(ui)
      BY <1>1, <1>3, <1>6
    <2>2. QED
      BY <2>1, ClosedNear, SheetShows DEF Ready
  <1>7. CASE ~(strikeOut /\ last # "Dropped")
    <2>1. Quiet /\ data' = Copy(ui', d)
      BY <1>1, <1>7
    <2>2. ui' = ForcedAdvance(ui) \/ ui' = ShowBallInPlay(u, d) \/ ui' = ui
      BY <1>1, <1>7
    <2>3. Elsewhere(ui') /\ CellKey(ui') = CellKey(ui)
      BY <1>4, <1>5, <2>2, NearElsewhere DEF Shows
    <2>4. ui'.view # "grid" => data' = EventAt(game', CellKey(ui'), BatterId(game, ui))
      BY <1>2, <2>1, <2>3 DEF Copy, Quiet
    <2>5. QED
      BY <2>3, <2>4, CopyShows
  <1>8. QED
    BY <1>6, <1>7

LEMMA AfterPlayShows == ASSUME Ready, Shows, AfterPlay, IsList(rest') PROVE Shows'
  <1> DEFINE none == <<>>
             c == Closed(ui)
  <1>1. ui' = [c EXCEPT !.pend = none, !.editing = FALSE, !.mode = "normal"]
    BY DEF AfterPlay
  <1>2. c.view = "grid" /\ DOMAIN c = UiFields
    BY ClosedNear, ClosedIs DEF Ready, IsUi
  <1> HIDE DEF c, none
  <1>3. ui'.view = "grid"
    BY <1>1, <1>2 DEF UiFields
  <1>4. QED
    BY <1>3, SheetShows

LEMMA AfterAdvanceShows == ASSUME Ready, Shows, AfterAdvance, IsList(rest') PROVE Shows'
  <1>1. ui'.view = "grid"
    BY ClosedNear DEF AfterAdvance, Ready
  <1>2. QED
    BY <1>1, SheetShows

\* The lead of the next inning is not about the cell.
LEMMA LeadShows ==
    ASSUME Ready, Shows, NEW u, NEW b, LeadAfterThirdOut(u, b), data' = data,
           Near(ui, ui'), IsList(rest'), Range(rest') \cap Syncs = Range(rest) \cap Syncs
    PROVE  Shows'
  <1>1. CASE Quiet
    BY <1>1, QuietShows
  <1>2. CASE ~Quiet
    <2>1. SetNextInningLead(u, b)
      BY <1>2 DEF LeadAfterThirdOut
    <2>2. PICK col : Dispatch([type |-> "SET_INNING_LEAD", team |-> u.team, row |-> b,
                               col |-> col])
      BY <1>2, <2>1, Zenon DEF SetNextInningLead
    <2> DEFINE a == [type |-> "SET_INNING_LEAD", team |-> u.team, row |-> b, col |-> col]
    <2>3. Dispatch(a)
      BY <2>2
    <2>4. /\ "type" \in DOMAIN a /\ "id" \notin DOMAIN a /\ a.type \in SimpleTypes
          /\ a.type \in SheetTypes
      BY DEF SimpleTypes, ActionTypes, SheetTypes
    <2> HIDE DEF a
    <2>5. QED
      BY <2>3, <2>4, SimpleHeld, SheetActionShows
  <1>3. QED
    BY <1>1, <1>2

LEMMA AfterRunnerActionsShows ==
    ASSUME Ready, Shows, AfterRunnerActions, IsList(rest'),
           Range(rest') \cap Syncs = Range(rest) \cap Syncs
    PROVE  Shows'
  <1> DEFINE l == Left(ui)
  <1>1. ui' = Shown(l, "main") /\ data' = data /\ LeadAfterThirdOut(ui, ui.ctx.b)
    BY DEF AfterRunnerActions
  <1>2. DOMAIN l = UiFields /\ l.team = ui.team /\ l.ctx = ui.ctx /\ l.view = ui.view
    BY LeftAt DEF Ready
  <1> HIDE DEF l
  <1>3. /\ Near(l, ui') /\ ui'.view # "action"
    BY <1>1, <1>2, ShownNear
  <1>4. Near(ui, ui')
    BY <1>2, <1>3 DEF Near
  <1>5. QED
    BY <1>1, <1>4, LeadShows

LEMMA AfterSyncShows ==
    ASSUME Ready, Shows, NEW close, NEW menu, AfterSync(close, menu), IsList(rest') PROVE Shows'
  <1> DEFINE v == IF close THEN "grid" ELSE ui.view
             u == [ui EXCEPT !.view = v]
             m == IF menu THEN <<>> ELSE ui.menu
  <1>1. /\ ui' = [ui EXCEPT !.view = v, !.menu = m]
        /\ data' = Copy(ui', CellData(game, ui)) /\ game' = game
    BY Zenon DEF AfterSync, Quiet
  <1>2. v \in {"grid", ui.view}
    OBVIOUS
  <1> HIDE DEF v, m
  <1>3. /\ DOMAIN u = UiFields /\ u.team = ui.team /\ u.ctx = ui.ctx /\ u.view = v
        /\ u.runners = ui.runners
    BY DEF Ready, IsUi, UiFields
  <1>4. Near(ui, u)
    BY <1>2, <1>3 DEF Near
  <1>5. ui' = [u EXCEPT !.menu = m]
    BY <1>1
  <1> HIDE DEF u
  <1>6. Elsewhere(ui') /\ CellKey(ui') = CellKey(ui)
    BY <1>4, <1>5, NearField, NearElsewhere DEF Shows
  <1>7. ui'.view # "grid" => data' = EventAt(game', CellKey(ui'), BatterId(game, ui))
    BY <1>1, <1>6 DEF Copy, CellData
  <1>8. QED
    BY <1>6, <1>7, CopyShows

LEMMA AfterRemoteShows ==
    ASSUME Ready, Shows, AfterRemote, IsList(rest'),
           Range(rest') \cap OwnSyncs = Range(rest) \cap OwnSyncs
    PROVE  Shows'
  <1>1. /\ game' = game /\ ui' = ui
        /\ data' = IF ui.view # "grid" /\ CellKey(ui) \in DOMAIN game.events
                   THEN game.events[CellKey(ui)] ELSE data
    BY DEF AfterRemote, Quiet, InCell
  <1>2. CellShown(game', ui', data', rest')
    BY <1>1 DEF Shows, CellShown
  <1>3. QED
    BY <1>1, <1>2 DEF Shows, Elsewhere

LEMMA AfterDroppedShows ==
    ASSUME Ready, Shows, AfterDropped, IsList(Tail(rest)),
           Range(Tail(rest)) \cap Syncs = Range(rest) \cap Syncs
    PROVE  Shows'
  <1> DEFINE u == [ui EXCEPT !.pend = ui.bip]
  <1>1. PlayOrAdvance(u, "normal", Tail(rest)) /\ data' = data
    BY DEF AfterDropped
  <1>2. IsUi(u) /\ Near(ui, u)
    BY UiField, NearSame, NearField DEF Ready
  <1> HIDE DEF u
  <1>3. QED
    BY <1>1, <1>2, PlayShows

LEMMA ResumeShows == ASSUME Ready, Shows, Resume PROVE Shows'
  <1> DEFINE k == Head(rest)
             queue == Tail(rest)
  <1>1. /\ rest # <<>>
        /\ \/ /\ k \in {"pitch", "dropped"} /\ AfterPitch
              /\ rest' = IF k = "dropped" THEN Append(queue, "commit") ELSE queue
           \/ k = "play" /\ AfterPlay /\ rest' = queue
           \/ k = "advance" /\ AfterAdvance /\ rest' = queue
           \/ k = "runners" /\ AfterRunnerActions /\ rest' = queue
           \/ \E close, menu : AfterSync(close, menu) /\ rest' = queue
           \/ k = "remote" /\ AfterRemote /\ rest' = queue
           \/ k = "commit" /\ AfterDropped
    BY Zenon DEF Resume
  <1>2. IsList(queue) /\ Range(rest) = Range(queue) \cup {k}
    BY <1>1, QueueShrinks DEF Shows
  <1>3. IsList(Append(queue, "commit"))
    BY <1>2, QueueGrows
  <1> HIDE DEF k
  <1>4. CASE AfterPitch /\ rest' \in {queue, Append(queue, "commit")}
    BY <1>2, <1>3, <1>4, AfterPitchShows
  <1>5. CASE (AfterPlay \/ AfterAdvance \/ \E close, menu : AfterSync(close, menu))
             /\ rest' = queue
    BY <1>2, <1>5, AfterPlayShows, AfterAdvanceShows, AfterSyncShows
  <1>6. CASE k = "runners" /\ AfterRunnerActions /\ rest' = queue
    <2>1. Range(rest') \cap Syncs = Range(rest) \cap Syncs
      BY <1>2, <1>6 DEF Syncs, OwnSyncs
    <2>2. QED
      BY <1>2, <1>6, <2>1, AfterRunnerActionsShows
  <1>7. CASE k = "remote" /\ AfterRemote /\ rest' = queue
    <2>1. Range(rest') \cap OwnSyncs = Range(rest) \cap OwnSyncs
      BY <1>2, <1>7 DEF OwnSyncs
    <2>2. QED
      BY <1>2, <1>7, <2>1, AfterRemoteShows
  <1>8. CASE k = "commit" /\ AfterDropped
    <2>1. Range(queue) \cap Syncs = Range(rest) \cap Syncs
      BY <1>2, <1>8 DEF Syncs, OwnSyncs
    <2>2. QED
      BY <1>2, <1>8, <2>1, AfterDroppedShows
  <1>9. QED
    BY <1>1, <1>4, <1>5, <1>6, <1>7, <1>8

-----------------------------------------------------------------------------
(* Every step and the cell.                                                *)

LEMMA OverlayShows == ASSUME Ready, Shows, InOverlay PROVE Shows'
  <1>1. CASE CloseCSO \/ ToggleAction
    BY <1>1, CloseCSOShows, ToggleShows
  <1>2. CASE \E p \in Pitches : IF p[1] = "out" THEN RecordOut(p[2]) ELSE RecordPitch(p[1], p[2])
    <2>1. \/ \E code : RecordOut(code)
          \/ \E type, code : RecordPitch(type, code)
      BY <1>2
    <2>2. QED
      BY <2>1, RecordOutShows, PitchShows
  <1>3. CASE \E code : RecordAutoAdvance(code)
    BY <1>3, AutoAdvanceShows
  <1>4. CASE SelectDropped \/ ShowBip \/ HideBip \/ CommitBiP
    BY <1>4, BipShows, CommitShows
  <1>5. CASE AddToSequence \/ BackspaceSequence \/ \E key : CycleBiP(key)
    BY <1>5, ButtonShows
  <1>6. CASE CloseRunnerAdvance \/ CloseRunnerAction
    BY <1>6, CloseRunnersShows
  <1>7. CASE FinishTurn \/ OpenRunnerAction \/ SaveRunnerActions \/ RecordBalk
    BY <1>7, FinishTurnShows, OpenRunnersShows, SaveRunnersShows, BalkShows
  <1>8. CASE \E i, way : SetRunnerOutcome(i, way)
    BY <1>8, OutcomeShows
  <1>9. CASE \E base : HandleBaseClick(base)
    BY <1>9, BaseClickShows
  <1>10. CASE CycleOutNum \/ ClearAllData \/ \E code : ApplyRunnerAction(code)
    BY <1>10, AwaitedShows
  <1>11. CASE CloseRunnerMenu \/ UndoPitch
    BY <1>11, CloseMenuShows, UndoPitchShows
  <1>12. CASE \E player : ChangePitcher(player) \/ CorrectPlayer(player) \/ EditRBI(player)
    BY <1>12, PitcherShows, CorrectShows, EditRBIShows
  <1>13. \/ CloseCSO \/ ToggleAction
         \/ \E p \in Pitches : IF p[1] = "out" THEN RecordOut(p[2]) ELSE RecordPitch(p[1], p[2])
         \/ \E code : RecordAutoAdvance(code)
         \/ SelectDropped \/ ShowBip \/ HideBip \/ CommitBiP
         \/ AddToSequence \/ BackspaceSequence
         \/ \E key : CycleBiP(key)
         \/ CloseRunnerAdvance \/ FinishTurn
         \/ OpenRunnerAction \/ CloseRunnerAction \/ SaveRunnerActions \/ RecordBalk
         \/ \E i, way : SetRunnerOutcome(i, way)
         \/ \E base : HandleBaseClick(base)
         \/ \E code : ApplyRunnerAction(code)
         \/ CloseRunnerMenu
         \/ CycleOutNum \/ ClearAllData \/ UndoPitch
         \/ \E player : ChangePitcher(player) \/ CorrectPlayer(player) \/ EditRBI(player)
    BY Zenon DEF InOverlay
  <1>14. QED
    BY <1>1, <1>2, <1>3, <1>4, <1>5, <1>6, <1>7, <1>8, <1>9, <1>10, <1>11, <1>12, <1>13

LEMMA NextShows == ASSUME Ready, Shows, RemoteKeepsCells, Next PROVE Shows'
  <1>1. \/ InOverlay \/ OnTheSheet \/ Resume \/ Reload
        \/ \E b, player : Substitute(ui.team, b, player)
        \/ \E a \in Remote : Receive(a)
    BY Zenon DEF Next
  <1>2. CASE \E b, player : Substitute(ui.team, b, player)
    BY <1>2, SubstituteShows
  <1>3. CASE \E a \in Remote : Receive(a)
    BY <1>3, ReceiveShows
  <1>4. QED
    BY <1>1, <1>2, <1>3, OverlayShows, SheetTapShows, ResumeShows, ReloadShows

LEMMA InitShows == ASSUME Init PROVE Shows
  <1> DEFINE none == <<>>
  <1>1. /\ ui = [team |-> "away", ctx |-> none, view |-> "grid", menu |-> none,
                 bip |-> none, mode |-> "normal", pend |-> none, runners |-> none,
                 editing |-> FALSE]
        /\ rest = none
    BY DEF Init
  <1>2. IsList(none)
    BY EmptyList
  <1> HIDE DEF none
  <1>3. ui.view = "grid"
    BY <1>1
  <1>4. QED
    BY <1>1, <1>2, <1>3 DEF Shows, CellShown, Elsewhere

\* As long as other devices record nothing that may take the event of a cell
\* away, the overlay shows its cell, once no handler waits.
THEOREM CellStaysShown == ASSUME RemoteKeepsCells PROVE Spec => []CellIsShown
  <1>1. Init => Shows
    BY InitShows
  <1>2. Ready /\ Shows /\ [Next]_vars => Shows'
    <2> SUFFICES ASSUME Ready, Shows, [Next]_vars PROVE Shows'
      OBVIOUS
    <2>1. CASE Next
      BY <2>1, NextShows
    <2>2. CASE UNCHANGED vars
      BY <2>2 DEF vars, Shows, CellShown, Elsewhere
    <2>3. QED
      BY <2>1, <2>2
  <1>3. Shows => CellIsShown
    <2>1. rest = <<>> => Range(rest) = {}
      BY DEF Range
    <2>2. QED
      BY <2>1 DEF Shows, CellShown, CellIsShown, InCell, Plays
  <1>4. QED
    BY <1>1, <1>2, <1>3, ReadyHolds, PTL DEF Spec

-----------------------------------------------------------------------------
(* The runners the overlay lists.                                          *)

LEMMA SameOrder ==
    ASSUME NEW g, NEW h, NEW team, h.columns = g.columns,
           Len(h.roster[team]) = Len(g.roster[team]), NEW inning, NEW b
    PROVE  OrderIn(h, team, inning, b) = OrderIn(g, team, inning, b)
  BY DEF OrderIn

\* Who is on base depends on the columns, the size of the lineup and the events
\* of the other batters.
LEMMA SameRunners ==
    ASSUME NEW g, NEW h, NEW team, NEW ctx, h.columns = g.columns,
           Len(h.roster[team]) = Len(g.roster[team]),
           \A b, c : b # ctx.b =>
             /\ <<team, b, c>> \in DOMAIN h.events <=> <<team, b, c>> \in DOMAIN g.events
             /\ <<team, b, c>> \in DOMAIN g.events =>
                  h.events[<<team, b, c>>] = g.events[<<team, b, c>>]
    PROVE  GetRunnersOnBase(h, team, ctx) = GetRunnersOnBase(g, team, ctx)
  <1> DEFINE columns(q) == [j \in DOMAIN q.columns |-> ColumnId(q.columns[j])]
             before(q, b, c) ==
               \/ c[2] < ctx.col[2]
               \/ /\ c = ctx.col
                  /\ \/ OrderIn(q, team, ctx.i, b) < OrderIn(q, team, ctx.i, ctx.b)
                     \/ IsPlacedRunner(q.events[<<team, b, c>>])
             passed(q, b) == {j \in DOMAIN columns(q) :
                               /\ q.columns[j].inning = ctx.i
                               /\ <<team, b, columns(q)[j]>> \in DOMAIN q.events
                               /\ before(q, b, columns(q)[j])}
             last(q, b) == Max({0} \cup passed(q, b))
             runner(q, b) ==
               IF b = ctx.b \/ last(q, b) \notin passed(q, b) THEN [key |-> <<>>, base |-> -1]
               ELSE LET key == <<team, b, columns(q)[last(q, b)]>>
                    IN [key |-> key, base |-> BaseHeld(q.events[key])]
             batters(q) == [i \in 1..Len(q.roster[team]) |-> runner(q, i - 1)]
             at(q, base) == {i \in DOMAIN batters(q) : batters(q)[i].base = base}
             on(q, base) == Picked(batters(q), at(q, base))
  <1>1. /\ GetRunnersOnBase(g, team, ctx) = on(g, 2) \o on(g, 1) \o on(g, 0)
        /\ GetRunnersOnBase(h, team, ctx) = on(h, 2) \o on(h, 1) \o on(h, 0)
    BY Zenon DEF GetRunnersOnBase
  <1>2. columns(h) = columns(g)
    OBVIOUS
  <1>3. \A b : OrderIn(h, team, ctx.i, b) = OrderIn(g, team, ctx.i, b)
    BY SameOrder
  <1>4. ASSUME NEW b, b # ctx.b, NEW c, <<team, b, c>> \in DOMAIN g.events
        PROVE  before(h, b, c) <=> before(g, b, c)
    <2>1. h.events[<<team, b, c>>] = g.events[<<team, b, c>>]
      BY <1>4
    <2>2. QED
      BY <1>3, <2>1
  <1> DEFINE C == columns(g)
  <1> HIDE DEF columns, before
  <1>5. ASSUME NEW b, b # ctx.b PROVE passed(h, b) = passed(g, b)
    <2>1. \A j \in DOMAIN C : <<team, b, C[j]>> \in DOMAIN h.events
                                <=> <<team, b, C[j]>> \in DOMAIN g.events
      BY <1>5
    <2>2. \A j \in DOMAIN C : <<team, b, C[j]>> \in DOMAIN g.events =>
                                (before(h, b, C[j]) <=> before(g, b, C[j]))
      BY <1>4, <1>5
    <2>3. passed(g, b) = {j \in DOMAIN C : /\ g.columns[j].inning = ctx.i
                                           /\ <<team, b, C[j]>> \in DOMAIN g.events
                                           /\ before(g, b, C[j])}
      OBVIOUS
    <2>4. passed(h, b) = {j \in DOMAIN C : /\ g.columns[j].inning = ctx.i
                                           /\ <<team, b, C[j]>> \in DOMAIN h.events
                                           /\ before(h, b, C[j])}
      BY <1>2
    <2> HIDE DEF C, passed
    <2>5. QED
      BY <2>1, <2>2, <2>3, <2>4
  <1>6. ASSUME NEW b, b # ctx.b PROVE last(h, b) = last(g, b)
    BY <1>5, <1>6
  <1>7. ASSUME NEW b PROVE runner(h, b) = runner(g, b)
    <2>1. CASE b = ctx.b
      BY <2>1
    <2>2. CASE b # ctx.b
      <3> DEFINE m == last(g, b)
                 key == <<team, b, C[m]>>
      <3>1. m \in passed(g, b) => key \in DOMAIN g.events
        OBVIOUS
      <3>2. m \in passed(g, b) => h.events[key] = g.events[key]
        BY <2>2, <3>1
      <3>3. passed(h, b) = passed(g, b) /\ last(h, b) = m
        BY <1>5, <1>6, <2>2
      <3> HIDE DEF passed, last
      <3>4. QED
        BY <1>2, <3>2, <3>3
    <2>3. QED
      BY <2>1, <2>2
  <1> HIDE DEF runner
  <1>8. batters(h) = batters(g)
    BY <1>7
  <1>9. QED
    BY <1>1, <1>8
-----------------------------------------------------------------------------
(* The runners the overlay asks for.                                       *)

Listing(u) == u.view \in {"advance", "action"}
\* Handlers whose continuation leaves the list.
Closing == {"play", "advance", "runners"}
\* Another device's action is in the log.
Theirs(acts) == \E a \in Remote, entry \in Range(acts) : entry = Over(a, [id |-> entry.id])
HaveBases(list) == \A i \in DOMAIN list : {"key", "base"} \subseteq DOMAIN list[i]
OnBase(list) == {<<r.key, r.base>> : r \in Range(list)}

\* The list is right, unless another device may have moved the runners or a
\* continuation is about to leave it.
Lists ==
    Listing(ui) =>
      /\ HaveBases(ui.runners)
      /\ Range(rest) \cap Closing = {} /\ ~Theirs(log) =>
           OnBase(ui.runners) = OnBase(RunnersOn(ui))

LEMMA SameBases ==
    ASSUME NEW s, NEW t, DOMAIN t = DOMAIN s,
           \A i \in DOMAIN s : t[i].key = s[i].key /\ t[i].base = s[i].base
    PROVE  OnBase(t) = OnBase(s)
  <1>1. /\ OnBase(t) = {<<t[i].key, t[i].base>> : i \in DOMAIN s}
        /\ OnBase(s) = {<<s[i].key, s[i].base>> : i \in DOMAIN s}
    BY DEF OnBase, Range
  <1>2. QED
    BY <1>1

\* Lists made of the runners on base.
LEMMA AdvancesBases ==
    ASSUME NEW runners, NEW bip, NEW outs
    PROVE  LET list == DefaultAdvances(runners, bip, outs)
           IN HaveBases(list) /\ OnBase(list) = OnBase(runners)
  <1> DEFINE list == DefaultAdvances(runners, bip, outs)
  <1>1. PICK way : list = [i \in DOMAIN runners |-> [key |-> runners[i].key,
                                                     base |-> runners[i].base, outcome |-> way[i]]]
    <2> DEFINE way == [i \in DOMAIN runners |-> list[i].outcome]
    <2>1. \A i \in DOMAIN runners : \E w : list[i] = [key |-> runners[i].key,
                                                  base |-> runners[i].base, outcome |-> w]
      BY Zenon DEF DefaultAdvances
    <2>2. list = [i \in DOMAIN runners |-> list[i]]
      BY Zenon DEF DefaultAdvances
    <2> HIDE DEF list
    <2>3. \A i \in DOMAIN runners : list[i] = [key |-> runners[i].key, base |-> runners[i].base,
                                               outcome |-> way[i]]
      <3>1. \A i \in DOMAIN runners : way[i] = list[i].outcome
        OBVIOUS
      <3> HIDE DEF way
      <3> TAKE i \in DOMAIN runners
      <3>2. PICK w : list[i] = [key |-> runners[i].key, base |-> runners[i].base, outcome |-> w]
        BY <2>1
      <3>3. list[i].outcome = w
        BY <3>2
      <3>4. QED
        BY <3>1, <3>2, <3>3
    <2> HIDE DEF way
    <2>4. list = [i \in DOMAIN runners |-> [key |-> runners[i].key, base |-> runners[i].base,
                                            outcome |-> way[i]]]
      BY <2>2, <2>3
    <2>5. QED
      BY <2>4
  <1> HIDE DEF list
  <1>2. HaveBases(list)
    BY <1>1 DEF HaveBases
  <1>3. OnBase(list) = OnBase(runners)
    BY <1>1, SameBases
  <1>4. QED
    BY <1>2, <1>3 DEF list

LEMMA ListedBases ==
    ASSUME NEW runners, NEW outcome
    PROVE  LET list == Listed(runners, outcome)
           IN HaveBases(list) /\ OnBase(list) = OnBase(runners)
  <1> DEFINE list == Listed(runners, outcome)
  <1>1. list = [i \in DOMAIN runners |-> [key |-> runners[i].key, base |-> runners[i].base,
                                          outcome |-> outcome]]
    BY Zenon DEF Listed
  <1> HIDE DEF list
  <1>2. HaveBases(list)
    BY <1>1 DEF HaveBases
  <1>3. OnBase(list) = OnBase(runners)
    BY <1>1, SameBases
  <1>4. QED
    BY <1>2, <1>3 DEF list

\* The overlay stays at its cell and asks for no other runners.
Still(u, v) ==
    /\ v.team = u.team /\ v.ctx = u.ctx
    /\ Listing(v) => Listing(u) /\ v.runners = u.runners

LEMMA StillField ==
    ASSUME NEW u, IsUi(u), NEW x \in {"bip", "mode", "pend", "editing", "menu"}, NEW e
    PROVE  Still(u, [u EXCEPT ![x] = e])
  <1> DEFINE w == [u EXCEPT ![x] = e]
  <1>1. DOMAIN w = UiFields /\ \A y \in UiFields : y # x => w[y] = u[y]
    BY DEF IsUi
  <1>2. {"team", "ctx", "view", "runners"} \subseteq UiFields \ {x}
    BY DEF UiFields
  <1> HIDE DEF w
  <1>3. w.team = u.team /\ w.ctx = u.ctx /\ w.view = u.view /\ w.runners = u.runners
    BY <1>1, <1>2
  <1>4. Still(u, w)
    BY <1>3 DEF Still, Listing
  <1>5. QED
    BY <1>4 DEF w
-----------------------------------------------------------------------------
(* What a handler may leave of the list: it is not shown,                  *)

LEMMA HiddenLists == ASSUME ui'.view \notin {"advance", "action"} PROVE Lists'
  BY DEF Lists, Listing

\* it is about to be left,
LEMMA ClosingLists ==
    ASSUME Lists, Still(ui, ui'), NEW queue, IsList(queue), NEW k \in Closing,
           rest' = Append(queue, k)
    PROVE  Lists'
  <1>1. Range(rest') \cap Closing # {}
    BY QueueGrows
  <1>2. QED
    BY <1>1 DEF Lists, Still

\* it is made anew,
LEMMA FreshLists ==
    ASSUME Quiet, ui'.team = ui.team, ui'.ctx = ui.ctx,
           HaveBases(ui'.runners), OnBase(ui'.runners) = OnBase(RunnersOn(ui))
    PROVE  Lists'
  <1>1. game' = game
    BY DEF Quiet
  <1>2. RunnersOn(ui)' = RunnersOn(ui)
    BY <1>1 DEF RunnersOn
  <1>3. QED
    BY <1>2 DEF Lists

\* or it is kept, over changes that are not about the runners.
LEMMA KeptLists ==
    ASSUME Lists, Still(ui, ui'), Range(rest) \cap Closing \subseteq Range(rest') \cap Closing,
           Theirs(log) => Theirs(log'),
           GetRunnersOnBase(game', ui.team, ui.ctx) = GetRunnersOnBase(game, ui.team, ui.ctx)
    PROVE  Lists'
  <1>1. RunnersOn(ui)' = RunnersOn(ui)
    BY DEF RunnersOn, Still
  <1>2. QED
    BY <1>1 DEF Lists, Still

LEMMA QuietLists ==
    ASSUME Lists, Quiet, Still(ui, ui'),
           Range(rest) \cap Closing \subseteq Range(rest') \cap Closing
    PROVE  Lists'
  <1>1. game' = game /\ log' = log
    BY DEF Quiet
  <1>2. QED
    BY <1>1, KeptLists

\* An entry more is another device's no less.
LEMMA TheirsStay ==
    ASSUME IsList(log), NEW a, NEW was, NEW left, DispatchOn(was, a, left)
    PROVE  Theirs(log) => Theirs(log')
  <1>1. \E b : log' = Append(log, b)
    BY DEF DispatchOn
  <1>2. Range(log) \subseteq Range(log')
    BY <1>1, QueueGrows
  <1>3. QED
    BY <1>2 DEF Theirs
-----------------------------------------------------------------------------
(* The handlers and the list.                                              *)

LEMMA ShownView ==
    ASSUME NEW u, DOMAIN u = UiFields, NEW view
    PROVE  /\ DOMAIN Shown(u, view) = UiFields /\ Shown(u, view).view \in {"grid", view}
           /\ Shown(u, view).team = u.team /\ Shown(u, view).ctx = u.ctx
  BY DEF Shown, UiFields

LEMMA BallInPlayView ==
    ASSUME NEW u, DOMAIN u = UiFields, NEW d PROVE ShowBallInPlay(u, d).view \in {"grid", "bip"}
  <1> DEFINE bip == IF d.bip = <<>> THEN NewBip ELSE d.bip
             v == [bip EXCEPT !.type = IF u.mode = "dropped" THEN "D3" ELSE @]
             w == Shown(u, "bip")
  <1>1. ShowBallInPlay(u, d) = [w EXCEPT !.bip = v]
    BY Zenon DEF ShowBallInPlay
  <1>2. w.view \in {"grid", "bip"} /\ DOMAIN w = UiFields
    BY ShownView
  <1> HIDE DEF v, w
  <1>3. QED
    BY <1>1, <1>2 DEF UiFields

LEMMA AdvanceLists ==
    ASSUME NEW u, DOMAIN u = UiFields, u.team = ui.team, u.ctx = ui.ctx, Quiet, NEW bip,
           NEW mode, ui' \in {ShowRunnerAdvance(u, bip), [ShowRunnerAdvance(u, bip) EXCEPT !.mode = mode]}
    PROVE  Lists'
  <1> DEFINE on == RunnersOn(u)
             list == DefaultAdvances(on, bip, InningOuts(game, u.team, u.ctx.i))
             v == Shown(u, "advance")
             w == [v EXCEPT !.runners = list]
  <1>1. ShowRunnerAdvance(u, bip) = w
    BY Zenon DEF ShowRunnerAdvance
  <1>2. DOMAIN v = UiFields /\ v.team = u.team /\ v.ctx = u.ctx
    BY ShownView
  <1>3. HaveBases(list) /\ OnBase(list) = OnBase(on)
    BY AdvancesBases
  <1>4. on = RunnersOn(ui)
    BY DEF RunnersOn
  <1> HIDE DEF v, list, on
  <1>5. ui'.team = u.team /\ ui'.ctx = u.ctx /\ ui'.runners = list
    BY <1>1, <1>2 DEF UiFields
  <1>6. QED
    BY <1>3, <1>4, <1>5, FreshLists

LEMMA FinalizeLists ==
    ASSUME Lists, NEW u, Still(ui, u), NEW list, NEW queue, IsList(queue),
           FinalizePlay(u, list, queue)
    PROVE  Lists'
  <1>1. rest' = Append(queue, "play") /\ ui' = u /\ "play" \in Closing
    BY DEF FinalizePlay, Closing
  <1>2. QED
    BY <1>1, ClosingLists

LEMMA PlayLists ==
    ASSUME Lists, NEW u, DOMAIN u = UiFields, Still(ui, u), NEW mode, NEW queue, IsList(queue),
           PlayOrAdvance(u, mode, queue)
    PROVE  Lists'
  <1>1. CASE RunnersOn(u) # <<>>
    <2>1. Quiet /\ ui' = [ShowRunnerAdvance(u, u.pend) EXCEPT !.mode = mode]
      BY <1>1 DEF PlayOrAdvance
    <2>2. QED
      BY <2>1, AdvanceLists DEF Still
  <1>2. CASE RunnersOn(u) = <<>>
    <2>1. FinalizePlay(u, <<>>, queue)
      BY <1>2 DEF PlayOrAdvance
    <2>2. QED
      BY <2>1, FinalizeLists
  <1>3. QED
    BY <1>1, <1>2

\* Handlers of the pitch area and of the ball in play.
LEMMA PendingStill ==
    ASSUME IsUi(ui), NEW res, NEW base, NEW type
    PROVE  LET u == WithPending(ui, res, base, type) IN DOMAIN u = UiFields /\ Still(ui, u)
  BY StillField DEF WithPending, IsUi

LEMMA TapsList ==
    ASSUME IsUi(ui), IsList(rest), Lists,
           \/ \E code : RecordOut(code) \/ RecordAutoAdvance(code)
           \/ CommitBiP
    PROVE  Lists'
  <1>1. ASSUME NEW code, RecordOut(code) PROVE Lists'
    <2> DEFINE none == ""
               u == WithPending(ui, "Out", none, code)
    <2>1. IF code = "BOO" THEN FinalizePlay(u, <<>>, rest) ELSE PlayOrAdvance(u, "normal", rest)
      BY <1>1, Zenon DEF RecordOut
    <2> HIDE DEF none
    <2>2. DOMAIN u = UiFields /\ Still(ui, u)
      BY PendingStill
    <2> HIDE DEF u
    <2>3. QED
      BY <2>1, <2>2, FinalizeLists, PlayLists
  <1>2. ASSUME NEW code, RecordAutoAdvance(code) PROVE Lists'
    <2> DEFINE u == WithPending(ui, "Safe", "1B", code)
    <2>1. PlayOrAdvance(u, ui.mode, rest)
      BY <1>2 DEF RecordAutoAdvance
    <2>2. DOMAIN u = UiFields /\ Still(ui, u)
      BY PendingStill
    <2> HIDE DEF u
    <2>3. QED
      BY <2>1, <2>2, PlayLists
  <1>3. CASE CommitBiP
    <2>1. CASE ui.mode = "dropped"
      BY <1>3, <2>1, HiddenLists DEF CommitBiP
    <2>2. CASE ui.mode # "dropped"
      <3> DEFINE u == [ui EXCEPT !.pend = ui.bip]
      <3>1. PlayOrAdvance(u, "normal", rest)
        BY <1>3, <2>2 DEF CommitBiP
      <3>2. DOMAIN u = UiFields /\ Still(ui, u)
        BY StillField DEF IsUi
      <3> HIDE DEF u
      <3>3. QED
        BY <3>1, <3>2, PlayLists
    <2>3. QED
      BY <2>1, <2>2
  <1>4. QED
    BY <1>1, <1>2, <1>3

LEMMA ViewsHideLists ==
    ASSUME IsUi(ui),
           \/ CloseCSO \/ ToggleAction \/ SelectDropped \/ ShowBip \/ HideBip
           \/ AddToSequence \/ BackspaceSequence \/ \E key : CycleBiP(key)
           \/ CloseRunnerAdvance \/ CloseRunnerAction
    PROVE  Lists'
  <1> DEFINE l == Left(ui)
             none == <<>>
             dropped == [ui EXCEPT !.mode = "dropped"]
  <1>0. DOMAIN ui = UiFields /\ DOMAIN l = UiFields /\ DOMAIN dropped = UiFields
    BY LeftAt DEF IsUi
  <1>1. CASE CloseCSO
    BY <1>1, ClosedNear, HiddenLists DEF CloseCSO
  <1>2. CASE SelectDropped \/ ShowBip
    BY <1>0, <1>2, BallInPlayView, HiddenLists DEF SelectDropped, ShowBip
  <1> HIDE DEF l
  <1>3. CASE HideBip \/ CloseRunnerAdvance \/ CloseRunnerAction
    <2>1. ui' = [l EXCEPT !.view = "main"] \/ ui' = [l EXCEPT !.view = "main", !.mode = "normal"]
      BY <1>3 DEF HideBip, CloseRunnerAdvance, CloseRunnerAction, l
    <2>2. ui'.view = "main"
      BY <1>0, <2>1 DEF UiFields
    <2>3. QED
      BY <2>2, HiddenLists
  <1>4. CASE ToggleAction \/ AddToSequence \/ BackspaceSequence \/ \E key : CycleBiP(key)
    <2>1. ui.view \in {"main", "bip"}
          /\ \E v : ui' = [ui EXCEPT !.editing = v] \/ ui' = [ui EXCEPT !.bip = v]
      BY <1>4 DEF ToggleAction, AddToSequence, BackspaceSequence, CycleBiP
    <2>2. ui'.view = ui.view
      BY <1>0, <2>1 DEF UiFields
    <2>3. QED
      BY <2>1, <2>2, HiddenLists
  <1>5. QED
    BY <1>1, <1>2, <1>3, <1>4

\* Handlers of the main view, which they do not leave.
LEMMA MainHidesLists ==
    ASSUME IsUi(ui),
           \/ \E type, code : RecordPitch(type, code)
           \/ RecordBalk \/ CycleOutNum \/ ClearAllData \/ UndoPitch \/ CloseRunnerMenu
           \/ \E x : HandleBaseClick(x) \/ ApplyRunnerAction(x) \/ EditRBI(x)
    PROVE  Lists'
  <1>1. ui.view = "main" /\ (ui' = ui \/ \E m : ui' = [ui EXCEPT !.menu = m])
    BY Zenon DEF RecordPitch, RecordBalk, PitchArea, CycleOutNum, ClearAllData, UndoPitch,
         CloseRunnerMenu, HandleBaseClick, ApplyRunnerAction, EditRBI
  <1>2. ui'.view = "main"
    BY <1>1 DEF IsUi, UiFields
  <1>3. QED
    BY <1>2, HiddenLists

\* The lists of runners.
LEMMA OpenRunnersLists == ASSUME IsUi(ui), OpenRunnerAction PROVE Lists'
  <1> DEFINE list == Listed(RunnersOn(ui), "Stay")
  <1>1. Quiet /\ ui' = [ui EXCEPT !.view = "action", !.runners = list]
    BY DEF OpenRunnerAction
  <1>2. HaveBases(list) /\ OnBase(list) = OnBase(RunnersOn(ui))
    BY ListedBases
  <1> HIDE DEF list
  <1>3. ui'.team = ui.team /\ ui'.ctx = ui.ctx /\ ui'.runners = list
    BY <1>1 DEF IsUi, UiFields
  <1>4. QED
    BY <1>1, <1>2, <1>3, FreshLists

LEMMA OutcomeLists ==
    ASSUME IsUi(ui), Lists, NEW i, NEW way, SetRunnerOutcome(i, way) PROVE Lists'
  <1> DEFINE s == ui.runners
             r == [s[i] EXCEPT !.outcome = way]
             list == [s EXCEPT ![i] = r]
  <1>1. /\ Quiet /\ ui' = [ui EXCEPT !.runners = list] /\ rest' = rest
        /\ i \in DOMAIN s /\ Listing(ui)
    BY DEF SetRunnerOutcome, Listing
  <1>2. HaveBases(s)
    BY <1>1 DEF Lists
  <1>3. {"key", "base"} \subseteq DOMAIN r /\ r.key = s[i].key /\ r.base = s[i].base
    BY <1>1, <1>2 DEF HaveBases
  <1> HIDE DEF r
  <1>4. DOMAIN list = DOMAIN s /\ \A j \in DOMAIN s : list[j] = IF j = i THEN r ELSE s[j]
    OBVIOUS
  <1> HIDE DEF list
  <1>5. ui'.team = ui.team /\ ui'.ctx = ui.ctx /\ ui'.view = ui.view /\ ui'.runners = list
    BY <1>1 DEF IsUi, UiFields
  <1>6. HaveBases(list)
    BY <1>2, <1>3, <1>4 DEF HaveBases
  <1>7. OnBase(list) = OnBase(s)
    <2> HIDE DEF s
    <2>1. QED
      BY <1>3, <1>4, SameBases
  <1>8. game' = game /\ log' = log /\ RunnersOn(ui)' = RunnersOn(ui)
    BY <1>1, <1>5 DEF Quiet, RunnersOn
  <1>9. QED
    BY <1>1, <1>5, <1>6, <1>7, <1>8 DEF Lists, Listing

LEMMA ListsLeave ==
    ASSUME IsUi(ui), IsList(rest), Lists, FinishTurn \/ SaveRunnerActions PROVE Lists'
  <1>0. Still(ui, ui)
    BY DEF Still
  <1>1. \/ FinalizePlay(ui, ui.runners, rest)
        \/ ui' = ui /\ (Await("advance") \/ Await("runners"))
    BY Zenon DEF FinishTurn, SaveRunnerActions
  <1>2. CASE FinalizePlay(ui, ui.runners, rest)
    BY <1>0, <1>2, FinalizeLists
  <1>3. CASE ui' = ui /\ (Await("advance") \/ Await("runners"))
    <2>1. \E k \in Closing : rest' = Append(rest, k)
      BY <1>3 DEF Await, Closing
    <2>2. QED
      BY <1>0, <1>3, <2>1, ClosingLists
  <1>4. QED
    BY <1>1, <1>2, <1>3

\* Corrections while the list is shown: the pitcher, a player, a substitute.
LEMMA SameGame ==
    ASSUME NEW g, NEW h, NEW ctx, NEW team,
           h.columns = g.columns, h.events = g.events, Len(h.roster[team]) = Len(g.roster[team])
    PROVE  GetRunnersOnBase(h, team, ctx) = GetRunnersOnBase(g, team, ctx)
  BY SameRunners

LEMMA PitcherLists == ASSUME Ready, Lists, NEW player, ChangePitcher(player) PROVE Lists'
  <1> DEFINE team == Other(ui.team)
             a == [type |-> "PITCHER_UPDATE", team |-> team, pitcher |-> player]
             b == Numbered(a)
             pitchers == [game.pitchers EXCEPT ![b.team] = b.pitcher]
             h == [game EXCEPT !.pitchers = pitchers]
  <1>1. ui' = ui /\ rest' = rest /\ DispatchOn(game, a, loose)
    BY DEF ChangePitcher, Dispatch
  <1> HIDE DEF team
  <1>2. "type" \in DOMAIN a /\ "id" \notin DOMAIN a /\ a.type \in SimpleTypes
        /\ a.type = "PITCHER_UPDATE"
    BY DEF SimpleTypes, ActionTypes
  <1> HIDE DEF a
  <1>3. b.type = "PITCHER_UPDATE" /\ game' = GameReducer(game, b)
    BY <1>1, <1>2, SimpleHeld, NumberedIs, DispatchGame
  <1> HIDE DEF b
  <1>4. game' = h
    BY <1>3 DEF GameReducer, ApplyPitcherUpdate
  <1> HIDE DEF pitchers
  <1>5. h.columns = game.columns /\ h.events = game.events /\ h.roster = game.roster
    BY DEF Ready, Marked
  <1> HIDE DEF h
  <1>6. GetRunnersOnBase(game', ui.team, ui.ctx) = GetRunnersOnBase(game, ui.team, ui.ctx)
    BY <1>4, <1>5, SameGame
  <1>7. Theirs(log) => Theirs(log')
    BY <1>1, TheirsStay DEF Ready, IsLog
  <1>8. QED
    BY <1>1, <1>6, <1>7, KeptLists DEF Still

LEMMA LineupKeeps ==
    ASSUME NEW roster, NEW team \in DOMAIN roster, IsList(roster[team]), NEW t, NEW i, NEW v
    PROVE  Len([roster EXCEPT ![t] = [@ EXCEPT ![i] = v]][team]) = Len(roster[team])
  <1> DEFINE s == roster[team]
             w == [s EXCEPT ![i] = v]
             r == [roster EXCEPT ![t] = [@ EXCEPT ![i] = v]]
  <1>1. DOMAIN s = 1..Len(s) /\ Len(s) \in Nat
    BY DEF IsList
  <1>2. Len(w) = Len(s)
    <2>1. w = [j \in 1..Len(s) |-> w[j]]
      BY <1>1
    <2> HIDE DEF w
    <2>2. QED
      BY <1>1, <2>1
  <1>3. r[team] = s \/ r[team] = w
    OBVIOUS
  <1> HIDE DEF r, w, s
  <1>4. Len(r[team]) = Len(s)
    BY <1>2, <1>3
  <1>5. QED
    BY <1>4 DEF r, s

LEMMA CorrectLists == ASSUME Ready, Lists, NEW player, CorrectPlayer(player) PROVE Lists'
  <1> DEFINE i == ui.ctx.b + 1
             team == ui.team
             slot == [game.roster[team][i] EXCEPT !.current = player]
             roster == [game.roster EXCEPT ![team] = [@ EXCEPT ![i] = slot]]
             h == [game EXCEPT !.roster = roster]
  <1>1. ui' = ui /\ rest' = rest /\ log' = log /\ game' = h
    BY Zenon DEF CorrectPlayer
  <1>2. IsList(game.roster[team]) /\ team \in DOMAIN game.roster
    BY DEF Ready, Marked, AreLineups, IsUi
  <1> HIDE DEF slot, i
  <1>3. Len(roster[team]) = Len(game.roster[team])
    BY <1>2, LineupKeeps
  <1> HIDE DEF roster
  <1>4. h.columns = game.columns /\ h.events = game.events /\ h.roster = roster
    BY DEF Ready, Marked
  <1> HIDE DEF h
  <1>5. GetRunnersOnBase(game', ui.team, ui.ctx) = GetRunnersOnBase(game, ui.team, ui.ctx)
    BY <1>1, <1>3, <1>4, SameGame
  <1>6. QED
    BY <1>1, <1>5, KeptLists DEF Still

\* A substitution marks the event of its own batter.
LEMMA SubstitutionRunners ==
    ASSUME NEW S, NEW g, Marked(g, S), NEW team \in Team, NEW ctx, NEW a,
           a.team = team, a.index = ctx.b
    PROVE  GetRunnersOnBase(ApplySubstitution(g, a), team, ctx) = GetRunnersOnBase(g, team, ctx)
  <1> DEFINE slot == g.roster[a.team][a.index + 1]
             new == [slot EXCEPT !.history = Append(@, slot.current), !.current = a.player]
             roster == [g.roster EXCEPT ![a.team] = [@ EXCEPT ![a.index + 1] = new]]
             h == [g EXCEPT !.roster = roster]
             key == <<a.team, a.index, a.ctx.col>>
             was == EventAt(g, key, a.player)
             p == [type |-> "substitution", code |-> "SUB", pitcher |-> NoPlayer, refId |-> a.id]
             event == [was EXCEPT !.pId = a.player, !.pitches = Append(@, p)]
  <1>1. ApplySubstitution(g, a) = IF a.ctx = <<>> THEN h ELSE PutEvent(h, key, event)
    BY Zenon DEF ApplySubstitution
  <1> HIDE DEF event, new
  <1>2. IsList(g.roster[team]) /\ team \in DOMAIN g.roster
    BY DEF Marked, AreLineups
  <1>3. Len(roster[team]) = Len(g.roster[team])
    BY <1>2, LineupKeeps
  <1> HIDE DEF roster
  <1>4. h.columns = g.columns /\ h.events = g.events /\ h.roster = roster
        /\ {"events", "columns", "roster"} \subseteq DOMAIN h
    BY DEF Marked
  <1> HIDE DEF h
  <1>5. CASE a.ctx = <<>>
    BY <1>1, <1>3, <1>4, <1>5, SameGame
  <1>6. CASE a.ctx # <<>>
    <2> DEFINE q == PutEvent(h, key, event)
    <2>0. \A b, c : b # ctx.b => <<team, b, c>> # key
      OBVIOUS
    <2> HIDE DEF key
    <2>1. /\ q.columns = g.columns /\ q.roster = roster
          /\ q.events = [k \in DOMAIN g.events \cup {key} |-> IF k = key THEN event ELSE g.events[k]]
      BY <1>4, PutEventIs
    <2> HIDE DEF q
    <2>2. \A b, c : b # ctx.b =>
            /\ <<team, b, c>> \in DOMAIN q.events <=> <<team, b, c>> \in DOMAIN g.events
            /\ <<team, b, c>> \in DOMAIN g.events =>
                 q.events[<<team, b, c>>] = g.events[<<team, b, c>>]
      <3> TAKE b, c
      <3> DEFINE k == <<team, b, c>>
      <3>1. b # ctx.b => k # key
        BY <2>0
      <3> HIDE DEF k
      <3>2. b # ctx.b =>
              /\ k \in DOMAIN q.events <=> k \in DOMAIN g.events
              /\ k \in DOMAIN g.events => q.events[k] = g.events[k]
        BY <2>1, <3>1
      <3>3. QED
        BY <3>2 DEF k
    <2>3. GetRunnersOnBase(q, team, ctx) = GetRunnersOnBase(g, team, ctx)
      <3>1. q.columns = g.columns /\ Len(q.roster[team]) = Len(g.roster[team])
        BY <1>3, <2>1
      <3>2. QED
        BY <2>2, <3>1, SameRunners
    <2>4. QED
      BY <1>1, <1>6, <2>3 DEF q
  <1>7. QED
    BY <1>5, <1>6

LEMMA SubstituteLists ==
    ASSUME Ready, Lists, IsList(rest), NEW team, NEW index, NEW player, Substitute(team, index, player)
    PROVE  Lists'
  <1> DEFINE live == ui.ctx # <<>> /\ ui.team = team /\ ui.ctx.b = index
             ctx == IF live THEN ui.ctx ELSE <<>>
             a == [type |-> "SUBSTITUTION", team |-> team, index |-> index,
                   player |-> player, ctx |-> ctx]
             b == Numbered(a)
  <1>1. /\ ui' = ui /\ (InCell => live) /\ DispatchOn(game, a, loose)
        /\ rest' = rest \/ Await("sync")
    BY DEF Substitute, Dispatch
  <1>2. CASE ~live
    BY <1>1, <1>2, HiddenLists DEF InCell
  <1>3. CASE live
    <2>0. ui.team = team /\ ui.ctx.b = index
      BY <1>3
    <2> HIDE DEF ctx, live
    <2>1. /\ "type" \in DOMAIN a /\ "id" \notin DOMAIN a /\ a.type \in SimpleTypes
          /\ {"team", "index"} \subseteq DOMAIN a
          /\ a.type = "SUBSTITUTION" /\ a.team = team /\ a.index = index
      BY DEF SimpleTypes, ActionTypes
    <2> HIDE DEF a
    <2>2. /\ b.type = "SUBSTITUTION" /\ b.team = team /\ b.index = index
          /\ game' = GameReducer(game, b)
      BY <1>1, <2>1, SimpleHeld, NumberedIs, DispatchGame
    <2> HIDE DEF b
    <2>3. game' = ApplySubstitution(game, b)
      BY <2>2 DEF GameReducer
    <2>4. GetRunnersOnBase(game', ui.team, ui.ctx) = GetRunnersOnBase(game, ui.team, ui.ctx)
      BY <2>0, <2>2, <2>3, SubstitutionRunners DEF Ready, IsUi
    <2>5. Theirs(log) => Theirs(log')
      BY <1>1, TheirsStay DEF Ready, IsLog
    <2>6. Range(rest) \cap Closing \subseteq Range(rest') \cap Closing
      BY <1>1, QueueGrows DEF Await
    <2>7. QED
      BY <1>1, <2>4, <2>5, <2>6, KeptLists DEF Still
  <1>4. QED
    BY <1>2, <1>3

\* The sheet, other devices, and a reload.
LEMMA SheetTapLists == ASSUME IsUi(ui), OnTheSheet PROVE Lists'
  <1>0. DOMAIN ui = UiFields
    BY DEF IsUi
  <1>1. \/ \E b, c : OpenCSO(b, c)
        \/ SwitchTeam
        \/ \E a : OnSheet(a)
    BY Zenon DEF OnTheSheet, ToggleLead, MovePlay, AddColumn, EditScore, RemoveColumn, AddInning,
         EndGame, Undo, Redo
  <1>2. ASSUME NEW b, NEW c, OpenCSO(b, c) PROVE Lists'
    <2> DEFINE none == <<>>
               ctx == Ctx(b, ColumnId(c))
               u == [ui EXCEPT !.ctx = ctx]
               v == [u EXCEPT !.view = "main"]
               w == [v EXCEPT !.menu = none]
    <2>1. ui' = [w EXCEPT !.mode = "normal"]
      BY <1>2, Zenon DEF OpenCSO
    <2> HIDE DEF none, ctx
    <2>2. ui'.view = "main"
      BY <1>0, <2>1 DEF UiFields
    <2>3. QED
      BY <2>2, HiddenLists
  <1>3. CASE SwitchTeam
    <2> DEFINE team == Other(ui.team)
    <2>1. ui' = [ui EXCEPT !.team = team] /\ ui.view = "grid"
      BY <1>3 DEF SwitchTeam, InCell
    <2> HIDE DEF team
    <2>2. ui'.view = "grid"
      BY <1>0, <2>1 DEF UiFields
    <2>3. QED
      BY <2>2, HiddenLists
  <1>4. CASE \E a : OnSheet(a)
    BY <1>4, HiddenLists DEF OnSheet, InCell
  <1>5. QED
    BY <1>1, <1>2, <1>3, <1>4

LEMMA ReceiveLists == ASSUME Ready, Lists, IsList(rest), NEW a \in Remote, Receive(a) PROVE Lists'
  <1> DEFINE b == Over(a, [id |-> Len(log) + 1])
  <1>1. ui' = ui /\ rest' = Append(rest, "remote") /\ log' = Append(log, b)
    BY DEF Receive, Await, Dispatch, DispatchOn
  <1>2. "id" \notin DOMAIN a
    BY ScorerConstants
  <1>3. b = Over(a, [id |-> b.id])
    <2> DEFINE n == Len(log) + 1
               e == [id |-> n]
    <2>1. "id" \in DOMAIN e /\ e.id = n
      OBVIOUS
    <2> HIDE DEF e
    <2>2. Over(a, e).id = n
      <3>1. "id" \in DOMAIN e \ DOMAIN a
        BY <1>2, <2>1
      <3>2. Over(a, e).id = e.id
        <4>1. \A x \in DOMAIN e \ DOMAIN a : Over(a, e)[x] = e[x]
          BY OverIs
        <4>2. QED
          BY <3>1, <4>1
      <3>3. QED
        BY <2>1, <3>2
    <2>3. QED
      BY <2>2 DEF e
  <1> HIDE DEF b
  <1>4. b \in Range(log')
    BY <1>1, QueueGrows DEF Ready, IsLog
  <1>5. Theirs(log')
    BY <1>3, <1>4 DEF Theirs
  <1>6. QED
    BY <1>1, <1>5 DEF Lists, Listing

LEMMA ReloadLists == ASSUME Reload PROVE Lists'
  <1> DEFINE none == <<>>
  <1>1. ui' = [team |-> "away", ctx |-> none, view |-> "grid", menu |-> none,
               bip |-> none, mode |-> "normal", pend |-> none, runners |-> none,
               editing |-> FALSE]
    BY DEF Reload
  <1> HIDE DEF none
  <1>2. QED
    BY <1>1, HiddenLists
-----------------------------------------------------------------------------
(* The continuations and the list.                                         *)

LEMMA AfterPitchLists ==
    ASSUME IsUi(ui), Lists, AfterPitch, Range(rest) \cap Closing \subseteq Range(rest') \cap Closing
    PROVE  Lists'
  <1> DEFINE none == ""
             d == CellData(game, ui)
             last == IF d.pitches = <<>> THEN none ELSE d.pitches[Len(d.pitches)].code
             strikeOut == d.outcome \in {"K", "Kc"}
             u == [ui EXCEPT !.mode = "dropped"]
  <1>1. /\ ui' = CASE d.outcome = "BB" -> ForcedAdvance(ui)
                   [] strikeOut /\ last = "Dropped" -> ShowBallInPlay(u, d)
                   [] strikeOut /\ last # "Dropped" -> Closed(ui)
                   [] OTHER -> ui
        /\ IF strikeOut /\ last # "Dropped" THEN LeadAfterThirdOut(ui, NextBatter(ui))
           ELSE Quiet
    BY Zenon DEF AfterPitch
  <1>2. strikeOut => d.outcome # "BB"
    OBVIOUS
  <1>3. DOMAIN ui = UiFields /\ DOMAIN u = UiFields
    BY DEF IsUi
  <1>4. Closed(ui).view = "grid" /\ ShowBallInPlay(u, d).view \in {"grid", "bip"}
    <2> HIDE DEF u, d
    <2>1. QED
      BY <1>3, ClosedNear, BallInPlayView
  <1> HIDE DEF u, d, last, none
  <1>5. CASE strikeOut
    <2>1. ui' \in {ShowBallInPlay(u, d), Closed(ui)}
      BY <1>1, <1>2, <1>5
    <2>2. QED
      BY <1>4, <2>1, HiddenLists
  <1>6. CASE ~strikeOut
    <2>1. Quiet /\ ui' \in {ForcedAdvance(ui), ui}
      BY <1>1, <1>6
    <2>2. CASE ui' = ui
      BY <2>1, <2>2, QuietLists DEF Still
    <2>3. CASE ui' = Closed(ui)
      BY <1>4, <2>3, HiddenLists
    <2>4. CASE ui' = ShowRunnerAdvance(ui, [NewBip EXCEPT !.type = "BB"])
      BY <1>3, <2>1, <2>4, AdvanceLists
    <2>5. QED
      BY <2>1, <2>2, <2>3, <2>4 DEF ForcedAdvance
  <1>7. QED
    BY <1>5, <1>6

LEMMA AfterRecordLists ==
    ASSUME IsUi(ui), AfterPlay \/ AfterAdvance \/ AfterRunnerActions PROVE Lists'
  <1> DEFINE none == <<>>
             c == Closed(ui)
             l == Left(ui)
  <1>1. c.view = "grid" /\ DOMAIN c = UiFields /\ DOMAIN l = UiFields
    BY ClosedNear, ClosedIs, LeftAt DEF IsUi
  <1>2. \/ ui' = [c EXCEPT !.pend = none, !.editing = FALSE, !.mode = "normal"]
        \/ ui' = c
        \/ ui' = Shown(l, "main")
    BY DEF AfterPlay, AfterAdvance, AfterRunnerActions
  <1>3. Shown(l, "main").view \in {"grid", "main"}
    BY <1>1, ShownView
  <1> HIDE DEF c, l, none
  <1>4. ui'.view \in {"grid", "main"}
    BY <1>1, <1>2, <1>3 DEF UiFields
  <1>5. QED
    BY <1>4, HiddenLists

LEMMA AfterSyncLists ==
    ASSUME IsUi(ui), Lists, NEW close, NEW menu, AfterSync(close, menu),
           Range(rest) \cap Closing \subseteq Range(rest') \cap Closing
    PROVE  Lists'
  <1> DEFINE v == IF close THEN "grid" ELSE ui.view
             m == IF menu THEN <<>> ELSE ui.menu
  <1>1. ui' = [ui EXCEPT !.view = v, !.menu = m] /\ Quiet
    BY Zenon DEF AfterSync
  <1>2. v \in {"grid", ui.view}
    OBVIOUS
  <1> HIDE DEF v, m
  <1>3. /\ ui'.team = ui.team /\ ui'.ctx = ui.ctx /\ ui'.view = v
        /\ ui'.runners = ui.runners
    BY <1>1 DEF IsUi, UiFields
  <1>4. Still(ui, ui')
    BY <1>2, <1>3 DEF Still, Listing
  <1>5. QED
    BY <1>1, <1>4, QuietLists

LEMMA AfterDroppedLists ==
    ASSUME IsUi(ui), Lists, AfterDropped, IsList(Tail(rest)) PROVE Lists'
  <1> DEFINE u == [ui EXCEPT !.pend = ui.bip]
  <1>1. PlayOrAdvance(u, "normal", Tail(rest))
    BY DEF AfterDropped
  <1>2. DOMAIN u = UiFields /\ Still(ui, u)
    BY StillField DEF IsUi
  <1> HIDE DEF u
  <1>3. QED
    BY <1>1, <1>2, PlayLists

LEMMA ResumeLists == ASSUME IsUi(ui), Lists, IsList(rest), Resume PROVE Lists'
  <1> DEFINE k == Head(rest)
             queue == Tail(rest)
  <1>1. /\ rest # <<>>
        /\ \/ /\ k \in {"pitch", "dropped"} /\ AfterPitch
              /\ rest' = IF k = "dropped" THEN Append(queue, "commit") ELSE queue
           \/ k = "play" /\ AfterPlay /\ rest' = queue
           \/ k = "advance" /\ AfterAdvance /\ rest' = queue
           \/ k = "runners" /\ AfterRunnerActions /\ rest' = queue
           \/ /\ k \in {"sync", "base", "clear"} /\ AfterSync(k = "clear", k = "base")
              /\ rest' = queue
           \/ k = "remote" /\ AfterRemote /\ rest' = queue
           \/ k = "commit" /\ AfterDropped
    BY Zenon DEF Resume
  <1>2. IsList(queue) /\ Range(rest) = Range(queue) \cup {k}
    BY <1>1, QueueShrinks
  <1>3. Range(Append(queue, "commit")) = Range(queue) \cup {"commit"}
    BY <1>2, QueueGrows
  <1> HIDE DEF k, queue
  <1>4. ASSUME k \notin Closing, rest' \in {queue, Append(queue, "commit")}
        PROVE  Range(rest) \cap Closing \subseteq Range(rest') \cap Closing
    BY <1>2, <1>3, <1>4
  <1>5. CASE k \in {"pitch", "dropped"} /\ AfterPitch
              /\ rest' \in {queue, Append(queue, "commit")}
    <2>1. k \notin Closing
      BY <1>5 DEF Closing
    <2>2. QED
      BY <1>4, <1>5, <2>1, AfterPitchLists
  <1>6. CASE AfterPlay \/ AfterAdvance \/ AfterRunnerActions
    BY <1>6, AfterRecordLists
  <1>7. CASE k \in {"sync", "base", "clear"} /\ AfterSync(k = "clear", k = "base") /\ rest' = queue
    <2>1. k \notin Closing
      BY <1>7 DEF Closing
    <2>2. QED
      BY <1>4, <1>7, <2>1, AfterSyncLists
  <1>8. CASE k = "remote" /\ AfterRemote /\ rest' = queue
    <2>1. k \notin Closing /\ Quiet /\ ui' = ui
      BY <1>8 DEF Closing, AfterRemote
    <2>2. QED
      BY <1>4, <1>8, <2>1, QuietLists DEF Still
  <1>9. CASE k = "commit" /\ AfterDropped
    BY <1>2, <1>9, AfterDroppedLists DEF queue
  <1>10. QED
    BY <1>1, <1>5, <1>6, <1>7, <1>8, <1>9

-----------------------------------------------------------------------------
(* The handlers that wait are a list.                                      *)

Queues ==
    \/ rest' = rest \/ \E k : rest' = Append(rest, k)
    \/ rest # <<>> /\ (rest' = Tail(rest) \/ \E k : rest' = Append(Tail(rest), k))

LEMMA PlayQueues ==
    ASSUME NEW u, NEW mode, NEW queue, PlayOrAdvance(u, mode, queue)
    PROVE  rest' = queue \/ \E k : rest' = Append(queue, k)
  BY Zenon DEF PlayOrAdvance, FinalizePlay

LEMMA TapQueues ==
    ASSUME \/ \E code : RecordOut(code) \/ RecordAutoAdvance(code)
           \/ \E type, code : RecordPitch(type, code)
           \/ CommitBiP
    PROVE  Queues
  <1>1. ASSUME NEW code, RecordOut(code) PROVE Queues
    <2>1. \E u : FinalizePlay(u, <<>>, rest) \/ PlayOrAdvance(u, "normal", rest)
      BY <1>1, Zenon DEF RecordOut
    <2>2. QED
      BY <2>1, PlayQueues DEF FinalizePlay, Queues
  <1>2. ASSUME NEW code, RecordAutoAdvance(code) PROVE Queues
    BY <1>2, PlayQueues DEF RecordAutoAdvance, Queues
  <1>3. ASSUME NEW type, NEW code, RecordPitch(type, code) PROVE Queues
    BY <1>3, Zenon DEF RecordPitch, ThrowPitch, Await, Queues
  <1>4. CASE CommitBiP
    <2>1. \/ \E type, code, k : ThrowPitch(type, code, k)
          \/ \E u : PlayOrAdvance(u, "normal", rest)
      BY <1>4, Zenon DEF CommitBiP
    <2>2. QED
      BY <2>1, PlayQueues DEF ThrowPitch, Await, Queues
  <1>5. QED
    BY <1>1, <1>2, <1>3, <1>4

LEMMA OverlayQueues == ASSUME InOverlay PROVE Queues
  <1>1. CASE \/ CloseCSO \/ ToggleAction \/ SelectDropped \/ ShowBip \/ HideBip
             \/ AddToSequence \/ BackspaceSequence \/ \E key : CycleBiP(key)
             \/ CloseRunnerAdvance \/ OpenRunnerAction \/ CloseRunnerAction
             \/ \E i, way : SetRunnerOutcome(i, way)
    BY <1>1, Zenon DEF CloseCSO, ToggleAction, SelectDropped, ShowBip, HideBip, AddToSequence,
         BackspaceSequence, CycleBiP, CloseRunnerAdvance, OpenRunnerAction, CloseRunnerAction,
         SetRunnerOutcome, Queues
  <1>2. CASE FinishTurn \/ SaveRunnerActions \/ RecordBalk
    BY <1>2, Zenon DEF FinishTurn, SaveRunnerActions, RecordBalk, FinalizePlay, Await, Queues
  <1>3. CASE \/ CycleOutNum \/ ClearAllData \/ UndoPitch \/ CloseRunnerMenu
             \/ \E x : HandleBaseClick(x) \/ ApplyRunnerAction(x)
    BY <1>3, Zenon DEF CycleOutNum, ClearAllData, UndoPitch, CloseRunnerMenu, HandleBaseClick,
         ApplyRunnerAction, Await, Queues
  <1>4. CASE \E player : ChangePitcher(player) \/ CorrectPlayer(player) \/ EditRBI(player)
    BY <1>4, Zenon DEF ChangePitcher, CorrectPlayer, EditRBI, Queues
  <1>5. CASE \E p \in Pitches : IF p[1] = "out" THEN RecordOut(p[2]) ELSE RecordPitch(p[1], p[2])
    BY <1>5, TapQueues
  <1>6. CASE \E code : RecordAutoAdvance(code)
    BY <1>6, TapQueues
  <1>7. QED
    BY <1>1, <1>2, <1>3, <1>4, <1>5, <1>6, TapQueues, Zenon DEF InOverlay

LEMMA NextQueues == ASSUME Next PROVE Queues
  <1>1. CASE OnTheSheet
    BY <1>1, Zenon DEF OnTheSheet, OpenCSO, SwitchTeam, ToggleLead, MovePlay, AddColumn, EditScore,
         RemoveColumn, AddInning, EndGame, Undo, Redo, OnSheet, Queues
  <1>2. CASE Resume
    <2>1. CASE AfterDropped
      BY <1>2, <2>1, PlayQueues DEF AfterDropped, Resume, Queues
    <2>2. CASE ~AfterDropped
      BY <1>2, <2>2, Zenon DEF Resume, Queues
    <2>3. QED
      BY <2>1, <2>2
  <1>3. CASE Reload
    BY <1>3 DEF Reload, Queues
  <1>4. CASE \E b, player : Substitute(ui.team, b, player)
    BY <1>4, Zenon DEF Substitute, Await, Queues
  <1>5. CASE \E a : Receive(a)
    BY <1>5 DEF Receive, Await, Queues
  <1>6. QED
    BY <1>1, <1>2, <1>3, <1>4, <1>5, OverlayQueues, Zenon DEF Next

LEMMA NextWaits == ASSUME IsList(rest), Next PROVE IsList(rest')
  BY NextQueues, QueueGrows, QueueShrinks DEF Queues

-----------------------------------------------------------------------------
(* Every step and the list.                                                *)

LEMMA OverlayLists == ASSUME Ready, Lists, IsList(rest), InOverlay PROVE Lists'
  <1>0. IsUi(ui)
    BY DEF Ready
  <1>1. CASE \/ CloseCSO \/ ToggleAction \/ SelectDropped \/ ShowBip \/ HideBip
             \/ AddToSequence \/ BackspaceSequence \/ \E key : CycleBiP(key)
             \/ CloseRunnerAdvance \/ CloseRunnerAction
    BY <1>0, <1>1, ViewsHideLists
  <1>2. CASE \E p \in Pitches : IF p[1] = "out" THEN RecordOut(p[2]) ELSE RecordPitch(p[1], p[2])
    BY <1>0, <1>2, TapsList, MainHidesLists
  <1>3. CASE CommitBiP \/ \E code : RecordAutoAdvance(code)
    BY <1>0, <1>3, TapsList
  <1>4. CASE \/ RecordBalk \/ CycleOutNum \/ ClearAllData \/ UndoPitch \/ CloseRunnerMenu
             \/ \E x : HandleBaseClick(x) \/ ApplyRunnerAction(x) \/ EditRBI(x)
    BY <1>0, <1>4, MainHidesLists
  <1>5. CASE OpenRunnerAction \/ \E i, way : SetRunnerOutcome(i, way)
    BY <1>0, <1>5, OpenRunnersLists, OutcomeLists
  <1>6. CASE FinishTurn \/ SaveRunnerActions
    BY <1>0, <1>6, ListsLeave
  <1>7. CASE \E player : ChangePitcher(player) \/ CorrectPlayer(player)
    BY <1>7, PitcherLists, CorrectLists
  <1>8. QED
    BY <1>1, <1>2, <1>3, <1>4, <1>5, <1>6, <1>7, Zenon DEF InOverlay

LEMMA NextLists == ASSUME Ready, Lists, IsList(rest), Next PROVE Lists'
  <1>0. IsUi(ui)
    BY DEF Ready
  <1>1. \/ InOverlay \/ OnTheSheet \/ Resume \/ Reload
        \/ \E b, player : Substitute(ui.team, b, player)
        \/ \E a \in Remote : Receive(a)
    BY Zenon DEF Next
  <1>2. CASE \E b, player : Substitute(ui.team, b, player)
    BY <1>2, SubstituteLists
  <1>3. CASE \E a \in Remote : Receive(a)
    BY <1>3, ReceiveLists
  <1>4. CASE OnTheSheet \/ Resume \/ Reload
    BY <1>0, <1>4, SheetTapLists, ResumeLists, ReloadLists
  <1>5. QED
    BY <1>1, <1>2, <1>3, <1>4, OverlayLists

LEMMA InitLists == ASSUME Init PROVE Lists /\ IsList(rest)
  <1> DEFINE none == <<>>
  <1>1. /\ ui = [team |-> "away", ctx |-> none, view |-> "grid", menu |-> none,
                 bip |-> none, mode |-> "normal", pend |-> none, runners |-> none,
                 editing |-> FALSE]
        /\ rest = none
    BY DEF Init
  <1>2. IsList(none)
    BY EmptyList
  <1> HIDE DEF none
  <1>3. ui.view = "grid"
    BY <1>1
  <1>4. QED
    BY <1>1, <1>2, <1>3 DEF Lists, Listing

\* With no handler waiting and nothing of another device in the log, the
\* overlay asks for the ways of the runners on base.
THEOREM RunnersAreListed == Spec => []RunnersAreOnBase
  <1>1. Init => Lists /\ IsList(rest)
    BY InitLists
  <1>2. Ready /\ Lists /\ IsList(rest) /\ [Next]_vars => Lists' /\ IsList(rest)'
    <2> SUFFICES ASSUME Ready, Lists, IsList(rest), [Next]_vars PROVE Lists' /\ IsList(rest)'
      OBVIOUS
    <2>1. CASE Next
      BY <2>1, NextLists, NextWaits
    <2>2. CASE UNCHANGED vars
      <3>1. ui' = ui /\ rest' = rest /\ log' = log /\ game' = game
        BY <2>2 DEF vars
      <3>2. RunnersOn(ui)' = RunnersOn(ui)
        BY <3>1 DEF RunnersOn
      <3>3. QED
        BY <3>1, <3>2 DEF Lists
    <2>3. QED
      BY <2>1, <2>2
  <1>3. Lists => RunnersAreOnBase
    <2>1. rest = <<>> => Range(rest) = {}
      BY DEF Range
    <2>2. QED
      BY <2>1, Zenon DEF Lists, RunnersAreOnBase, Listing, Theirs, OnBase
  <1>4. QED
    BY <1>1, <1>2, <1>3, ReadyHolds, PTL DEF Spec

================================================================================
