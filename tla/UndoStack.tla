------------------------------- MODULE UndoStack -------------------------------
(***************************************************************************)
(* What undo and redo promise a scorer (docs/STATE-MANAGEMENT.md): what    *)
(* was taken back last comes back first, and a new action ends what could  *)
(* be redone.  An action taken back twice has to come back twice.          *)
(***************************************************************************)
EXTENDS Naturals, Sequences

VARIABLES
  done,    \* the actions in force, by their place in the log
  taken,   \* what is taken back: each time an action was, and the moment
  undone   \* what of it can be redone, the next one last

Init == /\ done \subseteq Nat /\ taken \subseteq (Nat \ done) \X Nat
        /\ undone \in Seq(taken)

Do(a) == /\ \A d \in done : a > d
         /\ done' = done \cup {a} /\ UNCHANGED taken /\ undone' = <<>>

(* Undo takes back the last action in force, undoing a pitch the last one of
   its cell, or the substitution the overlay shows. *)
Undo(a, moment) == /\ a \in done \cup {p[1] : p \in taken}
                   /\ \A p \in taken : moment > p[2]
                   /\ done' = done \ {a} /\ taken' = taken \cup {<<a, moment>>}
                   /\ undone' = Append(undone, <<a, moment>>)

Redo(p) == /\ undone # <<>> /\ p = undone[Len(undone)]
           /\ taken' = taken \ {p}
           /\ done' = IF \E q \in taken' : q[1] = p[1] THEN done ELSE done \cup {p[1]}
           /\ undone' = SubSeq(undone, 1, Len(undone) - 1)

Next == \/ \E a \in done' \ done : Do(a)
        \/ \E p \in taken' \ taken : Undo(p[1], p[2])
        \/ \E p \in taken \ taken' : Redo(p)
Spec == Init /\ [][Next]_<<done, taken, undone>>
================================================================================
