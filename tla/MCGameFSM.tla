------------------------------ MODULE MCGameFSM ------------------------------
(* Instances of the replicated game for TLC. *)
EXTENDS GameHistory

CONSTANTS a1, a2, a3

Act(s) == [type |-> "action", acts |-> s]
Save(s, f) == [type |-> "save", log |-> s, status |-> "open", force |-> f]
Del == [type |-> "delete"]

\* A batch that overlaps a single action, saves that continue the log, that
\* conflict with it and that override it, and a deletion.
MCCommand ==
    {Act(<<a1>>), Act(<<a1, a2>>), Save(<<a1, a3>>, FALSE), Save(<<a2>>, TRUE), Del}

\* Appends only.
MCAppend == {Act(<<a1>>), Act(<<a2>>), Act(<<a3>>)}

\* For the runs with every goroutine.
MCFew == {Act(<<a1>>), Act(<<a2, a3>>), Save(<<a2>>, TRUE), Del}

=============================================================================
