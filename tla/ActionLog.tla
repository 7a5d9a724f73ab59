------------------------------ MODULE ActionLog ------------------------------
(***************************************************************************)
(* The event-sourced game document and the pure operations the backend    *)
(* performs on its action log (backend/validation.go, backend/fsm.go).    *)
(*                                                                         *)
(* An action is identified with its id: two actions with one id are the   *)
(* same action to every function of the backend.  Of the document only    *)
(* what the properties tell apart is kept: the log, the status and the    *)
(* Raft index of the last command applied to it.                           *)
(***************************************************************************)
EXTENDS Integers, Sequences

CONSTANTS
    Action,      \* action ids
    Finalizing,  \* those of type GAME_FINALIZE
    MaxScan,     \* how far back the duplicate scan looks (100 in the code)
    NoGame       \* "os.ErrNotExist": no document

Status == {"open", "final", "deleted"}

Game == [log : Seq(Action), status : Status, lri : Nat]

ASSUME ActionLogAssumption ==
    /\ Finalizing \subseteq Action
    /\ MaxScan \in Nat \ {0}
    /\ NoGame \notin Game

\* &Game{ID: id}, the document a command on an unknown game starts from.
Fresh == [log |-> <<>>, status |-> "open", lri |-> 0]

\* What DeleteGame writes: no log, and no LastRaftIndex either.
Tombstone == [log |-> <<>>, status |-> "deleted", lri |-> 0]

OrFresh(g) == IF g = NoGame THEN Fresh ELSE g

\* Mutant: the scan stops one short.
RecentShort(log) == {log[i] : i \in {j \in 1..Len(log) : j > Len(log) - MaxScan + 1}}

\* The ids the duplicate scan of ApplyAction compares with.
Recent(log) == {log[i] : i \in {j \in 1..Len(log) : j > Len(log) - MaxScan}}

\* ApplyAction: a duplicate leaves the document alone, any other action is
\* appended, whatever the status of the document.
ApplyAction(g, a) ==
    IF a \in Recent(g.log)
    THEN g
    ELSE [g EXCEPT !.log = Append(@, a),
                   !.status = IF a \in Finalizing THEN "final" ELSE @]

\* ApplyActions: the document after each of the actions, one by one.
AfterActions(g, acts) ==
    LET after[j \in 0..Len(acts)] ==
            IF j = 0 THEN g ELSE ApplyAction(after[j - 1], acts[j])
    IN  after

\* checkGameConflict passes: the incoming log continues the existing one.
Continues(incoming, existing) ==
    /\ Len(incoming) >= Len(existing)
    /\ \A i \in 1..Len(existing) : incoming[i] = existing[i]

\* No id occurs twice within reach of the duplicate scan.
Spaced(log) ==
    \A i, j \in 1..Len(log) : i < j /\ log[i] = log[j] => j - i > MaxScan

=============================================================================
