----------------------------- MODULE GameHistory -----------------------------
(***************************************************************************)
(* What the committed log means, one command at a time, and the promises  *)
(* of the replicated game stated against it: what a node serves, what a   *)
(* restart recovers, what two nodes agree on.                              *)
(***************************************************************************)
EXTENDS GameFSM

\* The document after command c at index i.
ApplyCommand(g, c, i) ==
    CASE c.type = "action" ->
            [AfterActions(OrFresh(g), c.acts)[Len(c.acts)] EXCEPT !.lri = i]
      [] c.type = "save" ->
            IF c.force \/ Continues(c.log, OrFresh(g).log)
            THEN [log |-> c.log, status |-> c.status, lri |-> i]
            ELSE g
      [] c.type = "delete" -> IF g = NoGame THEN NoGame ELSE Tombstone

\* The document after a command that it may already be past.
Redo(g, c, i) == IF i <= OrFresh(g).lri THEN g ELSE ApplyCommand(g, c, i)

\* The document after each command of the log, if it was g after the p-th.
Replay(log, g, p) ==
    LET after[i \in p..Len(log)] ==
            IF i = p THEN g ELSE Redo(after[i - 1], log[i], i)
    IN  after

\* What the log says the document is, after each of its commands.
Truth(log) == Replay(log, NoGame, 0)

\* What a reader sees of a document.
Content(g) == [log |-> OrFresh(g).log, status |-> OrFresh(g).status]

\* The node is between batches and has replayed what it had applied before
\* its last crash (the server waits for that before it serves).
Serving(n) == job[n].pc = "idle" /\ applied[n] = handed[n]

\* What a serving node answers is what the commands it has applied say.
ServesTheLog == \A n \in Node :
    Serving(n) => Content(LoadGame(n)) = Content(Truth(raftLog)[applied[n]])

\* Wherever a crash strikes, the file and the commands after the last
\* snapshot give back everything that was committed.
CrashRecovers == \A n \in Node :
    Content(Replay(raftLog, disk[n], snap[n])[Len(raftLog)])
        = Content(Truth(raftLog)[Len(raftLog)])

\* Two nodes that have applied the same commands hold the same game.
ReplicasAgree == \A m, n \in Node :
    Serving(m) /\ Serving(n) /\ applied[m] = applied[n]
        => Content(LoadGame(m)) = Content(LoadGame(n))

\* A write of the file never takes it back to an earlier command, but for a
\* tombstone, which has no index.
FileNeverRollsBack ==
    [][\A n \in Node :
          disk[n] # NoGame /\ disk'[n] # Tombstone => disk'[n].lri >= disk[n].lri]_vars

\* When commands stop and nodes stay up, every node applies all of them:
\* no goroutine waits for the game's lock for ever.
AllApplied == <>[](\A n \in Node : applied[n] = Len(raftLog) /\ job[n].pc = "idle")

=============================================================================
