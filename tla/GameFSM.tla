------------------------------- MODULE GameFSM -------------------------------
(***************************************************************************)
(* The replicated state machine of one game on every node of the cluster: *)
(* the FSM goroutine that applies batches of committed Raft commands      *)
(* (backend/fsm.go), the write-behind GameStore it applies them to        *)
(* (backend/gamestore.go: a cache, a dirty flag and a file), the goroutine *)
(* that persists a snapshot (backend/snapshot.go) and a hub that loads the *)
(* game, each interleaved with the others, and crashes that lose all but  *)
(* the file and the Raft log.                                              *)
(*                                                                         *)
(* hashicorp/raft is external: it is the growing sequence raftLog of      *)
(* committed commands, which it delivers to every node in order, in       *)
(* batches it chooses, and again from the last snapshot after a restart.   *)
(***************************************************************************)
EXTENDS ActionLog

CONSTANTS
    Node,
    Command,          \* the commands clients can get committed
    MaxBatch,         \* most commands in a batch (MaxAppendEntries)
    MaxLog,           \* bound: commands committed
    MaxCrash,         \* bound: crashes of a node
    DeleteAlone,      \* TRUE: Raft happens to deliver each delete on its own
    PersistOverlaps,  \* TRUE: batches are applied while a snapshot persists
    HubLoads          \* TRUE: a hub may load the game while batches apply

ActionCommand == [type : {"action"}, acts : Seq(Action) \ {<<>>}]
SaveCommand   == [type : {"save"}, log : Seq(Action),
                  status : {"open", "final"}, force : BOOLEAN]
DeleteCommand == [type : {"delete"}]

ASSUME GameFSMAssumption ==
    /\ Command \subseteq ActionCommand \cup SaveCommand \cup DeleteCommand
    /\ \A c \in Command : c.type = "save" => Spaced(c.log)
    /\ MaxBatch \in Nat \ {0}
    /\ MaxLog \in Nat /\ MaxCrash \in Nat
    /\ {DeleteAlone, PersistOverlaps, HubLoads} \subseteq BOOLEAN

VARIABLES
    raftLog,   \* the committed commands; the index of a command is its position
    cache,     \* GameStore.cache, NoGame when it has no entry
    dirty,     \* GameStore.dirty
    disk,      \* games/<id>.json
    applied,   \* the index up to which Raft has applied since the last start
    snap,      \* the index of the last completed snapshot
    job,       \* the FSM goroutine inside ApplyBatch
    flusher,   \* the snapshot in progress
    reader,    \* a hub's LoadGame that missed the cache
    crashes,   \* how often each node has crashed
    handed     \* history: the highest index Raft ever handed to each node

vars == <<raftLog, cache, dirty, disk, applied, snap, job, flusher, reader,
          crashes, handed>>

Job == [pc      : {"idle", "item", "acts", "mark"},
        game    : Game,           \* g, the document loaded once
        next    : Nat,            \* the command being processed
        last    : Nat,            \* the last command of the batch
        acts    : Seq(Action),    \* actions of that command still to apply
        dirty   : BOOLEAN,
        deleted : BOOLEAN,
        force   : BOOLEAN]        \* forceDiskSave

IdleJob == [pc |-> "idle", game |-> Fresh, next |-> 0, last |-> 0,
            acts |-> <<>>, dirty |-> FALSE, deleted |-> FALSE, force |-> FALSE]

Flusher == [phase : {"none", "snapshot", "persist"},
            pc    : {"check", "load", "write", "cache", "done"},
            idx   : Nat,          \* the index the snapshot is taken at
            val   : Game]         \* the bytes Flush loaded from the cache

IdleFlusher == [phase |-> "none", pc |-> "check", idx |-> 0, val |-> Fresh]

Reader == [pc : {"idle", "missed", "read"}, val : Game]

IdleReader == [pc |-> "idle", val |-> Fresh]

Slot == Game \cup {NoGame}

TypeOK ==
    /\ raftLog \in Seq(Command)
    /\ cache \in [Node -> Slot]
    /\ dirty \in [Node -> BOOLEAN]
    /\ disk \in [Node -> Slot]
    /\ applied \in [Node -> Nat]
    /\ snap \in [Node -> Nat]
    /\ job \in [Node -> Job]
    /\ flusher \in [Node -> Flusher]
    /\ reader \in [Node -> Reader]
    /\ crashes \in [Node -> Nat]
    /\ handed \in [Node -> Nat]

Init ==
    /\ raftLog = <<>>
    /\ cache = [n \in Node |-> NoGame]
    /\ dirty = [n \in Node |-> FALSE]
    /\ disk = [n \in Node |-> NoGame]
    /\ applied = [n \in Node |-> 0]
    /\ snap = [n \in Node |-> 0]
    /\ job = [n \in Node |-> IdleJob]
    /\ flusher = [n \in Node |-> IdleFlusher]
    /\ reader = [n \in Node |-> IdleReader]
    /\ crashes = [n \in Node |-> 0]
    /\ handed = [n \in Node |-> 0]

-----------------------------------------------------------------------------
(* The GameStore.  The game's RWMutex is held for writing while a flush is *)
(* between its file and its cache store, for reading by a LoadGame that    *)
(* missed the cache.  SaveGameInMemory takes no lock.                      *)

WriteLocked(n) == flusher[n].pc = "cache"
ReadLocked(n)  == reader[n].pc = "read"
Locked(n)      == WriteLocked(n) \/ ReadLocked(n)

\* Mutant: the file is preferred to the cache.
LoadGameFromFile(n) == IF disk[n] # NoGame THEN disk[n] ELSE cache[n]

\* What LoadGame returns.
LoadGame(n) == IF cache[n] # NoGame THEN cache[n] ELSE disk[n]

\* SaveGame: the file, the cache, then the dirty flag, under the lock.
SaveGame(n, g) ==
    /\ ~Locked(n)
    /\ disk' = [disk EXCEPT ![n] = g]
    /\ cache' = [cache EXCEPT ![n] = g]
    /\ dirty' = [dirty EXCEPT ![n] = FALSE]

\* DeleteGame: a game that does not exist gets no tombstone; the dirty flag
\* stays as it is.
DeleteGame(n) ==
    /\ UNCHANGED dirty
    /\ IF LoadGame(n) = NoGame
       THEN UNCHANGED <<disk, cache>>
       ELSE /\ ~Locked(n)
            /\ disk' = [disk EXCEPT ![n] = Tombstone]
            /\ cache' = [cache EXCEPT ![n] = Tombstone]

-----------------------------------------------------------------------------
(* Raft commits a command.                                                 *)

Commit(c) ==
    /\ Len(raftLog) < MaxLog
    /\ raftLog' = Append(raftLog, c)
    /\ UNCHANGED <<cache, dirty, disk, applied, snap, job, flusher, reader,
                   crashes, handed>>

-----------------------------------------------------------------------------
(* ApplyBatch and its processGameJob, on the FSM goroutine of node n.      *)

\* Raft hands over the commands lo..hi; with DeleteAlone no delete shares a
\* batch with another command.
Deliverable(lo, hi) ==
    /\ hi <= Len(raftLog)
    /\ DeleteAlone /\ lo < hi => \A i \in lo..hi : raftLog[i].type # "delete"

\* The FSM goroutine is in f.Snapshot(), or (without PersistOverlaps) no
\* batch arrives before the snapshot is complete.
Snapshotting(n) ==
    IF PersistOverlaps THEN flusher[n].phase = "snapshot"
                       ELSE flusher[n].phase # "none"

MaxOf(a, b) == IF a > b THEN a ELSE b

LoadOnce(n) ==
    /\ job[n].pc = "idle"
    /\ ~Snapshotting(n)
    /\ cache[n] = NoGame => ~WriteLocked(n)
    /\ \E k \in 1..MaxBatch :
        /\ Deliverable(applied[n] + 1, applied[n] + k)
        /\ job' = [job EXCEPT ![n] =
                     [IdleJob EXCEPT !.pc = "item",
                                     !.game = OrFresh(LoadGame(n)),
                                     !.next = applied[n] + 1,
                                     !.last = applied[n] + k]]
        /\ handed' = [handed EXCEPT ![n] = MaxOf(@, applied[n] + k)]
    /\ cache' = [cache EXCEPT ![n] = LoadGame(n)]
    /\ UNCHANGED <<raftLog, dirty, disk, applied, snap, flusher, reader,
                   crashes>>

AtItem(n, type) ==
    /\ job[n].pc = "item"
    /\ job[n].next <= job[n].last
    /\ raftLog[job[n].next].type = type

\* Mutant: nothing is recognised as applied before.
ReplayedNever(n) == FALSE

\* The command's index is not above the document's: it was applied before.
Replayed(n) == job[n].next <= job[n].game.lri

onlyJob == <<raftLog, cache, dirty, disk, applied, snap, flusher, reader,
             crashes, handed>>

\* A replayed command, or one on a game this batch has deleted.
SkipItem(n) ==
    /\ job[n].pc = "item"
    /\ job[n].next <= job[n].last
    /\ \/ Replayed(n)
       \/ job[n].deleted /\ raftLog[job[n].next].type # "save"
    /\ job' = [job EXCEPT ![n].next = @ + 1]
    /\ UNCHANGED onlyJob

\* CmdSaveGame replaces the document, unless it is not forced and its log
\* does not continue the one there is.
SaveItem(n) ==
    LET j == job[n]
        c == raftLog[j.next]
        existing == IF j.deleted THEN <<>> ELSE j.game.log
    IN  /\ AtItem(n, "save")
        /\ ~Replayed(n)
        /\ job' = [job EXCEPT ![n] =
             IF c.force \/ Continues(c.log, existing)
             THEN [j EXCEPT !.game = [log |-> c.log, status |-> c.status,
                                      lri |-> j.next],
                            !.next = @ + 1,
                            !.dirty = TRUE,
                            !.deleted = FALSE,
                            !.force = TRUE]
             ELSE [j EXCEPT !.next = @ + 1]]
        /\ UNCHANGED onlyJob

\* CmdApplyAction: its actions are applied one by one ...
BeginActions(n) ==
    /\ AtItem(n, "action")
    /\ ~Replayed(n)
    /\ ~job[n].deleted
    /\ job' = [job EXCEPT ![n].pc = "acts",
                          ![n].acts = raftLog[job[n].next].acts]
    /\ UNCHANGED onlyJob

\* Mutant: the document takes Raft's commit index instead.
ApplyOneActionCommitIndex(n) ==
    LET j == job[n]
        g == ApplyAction(j.game, Head(j.acts))
        final == Len(j.acts) = 1
    IN  /\ j.pc = "acts"
        /\ job' = [job EXCEPT ![n] =
             [j EXCEPT !.pc = IF final THEN "item" ELSE "acts",
                       !.game = IF final THEN [g EXCEPT !.lri = Len(raftLog)] ELSE g,
                       !.acts = Tail(@),
                       !.next = IF final THEN @ + 1 ELSE @,
                       !.dirty = @ \/ g # j.game]]
        /\ UNCHANGED onlyJob

\* ... and the document takes the command's index after the last of them;
\* a command that changed nothing does not make the document dirty.
ApplyOneAction(n) ==
    LET j == job[n]
        g == ApplyAction(j.game, Head(j.acts))
        final == Len(j.acts) = 1
    IN  /\ j.pc = "acts"
        /\ job' = [job EXCEPT ![n] =
             [j EXCEPT !.pc = IF final THEN "item" ELSE "acts",
                       !.game = IF final THEN [g EXCEPT !.lri = j.next] ELSE g,
                       !.acts = Tail(@),
                       !.next = IF final THEN @ + 1 ELSE @,
                       !.dirty = @ \/ g # j.game]]
        /\ UNCHANGED onlyJob

DeleteItem(n) ==
    LET j == job[n]
    IN  /\ AtItem(n, "delete")
        /\ ~Replayed(n)
        /\ ~j.deleted
        /\ job' = [job EXCEPT ![n] =
             [j EXCEPT !.game = [@ EXCEPT !.lri = j.next],
                       !.next = @ + 1,
                       !.dirty = TRUE,
                       !.deleted = TRUE,
                       !.force = TRUE]]
        /\ UNCHANGED onlyJob

EndBatch(n) ==
    /\ job' = [job EXCEPT ![n] = IdleJob]
    /\ applied' = [applied EXCEPT ![n] = job[n].last]
    /\ UNCHANGED handed

ItemsDone(n) == job[n].pc = "item" /\ job[n].next > job[n].last

NothingToSave(n) ==
    /\ ItemsDone(n)
    /\ ~job[n].dirty
    /\ EndBatch(n)
    /\ UNCHANGED <<raftLog, cache, dirty, disk, snap, flusher, reader, crashes>>

SaveDeleted(n) ==
    /\ ItemsDone(n)
    /\ job[n].dirty /\ job[n].deleted
    /\ DeleteGame(n)
    /\ EndBatch(n)
    /\ UNCHANGED <<raftLog, snap, flusher, reader, crashes>>

SaveToDisk(n) ==
    /\ ItemsDone(n)
    /\ job[n].dirty /\ ~job[n].deleted /\ job[n].force
    /\ SaveGame(n, job[n].game)
    /\ EndBatch(n)
    /\ UNCHANGED <<raftLog, snap, flusher, reader, crashes>>

\* SaveGameInMemory stores the document in the cache first ...
SaveInMemory(n) ==
    /\ ItemsDone(n)
    /\ job[n].dirty /\ ~job[n].deleted /\ ~job[n].force
    /\ cache' = [cache EXCEPT ![n] = job[n].game]
    /\ job' = [job EXCEPT ![n].pc = "mark"]
    /\ UNCHANGED <<raftLog, dirty, disk, applied, snap, flusher, reader,
                   crashes, handed>>

\* ... and then sets the dirty flag.
MarkDirty(n) ==
    /\ job[n].pc = "mark"
    /\ dirty' = [dirty EXCEPT ![n] = TRUE]
    /\ EndBatch(n)
    /\ UNCHANGED <<raftLog, cache, disk, snap, flusher, reader, crashes>>

-----------------------------------------------------------------------------
(* A snapshot: Snapshot() flushes on the FSM goroutine, then persist()     *)
(* flushes again and links the files on Raft's snapshot goroutine.         *)

onlyFlusher == <<raftLog, cache, dirty, disk, applied, snap, job, reader,
                 crashes, handed>>

BeginSnapshot(n) ==
    /\ flusher[n].phase = "none"
    /\ job[n].pc = "idle"
    /\ applied[n] > snap[n]
    /\ flusher' = [flusher EXCEPT ![n].phase = "snapshot",
                                  ![n].pc = "check",
                                  ![n].idx = applied[n]]
    /\ UNCHANGED onlyFlusher

\* Mutant: every game is flushed, dirty or not.
FlushCheckAll(n) ==
    /\ flusher[n].phase # "none"
    /\ flusher[n].pc = "check"
    /\ flusher' = [flusher EXCEPT ![n].pc = "load"]
    /\ UNCHANGED onlyFlusher

\* Mutant: the snapshot is taken without a flush.
FlushCheckSkips(n) ==
    /\ flusher[n].phase # "none"
    /\ flusher[n].pc = "check"
    /\ flusher' = [flusher EXCEPT ![n].pc = "done"]
    /\ UNCHANGED onlyFlusher

\* Flush: a game that is not dirty is left alone ...
FlushCheck(n) ==
    /\ flusher[n].phase # "none"
    /\ flusher[n].pc = "check"
    /\ flusher' = [flusher EXCEPT ![n].pc = IF dirty[n] THEN "load" ELSE "done"]
    /\ UNCHANGED onlyFlusher

\* ... for another the bytes to write are those in the cache now.
FlushLoad(n) ==
    /\ flusher[n].pc = "load"
    /\ flusher' = [flusher EXCEPT ![n].pc = "write", ![n].val = cache[n]]
    /\ UNCHANGED onlyFlusher

\* SaveGame of those bytes: the file ...
FlushWrite(n) ==
    /\ flusher[n].pc = "write"
    /\ ~ReadLocked(n)
    /\ disk' = [disk EXCEPT ![n] = flusher[n].val]
    /\ flusher' = [flusher EXCEPT ![n].pc = "cache"]
    /\ UNCHANGED <<raftLog, cache, dirty, applied, snap, job, reader, crashes,
                   handed>>

\* Mutant: the lock is not released.
FlushCacheKeepsLock(n) ==
    /\ flusher[n].pc = "cache"
    /\ cache' = [cache EXCEPT ![n] = flusher[n].val]
    /\ dirty' = [dirty EXCEPT ![n] = FALSE]
    /\ UNCHANGED <<raftLog, disk, applied, snap, job, flusher, reader, crashes,
                   handed>>

\* ... then the cache and the dirty flag, and the lock is released.
FlushCache(n) ==
    /\ flusher[n].pc = "cache"
    /\ cache' = [cache EXCEPT ![n] = flusher[n].val]
    /\ dirty' = [dirty EXCEPT ![n] = FALSE]
    /\ flusher' = [flusher EXCEPT ![n].pc = "done"]
    /\ UNCHANGED <<raftLog, disk, applied, snap, job, reader, crashes, handed>>

\* Snapshot() returns and Raft starts persist().
BeginPersist(n) ==
    /\ flusher[n].phase = "snapshot"
    /\ flusher[n].pc = "done"
    /\ flusher' = [flusher EXCEPT ![n].phase = "persist", ![n].pc = "check"]
    /\ UNCHANGED onlyFlusher

\* persist() has linked the files: a restart replays from this index.
EndSnapshot(n) ==
    /\ flusher[n].phase = "persist"
    /\ flusher[n].pc = "done"
    /\ snap' = [snap EXCEPT ![n] = flusher[n].idx]
    /\ flusher' = [flusher EXCEPT ![n] = IdleFlusher]
    /\ UNCHANGED <<raftLog, cache, dirty, disk, applied, job, reader, crashes,
                   handed>>

-----------------------------------------------------------------------------
(* A hub's LoadGame that misses the cache.                                 *)

onlyReader == <<raftLog, dirty, disk, applied, snap, job, flusher, crashes,
                handed>>

HubMisses(n) ==
    /\ HubLoads
    /\ reader[n].pc = "idle"
    /\ cache[n] = NoGame
    /\ reader' = [reader EXCEPT ![n].pc = "missed"]
    /\ UNCHANGED <<onlyReader, cache>>

\* It takes the lock for reading and reads the file, if there is one.
HubReadsDisk(n) ==
    /\ reader[n].pc = "missed"
    /\ ~WriteLocked(n)
    /\ reader' = [reader EXCEPT ![n] =
         IF disk[n] = NoGame THEN IdleReader
                             ELSE [pc |-> "read", val |-> disk[n]]]
    /\ UNCHANGED <<onlyReader, cache>>

\* Mutant: the hub stores its own, not yet committed, view of the game.
HubFillsCacheOptimistic(n) ==
    /\ reader[n].pc = "read"
    /\ \E a \in Action :
          cache' = [cache EXCEPT ![n] = ApplyAction(reader[n].val, a)]
    /\ reader' = [reader EXCEPT ![n] = IdleReader]
    /\ UNCHANGED onlyReader

\* Mutant: the lock is not released.
HubFillsCacheKeepsLock(n) ==
    /\ reader[n].pc = "read"
    /\ cache' = [cache EXCEPT ![n] = reader[n].val]
    /\ UNCHANGED <<onlyReader, reader>>

\* It stores what it read, and releases the lock.
HubFillsCache(n) ==
    /\ reader[n].pc = "read"
    /\ cache' = [cache EXCEPT ![n] = reader[n].val]
    /\ reader' = [reader EXCEPT ![n] = IdleReader]
    /\ UNCHANGED onlyReader

-----------------------------------------------------------------------------
(* The process dies and starts again.  NoSnapshotRestoreOnStart: the file  *)
(* is used as it is, Raft replays the commands after the last snapshot.    *)

Crash(n) ==
    /\ crashes[n] < MaxCrash
    /\ crashes' = [crashes EXCEPT ![n] = @ + 1]
    /\ cache' = [cache EXCEPT ![n] = NoGame]
    /\ dirty' = [dirty EXCEPT ![n] = FALSE]
    /\ applied' = [applied EXCEPT ![n] = snap[n]]
    /\ job' = [job EXCEPT ![n] = IdleJob]
    /\ flusher' = [flusher EXCEPT ![n] = IdleFlusher]
    /\ reader' = [reader EXCEPT ![n] = IdleReader]
    /\ UNCHANGED <<raftLog, disk, snap, handed>>

-----------------------------------------------------------------------------

FSMStep(n) ==
    \/ LoadOnce(n)
    \/ SkipItem(n)
    \/ SaveItem(n)
    \/ BeginActions(n)
    \/ ApplyOneAction(n)
    \/ DeleteItem(n)
    \/ NothingToSave(n)
    \/ SaveDeleted(n)
    \/ SaveToDisk(n)
    \/ SaveInMemory(n)
    \/ MarkDirty(n)

SnapshotStep(n) ==
    \/ FlushCheck(n)
    \/ FlushLoad(n)
    \/ FlushWrite(n)
    \/ FlushCache(n)
    \/ BeginPersist(n)
    \/ EndSnapshot(n)

Next ==
    \/ \E c \in Command : Commit(c)
    \/ \E n \in Node :
        \/ FSMStep(n)
        \/ BeginSnapshot(n)
        \/ SnapshotStep(n)
        \/ HubMisses(n)
        \/ HubReadsDisk(n)
        \/ HubFillsCache(n)
        \/ Crash(n)

Spec == Init /\ [][Next]_vars

\* The goroutines of a running node keep running; nothing makes a client
\* commit, a snapshot start, a hub load or a node crash.
Fairness == \A n \in Node :
    /\ WF_vars(FSMStep(n))
    /\ WF_vars(SnapshotStep(n))
    /\ WF_vars(HubReadsDisk(n) \/ HubFillsCache(n))

FairSpec == Spec /\ Fairness

-----------------------------------------------------------------------------
(* What survives every interleaving, the lost updates included.            *)

\* Every document the node holds, on disk, in memory or in a goroutine.
Copies(n) ==
    {job[n].game, flusher[n].val, reader[n].val}
        \cup ({cache[n], disk[n]} \ {NoGame})

\* The actions a command can put into a log.
ActionsOf(c) ==
    {a \in Action :
        \/ c.type = "action" /\ \E i \in 1..Len(c.acts) : a = c.acts[i]
        \/ c.type = "save" /\ \E i \in 1..Len(c.log) : a = c.log[i]}

\* No copy of a game holds an action that was not committed, and delivered
\* to this node, whatever is overwritten, flushed late or replayed.
NoPhantomAction == \A n \in Node : \A g \in Copies(n) :
    \A i \in 1..Len(g.log) :
        \E k \in 1..Len(raftLog) :
            k <= handed[n] /\ g.log[i] \in ActionsOf(raftLog[k])

\* Neither the replay of commands after a crash onto a file that is ahead of
\* them, nor a client that sends an action again, doubles it in any copy.
NoDoubleApply == \A n \in Node : \A g \in Copies(n) : Spaced(g.log)

\* No copy claims an index the node was not handed: a higher one would make
\* applyAction and processGameJob skip committed commands.
IndexNotAhead == \A n \in Node : \A g \in Copies(n) : g.lri <= handed[n]
=============================================================================
