# Skorekeeper: TLA+ models, checks and proofs

Skorekeeper keeps the score of baseball games in the browser, offline first, and
synchronises it through a cluster of Go servers that replicate every game with
Raft. A game is event sourced: its state is the reduction of an append-only log
of actions, and everything hard about the program is about that log - who holds
which part of it, in which order, and what survives a crash, a lost message or
a second user. This directory models that core, checks it with TLC on small
instances and proves part of it for all instances with TLAPS.

## 1. The system

| component | state | operations | hard behaviour | what makes it correct |
|---|---|---|---|---|
| **FSM of a game** `backend/fsm.go` | last applied index; the job of a batch | `Apply`, `ApplyBatch` (action, save, delete, team, policy, node commands), `Snapshot`, `Restore` | batches chosen by Raft, replay after a crash, several goroutines at one document | a node serves what the committed log says; nodes agree |
| **GameStore** `backend/gamestore.go` | cache, dirty flags, one file per game, a lock per game | `SaveGame`, `SaveGameInMemory`, `Flush`, `LoadGame`, `DeleteGame`, `PurgeGame`, `RestoreGame` | write-behind: flushes race with the FSM and with loads | nothing committed is lost in a crash; no old bytes over new |
| **Action log rules** `backend/validation.go` | - | `ApplyAction(s)`, duplicate scan of 100 | retries, bounded scan | an action is applied once |
| **Snapshots** `backend/snapshot.go`, `link_snapshot_store.go` | hard links, tar stream | `persist`, `Release`, `Restore` | a second flush that overlaps `ApplyBatch` | snapshot + log = the game |
| **Raft, membership** `backend/raft.go`, `raft_types.go` | configuration, node metadata, leadership | start, bootstrap re-ingestion, join/leave, `Propose`, forwarding, shutdown | start-up against live commits, trust on first use | acknowledged means committed |
| **Key ring** `backend/raft_crypto.go` | keys by index | rotate at snapshots, decrypt, garbage collect | collection against entries still needed | every retained entry can be read |
| **Hub, HubManager** `backend/websocket.go` | copy of the game, bounded request channel, clients | JOIN, HTTP action/load/save, broadcast, idle removal | copy older than the store, full channel, two clients with one base | only continuations are accepted; ACK means committed |
| **HTTP API** `backend/server.go` | - | `/api/action`, `/api/load`, `/api/save`, lists, cluster and admin calls | full hub (429), caller gone before the answer | an answer tells the truth |
| **Registry, user indices** `backend/registry.go`, `user_index_store.go` | who may see which game or team, quotas | index/unindex on every update, rebuild, purge | updates in map order beside other jobs | index = documents |
| **TeamStore** `backend/teamstore.go` | as GameStore, no log | as GameStore | as GameStore | last committed save is served |
| **Auth, access policy** `backend/auth*.go`, `access_control.go` | policy | token checks, access decisions | - | least access |
| **Monitoring** `backend/monitoring.go` | ring buffers | record, aggregate | wrap-around | no sample counted twice |
| **Sync manager** `frontend/services/syncManager.js` | HTTP queue, in-flight batch, generation, pending ids, last revision, status | connect, JOIN, `sendAction`, `processHttpQueue`, `resolveFastForward`, messages | answers after the state has changed, retries, reconnects | every action gets through, once, in order; status is true |
| **Conflict resolution, dispatch** `frontend/controllers/AppController.js`, `ActiveGameController.js` | active game, dialog | `dispatch`, `handleSyncConflict`, overwrite, force save, fork | awaits between log, database and queue | nothing is lost but what the user gives up |
| **Reducer** `frontend/reducer.js` | the game as reduced from its log | one function per action type, `computeStateFromLog` | corrections, moves and clears over runners already placed; undo of undo | the game is what its log says |
| **History, feed, statistics** `frontend/game/historyManager.js`, `narrativeEngine.js`, `statsEngine.js` | - | effective log, undo and redo targets, linear history, events and summaries, counts | each derives plays and score in its own way | they agree, and every play is told |
| **Scoring overlay** `AppController.js`, `game/runnerManager.js`, `csoManager.js`, `substitutionManager.js`, `renderers/csoRenderer.js` | copy of the cell, runners, what is entered | pitches, balls in play, runner actions, corrections, substitutions | handlers wait for a save and go on with what they read before; remote actions | it shows and records its own cell |
| **Lists** `DashboardController.js`, `TeamController.js`, `teamSyncManager.js` | local and remote buffers, offsets, rows, spinners | load, fetch a page, merge, search, sync, delete, check deletions | two streams restarted while they run, failures, answers about a library that has changed | rows are right, nothing unsynced disappears, nothing spins for ever |
| **Search** `utils/searchParser.js`, `backend/search/parser.go` | - | two parsers, a writer, three panels | quotes, colons, ranges | both sides understand a query alike |
| **Stores** `services/dbManager.js` | IndexedDB: games, teams, statistics; dirty flags | save, mark clean, delete, list | edits during an upload | clean means the server has it |
| **Session** `authManager.js`, `DataService.js`, `PermissionService.js` | cached user, server's session | start, login, logout, adoption, demo, wiping | a reload anywhere, expired and barred sessions, revoked access | what is shown is allowed; anonymous work becomes the user's |
| **Backup, lineup dialogs** `backupManager.js`, `lineupManager.js`, `AppController.js` | file, choice; lineup twice (state and rows) | stream, restore, drag, add, remove, save | items fail or change under the stream; another scorer substitutes | complete; saved as shown |
| **Other UI** statistics screens, drawing, service worker, router's URLs | DOM | - | - | - |

How they interact: a user's action goes through `dispatch` into the local log,
then into the sync manager's HTTP queue, by `POST /api/action` into the channel of the
game's hub on the Raft leader, which judges it by its base revision and proposes it;
Raft commits it; each node's FSM applies it to its GameStore; the leader's FSM puts a
broadcast into the hub's channel; the hub passes the actions on over the
WebSockets of all clients, the sender's included, where they clear the pending
set. A client that (re)connects sends JOIN with its revision and is answered
with ACK, the missing actions, or CONFLICT. Every hazard this holds is listed,
with its line and the properties aimed at it, in `PROJECT.json`.

The screens of a browser share its stores, the signed-in user and the requests
in the air, and nothing else: the lists and dialogs read records and write them whole, each in
its own transaction, and the socket's acknowledgement marks a record clean.

## 2. Plan

| # | modules | what | state |
|---|---|---|---|
| 1 | `ActionLog`, `GameFSM`, `GameHistory`, and `ActionLog_proofs`, `GameFSM_proofs`, `GameHistory_proofs` | the replicated game on every node | done, safety proved |
| 2 | `SyncProtocol`, `GameHub`, `SyncClient`, `GameSync`, and `GameSync_proofs`, `Watcher_proofs` | browsers and hub of one game | done, four of five safety properties proved |
| 3 | `GameReducer`, `Runners`, `History`, `Narrative`, `Stats`, `UndoStack`, `Scorer`, and `Scorer_proofs` | a scorer at work, and what history, feed and statistics make of the log | done, four properties proved |
| 4 | `Access`, `Search`, `Library`, `Dashboard`, `GameScreen`, `TeamsScreen`, `Session`, `Backup`, `Lineup`, `Browser`, and `Browser_proofs`, `Library_proofs` | everything else a browser does, over a server others use too | done, four properties proved |
| 5 | more proofs about `GameSync`, `Scorer` and `Browser` | `OwnOrderKept`; `TypeOK` of `Scorer`; `CleanIsOnServer` | open |
| 6 | `Registry`, `TeamStore` on the FSM | indices and quotas against documents, delete-all beside game jobs, purge, rebuild | open |
| 7 | `KeyRing`, `Membership`, with `GameFSM`'s snapshots | rotation and collection, install and restore, join, leave, bootstrap re-ingestion | open |

Composition: `GameHistory` extends `GameFSM` extends `ActionLog`; `GameSync` extends
`GameHub` and `SyncClient`, which both extend `SyncProtocol`, which extends `ActionLog`, so
that both halves apply actions with the same operator. `Scorer` extends `Runners`, `Narrative`
(over `History`) and `Stats`, all of them over `GameReducer`, and refines `UndoStack`. `Browser` extends
`Backup` and `Lineup`; `Backup`, `Session`, `TeamsScreen`, `GameScreen`, `Dashboard`, `Library` are a chain
over `Access` and `Search`. No module declares a `RECURSIVE` operator: what recurs is a recursive
function or a fold. `ActionLog_proofs` (the lemmas about the log's operators) is extended by
`GameFSM_proofs`, which `GameHistory_proofs` extends, and by `GameSync_proofs`, which begins with the lemmas about one browser's
handlers and which `Watcher_proofs` extends. `Scorer_proofs` extends `Scorer` alone, `Browser_proofs` `Browser` alone, and
`Library_proofs` extends that.

## 3. The replicated game

### Modules

`ActionLog` - the document and the pure operations on it. An action is its id;
the document is its log, its status and `LastRaftIndex`. `ApplyAction` scans the last `MaxScan`
ids (100 in the code) for a duplicate and appends otherwise, whatever the status.

`GameFSM` - a node, for one game. The variables are the code's: `cache`, `dirty`
and `disk` are the GameStore; `applied` and `snap` are Raft's; `job` is the FSM goroutine
inside `ApplyBatch`; `flusher` is the snapshot (a flush in `Snapshot()`, on the FSM
goroutine, then another one in `persist()`, on Raft's snapshot goroutine); `reader` is a hub in
`LoadGame`. The actions cut where another goroutine can see a difference:

| action | code |
|---|---|
| `LoadOnce`, `SkipItem`, `SaveItem`, `BeginActions`, `ApplyOneAction`, `DeleteItem` | the loop of `processGameJob`: load once per batch, skip replayed indices, then each command |
| `NothingToSave`, `SaveDeleted`, `SaveToDisk`, `SaveInMemory` + `MarkDirty` | its end: `DeleteGame`, `SaveGame`, or `SaveGameInMemory` in its two steps (cache, then flag) |
| `BeginSnapshot`, `FlushCheck`, `FlushLoad`, `FlushWrite`, `FlushCache`, `BeginPersist`, `EndSnapshot` | `Snapshot()`, `persist()`, `Flush` and `SaveGame` under it |
| `HubMisses`, `HubReadsDisk`, `HubFillsCache` | `LoadGame` |
| `Commit`, `Crash` | Raft commits a command; the process dies and starts with its file and a replay from the last snapshot |

`GameHistory` gives the log its meaning one command at a time (`ApplyCommand`, `Replay`)
and states what is promised against it.

Assumptions: Raft is external - committed commands, in order, in batches of its
choice, always through `ApplyBatch` (which hashicorp/raft calls for a `BatchingFSM`).
`ApplyActions` stops on malformed JSON only, which validation excludes. A saved
document holds no id twice within the scan (`Spaced`): the browser's `dispatch`
looks for an id in the whole log before it appends. Three
constants choose an environment: `DeleteAlone` (Raft delivers deletes in
batches of their own), `PersistOverlaps` (batches are applied while a snapshot persists)
and `HubLoads` (a hub loads meanwhile). The code allows all of them; the
passing run that states exactness turns them off, the next one turns them on and
states what is left, and the findings show that the difference is real.

### Runs

| run | bounds | checks | result |
|---|---|---|---|
| `replica` | 1 node, 3 commands of 5 kinds, batches of 2, 1 crash | `ServesTheLog`, `CrashRecovers`, `FileNeverRollsBack`, `AllApplied`, `TypeOK` | holds, 38 814 states |
| `replica_races` | the same with `DeleteAlone` off, the other two on | `NoPhantomAction`, `NoDoubleApply`, `IndexNotAhead`, `AllApplied` | holds, 126 067 states |
| `persist_race` | appends only, no crash | `ServesTheLog` | **violated** |
| `batch_delete` | 2 nodes | `ReplicasAgree` | **violated** |

Three commands are enough for a duplicate, a deletion between two commands and
a crash between two batches; a scan of 2 makes its limit reachable.

Fairness: weak fairness of each goroutine once started. Go schedules every
runnable goroutine and the mutexes are released by steps that are themselves
fair. Commits, snapshots, loads and crashes are not fair.

Findings:
- `persist_race`: `Flush` reads the cache, writes the file, writes *the same bytes back into
  the cache* and clears the flag. Run from `persist()`, beside `ApplyBatch`, it puts an old
  document over a newer one. `HubFillsCache` can do the same after a crash, when the
  cache is empty; with either race on, `ServesTheLog` fails.
- `batch_delete`: `DeleteGame` at the end of a batch looks at the store, and an action after a
  delete is refused inside the batch but applied to the tombstone in the next one. Nodes that
  batch differently differ.

### Proofs (`GameFSM_proofs`, `GameHistory_proofs`)

For every set of nodes, actions and commands, every batch size, bound and environment:

| theorem | says |
|---|---|
| `TypeCorrect` | `Spec => []TypeOK` |
| `NeverDoubled` | `Spec => []NoDoubleApply` |
| `NeverAhead` | `Spec => []IndexNotAhead` |
| `NoPhantoms` | `Spec => []NoPhantomAction` |

`TypeOK` is not inductive: a flush or a `MarkDirty` relies on the cache having an entry, a job on
where it stands in its batch. `TypeInv` adds these facts as `Control`. The three safety
theorems rest on one invariant, `AllGood`: *every* document anywhere on a node - file, cache, the job's, the bytes a
flush or a load carries - is good: its index is at most what the node was handed, its log is spaced,
its actions are committed and delivered. Goodness has to be claimed of the copies in
flight, since each becomes the cache or the file a step later; and it is
stable, since `handed` and `raftLog` only grow. That is why these three survive all the races that `ServesTheLog`
does not. The proof has one lemma per group of actions.

The exact promises hold under conditions, which are hypotheses of the theorems because without them
the code breaks the promise (`persist_race`, `batch_delete`). `Undisturbed` says that
batches wait while a snapshot persists and no hub loads the game meanwhile:

| theorem | under | says |
|---|---|---|
| `FileNeverGoesBack` | `Undisturbed` | `Spec => FileNeverRollsBack` |
| `ServesTheTruth` | `Undisturbed`, `DeleteAlone` | `Spec => []ServesTheLog` |
| `CrashesRecover` | the same | `Spec => []CrashRecovers` |
| `ReplicasHoldTheSame` | the same | `Spec => []ReplicasAgree`, the property `batch_delete` violates |

The argument has three layers.
- *The log's meaning.* `ReplayExists` and `ReplayDef` show that the recursive function `Replay` is what its equation says, by
  induction on the index; the library's induction theorem takes an operator and cannot be used, so `SetInduction`
  in `ActionLog_proofs` states induction for a set of numbers and is proved from the well-foundedness of `<`.
- *A document that recovers.* `Recovers(log, g, p, q)`: replayed from the `p`-th command, `g` becomes the
  truth at `q` and stays so. It is what a file is worth after a crash; it holds of documents *ahead* of
  `p` (the replay skips what they have) and of those a later delete wipes out. The lemmas
  `RecoversStep`, `RecoversBack`, `RecoversLower` say how it moves with a command, a snapshot
  and a crash.
- *The invariant.* `StoreInv` orders the indices of file, cache and the job's document and says whose bytes a
  flush holds; `HistoryInv` says that the file recovers from the snapshot, that what is served does from
  `applied`, and that the job's document will once its batch is saved - including a batch half applied, where the
  actions of one command are partly in. TLC checked `HistoryInv` on an enlarged instance (451 845 states) before it was proved.

The assumptions used are `ActionLogAssumption` and `GameFSMAssumption`. `AllApplied`, liveness under fairness, is
model-checked only.

## 4. Browsers and hub

### Modules

`SyncProtocol` - what is in the network: `ws` (towards each client), `up` (its JOIN) and
`http` (what became of its call). A revision is the id of a log's last action.

`GameHub` - the hub on the leader. `gameData` is its copy of the game, `store` the GameStore, `requests` the channel
of `QueueCap` (64 in the code), `proposing` the request it is blocked on in `Propose`. One action per
request type of `run()`: `HubJoin`, `HubAction`, `HubSave`, `HubLoad`, `HubBroadcast`, and `HubIdles` for the ticker.
`HubAction` is `processAction` up to `Propose`: trust the copy if the base is its head, otherwise
reload and judge (`Verdict`). `FSMAppliesAction` and `FSMAppliesSave` are the FSM's
side: apply, put the broadcast into the channel *if there is room*, answer. What reaches the channel while the hub
is in `Propose` waits there, ahead of the broadcast.

`SyncClient` - a browser. JavaScript runs each handler up to an `await`, so a handler is an
operator on the session record, and one that calls another applies its
operator; the fields have the code's names or say which they stand for. `ProcessQueue` is `processHttpQueue` up to `fetch`,
`HttpAnswer` and `HttpError` what follows it, the `finally` block included.

`GameSync` - both together, one action per event of the browser (user, database write done,
message, timer, socket, answer, reload) and of the network. `Session1` is what every browser step has
in common: a session that has closed its socket leaves the hub. `committed` is a
history variable, every action that was ever in the store.

Abstracted: one game that has been started; the leader only (a follower forwards a call there
unchanged); no ERROR messages (validation and authorization); `navigator` always online; a closed socket is seen by
both sides at once; a call may be lost before it reaches the hub or after, but is never taken
after its caller gave up; `await response.json()` belongs to the answer; the statuses other than "synced"
and "conflict" are one; the ten reconnect attempts are not counted, lost connections are
bounded; the per-client send buffer never fills; `resolveConflictOverwrite`'s two awaits are one.
After a fork the page works on the copy: the client takes no further part.

### Runs

| run | bounds | checks | result |
|---|---|---|---|
| `sync_writer` | one writer (3 actions), one watcher; batches of 2; 2 lost calls | `WatcherIsBehind`, `AckedIsCommitted`, `AllSynced` | holds, 9 046 states |
| `sync_faults` | two writers (2 and 1 actions), channel of 2; 1 lost connection, call or page; idle ticker | `NoDoubleAction`, `OwnOrderKept` | holds, 925 887 states |
| `sync_resolve` | two writers (1 each), channel of 2; 1 lost connection and 1 lost call, after which the client gives up; overwrite, force save and fork; idle ticker | `NoDoubleAction`, `AckedIsCommitted`, `TypeOK` | holds, 1 455 668 states |
| `sync_lost` | two writers, no fault | `SyncedIsCommitted` | **violated** |
| `sync_stuck` | one writer, one lost connection | `ActionsGetThrough` | **violated** |

The bounds: two actions of one user are what an order needs; a
channel of two is full when both clients have a call in it, which gives 429s and dropped broadcasts; three
actions in batches of two make a retried batch overlap the log in part. The first run bounds
lost calls by `MaxRetries`, since the client gives up after more, and `ActEarly` is `FALSE`
there: users wait until every browser has joined. Without that wait
`WatcherIsBehind` and `AllSynced` fail without any fault: the hub registers a
socket before it has read the JOIN, so a broadcast can arrive before the catch-up and the watcher keeps
a later action in front of the ones it had missed, for good (`docs/NARRATIVE-STATS.md:57` promises a spectator the scorekeeper's
numbers). The other passing runs have `ActEarly`
on, and state what survives it.

Fairness (`sync_writer`, `sync_stuck`): weak, of the hub, Raft, the network's delivery, timers,
reconnects and database writes: goroutines and event loops go on, TCP delivers while a
connection lasts. Users, faults and the idle ticker are not fair. In `sync_writer` at most two
calls are lost, so the network is not assumed to be reliable, only not to fail for ever.

Findings:
- `sync_lost`: two users act at once. Each browser's action is posted with the same base; one is refused. The
  refusal names the server's head, which by then the loser may have appended from the broadcast, so
  `handleSyncConflict` finds nothing after it and reports "synced". The refused action stays in the local
  log, is never sent, and no dialog opens.
- `sync_stuck`: a connection lost and reopened while a POST is under way. JOIN names the optimistic
  revision, the server does not know it yet, CONFLICT starts a fast-forward, which makes the awaited answer
  stale - and a stale answer leaves `isHttpDraining` set. Nothing is sent again until the page is reloaded.

What the hub's check against its own copy allows - two actions with one base both accepted,
because the first one's broadcast queues behind the second - is in the model and in
every run with two writers: both are committed, in an order neither browser expects; the
properties above hold with it.

### Proofs (`GameSync_proofs`, `Watcher_proofs`)

For every set of clients and actions, every capacity of the channel, batch size, number of retries and bound on faults, and
every way of resolving conflicts:

| theorem | under | says |
|---|---|---|
| `Types` | - | `Spec => []TypeOK` |
| `NoFalseAck` | - | `Spec => []AckedIsCommitted` |
| `NothingTwice` | `UniqueOwn` | `Spec => []SpacedLogs`: no log of the store, the hub or a browser repeats an action within the duplicate scan's reach |
| `NoDoubles` | `UniqueOwn`, no more actions than `MaxScan` | `Spec => []NoDoubleAction` |
| `WatchersFollow` | `UniqueOwn`, `FewActions`, `Undisturbed` | `Spec /\ []RoomToBroadcast => []WatcherIsBehind` |

`UniqueOwn` says that no action is made twice: ids are UUIDs. The second hypothesis of `NoDoubles` is the scan's limit
(100 in the code, `validation.go:656`): in a longer game a retry that comes late enough is appended again, and `NothingTwice` is what
is left. `sync_resolve` satisfies it; `sync_faults` has four actions with a scan of three, so TLC shows a
little more there than the theorem says.

`SyncInv`, the invariant of the first two, is about one call from `fetch` to its answer (`CallInv`): a
browser awaits one batch at most; of channel and `Propose` at most one request the hub could still answer carries it, and it carries
that very batch; an answer only exists for a batch awaited; and an ACK is there only if the batch is
committed. The last needs `HubInv`: what the hub believes - its copy, the store, what it broadcasts - is committed. A
caller that gives up has its request orphaned, which is why the fast-forward and the reload, which replace the queue under a
call, cannot be told ACK for the wrong batch.

`FreshInv`, for the other two, says that every action in any log, queue, message, request or answer has been made, and every log in
them is spaced. So an action a user makes is new everywhere, and what `ApplyAction`, `dispatch`, the catch-up and the
overwrite do keeps logs spaced.
The first part of `GameSync_proofs` has the lemmas both need: for each handler, what it keeps of a session, and that it
brings in no action but the message's (`Acts`, `Brings`). TLC checked both invariants on the instances of `sync_resolve` and
`sync_faults` before they were proved.

`WatchersFollow` needs more, and each hypothesis is there because the property fails without it. `FewActions` is the limit of
the duplicate scan again. `Undisturbed`: no connection is lost and no page loaded again, nobody forces his log on the server
(which may cut it), and nobody acts before all have joined, since a viewer who connects meanwhile keeps a gap (above).
`RoomToBroadcast`: the channel has room whenever a proposal is about to be applied, since a broadcast that is dropped is lost
to the viewers until they reconnect. It is a hypothesis about the behaviour, as nothing in the code bounds what is posted; with
`QueueCap = 6` it holds in every state of `sync_writer`. Calls may be lost, abandoned, repeated and refused as
often as one likes, and writers may conflict, fast-forward and overwrite their own logs.

Its invariant, `WatchInv`, says of a viewer that it has nothing to send (`Idle`) and that its log, the messages on the socket and the
broadcasts in the hub's channel together bring it the whole of the store, each action after the one before it
(`Feeds`): every action among the messages either follows one that the viewer will have by then or
is in its log already, and `dispatch` skips what the log has. That covers the two orders that are not obvious, a `SYNC_UPDATE` that holds what
a broadcast in the channel brings again, and a batch broadcast whole whose first actions a retry had already committed. Of the hub
it says that store, copy and broadcasts only grow (`Growing`), and that nothing happens while someone is not a member
(`Untouched`). The `Feeds` lemmas say what each step makes of the three: a broadcast put in the channel (`FeedsBroadcast`), passed on to
the sockets (`FeedsPassedOn`), a JOIN answered (`JoinIsNext`), a message read (`FeedsReceived`). TLC checked `WatchInv` on `sync_writer` and on
an instance with two writers first.

Model-checked only: the liveness properties, and `OwnOrderKept`. An own action that a conflict dropped from the queue stays in the
local log; the proof would have to show that no later fast-forward queues it again behind a younger one, which depends on the
order in which channel, sockets and answers bring what the server has, across reloads and give-ups. Random simulation of an
instance larger than `sync_faults` (28 million states) found no violation.

## 5. The scorer

### Modules

`GameReducer` - `reducer.js` whole: one operator per action type, `GameReducer` that dispatches, and
`ComputeStateFromLog` with `EffectivelyUndone`. An event key `team-b-col-i-s` is a triple, a player
one value; names, coordinates and the pitch log, which nothing reads back, are left out. Lineups have
`Slots` batters, a walk takes `BallsForWalk`; all are parameters.

`Runners` - who is on base when a batter comes up, where runners go by default, what the buttons
offer. `History` - the effective log, undo and redo targets, and the linear history: items per plate
appearance, struck out when cleared or moved, with the game replayed before and after each. `Narrative` - the
feed: what each item tells, as kinds of events in the order of the code, and the summary of a half inning.
`Stats` - each number as the count of the events it is made of, where the code has one pass.

`Scorer` - the variables are the controller's: `game` and `log` (the active game), `ui` (team, cell, view
and what is entered there), `data` (the overlay's copy of its cell, `activeData`) and `rest`, the handlers that
wait for `saveState`. A handler runs up to its `await dispatch(...)` in one action and goes on in a `Resume` step; the
scorer, or another device (`Receive`), may act in between. `loose` is auxiliary: changes some handlers make
to the game without recording them (`correctPlayer`, `handleBaseClick`, ...), which a reload forgets. `Dispatch`
follows the code: an `UNDO` recomputes the game from the log, anything else is applied to the game at hand.

`UndoStack` is the abstract specification: the actions in force (`done`), what is taken back (`taken`, pairs of an action and the
moment it was), and what of that can be redone, as a stack (`undone`). A new action empties the stack, an undo puts a pair on
it, a redo takes one off; an action taken back twice has to come back twice. `Scorer` implements it with `done <- InForce(log)`,
`taken <- TakenBack(log)`, `undone <- RedoStack(log)`.

Assumptions (`ScorerConstants`, which TLC evaluates): an opening log numbers its entries and its UNDOs refer to earlier ones (ids are
places in the model, UUIDs in the code; `dispatch` makes an UNDO of what is in the log); payload lists are lists; an event that is
imported or moved has a player, a way with its reasons, and pitches, and marks only substitutions of the log, since the program writes these fields and takes the marks from the log; an override of ways
carries no pitches (the menu of a base sends paths, reasons, positions and the player, `AppController.js:4254`, `:4322`); a base is one of four. Actions of another
device (`Remote`) take nothing back: an UNDO of another device names one of the ids both have, which a fixed set of payloads cannot.

### Runs

| run | bounds | checks | result |
|---|---|---|---|
| `scorebook` | one inning, 3 batters, a walk on the first ball and a strike-out on the second; 2 opening logs; up to 7 actions in the log, 1 handler waiting, 1 unrecorded change, 1 pitch from another device | `LogTellsTheGame`, `CellIsShown`, `RunnersAreOnBase`, `PlaysAreTold`, `ScoresAgree`, `UndoIsAStack`, `TypeOK` | holds, 137 618 states |
| `feed` | the same | `FeedCanBeTold` | **violated** |

The openings put the scorer where things meet: an inning of two columns with two outs
and a runner on third, so that one more tap ends the inning, scores, strands the runner or needs a new
column; and an inning whose last play was just taken back and whose next batter has just been replaced, so that redo, a new play, a
correction and the undo of a substitution compete. Two or three more actions from there move, clear, undo and redo any of them. Nothing is fair, and no liveness is stated: a scorer may stop.

Four of the properties say where they stop. `LogTellsTheGame` leaves out the unrecorded changes (`loose`);
`RunnersAreOnBase` a remote action that moved the runners under an open list, which the code does not refresh;
`PlaysAreTold` a cell whose earlier play was moved away, which the feed appends to the stricken item; `ScoresAgree` a cell that
was touched before the play that moves its runner was told (`ToldInOrder`).

Finding, `feed`: `appendInningSummary` reads the state after the last item of a half inning; a stricken item
has none. Clearing the last play throws, and the feed is not drawn.

Two more things were met while the properties were being proved; no run shows them, and the properties are phrased around them:
- The overlay goes on showing a substitution until the save of its undo ends (`AppController.js:4545`), so a second tap takes
  the same action back again. One redo then takes back one of the two UNDOs and changes nothing: hence `taken` in `UndoStack`. The
  first form of `UndoStack`, with actions in place of pairs, held only because no opening had a substitution.
- The feed has one item per cell, where the cell was first touched (`historyManager.js:102`-139). A pitch or an override in a cell
  before the play that puts its runner on the way is told makes the feed replay later actions on him before he is there, and its score
  falls behind the sheet's: hence `ToldInOrder`.

### Proofs (`Scorer_proofs`)

| theorem | says |
|---|---|
| `UndoRedo` | `Spec => UndoIsAStack`, the refinement of `UndoStack` |
| `GameIsTold` | `Spec => []LogTellsTheGame` |
| `CellStaysShown` | `RemoteKeepsCells` gives `Spec => []CellIsShown` |
| `RunnersAreListed` | `Spec => []RunnersAreOnBase` |

They hold for every opening log, size of lineup and inning, set of pitches, plays, menu entries, cells and actions of another
device, any number of waiting handlers and unrecorded changes, under `ScorerConstants`. `CellStaysShown` has one hypothesis more,
`RemoteKeepsCells`: no other device imports a game, moves a play or removes a column while this one scores. The instance of
`scorebook` satisfies it.

What both rest on is `Ready` (`ReadyHolds`): the log numbers its entries and every UNDO refers back; every mark of a substitution, in
an event of the game and in the overlay's copy, names an action of the log (`Marked`, `KnownMarks`); the overlay has its fields. It is
what makes an undo from the overlay, which takes its target from a copy that may be stale, an undo of something that is there.

*Undo and redo.* `EffectivelyUndone` walks the log from its end. `EffectivelyUndoneIs` and `UndoneIsUnique` show that in a log whose UNDOs refer back its result
is the one set `U` with `U = {refId of the UNDOs not in U}` (`IsUndone`), so a proof about one more entry need not redo the walk: a new
action leaves the set as it is (`ActionUndoesNothing`), an UNDO of an action adds it (`UndoUndoesAction`), and an UNDO of an UNDO in force gives back what that
one took (`RedoUndoesUndo`). From there, how `UndoTarget`, `RedoTarget`, `Repeatable` and the stack built of it change with an
entry (`ActionEndsRedo`, `UndoAddsRedo`, `RedoTakesRedo`), and `InitStack`, `DoStep`, `UndoStep` and `RedoStep` are the refinement. The abstract stack is the list of UNDOs younger
than the last action and referring to no earlier one than the UNDOs after them; that this list loses just its last element in a redo,
however undos and redos were mixed before, is the heart of it.

*The game is told.* `LogTellsTheGame` speaks of games without unrecorded changes, and is not inductive: a handler that records
what was changed by hand (a tap on a base, then its menu: `handleBaseClick`, `closeRunnerMenu`, `applyRunnerAction`) goes from a state about which it says nothing to one about which it
says everything. `Loose` adds what is needed: if only one cell was changed by hand, the game is that of the log but for this
cell's way, and if only one base, but for that base. A recording that overrides the cell's whole way, or that base, then makes the
two equal again, whatever they were (`OverridesAgree`, `TappedOnly`, `ReasonsAgree`). That a handler which dispatches keeps `Told` is the
equation of `ComputeStateFromLog` for one more entry (`StateGrows`); an UNDO recomputes. One lemma per handler says
what it dispatches (`Plain`), what it copies and what it leaves of the overlay.

*The cell is shown.* `CellIsShown` speaks of a scorer for whom nothing waits, so an invariant has to say what holds while something does. `Shows`
says it: a cell the game has no event of is shown empty, unless a handler of this overlay waits that will copy it (`OwnSyncs`); a cell with an event is shown as it
is, unless anything waits that copies it, another device's action included (`Syncs`). The last continuation to run then copies the newest event, in
whatever order they were started. The second half is `Elsewhere`: the runners whose advances are asked for stand in other cells than the open one, so
that a batch of runner actions, which is recorded without a copy, leaves the open cell alone (`BatchElsewhere`).
`RemoteKeepsCells` is needed: TLC found that a play moved out of the open cell by another device leaves the overlay with its copy, since
the continuation copies only an event that is there (`AfterRemote`), and closing the runner menu records that copy's way in the cell that was left.

*The runners are on base.* `Lists` says of a list that is shown: its runners are those on base, unless another device's action is in the log or a
continuation waits that will leave the list (`Closing`). A handler hides the list, makes it anew from the runners on base, waits to leave it, or keeps it. The last
is what could go wrong, since the pitcher, a player or the batter can be changed while it is shown: `SameRunners` shows that who is on base depends only on the columns, the
size of the lineup and the events of the other batters, so neither a corrected player nor a substitution in the open cell moves anybody (`SubstitutionRunners`). A dropped
strike recorded while an earlier save waits can bring the list up late, or close it; `ResumeLists` covers each order.

TLC checked the invariants on the instance of `scorebook` first. `GetRunnersOnBase`, the folds of the reducer and the redo stack
are recursive functions for these proofs, since tlapm cannot open the community modules' folds and `SelectSeq`.

Model-checked only: `TypeOK`, `PlaysAreTold` and `ScoresAgree`. `TypeOK` needs, for every
action type, what the reducer does to each field of each event, and its bound on the numbers of outs is one of what the overlay sends: an advance sequenced
`RunnersFirst` counts from the batter's out on without a cap (`MoveRunner`), and the overlay asks for one only when
`bipState.res` is `DP` or `TP` (`AppController.js:4460`), results its buttons do not offer (`csoManager.js:231`). The others compare
recursive computations over whole logs, games or histories, where induction over data would be needed.

## 6. The browser

### Modules

`Access` (who may read and write), `Search` (texts as sequences of atoms; both parsers, the writer,
the panels, matching of local records) are pure. `Library` holds what screens share:

| variable | stands for |
|---|---|
| `db` | the IndexedDB stores; a game is its log of edits, owner and dirty flag, a team one version |
| `srv`, `live` | the server's copies, tombstones included, and the user's session there: open, expired, or barred by the policy |
| `user`, `offline` | `auth.currentUser`, `sync.isServerUnreachable` |
| `calls` | the suspended async functions: where each goes on, what it holds, what it awaits, the answer |
| `held` | history: what the server has ever had of each item |
| `left` | the bounds |

An async function is a chain of actions, one per stretch between two awaits, named for the
stretch; the entry in `calls` carries its local variables, so that what is read before an await
and used after it is as stale in the model as in the page. Requests are answered
in any order or lost before or after they take effect, other users edit, create, delete
and revoke, sessions end. Transactions take effect in the order in which they are issued and their
waiters go on in that order. IndexedDB promises this of transactions on the same store only; waiters
of different stores overtaking each other are not modelled.

| module | code |
|---|---|
| `Dashboard` | the list of games: local and remote stream, merge, paging, search, deletions; `syncGame`, `deleteGame` |
| `GameScreen` | `loadGameForView` (local record, download, permissions, `hasReadAccess`), `dispatch`, the `saveState` queue, `createGame`, an acknowledgement that marks the game clean |
| `TeamsScreen` | the list of teams with its automatic uploads, a team's page, the dialog with members and owner |
| `Session` | `init`, `checkStatus`, login and logout, adoption, the demo game, wiping; a reload at any moment |
| `Backup` | the stream of a backup while the application goes on; scanning, choosing and restoring, damaged lines included |
| `Lineup` | the lineup dialog: state and rows, typing, dragging, re-rendering, saving, while others substitute |
| `Browser` | all of them together, and the properties |

### Run

`browser`: two games, the demo game and a team, pages and limits of one or two rows; 274 376 states, all properties
hold. The bounds are the 22 *itineraries* of `MCBrowser`: each begins in one of five worlds
(in step with the server; edited away from it where things have been deleted; a new user; a new device with a backup
file; nobody signed in) and says in which parts the user clicks, how often, where to, and how many
edits, actions of others and faults may happen - one or two of each. A click starts functions of many
stretches, and the page has its own under way: one click or two, with a failure or an edit of another user between any of their
stretches, make two functions of a screen overlap in every order, which is what the properties are about.

| property | says |
|---|---|
| `CleanIsOnServer` | a clean record is content the server has had, unless it was changed while an upload of it was under way |
| `UnsyncedIsKept` | what the server has never heard of leaves the browser only at a click |
| `ListIsRight` | once nothing is under way the list is the matching local games up to its limit, unsaved ones marked |
| `SpinnersEnd` | behind everything that spins there is a function under way |
| `Adopted` | once the page runs for a user, nothing but backups and the demo is still anonymous |
| `ShownAsAllowed` | a game shown is one the user may read, and read-only exactly for those who may not write |
| `BackupIsComplete`, `RestoredAreThere` | no item is missing because of another's failure |
| `QueryShowsInPanel`, `ParsersAgree` | the panel reads back what it wrote; browser and server understand a query alike |
| `SavedAsShown`, `SlotsKeepHistory` | a lineup is saved as the rows stand, and a slot keeps its record of players |

No fairness is assumed. That lists and uploads end is stated as `SpinnersEnd`: something is
under way, and each function is a finite chain whose requests the browser answers or fails; a function that
forgets its flag is what it would catch.

### What the properties had to leave out

Modelling met behaviour that the properties above are phrased around. No run shows it; each is at its line:

- `markClean` after an awaited upload or an acknowledgement marks whatever the record has become
  (`AppController.js:1564`, `syncManager.js:583`, `TeamController.js:519`): hence `raced` in `CleanIsOnServer`.
- A row shown `remote_only` before the local records are read pulls the server's copy over unsaved plays when it is clicked
  (`AppController.js:1527`). A game that comes twice because pages shift hides its dirty flag
  (`DashboardController.js:250`): hence `Once` in `ListIsRight`.
- Items the server has had are purged locally once deleted there, dirty or not (`DashboardController.js:217`): `UnsyncedIsKept`
  speaks of items it never had.
- A team is uploaded on sight, before the remote list has arrived, also over a newer copy (`TeamController.js:456`).
- A deleted game is served as a tombstone to its owner and comes back as a new, dirty game
  (`ActiveGameController.js:186`).
- The remote half of a backup does nothing: `fetchGameList` returns an object, and the code calls `forEach` on it
  (`backupManager.js:269`). Games shared by permission alone are skipped (`backupManager.js:94`).
- Ticking a box while a restore runs enables the button again, and the restore reads the set it ticks (`AppController.js:4880`).
- A second unquoted colon, a quote in a range and a third end are read differently by the two parsers: hence
  `Contested` in `ParsersAgree`.
- A substitute dragged among the starters while playing in another slot bats twice (`lineupManager.js:238`); dragging
  re-renders the rows and loses what was typed in them.

### Proofs (`Browser_proofs`, `Library_proofs`)

| theorem | says |
|---|---|
| `NothingSpinsAlone` | `Spec => []SpinnersEnd` |
| `NothingUnsyncedIsLost` | `Spec => UnsyncedIsKept` |
| `LineupsAreSavedAsShown` | `Spec => SavedAsShown` |
| `SlotsKeepTheirHistory` | `Spec => SlotsKeepHistory` |

They hold for every library, page size and list limit, every itinerary, and every answer, loss and order of answers.
The assumptions are those of the modules: `OrdersAssumption`, the lists the server answers with are lists of games and
of teams; `LimitsAssumption`, limits are numbers; `ItinerariesAssumption`, the world an itinerary begins in has stores and
server copies with the fields the code gives them, and a number of clicks; and, for the lineups, `LineupAssumption`: nobody is
twice in the team, or twice among the starters and the bench a game begins with (two slices of one roster, and fresh ids,
`AppController.js:2826`). TLC evaluates all four.

The invariant of the first is `SpinInv`: the flag of a stream is set only while a function
stands at that stream's stage; a row marked as being sent has a function that sends that very team; a page that starts stands
at one of the stages `BootStages` from which a screen is always reached. `SpinnersEnd` alone is not inductive: `calls # <<>>` does not say that what is
left goes on to a screen, since a function that ends there could be any other. The lemmas are about the list of suspended
functions (what `GoOn` takes out and puts in keeps the others, `Remaining`, `GoesOnAs`, `Finishes`, `Starts`), then one per handler.
A function that takes over a flag from another one still under way - a list restarted by a search or a scroll - is where the argument
is: the flag stays true because the newcomer stands at the same stage. TLC checked `SpinInv` on the instance of `browser` first.

`UnsyncedIsKept` is an action property, and what it says of one step is not true of any state: a purge (`GoneAnswered`) removes
whatever the answer names, and that answer was given several steps earlier, to a question asked before that. `KeptInv`
adds what makes it true: an answered question about deleted items names only games of which the server has a copy *now*
(`GoneCalls`). It is kept because the server answers about copies it has (`CheckDeletions`), and whatever is done to a copy
afterwards - an upload, an edit, a revoked share, a deletion, delete-all - leaves one there, if only a tombstone (`Keeps`,
`EffectKeeps`, `WorldKeeps`). On the browser's side every other handler writes one of the five forms of `WritesDown`, which
remove no game (`WrittenKeeps`), or runs at a click (`ClickKeeps`). The argument needs `SpinInv` for the shape of `calls`. A page
that is loaded anew forgets all questions, and the requests in the air may still reach the server (`LoadKeeps`). TLC checked
`KeptInv` on the instance of `browser` first.

The two lineup theorems are about what one dialog and the other scorers do to one sheet, for every roster, bench, team and
number of starters. Both rest on the uniqueness of ids, which `LineupInv` carries through the whole life of the dialog: in the sheet,
in what the dialog read of it, in its lists and in the rows on the page, every id comes once among starters and substitutes together
and is below the next fresh one (`IsLists`), and lists and rows are as long as each other, so that a row dragged is one the lists have.
What is saved cannot be seen from the sheet: the lists are filled with the team's players who were missing when the sheet was
read (`InitialLists`), rows move between the lists (`ListsLess`, `ListsMore`, `Moved`), and a rendering discards what the page had.
With it, a slot is found by its starter's id (`SavedSlotIs`) and is the only one found, in the sheet as it is at SAVE, not as it was read: substitutions made meanwhile
stay. The filters are `Among`, a recursive function; that it returns only members of its list, and nothing twice
(`AmongIs`), is proved by induction over its prefixes. TLC checked `LineupInv` on the instance of `browser` first.

Model-checked only:
- `CleanIsOnServer`. A record acknowledged over the socket is clean because the queue was empty and the log of the screen was
  whole at that moment; to prove it needs the socket's history carried through screens, reloads and reconnections.
- `ListIsRight`, `Adopted`, `BackupIsComplete` are about what filters and folds over rows and records
  give; tlapm cannot open `SelectSeq`, and facts about folds need induction over data. So do `QueryShowsInPanel` and `ParsersAgree`, whose
  parsers are recursive functions.
- `ShownAsAllowed` and `RestoredAreThere` are true of the itineraries and not of every mixture of them: a game deleted while it is
  open, or a team purged under a running restore, is beyond what they say.

## 7. Not modelled

- *Registry and indices, TeamStore's files, the team hub*: their part in what the API answers is in `Library`; the stores on the
  FSM and delete-all beside game jobs are open (section 2). `/api/delete-game` and `/api/delete-team` write the node's own
  store and do not go through Raft (`server.go:1311`); in `Library` there is one server, so this does not show.
- *Membership, forwarding, key ring, restore of a received snapshot*: open. Most of membership is hashicorp/raft's; the key
  ring decides from raft's stored entries, which no module models.
- *Monitoring, token checks, middleware, cluster and admin calls*: no property of a game depends on them.
- *Statistics screens, drawing, printing, sharing dialog, service worker, manual viewer*: presentation of what other modules
  compute. The URL router appears as the links a user may follow.
- *Texts*: names, templates, icons, averages, hit locations.
- *Several tabs of one browser*: a second tab is another user of the server, not of the same IndexedDB.

## 8. Running

    tlc -config replica.cfg MCGameFSM.tla         # also replica_races, persist_race, batch_delete
    tlc -config sync_writer.cfg MCGameSync.tla    # also sync_faults, sync_resolve, sync_lost, sync_stuck
    tlc -config scorebook.cfg MCScorer.tla        # also feed
    tlc -config browser.cfg MCBrowser.tla
    tlapm GameFSM_proofs.tla      # also ActionLog_proofs, GameHistory_proofs, GameSync_proofs,
                                  # Watcher_proofs, Scorer_proofs, Browser_proofs, Library_proofs

Definitions whose comment starts with "Mutant" are deliberately wrong variants of the definition they
precede: put in its place, each makes a named property fail (`PROJECT.json`, "mutants").
The bounds are `MaxLog`, `MaxBatch`, `MaxCrash` (`GameFSM`) and `MaxDrop`, `MaxFail`, `MaxReload`, `MaxFaults`
(`GameSync`), `MaxTaps`, `MaxWaiting`, `MaxLoose` (`Scorer`), `MaxEdits`, `MaxShown` and the
itineraries (`Browser`); `MaxScan`, `QueueCap`, `BatchSize` and `MaxRetries` are parameters of the code with small values.
Deadlock is not checked: a system whose users have finished and that has nothing to send may stop.
