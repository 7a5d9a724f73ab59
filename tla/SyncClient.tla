----------------------------- MODULE SyncClient -----------------------------
(***************************************************************************)
(* One browser with the game open: the log it shows, the queue of actions *)
(* it has yet to send and the state machine around them (syncManager.js), *)
(* how it takes part in a conflict (AppController.js) and how a user's    *)
(* action gets into both (ActiveGameController.js).                        *)
(*                                                                         *)
(* JavaScript runs each handler to its first await: a handler is an       *)
(* operator from the session before to the session after it, and the      *)
(* calls the handlers make of one another are calls of these operators.   *)
(***************************************************************************)
EXTENDS SyncProtocol

CONSTANTS
    BatchSize,   \* most actions in one POST (100 in the code)
    MaxRetries   \* failed POSTs after which the client gives up (5)

ASSUME SyncClientAssumption ==
    BatchSize \in Nat \ {0} /\ MaxRetries \in Nat

VARIABLE client

Queued == [act : Action, base : Rev]

\* currentStatus; what is neither of the first two is one value here.
SyncStatus == {"synced", "conflict", "unsynced"}

Session ==
    [log        : Seq(Action),   \* activeGame.actionLog
     saving     : Seq(Action),   \* in the log, before the end of saveState()
     queue      : Seq(Queued),   \* httpQueue
     flight     : Seq(Queued),   \* the batch whose POST is awaited
     draining   : BOOLEAN,       \* isHttpDraining
     stale      : BOOLEAN,       \* queueGeneration has moved on since that POST
     retries    : Nat,           \* httpRetryCount
     timer      : BOOLEAN,       \* a retry is scheduled
     last       : Rev,           \* lastRevision
     pending    : SUBSET Action, \* pendingActionIds
     connected  : BOOLEAN,       \* isConnected
     reconnect  : BOOLEAN,       \* shouldReconnect
     syncing    : BOOLEAN,       \* isSyncingHistory
     status     : SyncStatus,
     modal      : BOOLEAN,       \* pendingConflictMsg, and its dialog
     resolving  : BOOLEAN,       \* isResolvingConflict
     form       : {"none", "load", "save"}] \* the dialog's request

ClientTypeOK == client \in [Client -> Session]

\* A page that has just loaded the game from its database.
Opened(log) ==
    [log |-> log, saving |-> <<>>, queue |-> <<>>, flight |-> <<>>,
     draining |-> FALSE, stale |-> FALSE, retries |-> 0, timer |-> FALSE,
     last |-> Revision(log), pending |-> {}, connected |-> FALSE,
     reconnect |-> TRUE, syncing |-> FALSE, status |-> "unsynced",
     modal |-> FALSE, resolving |-> FALSE, form |-> "none"]

ClientInit == client = [c \in Client |-> Opened(<<Start>>)]

-----------------------------------------------------------------------------
(* The HTTP queue.                                                         *)

Least(m, n) == IF m < n THEN m ELSE n

\* processHttpQueue up to its fetch.  Too many failures end the session's
\* sync, with the batch taken off the queue and isHttpDraining still set.
ProcessQueue(k) ==
    LET n == Least(Len(k.queue), BatchSize)
        rest == SubSeq(k.queue, n + 1, Len(k.queue))
    IN  CASE k.syncing \/ k.draining \/ ~k.connected \/ k.queue = <<>> -> k
          [] OTHER ->
                IF k.retries > MaxRetries
                THEN [k EXCEPT !.queue = rest, !.draining = TRUE,
                               !.connected = FALSE, !.reconnect = FALSE]
                ELSE [k EXCEPT !.queue = rest, !.draining = TRUE,
                               !.flight = SubSeq(k.queue, 1, n),
                               !.stale = FALSE]

Enqueue(k, msg) == ProcessQueue([k EXCEPT !.queue = Append(@, msg)])

\* sendAction, when the oldest saveState() has finished.
SendAction(k) ==
    LET a == Head(k.saving)
    IN  Enqueue([k EXCEPT !.saving = Tail(@),
                          !.pending = @ \cup {a},
                          !.last = a],
                [act |-> a, base |-> k.last])

\* resolveFastForward: the queue is replaced by the actions the server lacks;
\* an awaited answer becomes stale.
FastForward(k, base, acts) ==
    LET msgs == [i \in 1..Len(acts) |->
                   [act |-> acts[i], base |-> IF i = 1 THEN base ELSE acts[i - 1]]]
        first == Enqueue([k EXCEPT !.queue = <<>>,
                                   !.stale = TRUE,
                                   !.pending = @ \cup ToSet(acts),
                                   !.last = Last(acts)],
                         Head(msgs))
    IN  [first EXCEPT !.queue = @ \o Tail(msgs)]

-----------------------------------------------------------------------------
(* Messages, from the WebSocket or in the body of an answer.               *)

\* Mutant: a remote action is taken whether the log has it or not.
DispatchedAlways(log, a) == Append(log, a)

\* dispatch of a remote action.
Dispatched(log, a) == IF Contains(log, a) THEN log ELSE Append(log, a)

HandleAck(k) ==
    ProcessQueue([k EXCEPT !.syncing = FALSE,
                           !.status = IF k.pending = {} THEN "synced" ELSE @])

\* A broadcast: the echo of an action of one's own, or another client's.
HandleAction(k, a) ==
    LET pending == k.pending \ {a}
    IN  [k EXCEPT !.pending = pending,
                  !.last = IF pending = {} THEN a ELSE @,
                  !.log = IF a \in k.pending THEN @ ELSE Dispatched(@, a),
                  !.status = IF pending = {} THEN "synced" ELSE @]

CatchUp(k, a) ==
    LET pending == k.pending \ {a}
    IN  [k EXCEPT !.pending = pending,
                  !.last = IF pending = {} THEN a ELSE @,
                  !.log = Dispatched(@, a)]

\* The session after each of the missing actions.
CaughtUp(k, acts) ==
    LET after[i \in 0..Len(acts)] ==
            IF i = 0 THEN k ELSE CatchUp(after[i - 1], acts[i])
    IN  after

HandleSyncUpdate(k, acts) ==
    ProcessQueue([CaughtUp(k, acts)[Len(acts)] EXCEPT !.syncing = FALSE,
                                                      !.status = "synced"])

\* handleSyncConflict: what follows the server's head in the log is sent
\* again; a head the log ends with needs nothing; any other asks the user.
HandleConflict(k, base) ==
    LET told == [k EXCEPT !.syncing = FALSE, !.status = "conflict"]
        ahead == After(k.log, base)
    IN  CASE k.form = "load" \/ k.modal \/ k.resolving -> told
          [] OTHER ->
                IF ~Contains(k.log, base) /\ (base # NoRev \/ k.log = <<>>)
                THEN [told EXCEPT !.modal = TRUE]
                ELSE IF ahead = <<>>
                THEN [told EXCEPT !.last = base, !.status = "synced"]
                ELSE FastForward([told EXCEPT !.resolving = TRUE], base, ahead)

HandleMessage(k, m) ==
    CASE m.type = "ACK"         -> HandleAck(k)
      [] m.type = "ACTION"      -> HandleAction(k, m.action)
      [] m.type = "SYNC_UPDATE" -> HandleSyncUpdate(k, m.actions)
      [] m.type = "CONFLICT"    -> HandleConflict(k, m.base)

-----------------------------------------------------------------------------
(* processHttpQueue after its fetch.                                       *)

Landed(k) == [k EXCEPT !.flight = <<>>]

\* Mutant: behind what was queued in the meantime.
PutBackLast(k) ==
    [k EXCEPT !.flight = <<>>, !.queue = @ \o k.flight,
              !.draining = FALSE, !.timer = TRUE]

\* The batch is put back in front of the queue.
PutBack(k) ==
    [k EXCEPT !.flight = <<>>, !.queue = k.flight \o @,
              !.draining = FALSE, !.timer = TRUE]

\* An answer that has become stale is dropped, and so is what the finally
\* block does for an answer that became stale while it was handled.
HttpAnswer(k, m) ==
    LET handled == [HandleMessage(Landed(k), m) EXCEPT !.retries = 0]
    IN  IF k.stale THEN Landed(k)
        ELSE IF m = Busy THEN PutBack(k)
        ELSE IF handled.stale THEN handled
        ELSE ProcessQueue([handled EXCEPT !.draining = FALSE])

HttpError(k) ==
    IF k.stale THEN Landed(k)
    ELSE [PutBack(k) EXCEPT !.retries = @ + 1, !.status = "unsynced"]

RetryTimer(k) == ProcessQueue([k EXCEPT !.timer = FALSE])

\* The 100 ms after a fast-forward are over.
Resume(k) == ProcessQueue([k EXCEPT !.resolving = FALSE])

-----------------------------------------------------------------------------
(* The connection.                                                         *)

SocketOpens(k) ==
    [k EXCEPT !.connected = TRUE, !.syncing = TRUE, !.status = "unsynced"]

\* The revision to JOIN with: before the actions still in the queue.
JoinRevision(k) ==
    IF k.queue # <<>> /\ Head(k.queue).base # NoRev
    THEN Head(k.queue).base
    ELSE k.last

SocketCloses(k) == [k EXCEPT !.connected = FALSE, !.status = "unsynced"]

-----------------------------------------------------------------------------
(* The user: an action, a new page, the three ways out of a conflict.      *)

Act(k, a) == [k EXCEPT !.log = Append(@, a), !.saving = Append(@, a)]

\* The logs the browser's database may hold: all but what is being saved.
Stored(k) ==
    {log \in Prefixes(k.log) :
        \A a \in ToSet(k.log) \ ToSet(log) :
            \E b \in ToSet(k.saving) : IndexOf(k.log, b) \in 1..IndexOf(k.log, a)}

\* resolveConflictOverwrite: fetch the server's game ...
BeginOverwrite(k) ==
    [k EXCEPT !.connected = FALSE, !.modal = FALSE, !.form = "load"]

\* ... and take it; the HTTP queue stays.
Overwrite(k, log) ==
    [k EXCEPT !.log = log, !.last = Revision(log), !.pending = {},
              !.form = "none", !.status = "unsynced"]

\* resolveConflictForceSave: put one's own game on the server.
BeginForceSave(k) == [k EXCEPT !.connected = FALSE, !.form = "save"]

ForceSaved(k) ==
    [k EXCEPT !.last = Revision(k.log), !.pending = {}, !.modal = FALSE,
              !.form = "none", !.status = "unsynced"]

\* Either request fails: reconnect, a save's dialog stays open.
FormFails(k) == [k EXCEPT !.form = "none", !.status = "unsynced"]

\* resolveConflictFork: the user goes on with a copy of the game.
Fork(k) ==
    [k EXCEPT !.connected = FALSE, !.reconnect = FALSE, !.last = NoRev,
              !.modal = FALSE]

=============================================================================
