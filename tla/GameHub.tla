------------------------------ MODULE GameHub ------------------------------
(***************************************************************************)
(* The hub of one game on the leader (backend/websocket.go): a goroutine  *)
(* that takes requests from a bounded channel, decides on a client's base *)
(* revision whether its actions continue the game, proposes them to Raft, *)
(* and passes the FSM's broadcasts on to the clients registered with it.  *)
(* Everything the hub proposes is committed and applied (store); while it *)
(* waits in Propose, other requests fill its channel.                      *)
(***************************************************************************)
EXTENDS SyncProtocol

CONSTANTS
    QueueCap,    \* capacity of the request channel (64 in the code)
    NotLoaded    \* gameData = nil

ASSUME GameHubAssumption == QueueCap \in Nat \ {0}

VARIABLES
    store,       \* the log in the GameStore of the leader
    gameData,    \* the hub's copy of it
    requests,    \* the request channel
    proposing,   \* the request whose command is in Raft, if any
    members,     \* the clients registered
    committed    \* history: every action that was ever in the store

hubVars == <<store, gameData, requests, proposing, members, committed>>

Nothing == [type |-> "none"]

\* live: the WebSocket or the HTTP call the request came by still exists.
Request ==
    [type : {"join"}, client : Client, base : Rev, live : BOOLEAN]
        \cup [type : {"action"}, client : Client, base : Rev,
              acts : Seq(Action), live : BOOLEAN]
        \cup [type : {"load"}, client : Client, live : BOOLEAN]
        \cup [type : {"save"}, client : Client, log : Seq(Action), live : BOOLEAN]
        \cup [type : {"broadcast"}, log : Seq(Action), num : Nat]

HubTypeOK ==
    /\ store \in Seq(Action)
    /\ gameData \in Seq(Action) \cup {NotLoaded}
    /\ requests \in Seq(Request) /\ Len(requests) <= QueueCap
    /\ proposing \in Request \cup {Nothing}
    /\ members \subseteq Client
    /\ committed \subseteq Action

HubInit ==
    /\ store = <<Start>>
    /\ gameData = NotLoaded
    /\ requests = <<>>
    /\ proposing = Nothing
    /\ members = {}
    /\ committed = {Start}

-----------------------------------------------------------------------------
(* The channel.                                                            *)

\* Mutant: one request too many.
HasRoomLate == Len(requests) <= QueueCap

HasRoom == Len(requests) < QueueCap

Submit(r) == requests' = Append(requests, r)

\* The answer to a request, if anybody still waits for it.
Answer(r, kind, m) ==
    http' = IF r.live THEN [http EXCEPT ![r.client][kind] = m] ELSE http

\* The requests a closed connection or an abandoned call has left behind.
Orphaned(types, c) ==
    [i \in DOMAIN requests |->
        IF requests[i].type \in types /\ requests[i].client = c
        THEN [requests[i] EXCEPT !.live = FALSE]
        ELSE requests[i]]

\* The same for the request the hub is busy with.
OrphanedProposal(types, c) ==
    IF proposing.type \in types /\ proposing.client = c
    THEN [proposing EXCEPT !.live = FALSE]
    ELSE proposing

\* readPump passes a JOIN on; it waits while the channel is full.
ReadJoin(c) ==
    /\ up[c] # <<>>
    /\ c \in members
    /\ HasRoom
    /\ Submit([type |-> "join", client |-> c, base |-> Head(up[c]), live |-> TRUE])
    /\ up' = [up EXCEPT ![c] = Tail(@)]
    /\ UNCHANGED <<store, gameData, proposing, members, committed, ws, http>>

-----------------------------------------------------------------------------
(* run(): one request at a time; the game is loaded first if it is not.    *)

Loaded == IF gameData = NotLoaded THEN store ELSE gameData

Next1(type) ==
    /\ proposing = Nothing
    /\ requests # <<>>
    /\ Head(requests).type = type
    /\ requests' = Tail(requests)

\* What handleWSJoin says to a client whose last revision is rev.
JoinAnswer(log, rev) ==
    IF rev \in {NoRev, Revision(log)} THEN Ack
    ELSE IF Contains(log, rev) THEN SyncUpdate(After(log, rev))
    ELSE Conflict(Revision(log))

HubJoin ==
    LET r == Head(requests)
    IN  /\ Next1("join")
        /\ gameData' = Loaded
        /\ ws' = IF r.live /\ r.client \in members
                 THEN [ws EXCEPT ![r.client] = Append(@, JoinAnswer(Loaded, r.base))]
                 ELSE ws
        /\ UNCHANGED <<store, proposing, members, committed, up, http>>

\* The base revision is the log's head.
AtHead(r, log) == r.base = Revision(log)

\* Mutant: the last action of the batch is not compared.
OverlapsShort(r, log) ==
    LET rest == After(log, r.base)
    IN  \A i \in 1..Len(rest) : i < Len(r.acts) => rest[i] = r.acts[i]

\* The batch repeats what follows its base in the log, as far as both go.
Overlaps(r, log) ==
    LET rest == After(log, r.base)
    IN  \A i \in 1..Len(rest) : i <= Len(r.acts) => rest[i] = r.acts[i]

\* Mutant: a batch is taken for repeated that has one action more.
ExhaustedEarly(r, log) == IndexOf(log, r.base) + Len(r.acts) <= Len(log) + 1

\* All of the batch is in the log already.
Exhausted(r, log) == IndexOf(log, r.base) + Len(r.acts) <= Len(log)

\* processAction's decision on a batch against a log.
Verdict(r, log) ==
    CASE AtHead(r, log) -> "propose"
      [] ~AtHead(r, log) /\ r.base # NoRev /\ ~Contains(log, r.base) -> "conflict"
      [] ~AtHead(r, log) /\ (r.base = NoRev \/ Contains(log, r.base)) ->
            IF ~Overlaps(r, log) THEN "conflict"
            ELSE IF Exhausted(r, log) THEN "ack"
            ELSE "propose"

\* The hub's copy is trusted if the base is its head, and is reloaded if not.
HubAction ==
    LET r == Head(requests)
        log == IF AtHead(r, Loaded) THEN Loaded ELSE store
        verdict == Verdict(r, log)
    IN  /\ Next1("action")
        /\ gameData' = log
        /\ proposing' = IF verdict = "propose" THEN r ELSE Nothing
        /\ \/ verdict = "propose" /\ UNCHANGED http
           \/ verdict = "ack" /\ Answer(r, "action", Ack)
           \/ verdict = "conflict" /\ Answer(r, "action", Conflict(Revision(log)))
        /\ UNCHANGED <<store, members, committed, ws, up>>

\* The log after the FSM has applied a batch.
Extended(log, acts) ==
    AfterActions([Fresh EXCEPT !.log = log], acts)[Len(acts)].log

\* BroadcastToGame: a full channel drops the update.
Broadcasts(log, num) ==
    requests' = IF HasRoom
                THEN Append(requests, [type |-> "broadcast", log |-> log, num |-> num])
                ELSE requests

\* The FSM applies the batch and broadcasts it if it changed the game; then
\* Propose returns and the call is answered.
FSMAppliesAction ==
    LET r == proposing
        log == Extended(store, r.acts)
    IN  /\ r.type = "action"
        /\ store' = log
        /\ committed' = committed \cup ToSet(log)
        /\ IF log # store THEN Broadcasts(log, Len(r.acts)) ELSE UNCHANGED requests
        /\ Answer(r, "action", Ack)
        /\ proposing' = Nothing
        /\ UNCHANGED <<gameData, members, ws, up>>

\* handleHTTPSave proposes the document it got ...
HubSave ==
    /\ Next1("save")
    /\ gameData' = Loaded
    /\ proposing' = Head(requests)
    /\ UNCHANGED <<store, members, committed, net>>

\* ... which, forced, replaces the game; the broadcast only updates the hub.
FSMAppliesSave ==
    LET r == proposing
    IN  /\ r.type = "save"
        /\ store' = r.log
        /\ committed' = committed \cup ToSet(r.log)
        /\ Broadcasts(r.log, 0)
        /\ Answer(r, "document", Saved)
        /\ proposing' = Nothing
        /\ UNCHANGED <<gameData, members, ws, up>>

\* handleHTTPLoad answers with the hub's copy.
HubLoad ==
    /\ Next1("load")
    /\ gameData' = Loaded
    /\ Answer(Head(requests), "document", Document(Loaded))
    /\ UNCHANGED <<store, proposing, members, committed, ws, up>>

\* Mutant: only the last action of a batch is passed on.
BroadcastMsgsLast(r) == IF r.num = 0 THEN <<>> ELSE <<ActionMsg(Last(r.log))>>

\* The last num actions of the log, one message each.
BroadcastMsgs(r) ==
    LET n == IF r.num > Len(r.log) THEN Len(r.log) ELSE r.num
    IN  [i \in 1..n |-> ActionMsg(r.log[Len(r.log) - n + i])]

\* handleBroadcast: the hub takes the FSM's copy and passes the actions on.
HubBroadcast ==
    LET r == Head(requests)
    IN  /\ Next1("broadcast")
        /\ gameData' = r.log
        /\ ws' = [c \in Client |->
                    IF c \in members THEN ws[c] \o BroadcastMsgs(r) ELSE ws[c]]
        /\ UNCHANGED <<store, proposing, members, committed, up, http>>

\* The ticker finds a hub without clients: its copy and its channel are gone.
HubIdles ==
    /\ proposing = Nothing
    /\ members = {}
    /\ gameData # NotLoaded
    /\ gameData' = NotLoaded
    /\ requests' = <<>>
    /\ UNCHANGED <<store, proposing, members, committed, net>>

HubRuns == HubJoin \/ HubAction \/ HubSave \/ HubLoad \/ HubBroadcast

FSMApplies == FSMAppliesAction \/ FSMAppliesSave

=============================================================================
