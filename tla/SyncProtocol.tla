---------------------------- MODULE SyncProtocol ----------------------------
(***************************************************************************)
(* What the browsers and the hub of one game exchange: JOIN and its answer *)
(* and broadcasts over a WebSocket, actions and whole documents over HTTP. *)
(* A revision is the id of the last action of a log.                        *)
(***************************************************************************)
EXTENDS ActionLog, SequencesExt

CONSTANTS
    Client,
    Start,      \* the GAME_START every log begins with
    NoRev       \* the revision of an empty log

ASSUME SyncProtocolAssumption ==
    /\ Start \in Action
    /\ NoRev \notin Action

VARIABLES
    ws,         \* messages on their way to a client over its WebSocket
    up,         \* the revision of a JOIN on its way to the server, if any
    http        \* per client and kind of request, what became of the request

net == <<ws, up, http>>

Rev == Action \cup {NoRev}

\* getCurrentRevision, and lastAction.id in the browser.
Revision(log) == IF log = <<>> THEN NoRev ELSE Last(log)

\* The position of an action; a log holds no id twice.
IndexOf(log, a) == SelectInSeq(log, LAMBDA b : b = a)

After(log, a) == SubSeq(log, IndexOf(log, a) + 1, Len(log))

Ack           == [type |-> "ACK"]
ActionMsg(a)  == [type |-> "ACTION", action |-> a]
SyncUpdate(s) == [type |-> "SYNC_UPDATE", actions |-> s]
Conflict(r)   == [type |-> "CONFLICT", base |-> r]
Busy          == [type |-> "429"]
Document(log) == [type |-> "GAME", log |-> log]
Saved         == [type |-> "SAVED"]

WsMsg == {Ack} \cup [type : {"ACTION"}, action : Action]
               \cup [type : {"SYNC_UPDATE"}, actions : Seq(Action)]
               \cup [type : {"CONFLICT"}, base : Rev]

\* A request is still with the client or in the network, or with the server
\* (in the hub's channel or in Propose), or answered.
Unsent == [type |-> "unsent"]
Taken  == [type |-> "taken"]

HttpState == {Unsent, Taken, Ack, Busy, Saved}
    \cup [type : {"CONFLICT"}, base : Rev]
    \cup [type : {"GAME"}, log : Seq(Action)]

\* POST /api/action, and the /api/load or /api/save of a conflict's resolution.
Kind == {"action", "document"}

NetTypeOK ==
    /\ ws \in [Client -> Seq(WsMsg)]
    /\ up \in [Client -> Seq(Rev)]
    /\ http \in [Client -> [Kind -> HttpState]]

NetInit ==
    /\ ws = [c \in Client |-> <<>>]
    /\ up = [c \in Client |-> <<>>]
    /\ http = [c \in Client |-> [k \in Kind |-> Unsent]]

=============================================================================
