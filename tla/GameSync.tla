------------------------------ MODULE GameSync ------------------------------
(***************************************************************************)
(* Browsers and the hub of one game together: every WebSocket message,    *)
(* HTTP call, timer, lost connection and lost call is a step of its own.  *)
(***************************************************************************)
EXTENDS GameHub, SyncClient

CONSTANTS
    Own,        \* the actions each client's user makes, in order
    MaxDrop,    \* bound: WebSocket connections lost
    MaxFail,    \* bound: HTTP calls lost
    MaxReload,  \* bound: pages reloaded
    MaxFaults,  \* bound: all of these together
    CanIdle,    \* TRUE: the hub's idle ticker may fire
    CanResolve, \* the ways out of a conflict the users take
    ActEarly    \* FALSE: the users wait until every browser has joined

Resolutions == {"overwrite", "force", "fork"}

ASSUME GameSyncAssumption ==
    /\ Own \in [Client -> Seq(Action \ {Start})]
    /\ {MaxDrop, MaxFail, MaxReload, MaxFaults} \subseteq Nat
    /\ CanIdle \in BOOLEAN
    /\ CanResolve \subseteq Resolutions
    /\ ActEarly \in BOOLEAN

VARIABLES
    made,      \* how many of its actions each client's user has made
    faults     \* how many connections, calls and pages were lost

vars == <<net, hubVars, client, made, faults>>

FaultBound == [drop |-> MaxDrop, fail |-> MaxFail, reload |-> MaxReload]

TypeOK ==
    /\ NetTypeOK
    /\ HubTypeOK
    /\ ClientTypeOK
    /\ made \in [Client -> Nat]
    /\ \A c \in Client : made[c] <= Len(Own[c])
    /\ faults \in [DOMAIN FaultBound -> Nat]
    /\ \A c \in Client : c \in members <=> client[c].connected

Init ==
    /\ NetInit
    /\ HubInit
    /\ ClientInit
    /\ made = [c \in Client |-> 0]
    /\ faults = [f \in DOMAIN FaultBound |-> 0]

-----------------------------------------------------------------------------
(* A step of the browser, and what it means for its connection.            *)

\* c's session becomes k; inbox is what its WebSocket still holds.  If the
\* session closes its connection, the hub forgets it and what came by it.
Session1(c, k, inbox) ==
    LET closed == client[c].connected /\ ~k.connected
    IN  /\ client' = [client EXCEPT ![c] = k]
        /\ ws' = [ws EXCEPT ![c] = IF closed THEN <<>> ELSE inbox]
        /\ up' = IF closed THEN [up EXCEPT ![c] = <<>>] ELSE up
        /\ members' = IF closed THEN members \ {c} ELSE members
        /\ requests' = IF closed THEN Orphaned({"join"}, c) ELSE requests

Steps(c, k) == Session1(c, k, ws[c])

quiet == <<store, gameData, proposing, committed>>

Fault(f) ==
    /\ faults[f] < FaultBound[f]
    /\ SumFunction(faults) < MaxFaults
    /\ faults' = [faults EXCEPT ![f] = @ + 1]

Joined(k) == k.connected /\ ~k.syncing

UserActs(c) ==
    /\ made[c] < Len(Own[c])
    /\ ~client[c].modal
    /\ ActEarly \/ \A d \in Client : Joined(client[d])
    /\ Steps(c, Act(client[c], Own[c][made[c] + 1]))
    /\ made' = [made EXCEPT ![c] = @ + 1]
    /\ UNCHANGED <<quiet, http, faults>>

ActionSaved(c) ==
    /\ client[c].saving # <<>>
    /\ Steps(c, SendAction(client[c]))
    /\ UNCHANGED <<quiet, http, made, faults>>

Receive(c) ==
    /\ ws[c] # <<>>
    /\ Session1(c, HandleMessage(client[c], Head(ws[c])), Tail(ws[c]))
    /\ UNCHANGED <<quiet, http, made, faults>>

RetryFires(c) ==
    /\ client[c].timer
    /\ Steps(c, RetryTimer(client[c]))
    /\ UNCHANGED <<quiet, http, made, faults>>

ResolvingEnds(c) ==
    /\ client[c].resolving
    /\ Steps(c, Resume(client[c]))
    /\ UNCHANGED <<quiet, http, made, faults>>

\* connect() to onopen: ServeWS registers the client, which sends its JOIN.
Connects(c) ==
    /\ ~client[c].connected /\ client[c].reconnect /\ client[c].form = "none"
    /\ client' = [client EXCEPT ![c] = SocketOpens(@)]
    /\ up' = [up EXCEPT ![c] = <<JoinRevision(client[c])>>]
    /\ members' = members \cup {c}
    /\ UNCHANGED <<quiet, requests, ws, http, made, faults>>

Drops(c) ==
    /\ client[c].connected
    /\ Fault("drop")
    /\ Steps(c, SocketCloses(client[c]))
    /\ UNCHANGED <<quiet, http, made>>

-----------------------------------------------------------------------------
(* HTTP.                                                                   *)

\* The handler of /api/action: into the hub's channel, or 429.
PostArrives(c) ==
    LET batch == client[c].flight
    IN  /\ batch # <<>>
        /\ http[c]["action"] = Unsent
        /\ IF HasRoom
           THEN /\ Submit([type |-> "action", client |-> c, base |-> batch[1].base,
                           acts |-> [i \in 1..Len(batch) |-> batch[i].act],
                           live |-> TRUE])
                /\ http' = [http EXCEPT ![c]["action"] = Taken]
           ELSE /\ http' = [http EXCEPT ![c]["action"] = Busy]
                /\ UNCHANGED requests
        /\ UNCHANGED <<quiet, members, ws, up, client, made, faults>>

PostAnswered(c) ==
    /\ http[c]["action"] \notin {Unsent, Taken}
    /\ Steps(c, HttpAnswer(client[c], http[c]["action"]))
    /\ http' = [http EXCEPT ![c]["action"] = Unsent]
    /\ UNCHANGED <<quiet, made, faults>>

\* The call is lost on its way, in the hub's channel or on its way back; the
\* hub does not notice.
PostFails(c) ==
    /\ client[c].flight # <<>>
    /\ Fault("fail")
    /\ client' = [client EXCEPT ![c] = HttpError(@)]
    /\ http' = [http EXCEPT ![c]["action"] = Unsent]
    /\ requests' = Orphaned({"action"}, c)
    /\ proposing' = OrphanedProposal({"action"}, c)
    /\ UNCHANGED <<store, gameData, committed, members, ws, up, made>>

\* The handlers of /api/load and /api/save.
FormArrives(c) ==
    /\ client[c].form # "none"
    /\ http[c]["document"] = Unsent
    /\ IF HasRoom
       THEN /\ Submit(IF client[c].form = "load"
                      THEN [type |-> "load", client |-> c, live |-> TRUE]
                      ELSE [type |-> "save", client |-> c, log |-> client[c].log,
                            live |-> TRUE])
            /\ http' = [http EXCEPT ![c]["document"] = Taken]
       ELSE /\ http' = [http EXCEPT ![c]["document"] = Busy]
            /\ UNCHANGED requests
    /\ UNCHANGED <<quiet, members, ws, up, client, made, faults>>

FormAnswered(c) ==
    LET m == http[c]["document"]
    IN  /\ m \notin {Unsent, Taken}
        /\ \/ m.type = "GAME"  /\ Steps(c, Overwrite(client[c], m.log))
           \/ m.type = "SAVED" /\ Steps(c, ForceSaved(client[c]))
           \/ m.type = "429"   /\ Steps(c, FormFails(client[c]))
        /\ http' = [http EXCEPT ![c]["document"] = Unsent]
        /\ UNCHANGED <<quiet, made, faults>>

FormLost(c) ==
    /\ client[c].form # "none"
    /\ Fault("fail")
    /\ client' = [client EXCEPT ![c] = FormFails(@)]
    /\ http' = [http EXCEPT ![c]["document"] = Unsent]
    /\ requests' = Orphaned({"load", "save"}, c)
    /\ proposing' = OrphanedProposal({"save"}, c)
    /\ UNCHANGED <<store, gameData, committed, members, ws, up, made>>

-----------------------------------------------------------------------------
(* The user resolves a conflict, or loads the page again.                  *)

ChoosesOverwrite(c) ==
    /\ client[c].modal /\ client[c].form = "none" /\ "overwrite" \in CanResolve
    /\ Steps(c, BeginOverwrite(client[c]))
    /\ UNCHANGED <<quiet, http, made, faults>>

ChoosesForceSave(c) ==
    /\ client[c].modal /\ client[c].form = "none" /\ "force" \in CanResolve
    /\ Steps(c, BeginForceSave(client[c]))
    /\ UNCHANGED <<quiet, http, made, faults>>

ChoosesFork(c) ==
    /\ client[c].modal /\ client[c].form = "none" /\ "fork" \in CanResolve
    /\ Steps(c, Fork(client[c]))
    /\ UNCHANGED <<quiet, http, made, faults>>

\* The queue and all else in memory is gone; the stored log is opened.
Reloads(c) ==
    /\ Fault("reload")
    /\ \E log \in Stored(client[c]) :
         client' = [client EXCEPT ![c] = Opened(log)]
    /\ ws' = [ws EXCEPT ![c] = <<>>]
    /\ up' = [up EXCEPT ![c] = <<>>]
    /\ http' = [http EXCEPT ![c] = [k \in Kind |-> Unsent]]
    /\ members' = members \ {c}
    /\ requests' = Orphaned({"join", "action", "load", "save"}, c)
    /\ proposing' = OrphanedProposal({"action", "save"}, c)
    /\ UNCHANGED <<store, gameData, committed, made>>

-----------------------------------------------------------------------------

HubStep == HubRuns /\ UNCHANGED <<client, made, faults>>

RaftStep == FSMApplies /\ UNCHANGED <<client, made, faults>>

ReadPump(c) == ReadJoin(c) /\ UNCHANGED <<client, made, faults>>

IdleTicker == CanIdle /\ HubIdles /\ UNCHANGED <<client, made, faults>>

Next ==
    \/ HubStep
    \/ RaftStep
    \/ IdleTicker
    \/ \E c \in Client :
        \/ ReadPump(c)
        \/ UserActs(c) \/ ActionSaved(c)
        \/ Receive(c) \/ RetryFires(c) \/ ResolvingEnds(c)
        \/ Connects(c) \/ Drops(c)
        \/ PostArrives(c) \/ PostAnswered(c) \/ PostFails(c)
        \/ FormArrives(c) \/ FormAnswered(c) \/ FormLost(c)
        \/ ChoosesOverwrite(c) \/ ChoosesForceSave(c) \/ ChoosesFork(c)
        \/ Reloads(c)

Spec == Init /\ [][Next]_vars

\* Goroutines, the network and timers go on; users, faults and the idle
\* ticker need not.
Fairness ==
    /\ WF_vars(HubStep)
    /\ WF_vars(RaftStep)
    /\ \A c \in Client :
        /\ WF_vars(ReadPump(c))
        /\ WF_vars(ActionSaved(c))
        /\ WF_vars(Receive(c))
        /\ WF_vars(RetryFires(c))
        /\ WF_vars(ResolvingEnds(c))
        /\ WF_vars(Connects(c))
        /\ WF_vars(PostArrives(c))
        /\ WF_vars(PostAnswered(c))

FairSpec == Spec /\ Fairness

-----------------------------------------------------------------------------
(* Properties.                                                             *)

Distinct(log) == \A i, j \in 1..Len(log) : log[i] = log[j] => i = j

\* However often an action is posted again, no log holds it twice: neither
\* the server's, nor the hub's copy, nor any browser's.
NoDoubleAction ==
    /\ Distinct(store)
    /\ gameData # NotLoaded => Distinct(gameData)
    /\ \A c \in Client : Distinct(client[c].log)

\* A call is only answered with ACK when all its actions are committed.
AckedIsCommitted ==
    \A c \in Client : http[c]["action"] = Ack =>
        \A i \in 1..Len(client[c].flight) : client[c].flight[i].act \in committed

\* The actions of a user, of those a log holds.
OwnIn(c, log) == SelectSeq(log, LAMBDA a : Contains(Own[c], a))

\* Retries and fast-forwards commit the actions of one user in the order in
\* which they were made.
OwnOrderKept ==
    \A c \in Client : \A i, j \in 1..Len(OwnIn(c, store)) :
        i < j => IndexOf(Own[c], OwnIn(c, store)[i]) < IndexOf(Own[c], OwnIn(c, store)[j])

\* The browser says "synced" and has nothing left to send.
SaysSynced(k) ==
    k.status = "synced" /\ k.saving = <<>> /\ k.queue = <<>> /\ k.flight = <<>>

\* A browser that says so has none of its user's actions left unsent.
SyncedIsCommitted ==
    \A c \in Client : SaysSynced(client[c]) =>
        \A a \in ToSet(OwnIn(c, client[c].log)) : a \in committed

\* One who only watches sees the server's log, up to some point.
WatcherIsBehind ==
    \A c \in Client : Own[c] = <<>> => IsPrefix(client[c].log, store)

\* What a user does reaches the server in the end.
ActionsGetThrough ==
    \A c \in Client : \A i \in 1..Len(Own[c]) :
        made[c] >= i ~> Own[c][i] \in committed

\* Every browser ends with the server's log, which has every action made,
\* and says so.
AllSynced ==
    <>[](\A c \in Client :
            /\ SaysSynced(client[c])
            /\ client[c].log = store
            /\ made[c] = Len(OwnIn(c, store)))

=============================================================================
