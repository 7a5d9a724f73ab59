---------------------------- MODULE GameFSM_proofs ----------------------------
(***************************************************************************)
(* Proofs about the replicated game, for every set of nodes, actions and  *)
(* commands, every batch size and every interleaving of its goroutines.    *)
(***************************************************************************)
EXTENDS GameFSM, ActionLog_proofs

(* The control state the type invariant rests on. *)
Control(n) ==
    /\ dirty[n] => cache[n] # NoGame
    /\ job[n].pc = "mark" => cache[n] # NoGame
    /\ flusher[n].pc = "load" => cache[n] # NoGame
    /\ job[n].last <= handed[n]
    /\ handed[n] <= Len(raftLog)
    /\ applied[n] <= handed[n]
    /\ snap[n] <= handed[n]
    /\ flusher[n].idx <= handed[n]
    /\ job[n].pc # "idle" => job[n].next \in 1 .. job[n].last + 1
    /\ job[n].pc = "acts" =>
          /\ job[n].next <= job[n].last
          /\ job[n].acts # <<>>
          /\ \A i \in 1..Len(job[n].acts) :
                job[n].acts[i] \in ActionsOf(raftLog[job[n].next])

TypeInv == TypeOK /\ \A n \in Node : Control(n)

\* The three kinds of command do not overlap.
LEMMA CommandTyping ==
    ASSUME NEW c \in Command
    PROVE  /\ c.type = "action" => c.acts \in Seq(Action) \ {<<>>}
           /\ c.type = "save" => /\ c.log \in Seq(Action)
                                 /\ c.status \in {"open", "final"}
                                 /\ c.force \in BOOLEAN
           /\ c.type \in {"action", "save", "delete"}
  BY GameFSMAssumption DEF ActionCommand, SaveCommand, DeleteCommand

LEMMA InitTypeInv == Init => TypeInv
  <1> SUFFICES ASSUME Init PROVE TypeInv
    OBVIOUS
  <1>1. IdleJob \in Job /\ IdleFlusher \in Flusher /\ IdleReader \in Reader
    BY FreshTombstone DEF IdleJob, Job, IdleFlusher, Flusher, IdleReader, Reader
  <1>2. TypeOK
    BY <1>1 DEF Init, TypeOK, Slot
  <1>3. \A n \in Node : Control(n)
    BY DEF Init, Control, IdleJob, IdleFlusher
  <1>4. QED
    BY <1>2, <1>3 DEF TypeInv


-----------------------------------------------------------------------------
(* Type correctness, one lemma per group of actions.                       *)

\* What a document in the FSM goroutine must satisfy while it is there.
JobControl(j, n) ==
    /\ j.pc # "mark"
    /\ j.last <= handed[n]
    /\ j.pc # "idle" => j.next \in 1 .. j.last + 1
    /\ j.pc = "acts" =>
          /\ j.next <= j.last
          /\ j.acts # <<>>
          /\ \A i \in 1..Len(j.acts) : j.acts[i] \in ActionsOf(raftLog[j.next])

\* A step of the FSM goroutine that changes nothing but its own state.
LEMMA JobOnlyTypeInv ==
    ASSUME TypeInv, NEW n \in Node, NEW j \in Job,
           job' = [job EXCEPT ![n] = j], UNCHANGED onlyJob,
           JobControl(j, n)
    PROVE  TypeInv'
  <1>1. TypeOK'
    BY DEF TypeInv, TypeOK, onlyJob
  <1>2. job'[n] = j
    BY DEF TypeInv, TypeOK
  <1>3. ASSUME NEW m \in Node PROVE Control(m)'
    <2>1. CASE m = n
      BY <1>2, <2>1 DEF TypeInv, Control, JobControl, onlyJob
    <2>2. CASE m # n
      <3>1. job'[m] = job[m]
        BY <2>2 DEF TypeInv, TypeOK
      <3>2. QED
        BY <3>1 DEF TypeInv, Control, onlyJob
    <2>3. QED
      BY <2>1, <2>2
  <1>4. QED
    BY <1>1, <1>3 DEF TypeInv

\* A command still to be processed is a command of the log.
LEMMA ItemTyping ==
    ASSUME TypeInv, NEW n \in Node,
           job[n].pc \in {"item", "acts"}, job[n].next <= job[n].last
    PROVE  /\ job[n] \in Job
           /\ job[n].next \in 1..Len(raftLog)
           /\ job[n].next <= handed[n]
           /\ raftLog[job[n].next] \in Command
  <1>1. job[n] \in Job /\ Control(n) /\ raftLog \in Seq(Command)
    BY DEF TypeInv, TypeOK
  <1>2. job[n].next \in Nat /\ job[n].last \in Nat /\ handed[n] \in Nat
    BY <1>1 DEF Job, TypeInv, TypeOK
  <1>3. job[n].next \in 1..Len(raftLog) /\ job[n].next <= handed[n]
    BY <1>1, <1>2 DEF Control
  <1>4. QED
    BY <1>1, <1>3

LEMMA SkipItemTypeInv ==
    ASSUME TypeInv, NEW n \in Node, SkipItem(n)
    PROVE  TypeInv'
  <1> DEFINE j == [job[n] EXCEPT !.next = @ + 1]
  <1>1. job[n] \in Job /\ Control(n) /\ job[n].pc = "item"
    BY DEF TypeInv, TypeOK, SkipItem
  <1>2. j \in Job
    BY <1>1 DEF Job
  <1>3. job' = [job EXCEPT ![n] = j]
    BY DEF SkipItem
  <1>4. JobControl(j, n)
    BY <1>1, <1>2 DEF JobControl, Control, Job, SkipItem
  <1>5. QED
    BY <1>2, <1>3, <1>4, JobOnlyTypeInv DEF SkipItem

\* The goroutine's state after a save that is taken, or after a delete.
TakenJob(j, g, del) ==
    [j EXCEPT !.game = g, !.next = @ + 1, !.dirty = TRUE, !.deleted = del,
              !.force = TRUE]

LEMMA TakenTyping ==
    ASSUME NEW j \in Job, NEW g \in Game, NEW del \in BOOLEAN
    PROVE  LET taken == TakenJob(j, g, del)
           IN  /\ taken \in Job
               /\ taken.game = g
               /\ taken.pc = j.pc
               /\ taken.last = j.last
               /\ taken.next = j.next + 1
  <1> DEFINE j1 == [j EXCEPT !.game = g]
             j2 == [j1 EXCEPT !.next = j.next + 1]
             j3 == [j2 EXCEPT !.dirty = TRUE]
             j4 == [j3 EXCEPT !.deleted = del]
             j5 == [j4 EXCEPT !.force = TRUE]
  <1>0. j.next + 1 \in Nat
    BY DEF Job
  <1>1. /\ j1 \in Job
        /\ j1.game = g /\ j1.pc = j.pc /\ j1.last = j.last /\ j1.next = j.next
    BY DEF Job
  <1> HIDE DEF j1
  <1>2. /\ j2 \in Job
        /\ j2.game = g /\ j2.pc = j.pc /\ j2.last = j.last /\ j2.next = j.next + 1
    BY <1>0, <1>1 DEF Job
  <1> HIDE DEF j2
  <1>3. /\ j3 \in Job
        /\ j3.game = g /\ j3.pc = j.pc /\ j3.last = j.last /\ j3.next = j.next + 1
    BY <1>2 DEF Job
  <1> HIDE DEF j3
  <1>4. /\ j4 \in Job
        /\ j4.game = g /\ j4.pc = j.pc /\ j4.last = j.last /\ j4.next = j.next + 1
    BY <1>3 DEF Job
  <1> HIDE DEF j4
  <1>5. /\ j5 \in Job
        /\ j5.game = g /\ j5.pc = j.pc /\ j5.last = j.last /\ j5.next = j.next + 1
    BY <1>4 DEF Job
  <1>6. QED
    BY <1>5 DEF TakenJob, j1, j2, j3, j4, Job

LEMMA SaveItemTypeInv ==
    ASSUME TypeInv, NEW n \in Node, SaveItem(n)
    PROVE  TypeInv'
  <1> DEFINE c == raftLog[job[n].next]
             g == [log |-> c.log, status |-> c.status, lri |-> job[n].next]
             taken == TakenJob(job[n], g, FALSE)
             refused == [job[n] EXCEPT !.next = @ + 1]
             existing == IF job[n].deleted THEN <<>> ELSE job[n].game.log
             j == IF c.force \/ Continues(c.log, existing) THEN taken ELSE refused
  <1>1. /\ job[n] \in Job /\ Control(n) /\ job[n].pc = "item"
        /\ job[n].next <= job[n].last /\ c.type = "save"
    BY DEF TypeInv, TypeOK, SaveItem, AtItem
  <1>2. c \in Command /\ job[n].next \in Nat
    BY <1>1, ItemTyping
  <1>3. g \in Game
    BY <1>1, <1>2, CommandTyping DEF Game, Status
  <1> HIDE DEF g
  <1>4. taken \in Job /\ JobControl(taken, n)
    <2>1. /\ taken \in Job
          /\ taken.pc = job[n].pc
          /\ taken.last = job[n].last
          /\ taken.next = job[n].next + 1
      BY <1>1, <1>3, TakenTyping, Zenon
    <2> HIDE DEF taken
    <2>2. QED
      BY <1>1, <1>2, <2>1 DEF JobControl, Control, Job
  <1>5. refused \in Job /\ JobControl(refused, n)
    <2>1. /\ refused \in Job
          /\ refused.pc = job[n].pc
          /\ refused.last = job[n].last
          /\ refused.next = job[n].next + 1
      BY <1>1 DEF Job
    <2> HIDE DEF refused
    <2>2. QED
      BY <1>1, <1>2, <2>1 DEF JobControl, Control, Job
  <1>6. job' = [job EXCEPT ![n] = j]
    BY DEF SaveItem, TakenJob, g
  <1>7. j \in Job /\ JobControl(j, n)
    BY <1>4, <1>5
  <1> HIDE DEF j
  <1>8. QED
    BY <1>6, <1>7, JobOnlyTypeInv DEF SaveItem

LEMMA BeginActionsTypeInv ==
    ASSUME TypeInv, NEW n \in Node, BeginActions(n)
    PROVE  TypeInv'
  <1> DEFINE c == raftLog[job[n].next]
             j == [job[n] EXCEPT !.pc = "acts", !.acts = c.acts]
  <1>1. /\ job[n] \in Job /\ Control(n) /\ job[n].pc = "item"
        /\ job[n].next <= job[n].last /\ c.type = "action"
    BY DEF TypeInv, TypeOK, BeginActions, AtItem
  <1>2. c \in Command
    BY <1>1, ItemTyping
  <1>3. c.acts \in Seq(Action) /\ c.acts # <<>>
    BY <1>1, <1>2, CommandTyping
  <1>4. j \in Job
    BY <1>1, <1>3 DEF Job
  <1>5. /\ j.pc = "acts" /\ j.acts = c.acts
        /\ j.next = job[n].next /\ j.last = job[n].last
    BY <1>1 DEF Job
  <1>6. \A i \in 1..Len(c.acts) : c.acts[i] \in ActionsOf(c)
    BY <1>1, <1>3 DEF ActionsOf
  <1>7. JobControl(j, n)
    BY <1>1, <1>3, <1>5, <1>6 DEF JobControl, Control, Job
  <1>8. job' = [job EXCEPT ![n] = j]
    BY DEF BeginActions
  <1>9. QED
    BY <1>4, <1>7, <1>8, JobOnlyTypeInv DEF BeginActions

\* The idle goroutines are well typed.
LEMMA IdleTyping == IdleJob \in Job /\ IdleFlusher \in Flusher /\ IdleReader \in Reader
  BY FreshTombstone DEF IdleJob, Job, IdleFlusher, Flusher, IdleReader, Reader

\* The goroutine's state at the start of a batch.
LoadedJob(g, lo, hi) ==
    [IdleJob EXCEPT !.pc = "item", !.game = g, !.next = lo, !.last = hi]

LEMMA LoadedTyping ==
    ASSUME NEW g \in Game, NEW lo \in Nat, NEW hi \in Nat
    PROVE  LET loaded == LoadedJob(g, lo, hi)
           IN  /\ loaded \in Job
               /\ loaded.pc = "item"
               /\ loaded.game = g
               /\ loaded.next = lo
               /\ loaded.last = hi
  <1> DEFINE j1 == [IdleJob EXCEPT !.pc = "item"]
             j2 == [j1 EXCEPT !.game = g]
             j3 == [j2 EXCEPT !.next = lo]
             j4 == [j3 EXCEPT !.last = hi]
  <1>1. /\ j1 \in Job
        /\ j1.pc = "item" /\ j1.game = IdleJob.game /\ j1.next = IdleJob.next
        /\ j1.last = IdleJob.last
    BY IdleTyping DEF Job
  <1> HIDE DEF j1
  <1>2. /\ j2 \in Job
        /\ j2.pc = "item" /\ j2.game = g /\ j2.next = IdleJob.next
        /\ j2.last = IdleJob.last
    BY <1>1 DEF Job
  <1> HIDE DEF j2
  <1>3. /\ j3 \in Job
        /\ j3.pc = "item" /\ j3.game = g /\ j3.next = lo
        /\ j3.last = IdleJob.last
    BY <1>2 DEF Job
  <1> HIDE DEF j3
  <1>4. /\ j4 \in Job
        /\ j4.pc = "item" /\ j4.game = g /\ j4.next = lo
        /\ j4.last = hi
    BY <1>3 DEF Job
  <1>5. QED
    BY <1>4 DEF LoadedJob, j1, j2, j3

LEMMA LoadOnceTypeInv ==
    ASSUME TypeInv, NEW n \in Node, LoadOnce(n)
    PROVE  TypeInv'
  <1>1. PICK k \in 1..MaxBatch :
          /\ applied[n] + k <= Len(raftLog)
          /\ job' = [job EXCEPT ![n] =
                [IdleJob EXCEPT !.pc = "item",
                                !.game = OrFresh(LoadGame(n)),
                                !.next = applied[n] + 1,
                                !.last = applied[n] + k]]
          /\ handed' = [handed EXCEPT ![n] = MaxOf(@, applied[n] + k)]
    BY DEF LoadOnce, Deliverable
  <1> DEFINE g == OrFresh(LoadGame(n))
             lo == applied[n] + 1
             hi == applied[n] + k
             j == LoadedJob(g, lo, hi)
  <1>2. k \in Nat /\ k >= 1 /\ applied[n] \in Nat /\ handed[n] \in Nat /\ TypeOK
    BY GameFSMAssumption DEF TypeInv, TypeOK
  <1>3. LoadGame(n) \in Slot /\ g \in Game
    BY <1>2, FreshTombstone DEF LoadGame, OrFresh, Slot, TypeOK
  <1>4. lo \in Nat /\ hi \in Nat /\ lo <= hi
    BY <1>2
  <1> HIDE DEF g, lo, hi
  <1>5. j \in Job /\ j.pc = "item" /\ j.next = lo /\ j.last = hi
    BY <1>3, <1>4, LoadedTyping
  <1>6. job' = [job EXCEPT ![n] = j]
    BY <1>1 DEF LoadedJob, g, lo, hi
  <1> HIDE DEF j
  <1>7. /\ handed' \in [Node -> Nat]
        /\ handed'[n] >= handed[n] /\ handed'[n] >= hi /\ handed'[n] <= Len(raftLog)
        /\ \A m \in Node : m # n => handed'[m] = handed[m]
    <2>1. MaxOf(handed[n], applied[n] + k) \in Nat
      BY <1>2 DEF MaxOf
    <2>2. handed' = [handed EXCEPT ![n] = MaxOf(handed[n], applied[n] + k)]
      BY <1>1
    <2>3. Control(n)
      BY DEF TypeInv
    <2>4. QED
      BY <1>1, <1>2, <2>1, <2>2, <2>3 DEF MaxOf, hi, TypeOK, Control
  <1>8. cache' \in [Node -> Slot]
    BY <1>2, <1>3 DEF LoadOnce, TypeOK
  <1>9. TypeOK'
    BY <1>2, <1>5, <1>6, <1>7, <1>8 DEF LoadOnce, TypeOK
  <1>10. ASSUME NEW m \in Node PROVE Control(m)'
    <2>1. Control(m) /\ job[m] \in Job
      BY <1>2 DEF TypeInv, TypeOK
    <2>2. CASE m = n
      <3>1. job'[m] = j
        BY <1>2, <1>6, <2>2 DEF TypeOK
      <3>2. j.pc # "mark" /\ j.pc # "acts" /\ j.next \in 1..j.last + 1
        BY <1>2, <1>4, <1>5 DEF lo
      <3>3. cache[n] # NoGame => cache'[n] # NoGame
        BY <1>2 DEF LoadOnce, LoadGame, TypeOK
      <3>4. /\ UNCHANGED <<dirty, applied, snap, flusher>>
            /\ raftLog' = raftLog
        BY DEF LoadOnce
      <3>5. /\ handed[n] \in Nat /\ handed'[n] \in Nat
            /\ applied[n] \in Nat /\ snap[n] \in Nat /\ flusher[n].idx \in Nat
        BY <1>2, <1>7 DEF TypeOK, Flusher
      <3> HIDE DEF j
      <3>6. QED
        BY <1>5, <1>7, <2>1, <2>2, <3>1, <3>2, <3>3, <3>4, <3>5 DEF Control
    <2>3. CASE m # n
      <3>1. job'[m] = job[m] /\ cache'[m] = cache[m] /\ handed'[m] = handed[m]
        BY <1>2, <1>6, <1>7, <2>3 DEF LoadOnce, TypeOK
      <3>2. QED
        BY <2>1, <3>1 DEF LoadOnce, Control
    <2>4. QED
      BY <2>2, <2>3
  <1>11. QED
    BY <1>9, <1>10 DEF TypeInv

LEMMA DeleteItemTypeInv ==
    ASSUME TypeInv, NEW n \in Node, DeleteItem(n)
    PROVE  TypeInv'
  <1> DEFINE g == [job[n].game EXCEPT !.lri = job[n].next]
             j == TakenJob(job[n], g, TRUE)
  <1>1. /\ job[n] \in Job /\ Control(n) /\ job[n].pc = "item"
        /\ job[n].next <= job[n].last
    BY DEF TypeInv, TypeOK, DeleteItem, AtItem
  <1>2. g \in Game /\ job[n].next \in Nat
    BY <1>1 DEF Job, Game
  <1>3. job' = [job EXCEPT ![n] = j]
    BY DEF DeleteItem, TakenJob
  <1> HIDE DEF g
  <1>4. /\ j \in Job
        /\ j.pc = job[n].pc
        /\ j.last = job[n].last
        /\ j.next = job[n].next + 1
    BY <1>1, <1>2, TakenTyping, Zenon
  <1> HIDE DEF j
  <1>5. JobControl(j, n)
    BY <1>1, <1>2, <1>4 DEF JobControl, Control, Job
  <1>6. QED
    BY <1>3, <1>4, <1>5, JobOnlyTypeInv DEF DeleteItem

LEMMA ApplyOneActionTypeInv ==
    ASSUME TypeInv, NEW n \in Node, ApplyOneAction(n)
    PROVE  TypeInv'
  <1> DEFINE last == Len(job[n].acts) = 1
             g0 == ApplyAction(job[n].game, Head(job[n].acts))
             pc == IF last THEN "item" ELSE "acts"
             g == IF last THEN [g0 EXCEPT !.lri = job[n].next] ELSE g0
             acts == Tail(job[n].acts)
             next == IF last THEN job[n].next + 1 ELSE job[n].next
             drty == job[n].dirty \/ g0 # job[n].game
             j1 == [job[n] EXCEPT !.pc = pc]
             j2 == [j1 EXCEPT !.game = g]
             j3 == [j2 EXCEPT !.acts = acts]
             j4 == [j3 EXCEPT !.next = next]
             j == [j4 EXCEPT !.dirty = drty]
  <1>1. /\ job[n] \in Job /\ Control(n) /\ job[n].pc = "acts"
        /\ job[n].acts \in Seq(Action) /\ job[n].acts # <<>>
        /\ job[n].game \in Game /\ job[n].next \in Nat /\ job[n].last \in Nat
    BY DEF TypeInv, TypeOK, ApplyOneAction, Control, Job
  <1>2. Head(job[n].acts) \in Action /\ acts \in Seq(Action)
    BY <1>1
  <1>3. g0 \in Game
    BY <1>1, <1>2, ApplyActionTyping
  <1>4. g \in Game
    BY <1>1, <1>3 DEF Game
  <1>5. pc \in {"item", "acts"} /\ next \in Nat /\ drty \in BOOLEAN
    BY <1>1 DEF Job
  <1>6. job' = [job EXCEPT ![n] = j]
    BY DEF ApplyOneAction
  <1>7. /\ next \in 1..job[n].last + 1
        /\ pc = "acts" => /\ next <= job[n].last
                          /\ next = job[n].next
                          /\ acts # <<>>
                          /\ \A i \in 1..Len(acts) :
                                acts[i] \in ActionsOf(raftLog[job[n].next])
    <2>1. next \in 1..job[n].last + 1
      BY <1>1 DEF Control
    <2>2. ASSUME pc = "acts"
          PROVE  /\ next <= job[n].last
                 /\ next = job[n].next
                 /\ acts # <<>>
                 /\ \A i \in 1..Len(acts) :
                       acts[i] \in ActionsOf(raftLog[job[n].next])
      <3>1. ~last
        BY <2>2
      <3>2. Len(acts) = Len(job[n].acts) - 1 /\ Len(acts) # 0
        BY <1>1, <3>1
      <3>3. \A i \in 1..Len(acts) : acts[i] = job[n].acts[i + 1]
        BY <1>1
      <3>4. /\ job[n].next <= job[n].last
            /\ \A i \in 1..Len(job[n].acts) :
                  job[n].acts[i] \in ActionsOf(raftLog[job[n].next])
        BY <1>1 DEF Control
      <3>5. \A i \in 1..Len(acts) : i + 1 \in 1..Len(job[n].acts)
        BY <1>1, <1>2, <3>2
      <3>6. next = job[n].next
        BY <3>1
      <3> HIDE DEF acts, next
      <3>7. acts # <<>>
        <4>1. Len(<<>>) = 0
          OBVIOUS
        <4>2. QED
          BY <3>2, <4>1
      <3>8. QED
        BY <3>3, <3>4, <3>5, <3>6, <3>7
    <2>3. QED
      BY <2>1, <2>2
  <1> HIDE DEF g, pc, acts, next, drty
  <1>8. /\ j \in Job
        /\ j.pc = pc /\ j.next = next /\ j.last = job[n].last /\ j.acts = acts
    <2>1. /\ j1 \in Job
          /\ j1.pc = pc /\ j1.next = job[n].next
          /\ j1.last = job[n].last /\ j1.acts = job[n].acts
      BY <1>1, <1>2, <1>4, <1>5 DEF Job
    <2> HIDE DEF j1
    <2>2. /\ j2 \in Job
          /\ j2.pc = pc /\ j2.next = job[n].next
          /\ j2.last = job[n].last /\ j2.acts = job[n].acts
      BY <1>1, <1>2, <1>4, <1>5, <2>1 DEF Job
    <2> HIDE DEF j2
    <2>3. /\ j3 \in Job
          /\ j3.pc = pc /\ j3.next = job[n].next
          /\ j3.last = job[n].last /\ j3.acts = acts
      BY <1>1, <1>2, <1>4, <1>5, <2>2 DEF Job
    <2> HIDE DEF j3
    <2>4. /\ j4 \in Job
          /\ j4.pc = pc /\ j4.next = next
          /\ j4.last = job[n].last /\ j4.acts = acts
      BY <1>1, <1>2, <1>4, <1>5, <2>3 DEF Job
    <2> HIDE DEF j4
    <2>5. /\ j \in Job
          /\ j.pc = pc /\ j.next = next
          /\ j.last = job[n].last /\ j.acts = acts
      BY <1>1, <1>2, <1>4, <1>5, <2>4 DEF Job
    <2>6. QED
      BY <2>5 DEF j1, j2, j3, j4
  <1>9. JobControl(j, n)
    BY <1>1, <1>5, <1>7, <1>8 DEF JobControl, Control
  <1> HIDE DEF j
  <1>10. QED
    BY <1>6, <1>8, <1>9, JobOnlyTypeInv DEF ApplyOneAction

\* The end of a batch, whatever it saved.
LEMMA EndBatchTypeInv ==
    ASSUME TypeInv, NEW n \in Node, EndBatch(n),
           UNCHANGED <<raftLog, snap, flusher, reader, crashes>>,
           cache' \in [Node -> Slot],
           disk' \in [Node -> Slot],
           dirty' \in [Node -> BOOLEAN],
           \A m \in Node : cache[m] # NoGame => cache'[m] # NoGame,
           \A m \in Node : dirty'[m] => cache'[m] # NoGame
    PROVE  TypeInv'
  <1>1. TypeOK /\ \A m \in Node : Control(m) /\ job[m].last \in Nat
    BY DEF TypeInv, TypeOK, Job
  <1>2. /\ job' = [job EXCEPT ![n] = IdleJob] /\ handed' = handed
        /\ applied' = [applied EXCEPT ![n] = job[n].last]
    BY DEF EndBatch
  <1>3. TypeOK'
    BY <1>1, <1>2, IdleTyping DEF TypeOK
  <1>4. ASSUME NEW m \in Node PROVE Control(m)'
    <2>1. /\ Control(m)
          /\ cache[m] # NoGame => cache'[m] # NoGame
          /\ dirty'[m] => cache'[m] # NoGame
      BY <1>1
    <2>2. CASE m = n
      <3>1. job'[m] = IdleJob /\ applied'[m] = job[m].last
        BY <1>1, <1>2, <2>2 DEF TypeOK
      <3>2. IdleJob.pc = "idle" /\ IdleJob.last = 0
        BY DEF IdleJob
      <3>3. handed[m] \in Nat
        BY <1>1 DEF TypeOK
      <3>4. QED
        BY <1>2, <2>1, <3>1, <3>2, <3>3 DEF Control
    <2>3. CASE m # n
      <3>1. job'[m] = job[m] /\ applied'[m] = applied[m]
        BY <1>1, <1>2, <2>3 DEF TypeOK
      <3>2. QED
        BY <1>2, <2>1, <3>1 DEF Control
    <2>4. QED
      BY <2>2, <2>3
  <1>5. QED
    BY <1>3, <1>4 DEF TypeInv

LEMMA SavedTypeInv ==
    ASSUME TypeInv, NEW n \in Node,
           NothingToSave(n) \/ SaveDeleted(n) \/ SaveToDisk(n) \/ MarkDirty(n)
    PROVE  TypeInv'
  <1>1. TypeOK /\ Control(n) /\ job[n].game \in Game
        /\ \A m \in Node : dirty[m] => cache[m] # NoGame
    BY DEF TypeInv, TypeOK, Job, Control
  <1>2. NoGame \notin Game
    BY ActionLogAssumption
  <1>3. CASE NothingToSave(n)
    BY <1>1, <1>3, EndBatchTypeInv DEF NothingToSave, TypeOK
  <1>4. CASE SaveDeleted(n)
    <2>1. dirty' = dirty
      BY <1>4 DEF SaveDeleted, DeleteGame
    <2>2. \/ UNCHANGED <<disk, cache>>
          \/ /\ disk' = [disk EXCEPT ![n] = Tombstone]
             /\ cache' = [cache EXCEPT ![n] = Tombstone]
      BY <1>4 DEF SaveDeleted, DeleteGame
    <2>3. Tombstone \in Slot /\ Tombstone # NoGame
      BY <1>2, FreshTombstone DEF Slot
    <2>4. cache' \in [Node -> Slot] /\ disk' \in [Node -> Slot]
      BY <1>1, <2>2, <2>3 DEF TypeOK
    <2>5. \A m \in Node : cache[m] # NoGame => cache'[m] # NoGame
      BY <1>1, <2>2, <2>3 DEF TypeOK
    <2>6. QED
      BY <1>1, <1>4, <2>1, <2>4, <2>5, EndBatchTypeInv DEF SaveDeleted, TypeOK
  <1>5. CASE SaveToDisk(n)
    <2>1. /\ disk' = [disk EXCEPT ![n] = job[n].game]
          /\ cache' = [cache EXCEPT ![n] = job[n].game]
          /\ dirty' = [dirty EXCEPT ![n] = FALSE]
      BY <1>5 DEF SaveToDisk, SaveGame
    <2>2. job[n].game \in Slot /\ job[n].game # NoGame
      BY <1>1, <1>2 DEF Slot
    <2>3. /\ cache' \in [Node -> Slot] /\ disk' \in [Node -> Slot]
          /\ dirty' \in [Node -> BOOLEAN]
      BY <1>1, <2>1, <2>2 DEF TypeOK
    <2>4. /\ \A m \in Node : cache[m] # NoGame => cache'[m] # NoGame
          /\ \A m \in Node : dirty'[m] => dirty[m]
      BY <1>1, <2>1, <2>2 DEF TypeOK
    <2>5. QED
      BY <1>1, <1>5, <2>3, <2>4, EndBatchTypeInv DEF SaveToDisk
  <1>6. CASE MarkDirty(n)
    <2>1. dirty' = [dirty EXCEPT ![n] = TRUE] /\ UNCHANGED <<cache, disk>>
      BY <1>6 DEF MarkDirty
    <2>2. cache[n] # NoGame
      BY <1>1, <1>6 DEF MarkDirty, Control
    <2>3. dirty' \in [Node -> BOOLEAN]
      BY <1>1, <2>1 DEF TypeOK
    <2>4. \A m \in Node : dirty'[m] => cache'[m] # NoGame
      BY <1>1, <2>1, <2>2 DEF TypeOK
    <2>5. QED
      BY <1>1, <1>6, <2>1, <2>3, <2>4, EndBatchTypeInv DEF MarkDirty, TypeOK
  <1>7. QED
    BY <1>3, <1>4, <1>5, <1>6

LEMMA SaveInMemoryTypeInv ==
    ASSUME TypeInv, NEW n \in Node, SaveInMemory(n)
    PROVE  TypeInv'
  <1>1. /\ TypeOK /\ job[n] \in Job /\ job[n].game \in Game
        /\ \A m \in Node : Control(m)
    BY DEF TypeInv, TypeOK, Job
  <1>2. job[n].game \in Slot /\ job[n].game # NoGame
    BY <1>1, ActionLogAssumption DEF Slot
  <1>3. /\ cache' = [cache EXCEPT ![n] = job[n].game]
        /\ job' = [job EXCEPT ![n] = [job[n] EXCEPT !.pc = "mark"]]
        /\ UNCHANGED <<raftLog, dirty, disk, applied, snap, flusher, reader,
                       crashes, handed>>
    BY DEF SaveInMemory
  <1> DEFINE j == [job[n] EXCEPT !.pc = "mark"]
  <1>4. j \in Job /\ j.pc = "mark" /\ j.last = job[n].last /\ j.next = job[n].next
    BY <1>1 DEF Job
  <1> HIDE DEF j
  <1>5. job' = [job EXCEPT ![n] = j]
    BY <1>3 DEF j
  <1>6. TypeOK'
    BY <1>1, <1>2, <1>3, <1>4, <1>5 DEF TypeOK
  <1>7. ASSUME NEW m \in Node PROVE Control(m)'
    <2>1. cache[m] # NoGame => cache'[m] # NoGame
      BY <1>1, <1>2, <1>3 DEF TypeOK
    <2>2. CASE m = n
      <3>1. job'[m] = j /\ cache'[m] # NoGame
        BY <1>1, <1>2, <1>3, <1>5, <2>2 DEF TypeOK
      <3>2. job[n].pc = "item"
        BY DEF SaveInMemory, ItemsDone
      <3>3. QED
        BY <1>1, <1>3, <1>4, <2>2, <3>1, <3>2 DEF Control
    <2>3. CASE m # n
      <3>1. job'[m] = job[m]
        BY <1>1, <1>5, <2>3 DEF TypeOK
      <3>2. QED
        BY <1>1, <1>3, <2>1, <3>1 DEF Control
    <2>4. QED
      BY <2>2, <2>3
  <1>8. QED
    BY <1>6, <1>7 DEF TypeInv

\* Steps of the snapshot goroutine, of a hub and of the process itself leave
\* the log and what was handed over alone.
LEMMA SnapshotTypeInv ==
    ASSUME TypeInv, NEW n \in Node, BeginSnapshot(n) \/ SnapshotStep(n)
    PROVE  TypeInv'
  <1>1. /\ TypeOK /\ flusher[n] \in Flusher
        /\ \A m \in Node : Control(m)
    BY DEF TypeInv, TypeOK
  <1>2. /\ flusher[n].val \in Slot /\ flusher[n].val # NoGame
        /\ flusher[n].idx \in Nat /\ applied[n] \in Nat
    BY <1>1, ActionLogAssumption DEF Flusher, Slot, TypeOK
  <1>3. UNCHANGED <<raftLog, applied, job, reader, crashes, handed>>
    BY DEF BeginSnapshot, SnapshotStep, FlushCheck, FlushLoad, FlushWrite,
           FlushCache, BeginPersist, EndSnapshot, onlyFlusher
  <1>4. /\ cache' \in [Node -> Slot] /\ disk' \in [Node -> Slot]
        /\ dirty' \in [Node -> BOOLEAN] /\ snap' \in [Node -> Nat]
        /\ \A m \in Node : cache[m] # NoGame => cache'[m] # NoGame
        /\ \A m \in Node : dirty'[m] => dirty[m]
        /\ \A m \in Node : snap'[m] <= handed[m]
    <2>1. CASE FlushWrite(n)
      <3>1. UNCHANGED <<cache, dirty, snap>>
        BY <2>1 DEF FlushWrite
      <3>2. disk' \in [Node -> Slot]
        BY <1>1, <1>2, <2>1 DEF FlushWrite, TypeOK
      <3>3. QED
        BY <1>1, <3>1, <3>2 DEF TypeOK, Control
    <2>2. CASE FlushCache(n)
      <3>1. UNCHANGED <<disk, snap>>
        BY <2>2 DEF FlushCache
      <3>2. cache' \in [Node -> Slot] /\ dirty' \in [Node -> BOOLEAN]
        BY <1>1, <1>2, <2>2 DEF FlushCache, TypeOK
      <3>3. /\ \A m \in Node : cache[m] # NoGame => cache'[m] # NoGame
            /\ \A m \in Node : dirty'[m] => dirty[m]
        BY <1>1, <1>2, <2>2 DEF FlushCache, TypeOK
      <3>4. QED
        BY <1>1, <3>1, <3>2, <3>3 DEF TypeOK, Control
    <2>3. CASE EndSnapshot(n)
      <3>1. UNCHANGED <<cache, dirty, disk>>
        BY <2>3 DEF EndSnapshot
      <3>2. snap' = [snap EXCEPT ![n] = flusher[n].idx]
        BY <2>3 DEF EndSnapshot
      <3>3. snap' \in [Node -> Nat] /\ \A m \in Node : snap'[m] <= handed[m]
        BY <1>1, <1>2, <3>2 DEF TypeOK, Control
      <3>4. QED
        BY <1>1, <3>1, <3>3 DEF TypeOK
    <2>4. CASE \/ BeginSnapshot(n) \/ FlushCheck(n) \/ FlushLoad(n)
               \/ BeginPersist(n)
      <3>1. UNCHANGED <<cache, dirty, disk, snap>>
        BY <2>4 DEF BeginSnapshot, FlushCheck, FlushLoad, BeginPersist, onlyFlusher
      <3>2. QED
        BY <1>1, <3>1 DEF TypeOK, Control
    <2>5. QED
      BY <2>1, <2>2, <2>3, <2>4 DEF SnapshotStep
  <1>5. PICK f \in Flusher :
          /\ flusher' = [flusher EXCEPT ![n] = f]
          /\ f.idx <= handed[n]
          /\ f.pc = "load" => cache[n] # NoGame
    <2>1. CASE BeginSnapshot(n)
      <3> DEFINE f1 == [flusher[n] EXCEPT !.phase = "snapshot"]
                 f2 == [f1 EXCEPT !.pc = "check"]
                 f3 == [f2 EXCEPT !.idx = applied[n]]
      <3>1. f1 \in Flusher
        BY <1>1 DEF Flusher
      <3> HIDE DEF f1
      <3>2. f2 \in Flusher /\ f2.pc = "check"
        BY <3>1 DEF Flusher
      <3> HIDE DEF f2
      <3>3. f3 \in Flusher /\ f3.pc = "check" /\ f3.idx = applied[n]
        BY <1>2, <3>2 DEF Flusher
      <3> HIDE DEF f3
      <3>4. flusher' = [flusher EXCEPT ![n] = f3]
        BY <2>1 DEF BeginSnapshot, f1, f2, f3
      <3>5. QED
        BY <1>1, <3>3, <3>4 DEF Control
    <2>2. CASE FlushCheck(n)
      <3> DEFINE f == [flusher[n] EXCEPT !.pc = IF dirty[n] THEN "load" ELSE "done"]
      <3>1. /\ f \in Flusher /\ f.idx = flusher[n].idx
            /\ f.pc = IF dirty[n] THEN "load" ELSE "done"
        BY <1>1 DEF Flusher
      <3>2. flusher' = [flusher EXCEPT ![n] = f]
        BY <2>2 DEF FlushCheck
      <3> HIDE DEF f
      <3>3. QED
        BY <1>1, <3>1, <3>2 DEF Control
    <2>3. CASE FlushLoad(n)
      <3> DEFINE f1 == [flusher[n] EXCEPT !.pc = "write"]
                 f2 == [f1 EXCEPT !.val = cache[n]]
      <3>1. cache[n] \in Game
        BY <1>1, <2>3 DEF FlushLoad, Control, TypeOK, Slot
      <3>2. f1 \in Flusher /\ f1.pc = "write" /\ f1.idx = flusher[n].idx
        BY <1>1 DEF Flusher
      <3> HIDE DEF f1
      <3>3. f2 \in Flusher /\ f2.pc = "write" /\ f2.idx = flusher[n].idx
        BY <3>1, <3>2 DEF Flusher
      <3> HIDE DEF f2
      <3>4. flusher' = [flusher EXCEPT ![n] = f2]
        BY <2>3 DEF FlushLoad, f1, f2
      <3>5. QED
        BY <1>1, <3>3, <3>4 DEF Control
    <2>4. CASE FlushWrite(n) \/ FlushCache(n)
      <3>1. PICK p \in {"cache", "done"} :
              flusher' = [flusher EXCEPT ![n] = [flusher[n] EXCEPT !.pc = p]]
        BY <2>4 DEF FlushWrite, FlushCache
      <3> DEFINE f == [flusher[n] EXCEPT !.pc = p]
      <3>2. f \in Flusher /\ f.idx = flusher[n].idx /\ f.pc = p
        BY <1>1 DEF Flusher
      <3>3. flusher' = [flusher EXCEPT ![n] = f]
        BY <3>1
      <3> HIDE DEF f
      <3>4. QED
        BY <1>1, <3>2, <3>3 DEF Control
    <2>5. CASE BeginPersist(n)
      <3> DEFINE f1 == [flusher[n] EXCEPT !.phase = "persist"]
                 f2 == [f1 EXCEPT !.pc = "check"]
      <3>1. f1 \in Flusher /\ f1.idx = flusher[n].idx
        BY <1>1 DEF Flusher
      <3> HIDE DEF f1
      <3>2. f2 \in Flusher /\ f2.pc = "check" /\ f2.idx = flusher[n].idx
        BY <3>1 DEF Flusher
      <3> HIDE DEF f2
      <3>3. flusher' = [flusher EXCEPT ![n] = f2]
        BY <2>5 DEF BeginPersist, f1, f2
      <3>4. QED
        BY <1>1, <3>2, <3>3 DEF Control
    <2>6. CASE EndSnapshot(n)
      <3>1. IdleFlusher.pc = "check" /\ IdleFlusher.idx = 0 /\ handed[n] \in Nat
        BY <1>1 DEF IdleFlusher, TypeOK
      <3>2. flusher' = [flusher EXCEPT ![n] = IdleFlusher]
        BY <2>6 DEF EndSnapshot
      <3>3. IdleFlusher.idx <= handed[n] /\ IdleFlusher.pc # "load"
        BY <3>1
      <3>4. QED
        BY <3>2, <3>3, IdleTyping
    <2>7. QED
      BY <2>1, <2>2, <2>3, <2>4, <2>5, <2>6 DEF SnapshotStep
  <1>6. TypeOK'
    BY <1>1, <1>3, <1>4, <1>5 DEF TypeOK
  <1>7. ASSUME NEW m \in Node PROVE Control(m)'
    <2>1. (m = n /\ flusher'[m] = f) \/ (m # n /\ flusher'[m] = flusher[m])
      BY <1>1, <1>5 DEF TypeOK
    <2>2. QED
      BY <1>1, <1>3, <1>4, <1>5, <2>1 DEF Control
  <1>8. QED
    BY <1>6, <1>7 DEF TypeInv

LEMMA HubTypeInv ==
    ASSUME TypeInv, NEW n \in Node, HubMisses(n) \/ HubReadsDisk(n) \/ HubFillsCache(n)
    PROVE  TypeInv'
  <1>1. /\ TypeOK /\ reader[n] \in Reader
        /\ \A m \in Node : Control(m)
    BY DEF TypeInv, TypeOK
  <1>2. UNCHANGED onlyReader
    BY DEF HubMisses, HubReadsDisk, HubFillsCache
  <1>3. /\ cache' \in [Node -> Slot]
        /\ \A m \in Node : cache[m] # NoGame => cache'[m] # NoGame
    <2>1. CASE HubFillsCache(n)
      <3>1. reader[n].val \in Slot /\ reader[n].val # NoGame
        BY <1>1, ActionLogAssumption DEF Reader, Slot
      <3>2. QED
        BY <1>1, <2>1, <3>1 DEF HubFillsCache, TypeOK
    <2>2. CASE HubMisses(n) \/ HubReadsDisk(n)
      BY <1>1, <2>2 DEF HubMisses, HubReadsDisk, TypeOK
    <2>3. QED
      BY <2>1, <2>2
  <1>4. reader' \in [Node -> Reader]
    <2>1. CASE HubMisses(n)
      <3>1. [reader[n] EXCEPT !.pc = "missed"] \in Reader
        BY <1>1 DEF Reader
      <3>2. QED
        BY <1>1, <2>1, <3>1 DEF HubMisses, TypeOK
    <2>2. CASE HubReadsDisk(n)
      <3>1. disk[n] # NoGame => [pc |-> "read", val |-> disk[n]] \in Reader
        BY <1>1 DEF TypeOK, Slot, Reader
      <3>2. QED
        BY <1>1, <2>2, <3>1, IdleTyping DEF HubReadsDisk, TypeOK
    <2>3. CASE HubFillsCache(n)
      BY <1>1, <2>3, IdleTyping DEF HubFillsCache, TypeOK
    <2>4. QED
      BY <2>1, <2>2, <2>3
  <1>5. TypeOK'
    BY <1>1, <1>2, <1>3, <1>4 DEF TypeOK, onlyReader
  <1>6. ASSUME NEW m \in Node PROVE Control(m)'
    BY <1>1, <1>2, <1>3 DEF Control, onlyReader
  <1>7. QED
    BY <1>5, <1>6 DEF TypeInv

LEMMA CrashTypeInv ==
    ASSUME TypeInv, NEW n \in Node, Crash(n)
    PROVE  TypeInv'
  <1>1. TypeOK /\ \A m \in Node : Control(m)
    BY DEF TypeInv
  <1>2. NoGame \in Slot
    BY DEF Slot
  <1>3. /\ cache' \in [Node -> Slot] /\ dirty' \in [Node -> BOOLEAN]
        /\ crashes' \in [Node -> Nat] /\ applied' \in [Node -> Nat]
    BY <1>1, <1>2 DEF Crash, TypeOK
  <1>4. TypeOK'
    BY <1>1, <1>3, IdleTyping DEF Crash, TypeOK
  <1>5. ASSUME NEW m \in Node PROVE Control(m)'
    <2>1. CASE m = n
      <3>1. /\ job'[m] = IdleJob /\ flusher'[m] = IdleFlusher
            /\ ~dirty'[m] /\ applied'[m] = snap[m]
        BY <1>1, <2>1 DEF Crash, TypeOK
      <3>2. /\ IdleJob.pc = "idle" /\ IdleJob.last = 0
            /\ IdleFlusher.pc = "check" /\ IdleFlusher.idx = 0
        BY DEF IdleJob, IdleFlusher
      <3>3. handed[m] \in Nat /\ UNCHANGED <<raftLog, snap, handed>>
        BY <1>1 DEF Crash, TypeOK
      <3>4. QED
        BY <1>1, <3>1, <3>2, <3>3 DEF Control
    <2>2. CASE m # n
      <3>1. /\ job'[m] = job[m] /\ flusher'[m] = flusher[m]
            /\ dirty'[m] = dirty[m] /\ applied'[m] = applied[m]
            /\ cache'[m] = cache[m]
        BY <1>1, <2>2 DEF Crash, TypeOK
      <3>2. UNCHANGED <<raftLog, snap, handed>>
        BY DEF Crash
      <3>3. QED
        BY <1>1, <3>1, <3>2 DEF Control
    <2>3. QED
      BY <2>1, <2>2
  <1>6. QED
    BY <1>4, <1>5 DEF TypeInv

LEMMA CommitTypeInv ==
    ASSUME TypeInv, NEW c \in Command, Commit(c)
    PROVE  TypeInv'
  <1>1. TypeOK /\ \A m \in Node : Control(m)
    BY DEF TypeInv
  <1>2. raftLog' = Append(raftLog, c) /\ raftLog \in Seq(Command)
    BY <1>1 DEF Commit, TypeOK
  <1>3. /\ raftLog' \in Seq(Command)
        /\ Len(raftLog') = Len(raftLog) + 1
        /\ \A i \in 1..Len(raftLog) : raftLog'[i] = raftLog[i]
    BY <1>2
  <1>4. TypeOK'
    BY <1>1, <1>3 DEF Commit, TypeOK
  <1>5. ASSUME NEW m \in Node PROVE Control(m)'
    <2>1. UNCHANGED <<cache, dirty, disk, applied, snap, job, flusher, reader,
                      crashes, handed>>
      BY DEF Commit
    <2>2. /\ job[m].next \in Nat /\ job[m].last \in Nat /\ handed[m] \in Nat
          /\ Len(raftLog) \in Nat
      BY <1>1, <1>2 DEF TypeOK, Job
    <2>3. job[m].pc = "acts" => raftLog'[job[m].next] = raftLog[job[m].next]
      BY <1>1, <1>3, <2>2 DEF Control
    <2>4. QED
      BY <1>1, <1>3, <2>1, <2>2, <2>3 DEF Control
  <1>6. QED
    BY <1>4, <1>5 DEF TypeInv

LEMMA NextTypeInv == TypeInv /\ [Next]_vars => TypeInv'
  <1> SUFFICES ASSUME TypeInv, [Next]_vars PROVE TypeInv'
    OBVIOUS
  <1>1. CASE \E c \in Command : Commit(c)
    BY <1>1, CommitTypeInv
  <1>2. ASSUME NEW n \in Node, FSMStep(n) PROVE TypeInv'
    BY <1>2, LoadOnceTypeInv, SkipItemTypeInv, SaveItemTypeInv, BeginActionsTypeInv,
       ApplyOneActionTypeInv, DeleteItemTypeInv, SavedTypeInv, SaveInMemoryTypeInv
       DEF FSMStep
  <1>3. ASSUME NEW n \in Node, BeginSnapshot(n) \/ SnapshotStep(n) PROVE TypeInv'
    BY <1>3, SnapshotTypeInv
  <1>4. ASSUME NEW n \in Node, HubMisses(n) \/ HubReadsDisk(n) \/ HubFillsCache(n)
        PROVE  TypeInv'
    BY <1>4, HubTypeInv
  <1>5. ASSUME NEW n \in Node, Crash(n) PROVE TypeInv'
    BY <1>5, CrashTypeInv
  <1>6. CASE UNCHANGED vars
    BY <1>6 DEF vars, TypeInv, TypeOK, Control
  <1>7. QED
    BY <1>1, <1>2, <1>3, <1>4, <1>5, <1>6 DEF Next

\* Every variable keeps its type on every node, for any commands, batch size
\* and interleaving; in particular a flush never finds a dirty game without
\* an entry in the cache.
THEOREM TypeCorrect == Spec => []TypeOK
  <1>1. Spec => []TypeInv
    BY InitTypeInv, NextTypeInv, PTL DEF Spec
  <1>2. TypeInv => TypeOK
    BY DEF TypeInv
  <1>3. QED
    BY <1>1, <1>2, PTL

-----------------------------------------------------------------------------
(* What survives every interleaving.  The three invariants on the copies of *)
(* a game are not inductive one node's variable at a time, but they are     *)
(* together: every document the node holds anywhere is a good one, and a    *)
(* step only moves documents around or makes a good one from a good one.    *)

Committed(log, n) ==
    \A i \in 1..Len(log) :
        \E k \in 1..Len(raftLog) : k <= handed[n] /\ log[i] \in ActionsOf(raftLog[k])

Good(g, n) == g.lri <= handed[n] /\ Spaced(g.log) /\ Committed(g.log, n)

AllGood == TypeInv /\ \A n \in Node : \A g \in Copies(n) : Good(g, n)

\* The log only grows and no node is handed less.
LogGrows ==
    /\ Len(raftLog) <= Len(raftLog')
    /\ \A i \in 1..Len(raftLog) : raftLog'[i] = raftLog[i]
    /\ \A n \in Node : handed[n] <= handed'[n]

LEMMA CopiesTyping ==
    ASSUME TypeOK, NEW n \in Node
    PROVE  Copies(n) \subseteq Game
  <1>1. /\ job[n].game \in Game /\ flusher[n].val \in Game /\ reader[n].val \in Game
        /\ cache[n] \in Slot /\ disk[n] \in Slot
    BY DEF TypeOK, Job, Flusher, Reader
  <1>2. QED
    BY <1>1 DEF Copies, Slot

\* A good document stays good.
LEMMA GoodStays ==
    ASSUME TypeOK, TypeOK', LogGrows, NEW n \in Node, NEW g \in Game, Good(g, n)
    PROVE  Good(g, n)'
  <1>1. /\ handed[n] \in Nat /\ handed'[n] \in Nat /\ handed[n] <= handed'[n]
        /\ Len(raftLog) \in Nat /\ Len(raftLog') \in Nat /\ g.lri \in Nat
    BY DEF TypeOK, LogGrows, Game
  <1>2. g.lri <= handed'[n]
    BY <1>1 DEF Good
  <1>3. Committed(g.log, n)'
    <2> SUFFICES ASSUME NEW i \in 1..Len(g.log)
                 PROVE  \E k \in 1..Len(raftLog') :
                          k <= handed'[n] /\ g.log[i] \in ActionsOf(raftLog'[k])
      BY DEF Committed
    <2>1. PICK k \in 1..Len(raftLog) :
            k <= handed[n] /\ g.log[i] \in ActionsOf(raftLog[k])
      BY DEF Good, Committed
    <2>2. k \in 1..Len(raftLog') /\ k <= handed'[n] /\ raftLog'[k] = raftLog[k]
      BY <1>1, <2>1 DEF LogGrows
    <2>3. QED
      BY <2>1, <2>2
  <1>4. QED
    BY <1>2, <1>3 DEF Good

LEMMA EmptyGood ==
    ASSUME TypeOK, NEW n \in Node
    PROVE  Good(Fresh, n) /\ Good(Tombstone, n)
  <1>1. handed[n] \in Nat
    BY DEF TypeOK
  <1>2. QED
    BY <1>1 DEF Good, Fresh, Tombstone, Spaced, Committed

\* ApplyAction makes a good document from a good one.
LEMMA ApplyActionGood ==
    ASSUME TypeOK, NEW n \in Node, NEW g \in Game, Good(g, n),
           NEW k \in 1..Len(raftLog), k <= handed[n],
           NEW a \in ActionsOf(raftLog[k])
    PROVE  Good(ApplyAction(g, a), n)
  <1>1. a \in Action /\ g.log \in Seq(Action)
    BY DEF ActionsOf, Game
  <1> DEFINE h == ApplyAction(g, a)
  <1>2. /\ h.lri = g.lri
        /\ h.log = IF a \in Recent(g.log) THEN g.log ELSE Append(g.log, a)
    BY <1>1, ApplyActionTyping
  <1> HIDE DEF h
  <1>3. CASE a \in Recent(g.log)
    BY <1>2, <1>3 DEF Good, h
  <1>4. CASE a \notin Recent(g.log)
    <2>1. Spaced(h.log)
      BY <1>1, <1>2, <1>4, AppendSpaced DEF Good
    <2>2. Committed(h.log, n)
      <3> SUFFICES ASSUME NEW i \in 1..Len(h.log)
                   PROVE  \E m \in 1..Len(raftLog) :
                            m <= handed[n] /\ h.log[i] \in ActionsOf(raftLog[m])
        BY DEF Committed
      <3>1. /\ Len(h.log) = Len(g.log) + 1
            /\ \A m \in 1..Len(g.log) : h.log[m] = g.log[m]
            /\ h.log[Len(g.log) + 1] = a
        BY <1>1, <1>2, <1>4
      <3>2. CASE i = Len(g.log) + 1
        BY <3>1, <3>2
      <3>3. CASE i \in 1..Len(g.log)
        BY <3>1, <3>3 DEF Good, Committed
      <3>4. QED
        BY <1>1, <3>1, <3>2, <3>3
    <2>3. QED
      BY <1>2, <2>1, <2>2 DEF Good, h
  <1>5. QED
    BY <1>3, <1>4

\* Taking the index of a command that was handed over.
LEMMA IndexGood ==
    ASSUME NEW n \in Node, NEW g \in Game, Good(g, n),
           NEW i \in Nat, i <= handed[n]
    PROVE  Good([g EXCEPT !.lri = i], n)
  <1>1. [g EXCEPT !.lri = i].lri = i /\ [g EXCEPT !.lri = i].log = g.log
    BY DEF Game
  <1>2. QED
    BY <1>1 DEF Good

\* A step after which every document is one that was there, an empty one, or
\* a good new one keeps them all good.
LEMMA KeepsGood ==
    ASSUME AllGood, TypeInv', LogGrows,
           \A m \in Node : \A g \in Copies(m)' :
              g \in Copies(m) \cup {Fresh, Tombstone} \/ Good(g, m)'
    PROVE  AllGood'
  <1>1. TypeOK /\ TypeOK'
    BY DEF AllGood, TypeInv
  <1>2. ASSUME NEW m \in Node, NEW g \in Copies(m)' PROVE Good(g, m)'
    <2>1. ASSUME g \in Copies(m) \cup {Fresh, Tombstone} PROVE Good(g, m)'
      <3>1. g \in Game
        BY <1>1, <2>1, CopiesTyping, FreshTombstone
      <3>2. Good(g, m)
        BY <1>1, <2>1, EmptyGood DEF AllGood
      <3>3. QED
        BY <1>1, <3>1, <3>2, GoodStays
    <2>2. QED
      BY <1>2, <2>1
  <1>3. QED
    BY <1>2 DEF AllGood

\* The log grows by commits, what was handed over by batches.
LEMMA NextGrows == TypeInv /\ Next => LogGrows
  <1> SUFFICES ASSUME TypeInv, Next PROVE LogGrows
    OBVIOUS
  <1>1. TypeOK /\ Len(raftLog) \in Nat
    BY DEF TypeInv, TypeOK
  <1>2. CASE \E c \in Command : Commit(c)
    <2>1. PICK c \in Command : raftLog' = Append(raftLog, c) /\ handed' = handed
      BY <1>2 DEF Commit
    <2>2. raftLog \in Seq(Command) /\ \A m \in Node : handed[m] \in Nat
      BY <1>1 DEF TypeOK
    <2>3. QED
      BY <2>1, <2>2 DEF LogGrows
  <1>3. ASSUME NEW n \in Node, LoadOnce(n) PROVE LogGrows
    <2>1. PICK k \in 1..MaxBatch :
            handed' = [handed EXCEPT ![n] = MaxOf(handed[n], applied[n] + k)]
      BY <1>3 DEF LoadOnce
    <2>2. \A m \in Node : handed[m] \in Nat /\ applied[m] \in Nat
      BY <1>1 DEF TypeOK
    <2>3. k \in Nat
      BY GameFSMAssumption
    <2>4. MaxOf(handed[n], applied[n] + k) >= handed[n]
      BY <2>2, <2>3 DEF MaxOf
    <2>5. \A m \in Node : handed[m] <= handed'[m]
      BY <1>1, <2>1, <2>2, <2>4 DEF TypeOK
    <2>6. raftLog' = raftLog
      BY <1>3 DEF LoadOnce
    <2>7. QED
      BY <1>1, <2>5, <2>6 DEF LogGrows
  <1>4. CASE UNCHANGED <<raftLog, handed>>
    BY <1>1, <1>4 DEF LogGrows, TypeOK
  <1>5. ASSUME NEW n \in Node,
               \/ SkipItem(n) \/ SaveItem(n) \/ BeginActions(n)
               \/ ApplyOneAction(n) \/ DeleteItem(n)
        PROVE  LogGrows
    BY <1>4, <1>5 DEF SkipItem, SaveItem, BeginActions, ApplyOneAction, DeleteItem,
                      onlyJob
  <1>6. ASSUME NEW n \in Node,
               \/ NothingToSave(n) \/ SaveDeleted(n) \/ SaveToDisk(n)
               \/ SaveInMemory(n) \/ MarkDirty(n)
        PROVE  LogGrows
    BY <1>4, <1>6 DEF NothingToSave, SaveDeleted, SaveToDisk, SaveInMemory, MarkDirty,
                      EndBatch
  <1>7. ASSUME NEW n \in Node, BeginSnapshot(n) \/ SnapshotStep(n) PROVE LogGrows
    BY <1>4, <1>7 DEF BeginSnapshot, SnapshotStep, FlushCheck, FlushLoad, FlushWrite,
                      FlushCache, BeginPersist, EndSnapshot, onlyFlusher
  <1>8. ASSUME NEW n \in Node,
               HubMisses(n) \/ HubReadsDisk(n) \/ HubFillsCache(n) \/ Crash(n)
        PROVE  LogGrows
    BY <1>4, <1>8 DEF HubMisses, HubReadsDisk, HubFillsCache, Crash, onlyReader
  <1>9. QED
    BY <1>2, <1>3, <1>5, <1>6, <1>7, <1>8 DEF Next, FSMStep

\* The copies a step leaves are old, empty or good.
NewCopiesGood ==
    \A m \in Node : \A g \in Copies(m)' :
        g \in Copies(m) \cup {Fresh, Tombstone} \/ Good(g, m)'

\* A step of the FSM goroutine that touches only its own document.
LEMMA JobOnlyCopies ==
    ASSUME TypeOK, NEW n \in Node, UNCHANGED onlyJob,
           NEW j \in Job, job' = [job EXCEPT ![n] = j],
           j.game \in Copies(n) \/ Good(j.game, n)
    PROVE  NewCopiesGood
  <1> SUFFICES ASSUME NEW m \in Node, NEW g \in Copies(m)'
               PROVE  g \in Copies(m) \/ Good(g, m)'
    BY DEF NewCopiesGood
  <1>1. UNCHANGED <<cache, disk, flusher, reader, raftLog, handed>>
    BY DEF onlyJob
  <1>2. job'[m] = IF m = n THEN j ELSE job[m]
    BY DEF TypeOK
  <1>3. g \in Copies(m) \/ (m = n /\ g = j.game)
    BY <1>1, <1>2 DEF Copies
  <1>4. Good(j.game, n) => Good(j.game, n)'
    BY <1>1 DEF Good, Committed
  <1>5. QED
    BY <1>3, <1>4

LEMMA GoodJob ==
    ASSUME AllGood, NEW n \in Node
    PROVE  /\ TypeOK /\ Control(n) /\ job[n] \in Job /\ job[n].game \in Game
           /\ job[n].game \in Copies(n)
           /\ Good(job[n].game, n)
  BY DEF AllGood, TypeInv, TypeOK, Job, Copies

LEMMA SaveItemGood ==
    ASSUME AllGood, NEW n \in Node, SaveItem(n)
    PROVE  NewCopiesGood
  <1> DEFINE c == raftLog[job[n].next]
             g == [log |-> c.log, status |-> c.status, lri |-> job[n].next]
             taken == TakenJob(job[n], g, FALSE)
             refused == [job[n] EXCEPT !.next = @ + 1]
             existing == IF job[n].deleted THEN <<>> ELSE job[n].game.log
             j == IF c.force \/ Continues(c.log, existing) THEN taken ELSE refused
  <1>1. /\ TypeInv /\ job[n].pc = "item"
        /\ job[n].next <= job[n].last /\ c.type = "save"
    BY DEF AllGood, SaveItem, AtItem
  <1>2. /\ c \in Command /\ job[n].next \in Nat /\ job[n].next <= handed[n]
        /\ job[n].next \in 1..Len(raftLog)
    BY <1>1, ItemTyping
  <1>3. /\ c.log \in Seq(Action) /\ g \in Game /\ Spaced(c.log)
    BY <1>1, <1>2, CommandTyping, GameFSMAssumption DEF Game, Status
  <1>4. Good(g, n)
    <2>1. \A i \in 1..Len(c.log) : c.log[i] \in ActionsOf(c)
      BY <1>1, <1>3 DEF ActionsOf
    <2>2. QED
      BY <1>2, <1>3, <2>1 DEF Good, Committed
  <1>5. job' = [job EXCEPT ![n] = j]
    BY DEF SaveItem, TakenJob
  <1> HIDE DEF g
  <1>6. taken \in Job /\ taken.game = g
    BY <1>3, GoodJob, TakenTyping, Zenon
  <1>7. refused \in Job /\ refused.game = job[n].game
    BY GoodJob DEF Job
  <1>8. j \in Job /\ (j.game \in Copies(n) \/ Good(j.game, n))
    BY <1>4, <1>6, <1>7, GoodJob
  <1> HIDE DEF j
  <1>9. QED
    BY <1>5, <1>8, GoodJob, JobOnlyCopies DEF SaveItem

LEMMA DeleteItemGood ==
    ASSUME AllGood, NEW n \in Node, DeleteItem(n)
    PROVE  NewCopiesGood
  <1> DEFINE g == [job[n].game EXCEPT !.lri = job[n].next]
             j == TakenJob(job[n], g, TRUE)
  <1>1. TypeInv /\ job[n].pc = "item" /\ job[n].next <= job[n].last
    BY DEF AllGood, DeleteItem, AtItem
  <1>2. job[n].next \in Nat /\ job[n].next <= handed[n]
    BY <1>1, ItemTyping
  <1>3. g \in Game
    BY <1>2, GoodJob DEF Game
  <1>4. Good(g, n)
    BY <1>2, GoodJob, IndexGood
  <1>5. job' = [job EXCEPT ![n] = j]
    BY DEF DeleteItem, TakenJob
  <1> HIDE DEF g
  <1>6. j \in Job /\ j.game = g
    BY <1>3, GoodJob, TakenTyping, Zenon
  <1> HIDE DEF j
  <1>7. QED
    BY <1>4, <1>5, <1>6, GoodJob, JobOnlyCopies DEF DeleteItem

LEMMA SameGameGood ==
    ASSUME AllGood, NEW n \in Node, SkipItem(n) \/ BeginActions(n)
    PROVE  NewCopiesGood
  <1>1. CASE SkipItem(n)
    <2> DEFINE j == [job[n] EXCEPT !.next = @ + 1]
    <2>1. j \in Job /\ j.game = job[n].game
      BY GoodJob DEF Job
    <2>2. job' = [job EXCEPT ![n] = j]
      BY <1>1 DEF SkipItem
    <2> HIDE DEF j
    <2>3. QED
      BY <1>1, <2>1, <2>2, GoodJob, JobOnlyCopies DEF SkipItem
  <1>2. CASE BeginActions(n)
    <2> DEFINE c == raftLog[job[n].next]
               j1 == [job[n] EXCEPT !.pc = "acts"]
               j == [j1 EXCEPT !.acts = c.acts]
    <2>1. TypeInv /\ job[n].pc = "item" /\ job[n].next <= job[n].last
            /\ c.type = "action"
      BY <1>2 DEF AllGood, BeginActions, AtItem
    <2>2. c.acts \in Seq(Action)
      BY <2>1, ItemTyping, CommandTyping
    <2>3. j1 \in Job /\ j1.game = job[n].game
      BY GoodJob DEF Job
    <2> HIDE DEF j1
    <2>4. j \in Job /\ j.game = job[n].game
      BY <2>2, <2>3 DEF Job
    <2>5. job' = [job EXCEPT ![n] = j]
      BY <1>2 DEF BeginActions, j1
    <2> HIDE DEF j
    <2>6. QED
      BY <1>2, <2>4, <2>5, GoodJob, JobOnlyCopies DEF BeginActions
  <1>3. QED
    BY <1>1, <1>2

LEMMA ApplyOneActionGood ==
    ASSUME AllGood, NEW n \in Node, ApplyOneAction(n)
    PROVE  NewCopiesGood
  <1> DEFINE last == Len(job[n].acts) = 1
             a == Head(job[n].acts)
             g0 == ApplyAction(job[n].game, a)
             g == IF last THEN [g0 EXCEPT !.lri = job[n].next] ELSE g0
             pc == IF last THEN "item" ELSE "acts"
             acts == Tail(job[n].acts)
             next == IF last THEN job[n].next + 1 ELSE job[n].next
             drty == job[n].dirty \/ g0 # job[n].game
             j1 == [job[n] EXCEPT !.pc = pc]
             j2 == [j1 EXCEPT !.game = g]
             j3 == [j2 EXCEPT !.acts = acts]
             j4 == [j3 EXCEPT !.next = next]
             j == [j4 EXCEPT !.dirty = drty]
  <1>1. /\ TypeInv /\ job[n].pc = "acts" /\ job[n].next <= job[n].last
        /\ job[n].acts \in Seq(Action) /\ job[n].acts # <<>>
        /\ a \in ActionsOf(raftLog[job[n].next])
    <2>1. /\ TypeInv /\ job[n].pc = "acts" /\ job[n].next <= job[n].last
          /\ job[n].acts # <<>> /\ job[n].acts \in Seq(Action)
          /\ \A i \in 1..Len(job[n].acts) :
                job[n].acts[i] \in ActionsOf(raftLog[job[n].next])
      BY GoodJob DEF AllGood, ApplyOneAction, Control, Job
    <2>2. 1 \in 1..Len(job[n].acts) /\ a = job[n].acts[1]
      BY <2>1
    <2>3. QED
      BY <2>1, <2>2
  <1>2. /\ job[n].next \in 1..Len(raftLog) /\ job[n].next <= handed[n]
        /\ job[n].next \in Nat
    BY <1>1, ItemTyping
  <1>3. a \in Action /\ acts \in Seq(Action)
    BY <1>1
  <1>4. g0 \in Game /\ Good(g0, n)
    BY <1>1, <1>2, <1>3, GoodJob, ApplyActionTyping, ApplyActionGood
  <1>5. g \in Game /\ Good(g, n)
    <2> HIDE DEF g0
    <2>1. [g0 EXCEPT !.lri = job[n].next] \in Game
      BY <1>2, <1>4 DEF Game
    <2>2. Good([g0 EXCEPT !.lri = job[n].next], n)
      BY <1>2, <1>4, IndexGood
    <2>3. QED
      BY <1>4, <2>1, <2>2
  <1>6. pc \in {"item", "acts"} /\ next \in Nat /\ drty \in BOOLEAN
    BY <1>2, GoodJob DEF Job
  <1>7. job' = [job EXCEPT ![n] = j]
    BY DEF ApplyOneAction
  <1> HIDE DEF g, pc, acts, next, drty
  <1>8. j \in Job /\ j.game = g
    <2>1. j1 \in Job
      BY <1>6, GoodJob DEF Job
    <2> HIDE DEF j1
    <2>2. j2 \in Job /\ j2.game = g
      BY <1>5, <2>1 DEF Job
    <2> HIDE DEF j2
    <2>3. j3 \in Job /\ j3.game = g
      BY <1>3, <2>2 DEF Job
    <2> HIDE DEF j3
    <2>4. j4 \in Job /\ j4.game = g
      BY <1>6, <2>3 DEF Job
    <2> HIDE DEF j4
    <2>5. j \in Job /\ j.game = g
      BY <1>6, <2>4 DEF Job
    <2>6. QED
      BY <2>5 DEF j1, j2, j3, j4
  <1> HIDE DEF j
  <1>9. QED
    BY <1>5, <1>7, <1>8, GoodJob, JobOnlyCopies DEF ApplyOneAction

Old(m) == Copies(m) \cup {Fresh, Tombstone}

\* A step that only moves documents around.
LEMMA MovedGood ==
    ASSUME \A m \in Node :
              /\ {job'[m].game, flusher'[m].val, reader'[m].val} \subseteq Old(m)
              /\ {cache'[m], disk'[m]} \subseteq Old(m) \cup {NoGame}
    PROVE  NewCopiesGood
  BY DEF NewCopiesGood, Copies, Old

LEMMA HereNow ==
    ASSUME NEW m \in Node
    PROVE  /\ {job[m].game, flusher[m].val, reader[m].val} \subseteq Old(m)
           /\ {cache[m], disk[m]} \subseteq Old(m) \cup {NoGame}
  BY DEF Old, Copies

LEMMA IdleGames ==
    ASSUME NEW m \in Node
    PROVE  /\ IdleJob.game \in Old(m)
           /\ IdleFlusher.val \in Old(m)
           /\ IdleReader.val \in Old(m)
  BY DEF IdleJob, IdleFlusher, IdleReader, Old

LEMMA LoadOnceGood ==
    ASSUME TypeOK, NEW n \in Node, LoadOnce(n)
    PROVE  NewCopiesGood
  <1>1. PICK k \in 1..MaxBatch :
          job' = [job EXCEPT ![n] =
                [IdleJob EXCEPT !.pc = "item",
                                !.game = OrFresh(LoadGame(n)),
                                !.next = applied[n] + 1,
                                !.last = applied[n] + k]]
    BY DEF LoadOnce
  <1> DEFINE g == OrFresh(LoadGame(n))
             lo == applied[n] + 1
             hi == applied[n] + k
             j == LoadedJob(g, lo, hi)
  <1>2. applied[n] \in Nat /\ k \in Nat
    BY GameFSMAssumption DEF TypeOK
  <1>3. LoadGame(n) \in Slot /\ LoadGame(n) \in Old(n) \cup {NoGame} /\ g \in Game
    BY FreshTombstone, HereNow DEF LoadGame, OrFresh, Slot, TypeOK
  <1>4. g \in Old(n)
    BY <1>3 DEF OrFresh, Old
  <1>5. lo \in Nat /\ hi \in Nat
    BY <1>2
  <1>6. job' = [job EXCEPT ![n] = j]
    BY <1>1 DEF LoadedJob
  <1> HIDE DEF g, lo, hi
  <1>7. j.game = g
    BY <1>3, <1>5, LoadedTyping
  <1> HIDE DEF j
  <1>8. ASSUME NEW m \in Node
        PROVE  /\ {job'[m].game, flusher'[m].val, reader'[m].val} \subseteq Old(m)
               /\ {cache'[m], disk'[m]} \subseteq Old(m) \cup {NoGame}
    <2>1. UNCHANGED <<disk, flusher, reader>>
      BY DEF LoadOnce
    <2>2. /\ job'[m] = IF m = n THEN j ELSE job[m]
          /\ cache'[m] = IF m = n THEN LoadGame(n) ELSE cache[m]
      BY <1>6 DEF LoadOnce, TypeOK
    <2>3. QED
      BY <1>3, <1>4, <1>7, <2>1, <2>2, HereNow
  <1>9. QED
    BY <1>8, MovedGood

LEMMA SavedGood ==
    ASSUME TypeOK, NEW n \in Node,
           NothingToSave(n) \/ SaveDeleted(n) \/ SaveToDisk(n) \/ MarkDirty(n)
    PROVE  NewCopiesGood
  <1>1. EndBatch(n) /\ UNCHANGED <<flusher, reader>>
    BY DEF NothingToSave, SaveDeleted, SaveToDisk, MarkDirty
  <1>2. job' = [job EXCEPT ![n] = IdleJob]
    BY <1>1 DEF EndBatch
  <1>3. \/ UNCHANGED <<cache, disk>>
        \/ \E g \in {Tombstone, job[n].game} :
              /\ cache' = [cache EXCEPT ![n] = g]
              /\ disk' = [disk EXCEPT ![n] = g]
    BY DEF NothingToSave, SaveDeleted, DeleteGame, SaveToDisk, SaveGame, MarkDirty
  <1>4. ASSUME NEW m \in Node
        PROVE  /\ {job'[m].game, flusher'[m].val, reader'[m].val} \subseteq Old(m)
               /\ {cache'[m], disk'[m]} \subseteq Old(m) \cup {NoGame}
    <2>1. job'[m].game \in {job[m].game, IdleJob.game}
      BY <1>2 DEF TypeOK
    <2>2. /\ cache'[m] \in {cache[m], Tombstone, job[m].game}
          /\ disk'[m] \in {disk[m], Tombstone, job[m].game}
      BY <1>3 DEF TypeOK
    <2>3. Tombstone \in Old(m)
      BY DEF Old
    <2>4. QED
      BY <1>1, <2>1, <2>2, <2>3, HereNow, IdleGames
  <1>5. QED
    BY <1>4, MovedGood

LEMMA SaveInMemoryGood ==
    ASSUME TypeOK, NEW n \in Node, SaveInMemory(n)
    PROVE  NewCopiesGood
  <1>1. /\ cache' = [cache EXCEPT ![n] = job[n].game]
        /\ job' = [job EXCEPT ![n] = [job[n] EXCEPT !.pc = "mark"]]
        /\ UNCHANGED <<disk, flusher, reader>>
    BY DEF SaveInMemory
  <1>2. [job[n] EXCEPT !.pc = "mark"].game = job[n].game
    BY DEF TypeOK, Job
  <1>3. ASSUME NEW m \in Node
        PROVE  /\ {job'[m].game, flusher'[m].val, reader'[m].val} \subseteq Old(m)
               /\ {cache'[m], disk'[m]} \subseteq Old(m) \cup {NoGame}
    <2>1. job'[m].game = job[m].game /\ cache'[m] \in {cache[m], job[m].game}
      BY <1>1, <1>2 DEF TypeOK
    <2>2. QED
      BY <1>1, <2>1, HereNow
  <1>4. QED
    BY <1>3, MovedGood

LEMMA SnapshotGood ==
    ASSUME TypeInv, NEW n \in Node, BeginSnapshot(n) \/ SnapshotStep(n)
    PROVE  NewCopiesGood
  <1>1. TypeOK /\ Control(n) /\ flusher[n] \in Flusher
    BY DEF TypeInv, TypeOK
  <1>2. UNCHANGED <<job, reader>>
    BY DEF BeginSnapshot, SnapshotStep, FlushCheck, FlushLoad, FlushWrite,
           FlushCache, BeginPersist, EndSnapshot, onlyFlusher
  <1>3. \A m \in Node : /\ cache'[m] \in {cache[m], flusher[m].val}
                        /\ disk'[m] \in {disk[m], flusher[m].val}
    <2>1. CASE FlushWrite(n)
      BY <1>1, <2>1 DEF FlushWrite, TypeOK
    <2>2. CASE FlushCache(n)
      BY <1>1, <2>2 DEF FlushCache, TypeOK
    <2>3. CASE UNCHANGED <<cache, disk>>
      BY <2>3
    <2>4. QED
      BY <2>1, <2>2, <2>3 DEF BeginSnapshot, SnapshotStep, FlushCheck, FlushLoad,
                              BeginPersist, EndSnapshot, onlyFlusher
  <1>4. \A m \in Node : flusher'[m].val \in {flusher[m].val, IdleFlusher.val}
                                              \cup ({cache[m]} \ {NoGame})
    <2>1. CASE BeginSnapshot(n)
      <3> DEFINE f1 == [flusher[n] EXCEPT !.phase = "snapshot"]
                 f2 == [f1 EXCEPT !.pc = "check"]
                 f3 == [f2 EXCEPT !.idx = applied[n]]
      <3>1. f1 \in Flusher /\ f1.val = flusher[n].val
        BY <1>1 DEF Flusher
      <3> HIDE DEF f1
      <3>2. f2 \in Flusher /\ f2.val = flusher[n].val
        BY <3>1 DEF Flusher
      <3> HIDE DEF f2
      <3>3. f3.val = flusher[n].val
        BY <3>2 DEF Flusher
      <3> HIDE DEF f3
      <3>4. flusher' = [flusher EXCEPT ![n] = f3]
        BY <2>1 DEF BeginSnapshot, f1, f2, f3
      <3>5. QED
        BY <1>1, <3>3, <3>4 DEF TypeOK
    <2>2. CASE FlushLoad(n)
      <3> DEFINE f1 == [flusher[n] EXCEPT !.pc = "write"]
                 f2 == [f1 EXCEPT !.val = cache[n]]
      <3>1. cache[n] \in Game /\ cache[n] # NoGame
        BY <1>1, <2>2 DEF FlushLoad, Control, TypeOK, Slot
      <3>2. f1 \in Flusher
        BY <1>1 DEF Flusher
      <3> HIDE DEF f1
      <3>3. f2.val = cache[n]
        BY <3>1, <3>2 DEF Flusher
      <3> HIDE DEF f2
      <3>4. flusher' = [flusher EXCEPT ![n] = f2]
        BY <2>2 DEF FlushLoad, f1, f2
      <3>5. QED
        BY <1>1, <3>1, <3>3, <3>4 DEF TypeOK
    <2>3. CASE FlushCheck(n) \/ FlushWrite(n) \/ FlushCache(n)
      <3>1. PICK p \in {"load", "cache", "done"} :
              flusher' = [flusher EXCEPT ![n] = [flusher[n] EXCEPT !.pc = p]]
        BY <2>3 DEF FlushCheck, FlushWrite, FlushCache
      <3> DEFINE f == [flusher[n] EXCEPT !.pc = p]
      <3>2. f.val = flusher[n].val
        BY <1>1 DEF Flusher
      <3>3. flusher' = [flusher EXCEPT ![n] = f]
        BY <3>1
      <3> HIDE DEF f
      <3>4. QED
        BY <1>1, <3>2, <3>3 DEF TypeOK
    <2>4. CASE BeginPersist(n)
      <3> DEFINE f1 == [flusher[n] EXCEPT !.phase = "persist"]
                 f2 == [f1 EXCEPT !.pc = "check"]
      <3>1. f1 \in Flusher /\ f1.val = flusher[n].val
        BY <1>1 DEF Flusher
      <3> HIDE DEF f1
      <3>2. f2.val = flusher[n].val
        BY <3>1 DEF Flusher
      <3> HIDE DEF f2
      <3>3. flusher' = [flusher EXCEPT ![n] = f2]
        BY <2>4 DEF BeginPersist, f1, f2
      <3>4. QED
        BY <1>1, <3>2, <3>3 DEF TypeOK
    <2>5. CASE EndSnapshot(n)
      BY <1>1, <2>5 DEF EndSnapshot, TypeOK
    <2>6. QED
      BY <2>1, <2>2, <2>3, <2>4, <2>5 DEF SnapshotStep
  <1>5. ASSUME NEW m \in Node
        PROVE  /\ {job'[m].game, flusher'[m].val, reader'[m].val} \subseteq Old(m)
               /\ {cache'[m], disk'[m]} \subseteq Old(m) \cup {NoGame}
    BY <1>2, <1>3, <1>4, HereNow, IdleGames
  <1>6. QED
    BY <1>5, MovedGood

LEMMA HubGood ==
    ASSUME TypeOK, NEW n \in Node, HubMisses(n) \/ HubReadsDisk(n) \/ HubFillsCache(n)
    PROVE  NewCopiesGood
  <1>1. UNCHANGED <<disk, job, flusher>>
    BY DEF HubMisses, HubReadsDisk, HubFillsCache, onlyReader
  <1>2. \A m \in Node : cache'[m] \in {cache[m], reader[m].val}
    BY DEF HubMisses, HubReadsDisk, HubFillsCache, TypeOK
  <1>3. \A m \in Node : reader'[m].val \in {reader[m].val, IdleReader.val}
                                             \cup ({disk[m]} \ {NoGame})
    <2>1. CASE HubMisses(n)
      <3> DEFINE r == [reader[n] EXCEPT !.pc = "missed"]
      <3>1. r.val = reader[n].val
        BY DEF TypeOK, Reader
      <3>2. reader' = [reader EXCEPT ![n] = r]
        BY <2>1 DEF HubMisses
      <3> HIDE DEF r
      <3>3. QED
        BY <3>1, <3>2 DEF TypeOK
    <2>2. CASE HubReadsDisk(n)
      BY <2>2 DEF HubReadsDisk, TypeOK
    <2>3. CASE HubFillsCache(n)
      BY <2>3 DEF HubFillsCache, TypeOK
    <2>4. QED
      BY <2>1, <2>2, <2>3
  <1>4. ASSUME NEW m \in Node
        PROVE  /\ {job'[m].game, flusher'[m].val, reader'[m].val} \subseteq Old(m)
               /\ {cache'[m], disk'[m]} \subseteq Old(m) \cup {NoGame}
    BY <1>1, <1>2, <1>3, HereNow, IdleGames
  <1>5. QED
    BY <1>4, MovedGood

LEMMA CrashGood ==
    ASSUME TypeOK, NEW n \in Node, Crash(n)
    PROVE  NewCopiesGood
  <1>1. ASSUME NEW m \in Node
        PROVE  /\ {job'[m].game, flusher'[m].val, reader'[m].val} \subseteq Old(m)
               /\ {cache'[m], disk'[m]} \subseteq Old(m) \cup {NoGame}
    <2>1. /\ job'[m] \in {job[m], IdleJob} /\ flusher'[m] \in {flusher[m], IdleFlusher}
          /\ reader'[m] \in {reader[m], IdleReader} /\ cache'[m] \in {cache[m], NoGame}
          /\ disk'[m] = disk[m]
      BY DEF Crash, TypeOK
    <2>2. QED
      BY <2>1, HereNow, IdleGames
  <1>2. QED
    BY <1>1, MovedGood

LEMMA StillGood ==
    ASSUME UNCHANGED <<cache, disk, job, flusher, reader>>
    PROVE  NewCopiesGood
  BY HereNow, MovedGood

LEMMA InitAllGood == Init => AllGood
  <1> SUFFICES ASSUME Init PROVE AllGood
    OBVIOUS
  <1>1. TypeInv /\ TypeOK
    BY InitTypeInv DEF TypeInv
  <1>2. ASSUME NEW n \in Node PROVE Copies(n) \subseteq {Fresh}
    BY DEF Init, Copies, IdleJob, IdleFlusher, IdleReader
  <1>3. QED
    BY <1>1, <1>2, EmptyGood DEF AllGood

LEMMA NextAllGood == AllGood /\ [Next]_vars => AllGood'
  <1> SUFFICES ASSUME AllGood, [Next]_vars PROVE AllGood'
    OBVIOUS
  <1>1. TypeInv /\ TypeOK /\ TypeInv'
    BY NextTypeInv DEF AllGood, TypeInv
  <1>2. ASSUME Next PROVE NewCopiesGood
    <2>1. CASE \E c \in Command : Commit(c)
      BY <2>1, StillGood DEF Commit
    <2>2. ASSUME NEW n \in Node, FSMStep(n) PROVE NewCopiesGood
      BY <1>1, <2>2, LoadOnceGood, SameGameGood, SaveItemGood, ApplyOneActionGood,
         DeleteItemGood, SavedGood, SaveInMemoryGood DEF FSMStep
    <2>3. ASSUME NEW n \in Node, BeginSnapshot(n) \/ SnapshotStep(n)
          PROVE  NewCopiesGood
      BY <1>1, <2>3, SnapshotGood
    <2>4. ASSUME NEW n \in Node,
                 HubMisses(n) \/ HubReadsDisk(n) \/ HubFillsCache(n) \/ Crash(n)
          PROVE  NewCopiesGood
      BY <1>1, <2>4, HubGood, CrashGood
    <2>5. QED
      BY <1>2, <2>1, <2>2, <2>3, <2>4 DEF Next
  <1>3. CASE Next
    BY <1>1, <1>2, <1>3, NextGrows, KeepsGood DEF NewCopiesGood
  <1>4. CASE UNCHANGED vars
    <2>1. NewCopiesGood
      BY <1>4, StillGood DEF vars
    <2>2. LogGrows
      BY <1>1, <1>4 DEF vars, LogGrows, TypeOK
    <2>3. QED
      BY <1>1, <2>1, <2>2, KeepsGood DEF NewCopiesGood
  <1>5. QED
    BY <1>3, <1>4

LEMMA AlwaysGood == Spec => []AllGood
  BY InitAllGood, NextAllGood, PTL DEF Spec

\* No copy of a game on any node, in the cache, on disk or in the hands of a
\* goroutine, ever holds an action twice within the reach of the duplicate
\* scan: replaying commands onto a file that is ahead of the snapshot, a late
\* flush and a stale read are all harmless in this respect.
THEOREM NeverDoubled == Spec => []NoDoubleApply
  <1>1. AllGood => NoDoubleApply
    BY DEF AllGood, Good, NoDoubleApply
  <1>2. QED
    BY <1>1, AlwaysGood, PTL

\* No copy claims to have applied a command the node was not handed, so
\* neither LastRaftIndex check ever skips a command that is new to the node.
THEOREM NeverAhead == Spec => []IndexNotAhead
  <1>1. AllGood => IndexNotAhead
    BY DEF AllGood, Good, IndexNotAhead
  <1>2. QED
    BY <1>1, AlwaysGood, PTL

\* Every action in every copy was committed and delivered to that node.
THEOREM NoPhantoms == Spec => []NoPhantomAction
  <1>1. AllGood => NoPhantomAction
    BY DEF AllGood, Good, Committed, NoPhantomAction
  <1>2. QED
    BY <1>1, AlwaysGood, PTL

=============================================================================
