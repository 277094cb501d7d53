----------------------- MODULE MessageDelivery_proofs -----------------------
(***************************************************************************)
(* Theorems about MessageDelivery, for every number of messages, every mix *)
(* of user messages and commands, and any number of crashes, restarts and  *)
(* reaps.                                                                  *)
(***************************************************************************)
EXTENDS MessageDelivery, TLAPS

(* Type correctness.  Each action has one step per part of TypeOK it can       *)
(* disturb; the frame lemma takes care of the others.                          *)

\* The initial state is well typed.
LEMMA InitType == Init => TypeOK
<1> SUFFICES ASSUME Init PROVE TypeOK
  OBVIOUS
<1> USE ConstantsOK DEF ConstantsOK, Init
<1>1. DbType
  BY DEF DbType, RowStatus, ReplyStatus
<1>2. LoopType
  BY DEF LoopType
<1>3. RegistryType
  BY DEF RegistryType
<1>4. WorkerType
  BY DEF WorkerType, Live
<1>5. CountType
  BY DEF CountType
<1> QED
  BY <1>1, <1>2, <1>3, <1>4, <1>5 DEF TypeOK

\* A part whose variables do not change keeps its type.
LEMMA Frame ==
  ASSUME TypeOK
  PROVE  /\ UNCHANGED db /\ req' \in {"none", "web", req} => DbType'
         /\ UNCHANGED <<files, loop>> => LoopType'
         /\ UNCHANGED <<tracked, shutting, connected, mp, req, rp>> => RegistryType'
         /\ UNCHANGED process => WorkerType'
         /\ UNCHANGED <<strikes, bounds>> => CountType'
<1> USE DEF TypeOK
<1>1. UNCHANGED db /\ req' \in {"none", "web", req} => DbType'
  BY DEF DbType, db
<1>2. UNCHANGED <<files, loop>> => LoopType'
  BY DEF LoopType, files, loop
<1>3. UNCHANGED <<tracked, shutting, connected, mp, req, rp>> => RegistryType'
  BY DEF RegistryType
<1>4. UNCHANGED process => WorkerType'
  BY DEF WorkerType, process, memory
<1>5. UNCHANGED <<strikes, bounds>> => CountType'
  BY DEF CountType, bounds
<1> QED
  BY <1>1, <1>2, <1>3, <1>4, <1>5

\* The types survive a request.
LEMMA RequestType == TypeOK /\ Request => TypeOK'
<1> SUFFICES ASSUME TypeOK, Request PROVE TypeOK'
  OBVIOUS
<1> USE DEF TypeOK, db, files, loop, registry, memory, process, bounds
<1>1. CASE SubmitWeb
  <2> USE <1>1 DEF SubmitWeb
  <2>1. DbType'
    BY ConstantsOK DEF DbType, RowStatus, Msgs, ConstantsOK
  <2>2. RegistryType'
    BY DEF RegistryType
  <2> QED
    BY <2>1, <2>2, Frame
<1>2. CASE Reattach
  <2> USE <1>2 DEF Reattach
  <2>1. DbType'
    BY DEF DbType
  <2>2. LoopType'
    BY DEF LoopType, ResetLoop
  <2>3. RegistryType'
    BY DEF RegistryType
  <2> QED
    BY <2>1, <2>2, <2>3, Frame
<1>3. CASE SpawnForWeb
  <2> USE <1>3 DEF SpawnForWeb
  <2>1. DbType'
    BY DEF DbType, SpawnWorker, SpawnContainer
  <2>2. LoopType'
    BY DEF LoopType, SpawnWorker, SpawnContainer, ResetLoop
  <2>3. RegistryType'
    BY DEF RegistryType, SpawnWorker
  <2>4. WorkerType'
    BY DEF WorkerType, SpawnWorker, SpawnContainer, ClearMemory, Live
  <2>5. CountType'
    BY ConstantsOK DEF CountType, SpawnWorker, ConstantsOK
  <2> QED
    BY <2>1, <2>2, <2>3, <2>4, <2>5, Frame
<1>4. CASE EnsureHeadless
  <2> USE <1>4 DEF EnsureHeadless
  <2>1. DbType'
    BY DEF DbType, SpawnWorker, SpawnContainer
  <2>2. LoopType'
    BY DEF LoopType, SpawnWorker, SpawnContainer, ResetLoop
  <2>3. RegistryType'
    BY DEF RegistryType, SpawnWorker
  <2>4. WorkerType'
    BY DEF WorkerType, SpawnWorker, SpawnContainer, ClearMemory, Live
  <2>5. CountType'
    BY ConstantsOK DEF CountType, SpawnWorker, ConstantsOK
  <2> QED
    BY <2>1, <2>2, <2>3, <2>4, <2>5, Frame
<1>5. CASE SubmitHeadless
  <2> USE <1>5 DEF SubmitHeadless
  <2>1. DbType'
    BY ConstantsOK DEF DbType, RowStatus, Msgs, ConstantsOK
  <2>2. RegistryType'
    BY DEF RegistryType
  <2> QED
    BY <2>1, <2>2, Frame
<1>6. CASE Connect
  <2> USE <1>6 DEF Connect
  <2>1. RegistryType'
    BY DEF RegistryType
  <2> QED
    BY <2>1, Frame
<1>7. CASE Disconnect
  <2> USE <1>7 DEF Disconnect
  <2>1. DbType'
    BY DEF DbType
  <2>2. RegistryType'
    BY DEF RegistryType
  <2> QED
    BY <2>1, <2>2, Frame
<1>8. CASE \E m \in Msgs : DeleteItem(m)
  <2> PICK m \in Msgs : DeleteItem(m)
    BY <1>8
  <2> USE <1>8 DEF DeleteItem
  <2>1. DbType'
    BY DEF DbType, RowStatus
  <2> QED
    BY <2>1, Frame
<1> QED
  BY <1>1, <1>2, <1>3, <1>4, <1>5, <1>6, <1>7, <1>8 DEF Request

\* The types survive a step of the polling loop.
LEMMA LoopStepType == TypeOK /\ LoopStep => TypeOK'
<1> SUFFICES ASSUME TypeOK, LoopStep PROVE TypeOK'
  OBVIOUS
<1> USE DEF TypeOK, db, files, loop, registry, memory, process, bounds
<1>1. CASE LoopSelect
  <2> USE <1>1 DEF LoopSelect
  <2>1. DbType'
    BY DEF DbType
  <2>2. LoopType'
    BY DEF LoopType, Queued
  <2> QED
    BY <2>1, <2>2, Frame
<1>2. CASE LoopWrite
  <2> USE <1>2 DEF LoopWrite
  <2>1. LoopType'
    BY DEF LoopType
  <2> QED
    BY <2>1, Frame
<1>3. CASE LoopMark
  <2> USE <1>3 DEF LoopMark, MarkOnly
  <2>1. DbType'
    BY DEF DbType, Update, RowStatus
  <2>2. LoopType'
    BY DEF LoopType
  <2> QED
    BY <2>1, <2>2, Frame
<1>4. CASE LoopRead
  <2> USE <1>4 DEF LoopRead
  <2>1. LoopType'
    BY DEF LoopType
  <2> QED
    BY <2>1, Frame
<1>5. CASE LoopDelete
  <2> USE <1>5 DEF LoopDelete
  <2>1. DbType'
    BY DEF DbType, Update, RowStatus
  <2>2. LoopType'
    BY DEF LoopType
  <2> QED
    BY <2>1, <2>2, Frame
<1>6. CASE \E e \in events : LoopHandle(e)
  <2> PICK e \in events : LoopHandle(e)
    BY <1>6
  <2> USE <1>6 DEF LoopHandle
  <2>1. DbType'
    BY DEF DbType, ReplyAfter, ReplyStatus, Event, LoopType
  <2>2. LoopType'
    BY DEF LoopType, Event
  <2>3. CountType'
    BY DEF CountType
  <2> QED
    BY <2>1, <2>2, <2>3, Frame
<1> QED
  BY <1>1, <1>2, <1>3, <1>4, <1>5, <1>6 DEF LoopStep

\* The types survive a step of the worker.
LEMMA WorkerStepType == TypeOK /\ WorkerStep => TypeOK'
<1> SUFFICES ASSUME TypeOK, WorkerStep PROVE TypeOK'
  OBVIOUS
<1> USE DEF TypeOK, db, files, loop, registry, memory, process, bounds
<1>1. CASE WorkerBoot
  <2> USE <1>1 DEF WorkerBoot
  <2>1. LoopType'
    BY DEF LoopType
  <2>2. WorkerType'
    BY DEF WorkerType, Live
  <2> QED
    BY <2>1, <2>2, Frame
<1>2. CASE WorkerFlush
  <2> USE <1>2 DEF WorkerFlush
  <2>1. LoopType'
    BY DEF LoopType, WorkerType, Flush
  <2>2. WorkerType'
    BY DEF WorkerType, Flush
  <2> QED
    BY <2>1, <2>2, Frame
<1>3. CASE WorkerRead
  <2> USE <1>3 DEF WorkerRead
  <2>1. WorkerType'
    BY DEF WorkerType, LoopType, Live
  <2> QED
    BY <2>1, Frame
<1>4. CASE WorkerAck
  <2> USE <1>4 DEF WorkerAck
  <2>1. LoopType'
    BY DEF LoopType
  <2>2. WorkerType'
    BY DEF WorkerType, Live
  <2> QED
    BY <2>1, <2>2, Frame
<1>5. CASE WorkerStream
  <2> USE <1>5 DEF WorkerStream
  <2>1. {[id |-> current, kind |-> "stream"]} \subseteq Event
    BY ConstantsOK DEF ConstantsOK, Event, WorkerType, Msgs
  <2>2. LoopType'
    BY <2>1 DEF LoopType, Flush, WorkerType
  <2>3. WorkerType'
    BY <2>1 DEF WorkerType, Flush
  <2> QED
    BY <2>2, <2>3, Frame
<1>6. CASE WorkerSettle
  <2> USE <1>6 DEF WorkerSettle
  <2>1. LoopType'
    BY DEF LoopType, WorkerType, Flush
  <2>2. WorkerType'
    BY DEF WorkerType, Flush
  <2> QED
    BY <2>1, <2>2, Frame
<1>7. CASE WorkerExit
  <2> USE <1>7 DEF WorkerExit
  <2>1. LoopType'
    BY DEF LoopType, WorkerType
  <2>2. WorkerType'
    BY DEF WorkerType, ClearMemory
  <2> QED
    BY <2>1, <2>2, Frame
<1>8. CASE \E m \in Msgs : WorkerSkip(m)
  <2> PICK m \in Msgs : WorkerSkip(m)
    BY <1>8
  <2> USE <1>8 DEF WorkerSkip
  <2>1. WorkerType'
    BY DEF WorkerType
  <2> QED
    BY <2>1, Frame
<1>9. CASE \E m \in Msgs : WorkerStart(m)
  <2> PICK m \in Msgs : WorkerStart(m)
    BY <1>9
  <2> USE <1>9 DEF WorkerStart
  <2>1. {[id |-> m, kind |-> "stream"]} \subseteq Event
    BY DEF Event
  <2>2. LoopType'
    BY <2>1 DEF LoopType, Flush, WorkerType
  <2>3. WorkerType'
    BY <2>1 DEF WorkerType, Flush
  <2> QED
    BY <2>2, <2>3, Frame
<1>10. CASE \E k \in FinalKinds : WorkerEmit(k)
  <2> PICK k \in FinalKinds : WorkerEmit(k)
    BY <1>10
  <2> USE <1>10 DEF WorkerEmit
  <2>1. {[id |-> current, kind |-> k]} \subseteq Event
    BY DEF Event, WorkerType, Nobody
  <2>2. LoopType'
    BY <2>1 DEF LoopType, Flush, WorkerType
  <2>3. WorkerType'
    BY <2>1 DEF WorkerType, FinalOf, Flush
  <2> QED
    BY <2>2, <2>3, Frame
<1> QED
  BY <1>1, <1>2, <1>3, <1>4, <1>5, <1>6, <1>7, <1>8, <1>9, <1>10 DEF WorkerStep

\* The types survive a fault or its recovery.
LEMMA RecoveryType == TypeOK /\ Recovery => TypeOK'
<1> SUFFICES ASSUME TypeOK, Recovery PROVE TypeOK'
  OBVIOUS
<1> USE DEF TypeOK, db, files, loop, registry, memory, process, bounds
<1>1. CASE Crash
  <2> USE <1>1 DEF Crash
  <2>1. WorkerType'
    BY DEF WorkerType, ClearMemory
  <2>2. CountType'
    BY ConstantsOK DEF CountType, ConstantsOK
  <2> QED
    BY <2>1, <2>2, Frame
<1>2. CASE MonitorExit
  <2> USE <1>2 DEF MonitorExit
  <2>1. DbType'
    BY DEF DbType, FinalizeReplies, ReplyStatus
  <2>2. LoopType'
    BY DEF LoopType, ResetLoop
  <2>3. RegistryType'
    BY DEF RegistryType
  <2>4. CountType'
    <3>1. PICK s \in 1..(strikes + 1) :
            strikes' = 0 \/ (~Tripped(s) /\ strikes' = s)
      OBVIOUS
    <3>2. strikes' \in Nat /\ strikes' < BreakerMax
      BY <3>1, ConstantsOK DEF CountType, ConstantsOK, Tripped
    <3> QED
      BY <3>2 DEF CountType
  <2> QED
    BY <2>1, <2>2, <2>3, <2>4, Frame
<1>3. CASE RespawnSpawn
  <2> USE <1>3 DEF RespawnSpawn
  <2>1. DbType'
    BY DEF DbType, SpawnContainer
  <2>2. WorkerType'
    BY DEF WorkerType, SpawnContainer, ClearMemory, Live
  <2>3. RegistryType'
    BY DEF RegistryType
  <2> QED
    BY <2>1, <2>2, <2>3, Frame
<1>4. CASE RespawnRequeue
  <2> USE <1>4 DEF RespawnRequeue, RequeueThen
  <2>1. DbType'
    BY DEF DbType, Update, RowStatus
  <2>2. LoopType'
    BY DEF LoopType, ResetLoop
  <2>3. RegistryType'
    BY DEF RegistryType
  <2> QED
    BY <2>1, <2>2, <2>3, Frame
<1>5. CASE Restart
  <2> USE <1>5 DEF Restart
  <2>1. DbType'
    BY DEF DbType, Update, RowStatus, FinalizeReplies, ReplyStatus
  <2>2. LoopType'
    BY DEF LoopType, ResetLoop
  <2>3. RegistryType'
    BY DEF RegistryType
  <2>4. WorkerType'
    BY DEF WorkerType, ClearMemory
  <2>5. CountType'
    BY ConstantsOK DEF CountType, ConstantsOK
  <2> QED
    BY <2>1, <2>2, <2>3, <2>4, <2>5, Frame
<1> QED
  BY <1>1, <1>2, <1>3, <1>4, <1>5 DEF Recovery

\* The types survive a step of the reaper.
LEMMA ReapType == TypeOK /\ Reap => TypeOK'
<1> SUFFICES ASSUME TypeOK, Reap PROVE TypeOK'
  OBVIOUS
<1> USE DEF TypeOK, db, files, loop, registry, memory, process, bounds
<1>1. CASE ReapCheck
  <2> USE <1>1 DEF ReapCheck
  <2>1. RegistryType'
    BY DEF RegistryType
  <2>2. CountType'
    BY ConstantsOK DEF CountType, ConstantsOK
  <2> QED
    BY <2>1, <2>2, Frame
<1>2. CASE ReapSend
  <2> USE <1>2 DEF ReapSend
  <2>1. DbType'
    BY DEF DbType
  <2>2. LoopType'
    BY DEF LoopType
  <2>3. RegistryType'
    BY DEF RegistryType
  <2>4. WorkerType'
    BY DEF WorkerType, ClearMemory
  <2> QED
    BY <2>1, <2>2, <2>3, <2>4, Frame
<1>3. CASE ReapKill
  <2> USE <1>3 DEF ReapKill
  <2>1. WorkerType'
    BY DEF WorkerType, ClearMemory
  <2> QED
    BY <2>1, Frame
<1>4. CASE ReapDelete
  <2> USE <1>4 DEF ReapDelete
  <2>1. DbType'
    BY DEF DbType, Update, RowStatus
  <2>2. RegistryType'
    BY DEF RegistryType
  <2> QED
    BY <2>1, <2>2, Frame
<1>5. CASE ReapPop
  <2> USE <1>5 DEF ReapPop
  <2>1. LoopType'
    BY DEF LoopType, ResetLoop
  <2>2. RegistryType'
    BY DEF RegistryType
  <2>3. CountType'
    BY ConstantsOK DEF CountType, ConstantsOK
  <2> QED
    BY <2>1, <2>2, <2>3, Frame
<1> QED
  BY <1>1, <1>2, <1>3, <1>4, <1>5 DEF Reap

\* A step that changes nothing keeps the types.
LEMMA StutterType == TypeOK /\ UNCHANGED vars => TypeOK'
BY Frame DEF TypeOK, vars, db, files, loop, registry, memory, process, bounds

\* Every variable of the channel keeps its type, in every behaviour.
THEOREM TypeCorrect == Spec => []TypeOK
<1>1. TypeOK /\ [Next]_vars => TypeOK'
  BY RequestType, LoopStepType, WorkerStepType, RecoveryType, ReapType, StutterType DEF Next
<1> QED
  BY InitType, <1>1, PTL DEF Spec

-----------------------------------------------------------------------------
(* A row finishes only after its message.                                      *)

\* Steps that emit nothing, invent no event and finish no row.
LEMMA SettledFrame ==
  ASSUME TypeOK, SettledInv,
         pending' \cup output' \cup events' \subseteq pending \cup output \cup events,
         finished' \subseteq finished,
         outcome' = outcome,
         \A m \in Msgs : row'[m] = "answered" => row[m] = "answered"
  PROVE  SettledInv'
BY DEF SettledInv, AnsweredWasSettled

\* Requests emit nothing and finish no row.
LEMMA RequestSettled == TypeOK /\ SettledInv /\ Request => SettledInv'
<1> SUFFICES ASSUME TypeOK, SettledInv, Request PROVE SettledInv'
  OBVIOUS
<1> USE DEF TypeOK, db, files, loop, registry, memory, process, bounds
<1>1. pending' \cup output' \cup events' \subseteq pending \cup output \cup events
  BY DEF Request, SubmitWeb, Reattach, SpawnForWeb, EnsureHeadless, SubmitHeadless, Connect,
         Disconnect, DeleteItem, SpawnWorker, SpawnContainer, ClearMemory, ResetLoop
<1>2. finished' \subseteq finished
  BY DEF Request, SubmitWeb, Reattach, SpawnForWeb, EnsureHeadless, SubmitHeadless, Connect,
         Disconnect, DeleteItem, SpawnWorker, SpawnContainer, ClearMemory, ResetLoop
<1>3. outcome' = outcome
  BY DEF Request, SubmitWeb, Reattach, SpawnForWeb, EnsureHeadless, SubmitHeadless, Connect,
         Disconnect, DeleteItem, SpawnWorker, SpawnContainer, ClearMemory, ResetLoop
<1>4. \A m \in Msgs : row'[m] = "answered" => row[m] = "answered"
  BY DEF DbType, Request, SubmitWeb, Reattach, SpawnForWeb, EnsureHeadless, SubmitHeadless, Connect,
         Disconnect, DeleteItem, SpawnWorker, SpawnContainer, ClearMemory, ResetLoop
<1> QED
  BY <1>1, <1>2, <1>3, <1>4, SettledFrame

\* Recovery re-queues or discards rows, and never finishes one.
LEMMA RecoverySettled == TypeOK /\ SettledInv /\ (Recovery \/ Reap) => SettledInv'
<1> SUFFICES ASSUME TypeOK, SettledInv, Recovery \/ Reap PROVE SettledInv'
  OBVIOUS
<1> USE DEF TypeOK, db, files, loop, registry, memory, process, bounds
<1> USE DEF Recovery, Crash, MonitorExit, RespawnSpawn, RespawnRequeue, RequeueThen, Restart, Reap,
            ReapCheck, ReapSend, ReapKill, ReapDelete, ReapPop, SpawnContainer, ClearMemory,
            ResetLoop, Update, DbType
<1>1. pending' \cup output' \cup events' \subseteq pending \cup output \cup events
  OBVIOUS
<1>2. finished' \subseteq finished
  OBVIOUS
<1>3. outcome' = outcome
  OBVIOUS
<1>4. \A m \in Msgs : row'[m] = "answered" => row[m] = "answered"
  OBVIOUS
<1> QED
  BY <1>1, <1>2, <1>3, <1>4, SettledFrame

\* The polling loop counts a message as finished on its final event, and finishes
\* rows it has counted.
LEMMA LoopStepSettled == TypeOK /\ SettledInv /\ LoopStep => SettledInv'
<1> SUFFICES ASSUME TypeOK, SettledInv, LoopStep PROVE SettledInv'
  OBVIOUS
<1> USE DEF TypeOK, db, files, loop, registry, memory, process, bounds
<1>1. CASE LoopSelect \/ LoopWrite \/ LoopMark \/ LoopRead
  <2> USE <1>1 DEF LoopSelect, LoopWrite, LoopMark, MarkOnly, LoopRead
  <2>1. pending' \cup output' \cup events' \subseteq pending \cup output \cup events
    OBVIOUS
  <2>2. finished' = finished /\ outcome' = outcome
    OBVIOUS
  <2>3. \A m \in Msgs : row'[m] = "answered" => row[m] = "answered"
    BY DEF Update, DbType
  <2> QED
    BY <2>1, <2>2, <2>3, SettledFrame
<1>2. CASE LoopDelete
  <2> USE <1>2 DEF LoopDelete
  <2>1. \A m \in Msgs : row'[m] = "answered" => row[m] = "answered" \/ m \in finished
    BY DEF Update, Deletable, DbType
  <2> QED
    BY <2>1 DEF SettledInv, AnsweredWasSettled
<1>3. CASE \E e \in events : LoopHandle(e)
  <2> PICK e \in events : LoopHandle(e)
    BY <1>3
  <2> QED
    BY DEF LoopHandle, SettledInv, AnsweredWasSettled
<1> QED
  BY <1>1, <1>2, <1>3 DEF LoopStep

\* Only WorkerEmit adds a final event, and it records the outcome.
LEMMA WorkerStepSettled == TypeOK /\ SettledInv /\ WorkerStep => SettledInv'
<1> SUFFICES ASSUME TypeOK, SettledInv, WorkerStep PROVE SettledInv'
  OBVIOUS
<1> USE DEF TypeOK, db, files, loop, registry, memory, process, bounds
<1>1. CASE \E k \in FinalKinds : WorkerEmit(k)
  <2> PICK k \in FinalKinds : WorkerEmit(k)
    BY <1>1
  <2>1. /\ pending' \cup output' \cup events' \subseteq
             pending \cup output \cup events \cup {[id |-> current, kind |-> k]}
        /\ UNCHANGED <<row, finished>>
    BY DEF WorkerEmit, Flush
  <2>2. /\ \A m \in Msgs : outcome[m] # "none" => outcome'[m] # "none"
        /\ current \in Msgs /\ outcome'[current] # "none"
    BY DEF WorkerEmit, WorkerType, FinalKinds, Nobody
  <2>3. \A e \in pending \cup output \cup events : e.id \in Msgs
    BY DEF WorkerType, LoopType, Event
  <2> QED
    BY <2>1, <2>2, <2>3 DEF SettledInv, AnsweredWasSettled, LoopType
<1>2. CASE WorkerStream \/ \E m \in Msgs : WorkerStart(m)
  <2>1. PICK x : pending' \cup output' \cup events' \subseteq
                   pending \cup output \cup events \cup {[id |-> x, kind |-> "stream"]}
    BY <1>2 DEF WorkerStream, WorkerStart, Flush
  <2>2. UNCHANGED <<row, finished, outcome>>
    BY <1>2 DEF WorkerStream, WorkerStart
  <2> QED
    BY <2>1, <2>2 DEF SettledInv, AnsweredWasSettled, FinalKinds
<1>3. CASE \/ WorkerBoot \/ WorkerFlush \/ WorkerRead \/ WorkerAck \/ WorkerSettle \/ WorkerExit
           \/ \E m \in Msgs : WorkerSkip(m)
  <2> USE <1>3 DEF WorkerBoot, WorkerFlush, WorkerRead, WorkerAck, WorkerSettle, WorkerExit,
                   WorkerSkip, Flush, ClearMemory
  <2>1. pending' \cup output' \cup events' \subseteq pending \cup output \cup events
    OBVIOUS
  <2>2. UNCHANGED <<row, finished, outcome>>
    OBVIOUS
  <2> QED
    BY <2>1, <2>2, SettledFrame
<1> QED
  BY <1>1, <1>2, <1>3 DEF WorkerStep

\* A row is only dropped as finished when a worker has emitted a final event for
\* that very message: true through crashes, reaps, restarts and re-attachments.
THEOREM AnsweredIsSettled == Spec => []AnsweredWasSettled
<1>1. Init => SettledInv
  BY DEF Init, SettledInv, AnsweredWasSettled
<1>2. TypeOK /\ SettledInv /\ [Next]_vars => SettledInv'
  <2>1. TypeOK /\ SettledInv /\ UNCHANGED vars => SettledInv'
    BY SettledFrame DEF vars, db, files, loop, registry, memory, process, bounds
  <2> QED
    BY <2>1, RequestSettled, RecoverySettled, LoopStepSettled, WorkerStepSettled DEF Next
<1>3. SettledInv => AnsweredWasSettled
  BY DEF SettledInv
<1> QED
  BY <1>1, <1>2, <1>3, TypeCorrect, PTL DEF Spec

-----------------------------------------------------------------------------
(* A process starts a user message once.                                       *)

\* The worker is either untouched, or not yet booted after the step.
LEMMA OthersKeepRan ==
  TypeOK /\ RanInv /\ (Request \/ Recovery \/ Reap \/ LoopStep) =>
    RanInv' /\ (current' = current \/ current' = Nobody)
<1> SUFFICES ASSUME TypeOK, RanInv, Request \/ Recovery \/ Reap \/ LoopStep
             PROVE  RanInv' /\ (current' = current \/ current' = Nobody)
  OBVIOUS
<1> USE DEF db, files, loop, registry, memory, process, bounds
<1>1. \/ UNCHANGED <<worker, current, processed, ran>>
      \/ worker' \in {"booting", "exited", "none"} /\ current' = Nobody
  <2>1. CASE Request
    BY <2>1 DEF Request, SubmitWeb, Reattach, SpawnForWeb, EnsureHeadless, SubmitHeadless,
         Connect, Disconnect, DeleteItem, SpawnWorker, SpawnContainer, ClearMemory
  <2>2. CASE Recovery \/ Reap
    BY <2>2 DEF Recovery, Crash, MonitorExit, RespawnSpawn, RespawnRequeue, RequeueThen,
         Restart, Reap, ReapCheck, ReapSend, ReapKill, ReapDelete, ReapPop, SpawnContainer,
         ClearMemory
  <2>3. CASE LoopStep
    BY <2>3 DEF LoopStep, LoopSelect, LoopWrite, LoopMark, MarkOnly, LoopRead, LoopHandle, LoopDelete
  <2> QED
    BY <2>1, <2>2, <2>3
<1> QED
  BY <1>1 DEF RanInv

\* The worker marks what it was executing before it turns to the next message.
LEMMA WorkerKeepsRan == TypeOK /\ RanInv /\ WorkerStep => RanInv'
<1> SUFFICES ASSUME TypeOK, RanInv, WorkerStep PROVE RanInv'
  OBVIOUS
<1> USE DEF RanInv, memory, process
<1>1. CASE WorkerBoot \/ WorkerFlush \/ WorkerRead \/ WorkerAck \/ WorkerStream
  BY <1>1 DEF WorkerBoot, WorkerFlush, WorkerRead, WorkerAck, WorkerStream
<1>2. CASE WorkerSettle \/ WorkerExit
  BY <1>2 DEF WorkerSettle, WorkerExit, ClearMemory
<1>3. CASE \E m \in Msgs : WorkerSkip(m) \/ WorkerStart(m)
  <2>1. Nobody \notin ran
    BY ConstantsOK DEF ConstantsOK, TypeOK, WorkerType, Msgs, Nobody
  <2> QED
    BY <1>3, <2>1 DEF WorkerSkip, WorkerStart
<1>4. CASE \E k \in FinalKinds : WorkerEmit(k)
  BY <1>4 DEF WorkerEmit
<1> QED
  BY <1>1, <1>2, <1>3, <1>4 DEF WorkerStep

\* WorkerStart is the only action that starts a message, and it looks it up first.
LEMMA WorkerStartsOnce ==
  TypeOK /\ RanInv /\ WorkerStep =>
    \A m \in Users : current' = m /\ current # m => m \notin ran
<1> SUFFICES ASSUME TypeOK, RanInv, WorkerStep,
                    NEW m \in Users, current' = m, current # m
             PROVE  m \notin ran
  OBVIOUS
<1>1. m # Nobody
  BY ConstantsOK DEF ConstantsOK, Nobody
<1>2. WorkerStart(m)
  BY <1>1 DEF WorkerStep, WorkerBoot, WorkerFlush, WorkerRead, WorkerAck, WorkerStream,
     WorkerSettle, WorkerExit, WorkerSkip, WorkerStart, WorkerEmit, ClearMemory, memory
<1> QED
  BY <1>1, <1>2 DEF WorkerStart, Duplicate, RanInv

\* No worker process ever starts the same user message twice, whatever was queued
\* again, left in input.json or handed over twice.
THEOREM OncePerBoot == Spec => StartedOncePerBoot
<1>1. Init => RanInv
  BY DEF Init, RanInv
<1>2. TypeOK /\ RanInv /\ [Next]_vars => RanInv'
  <2>1. RanInv /\ UNCHANGED vars => RanInv'
    BY DEF RanInv, vars, process, memory
  <2> QED
    BY <2>1, OthersKeepRan, WorkerKeepsRan DEF Next
<1>3. TypeOK /\ RanInv /\ [Next]_vars =>
        [\A m \in Users : current' = m /\ current # m => m \notin ran]_vars
  <2> SUFFICES ASSUME TypeOK, RanInv, Next
               PROVE  \A m \in Users : current' = m /\ current # m => m \notin ran
    OBVIOUS
  <2>1. \A m \in Users : m # Nobody
    BY ConstantsOK DEF ConstantsOK, Nobody
  <2> QED
    BY <2>1, OthersKeepRan, WorkerStartsOnce DEF Next
<1> QED
  BY <1>1, <1>2, <1>3, TypeCorrect, PTL DEF Spec, StartedOncePerBoot

-----------------------------------------------------------------------------
(* A completed reply stays complete.                                           *)

\* Only the polling loop, the monitor and boot recovery write replies, and none
\* of them reopens one, in any behaviour.
THEOREM RepliesStayComplete == Spec => CompleteReplyStays
<1>1. TypeOK /\ [Next]_vars =>
        [\A m \in Msgs : reply[m] = "complete" => reply'[m] = "complete"]_vars
  <2> SUFFICES ASSUME TypeOK, Next, NEW m \in Msgs, reply[m] = "complete"
               PROVE  reply'[m] = "complete"
    OBVIOUS
  <2> USE DEF TypeOK, DbType, db
  <2>1. CASE Request
    BY <2>1 DEF Request, SubmitWeb, Reattach, SpawnForWeb, EnsureHeadless, SubmitHeadless,
         Connect, Disconnect, DeleteItem
  <2>2. CASE LoopStep
    BY <2>2 DEF LoopStep, LoopSelect, LoopWrite, LoopMark, MarkOnly, LoopRead, LoopDelete, LoopHandle,
         ReplyAfter, LoopType, Event
  <2>3. CASE WorkerStep
    BY <2>3 DEF WorkerStep, WorkerBoot, WorkerFlush, WorkerRead, WorkerAck, WorkerStream,
         WorkerSettle, WorkerExit, WorkerSkip, WorkerStart, WorkerEmit
  <2>4. CASE Recovery \/ Reap
    BY <2>4 DEF Recovery, Crash, MonitorExit, RespawnSpawn, RespawnRequeue, RequeueThen,
         Restart, Reap, ReapCheck, ReapSend, ReapKill, ReapDelete, ReapPop, FinalizeReplies
  <2> QED
    BY <2>1, <2>2, <2>3, <2>4 DEF Next
<1> QED
  BY <1>1, TypeCorrect, PTL DEF Spec, CompleteReplyStays

------------------------------------------------------------------------------
(***************************************************************************)
(* While nothing fails: every message is sent headless, and no worker      *)
(* crashes, is reaped or loses its orchestrator.  For every number and mix *)
(* of messages, whatever the user deletes and whichever write of a reply   *)
(* fails.                                                                  *)
(***************************************************************************)

\* While the page is closed, too: Reattach drops the events that its loop had read.
NothingFails == MaxCrashes = 0 /\ MaxRestarts = 0 /\ MaxReaps = 0 /\ Web = {}

\* One worker, one loop, and nobody who interrupts them.
Calm ==
  /\ mp = "watch" /\ rp = "off" /\ req # "web" /\ ~connected
  /\ worker \in {"none"} \cup Live /\ (tracked <=> worker # "none")
  /\ tracked <=> lp # "off"
  /\ Shutdown \notin input \cup held
  /\ worker = "none" => InFlight = {} /\ input = {} /\ batch = {}
  /\ worker \in {"none", "booting"} =>
       /\ output = {} /\ held = {} /\ pending = {} /\ ran = {} /\ current = Nobody
       /\ events = {} /\ finished = {}

\* What was handed over, and what is handed over but not marked yet.
Started == input \cup held \cup ran
Marking == IF lp = "mark" THEN batch ELSE {}

\* A message is in one place at a time: queued, in input.json, read, or started.
Fresh ==
  /\ Queued \cup batch \cup Started \subseteq 1..created
  /\ (Queued \ Marking) \cap Started = {}
  /\ lp = "write" => batch \cap Started = {}
  /\ (input \cup held) \cap ran = {}
  /\ processed \subseteq ran
  /\ current # Nobody => current \in ran
  /\ worker = "reading" => input = held /\ input # {}
  /\ worker = "ready" => input \cap held = {}

\* A row in flight, or about to be, has its message; when the worker leaves the
\* message its final event is on the way.
Kept ==
  /\ lp # "handle" => events = {}
  /\ InFlight \cup Marking \subseteq input \cup held \cup {current} \cup OnTheWay
  /\ ended /\ current \in InFlight \cup Marking => current \in OnTheWay

\* The only steps while nothing fails.
CalmStep ==
  \/ SubmitHeadless \/ EnsureHeadless \/ \E m \in Msgs : DeleteItem(m)
  \/ LoopStep \/ UNCHANGED vars
  \/ WorkerBoot \/ WorkerFlush \/ WorkerRead \/ WorkerAck \/ WorkerStream \/ WorkerSettle
  \/ \E m \in Msgs : WorkerStart(m)
  \/ \E k \in FinalKinds : WorkerEmit(k)

LEMMA OnlyCalmSteps ==
  ASSUME NothingFails, TypeOK, Calm, Fresh, [Next]_vars
  PROVE  CalmStep
<1> USE DEF NothingFails, Calm
<1>1. ~SubmitWeb /\ ~Reattach /\ ~SpawnForWeb /\ ~Connect /\ ~Disconnect
  BY DEF SubmitWeb, Reattach, SpawnForWeb, Connect, Disconnect
<1>2. ~Crash /\ ~MonitorExit /\ ~RespawnSpawn /\ ~RespawnRequeue /\ ~Restart
  BY DEF Crash, MonitorExit, CrashSeen, RespawnSpawn, RespawnRequeue, RequeueThen, Restart,
         Live, TypeOK, CountType
<1>3. ~ReapCheck /\ ~ReapSend /\ ~ReapKill /\ ~ReapDelete /\ ~ReapPop
  BY DEF ReapCheck, ReapSend, ReapKill, ReapDelete, ReapPop, TypeOK, CountType
<1>4. ~WorkerExit /\ \A m \in Msgs : ~WorkerSkip(m)
  BY DEF WorkerExit, WorkerSkip, NextHeld, Duplicate, Fresh
<1> QED
  BY <1>1, <1>2, <1>3, <1>4 DEF Next, Request, WorkerStep, Recovery, Reap, CalmStep

------------------------------------------------------------------------------
(* The worker and its loop.                                                *)

LEMMA CalmKept ==
  ASSUME NothingFails, TypeOK, Calm, Fresh, CalmStep
  PROVE  Calm'
<1> USE DEF Calm
<1>1. CASE SubmitHeadless
  BY <1>1 DEF SubmitHeadless, InFlight, files, loop, registry, process, memory, TypeOK, DbType, Msgs
<1>2. CASE EnsureHeadless
  BY <1>2 DEF EnsureHeadless, SpawnWorker, SpawnContainer, ClearMemory, ResetLoop, ProcessLive,
              InFlight, Live, files, loop, registry, process, memory
<1>3. ASSUME NEW m \in Msgs, DeleteItem(m) PROVE Calm'
  BY <1>3 DEF DeleteItem, InFlight, files, loop, registry, process, memory, TypeOK, DbType, Live
<1>4. CASE LoopSelect
  BY <1>4 DEF LoopSelect, InFlight, files, registry, process, memory, Live
<1>5. CASE LoopWrite
  <2>1. batch \subseteq Msgs /\ Shutdown \notin Msgs
    BY ConstantsOK DEF TypeOK, LoopType, Msgs, Shutdown, ConstantsOK
  <2> QED
    BY <1>5, <2>1 DEF LoopWrite, Flushable, InputFree, db, registry, process, memory, Live
<1>6. CASE LoopMark
  BY <1>6 DEF LoopMark, MarkOnly, files, registry, process, memory, Live
<1>7. CASE LoopRead
  BY <1>7 DEF LoopRead, InFlight, db, registry, process, memory, Live
<1>8. CASE LoopDelete
  BY <1>8 DEF LoopDelete, files, registry, process, memory, Live
<1>9. ASSUME NEW e \in events, LoopHandle(e) PROVE Calm'
  BY <1>9 DEF LoopHandle, InFlight, files, registry, process, memory, Live
<1>10. CASE WorkerBoot \/ WorkerFlush \/ WorkerRead \/ WorkerAck
  BY <1>10 DEF WorkerBoot, WorkerFlush, WorkerRead, WorkerAck, Live, db, files, loop, registry,
               memory, Flush
<1>11. CASE WorkerStream \/ WorkerSettle \/ \E k \in FinalKinds : WorkerEmit(k)
  <2>1. /\ worker = "ready" /\ UNCHANGED <<worker, held, input, loop, registry, req, rp>>
    BY <1>11 DEF WorkerStream, WorkerSettle, WorkerEmit
  <2> QED
    BY <2>1 DEF Live, loop, registry
<1>12. ASSUME NEW m \in Msgs, WorkerStart(m) PROVE Calm'
  BY <1>12 DEF WorkerStart, Live, db, loop, registry
<1>13. CASE UNCHANGED vars
  BY <1>13 DEF vars, db, files, loop, registry, process, memory, InFlight
<1> QED
  BY <1>1, <1>2, <1>3, <1>4, <1>5, <1>6, <1>7, <1>8, <1>9, <1>10, <1>11, <1>12, <1>13
     DEF CalmStep, LoopStep

LEMMA FreshKept ==
  ASSUME NothingFails, TypeOK, Calm, Fresh, CalmStep
  PROVE  Fresh'
<1> USE DEF Fresh, Started, Marking
<1>1. CASE SubmitHeadless
  <2>1. created \in Nat /\ created' = created + 1 /\ created + 1 \in Msgs
    BY <1>1, ConstantsOK DEF SubmitHeadless, TypeOK, DbType, ConstantsOK, Msgs
  <2>2. Queued' = Queued \cup {created + 1}
    BY <1>1, <2>1 DEF SubmitHeadless, Queued, TypeOK, DbType
  <2>3. created + 1 \notin batch \cup Started
    BY <2>1
  <2>4. 1..created' = 1..created \cup {created + 1}
    BY <2>1
  <2>5. UNCHANGED <<lp, batch, input, held, ran, processed, current, worker>>
    BY <1>1 DEF SubmitHeadless, files, loop, process, memory
  <2> QED
    BY <2>2, <2>3, <2>4, <2>5
<1>2. CASE EnsureHeadless
  <2>1. CASE UNCHANGED <<loop, process>>
    BY <1>2, <2>1 DEF EnsureHeadless, Queued, files, loop, process, memory
  <2>2. CASE ~UNCHANGED <<loop, process>>
    <3>1. worker = "none" /\ SpawnWorker(FALSE)
      BY <1>2, <2>2 DEF EnsureHeadless, Calm, ProcessLive
    <3> QED
      BY <1>2, <3>1 DEF EnsureHeadless, SpawnWorker, SpawnContainer, ClearMemory, ResetLoop,
                        Calm, Queued, files
  <2> QED
    BY <2>1, <2>2
<1>3. ASSUME NEW m \in Msgs, DeleteItem(m) PROVE Fresh'
  <2>1. Queued' \subseteq Queued
    BY <1>3 DEF DeleteItem, Queued, TypeOK, DbType
  <2>2. UNCHANGED <<created, lp, batch, input, held, ran, processed, current, worker>>
    BY <1>3 DEF DeleteItem, files, loop, process, memory
  <2> QED
    BY <2>1, <2>2
<1>4. CASE LoopSelect
  BY <1>4 DEF LoopSelect, Queued, files, process, memory
<1>5. CASE LoopWrite
  <2>1. UNCHANGED <<created, row, batch, held, ran, processed, current, worker>> /\ Queued' = Queued
    BY <1>5 DEF LoopWrite, Queued, db, process, memory
  <2>2. lp = "write" /\ input = {} /\ input' = batch /\ lp' = "mark"
    BY <1>5 DEF LoopWrite, Flushable, InputFree
  <2> QED
    BY <2>1, <2>2
<1>6. CASE LoopMark
  <2>1. Queued' = Queued \ batch
    BY <1>6 DEF LoopMark, MarkOnly, Update, Queued
  <2>2. /\ lp = "mark" /\ lp' = "read"
        /\ UNCHANGED <<created, batch, input, held, ran, processed, current, worker>>
    BY <1>6 DEF LoopMark, MarkOnly, files, process, memory
  <2> QED
    BY <2>1, <2>2
<1>7. CASE LoopRead
  BY <1>7 DEF LoopRead, Queued, db, process, memory
<1>8. CASE LoopDelete
  <2>1. Queued' \subseteq Queued
    BY <1>8 DEF LoopDelete, Deletable, Update, Queued
  <2>2. /\ lp = "delete" /\ lp' = "select"
        /\ UNCHANGED <<created, batch, input, held, ran, processed, current, worker>>
    BY <1>8 DEF LoopDelete, files, process, memory
  <2> QED
    BY <2>1, <2>2
<1>9. ASSUME NEW e \in events, LoopHandle(e) PROVE Fresh'
  BY <1>9 DEF LoopHandle, Queued, files, process, memory
<1>10. CASE WorkerBoot \/ WorkerFlush \/ WorkerRead \/ WorkerAck
  <2>1. UNCHANGED <<created, row, lp, batch, current>> /\ Queued' = Queued
    BY <1>10 DEF WorkerBoot, WorkerFlush, WorkerRead, WorkerAck, Queued, db, loop, memory
  <2>2. CASE WorkerBoot
    BY <2>1, <2>2 DEF WorkerBoot, Calm, memory
  <2>3. CASE WorkerFlush
    BY <2>1, <2>3 DEF WorkerFlush
  <2>4. CASE WorkerRead
    BY <2>1, <2>4 DEF WorkerRead, files
  <2>5. CASE WorkerAck
    BY <2>1, <2>5 DEF WorkerAck, memory
  <2> QED
    BY <1>10, <2>2, <2>3, <2>4, <2>5
<1>11. CASE WorkerStream \/ WorkerSettle \/ \E k \in FinalKinds : WorkerEmit(k)
  <2>1. /\ UNCHANGED <<created, row, lp, batch, input, held, ran, worker>>
        /\ processed' \subseteq processed \cup {current} /\ current' \in {current, Nobody}
        /\ processed' = processed \/ current # Nobody
    BY <1>11 DEF WorkerStream, WorkerSettle, WorkerEmit, db, loop
  <2> QED
    BY <2>1 DEF Queued
<1>12. ASSUME NEW m \in Msgs, WorkerStart(m) PROVE Fresh'
  <2>1. /\ m \in held /\ held' = held \ {m} /\ ran' = ran \cup {m} /\ current' = m
        /\ worker = "ready"
        /\ UNCHANGED <<created, row, lp, batch, input, processed, worker>>
    BY <1>12 DEF WorkerStart, NextHeld, db, loop
  <2>2. Started' = Started /\ Queued' = Queued
    BY <2>1 DEF Queued
  <2> QED
    BY <2>1, <2>2
<1>13. CASE UNCHANGED vars
  BY <1>13 DEF vars, db, files, loop, registry, process, memory, Queued
<1> QED
  BY <1>1, <1>2, <1>3, <1>4, <1>5, <1>6, <1>7, <1>8, <1>9, <1>10, <1>11, <1>12, <1>13
     DEF CalmStep, LoopStep

------------------------------------------------------------------------------
(* Custody.                                                                *)

\* What Flush is given is with the worker or in the file afterwards.
LEMMA FlushKeeps ==
  ASSUME NEW p, pending \subseteq p, Flush(p)
  PROVE  pending' \cup output' = p \cup output
  BY DEF Flush

LEMMA EventsKeepWay ==
  ASSUME finished \subseteq finished',
         pending \cup output \cup events \subseteq pending' \cup output' \cup events'
  PROVE  OnTheWay \subseteq OnTheWay'
  BY DEF OnTheWay

LEMMA KeptKept ==
  ASSUME NothingFails, TypeOK, Calm, Fresh, Kept, CalmStep
  PROVE  Kept'
<1> USE DEF Kept, Marking
<1>1. CASE SubmitHeadless
  <2>1. InFlight' \subseteq InFlight
    BY <1>1 DEF SubmitHeadless, InFlight, TypeOK, DbType
  <2>2. UNCHANGED <<lp, batch, input, output, held, current, ended, events, OnTheWay>>
    BY <1>1 DEF SubmitHeadless, files, loop, process, memory, OnTheWay
  <2> QED
    BY <2>1, <2>2
<1>2. CASE EnsureHeadless
  <2>1. CASE UNCHANGED <<loop, process>>
    BY <1>2, <2>1 DEF EnsureHeadless, InFlight, OnTheWay, files, loop, process, memory
  <2>2. CASE ~UNCHANGED <<loop, process>>
    <3>1. worker = "none" /\ SpawnWorker(FALSE)
      BY <1>2, <2>2 DEF EnsureHeadless, Calm, ProcessLive
    <3> QED
      BY <1>2, <3>1 DEF EnsureHeadless, SpawnWorker, SpawnContainer, ClearMemory, ResetLoop,
                        Calm, InFlight, files
  <2> QED
    BY <2>1, <2>2
<1>3. ASSUME NEW m \in Msgs, DeleteItem(m) PROVE Kept'
  <2>1. InFlight' \subseteq InFlight
    BY <1>3 DEF DeleteItem, InFlight, TypeOK, DbType
  <2>2. UNCHANGED <<lp, batch, input, output, held, current, ended, events, OnTheWay>>
    BY <1>3 DEF DeleteItem, files, loop, process, memory, OnTheWay
  <2> QED
    BY <2>1, <2>2
<1>4. CASE LoopSelect
  BY <1>4 DEF LoopSelect, InFlight, OnTheWay, files, process, memory
<1>5. CASE LoopWrite
  <2>1. UNCHANGED <<batch, held, current, ended, events, OnTheWay, InFlight>>
    BY <1>5 DEF LoopWrite, InFlight, OnTheWay, db, process, memory
  <2>2. lp = "write" /\ input = {} /\ input' = batch /\ lp' = "mark"
    BY <1>5 DEF LoopWrite, Flushable, InputFree
  <2>3. current \notin batch
    BY <2>2, ConstantsOK DEF Fresh, Started, TypeOK, LoopType, Msgs, Nobody, ConstantsOK
  <2> QED
    BY <2>1, <2>2, <2>3
<1>6. CASE LoopMark
  <2>1. InFlight' \subseteq InFlight \cup batch
    BY <1>6 DEF LoopMark, MarkOnly, Update, InFlight
  <2>2. /\ lp = "mark" /\ lp' = "read"
        /\ UNCHANGED <<batch, input, output, held, current, ended, events, OnTheWay>>
    BY <1>6 DEF LoopMark, MarkOnly, files, process, memory, OnTheWay
  <2> QED
    BY <2>1, <2>2
<1>7. CASE LoopRead
  <2>1. /\ lp \in {"read", "write"} /\ lp' \in {"select", "handle"}
        /\ UNCHANGED <<input, held, current, ended, InFlight>>
    BY <1>7 DEF LoopRead, InFlight, db, process, memory
  <2>2. events = {} /\ events' = output /\ output' = {} /\ UNCHANGED <<finished, pending>>
    BY <1>7 DEF LoopRead, process, memory
  <2>3. lp' # "handle" => events' = {}
    BY <1>7 DEF LoopRead
  <2>4. OnTheWay' = OnTheWay
    BY <2>2 DEF OnTheWay
  <2> QED
    BY <2>1, <2>3, <2>4
<1>8. CASE LoopDelete
  <2>1. InFlight' \subseteq InFlight \ finished
    BY <1>8 DEF LoopDelete, Deletable, Update, InFlight
  <2>2. /\ lp = "delete" /\ lp' = "select" /\ events = {}
        /\ UNCHANGED <<batch, input, output, held, current, ended, events, pending>>
    BY <1>8 DEF LoopDelete, files, process, memory
  <2>3. OnTheWay \subseteq OnTheWay' \cup finished
    BY <2>2 DEF OnTheWay
  <2> QED
    BY <2>1, <2>2, <2>3
<1>9. ASSUME NEW e \in events, LoopHandle(e) PROVE Kept'
  <2>1. /\ lp = "handle" /\ lp' = IF events = {e} THEN "delete" ELSE "handle"
        /\ events' = events \ {e} /\ UNCHANGED <<input, held, current, ended, InFlight>>
        /\ UNCHANGED <<output, pending>>
        /\ finished' = IF e.kind \in FinalKinds THEN finished \cup {e.id} ELSE finished
    BY <1>9 DEF LoopHandle, InFlight, files, process, memory
  <2>2. OnTheWay \subseteq OnTheWay'
    BY <2>1 DEF OnTheWay
  <2> QED
    BY <2>1, <2>2
<1>10. CASE WorkerBoot
  BY <1>10 DEF WorkerBoot, Calm, InFlight, OnTheWay, db, loop, memory
<1>11. CASE WorkerRead \/ WorkerAck
  <2>1. UNCHANGED <<lp, batch, events, current, ended, OnTheWay, InFlight>>
    BY <1>11 DEF WorkerRead, WorkerAck, InFlight, OnTheWay, db, files, loop, memory
  <2>2. input \cup held \subseteq input' \cup held'
    BY <1>11 DEF WorkerRead, WorkerAck, Fresh, files, memory
  <2> QED
    BY <2>1, <2>2
<1>12. CASE WorkerFlush \/ WorkerStream
  <2>1. UNCHANGED <<lp, batch, finished, events, input, held, current, ended, InFlight>>
    BY <1>12 DEF WorkerFlush, WorkerStream, InFlight, db, loop
  <2>2. \E p : pending \subseteq p /\ Flush(p)
    BY <1>12 DEF WorkerFlush, WorkerStream
  <2>3. OnTheWay \subseteq OnTheWay'
    BY <2>1, <2>2, FlushKeeps, EventsKeepWay
  <2> QED
    BY <2>1, <2>3
<1>13. CASE WorkerSettle
  <2>1. /\ UNCHANGED <<lp, batch, finished, events, input, held, InFlight>>
        /\ ended /\ current' = Nobody /\ Flush(pending)
    BY <1>13 DEF WorkerSettle, InFlight, db, loop
  <2>2. OnTheWay \subseteq OnTheWay'
    BY <2>1, FlushKeeps, EventsKeepWay
  <2>3. Nobody \notin InFlight \cup batch
    BY ConstantsOK DEF InFlight, TypeOK, LoopType, Msgs, Nobody, ConstantsOK
  <2> QED
    BY <2>1, <2>2, <2>3
<1>14. ASSUME NEW k \in FinalKinds, WorkerEmit(k) PROVE Kept'
  <2> DEFINE e == [id |-> current, kind |-> k]
  <2>1. /\ UNCHANGED <<lp, batch, finished, events, input, held, current, InFlight>>
        /\ Flush(pending \cup {e})
    BY <1>14 DEF WorkerEmit, InFlight, db, loop
  <2>2. pending' \cup output' = pending \cup {e} \cup output
    BY <2>1, FlushKeeps
  <2>3. OnTheWay \subseteq OnTheWay'
    BY <2>1, <2>2, EventsKeepWay
  <2>4. e \in pending' \cup output' \cup events' /\ e.kind \in FinalKinds /\ e.id = current
    BY <2>2
  <2>5. current \in OnTheWay'
    BY <2>4 DEF OnTheWay
  <2> QED
    BY <2>1, <2>3, <2>5
<1>15. ASSUME NEW m \in Msgs, WorkerStart(m) PROVE Kept'
  <2>1. /\ UNCHANGED <<lp, batch, finished, events, input, InFlight>> /\ ~ended'
        /\ held' = held \ {m} /\ current' = m /\ current = Nobody
    BY <1>15 DEF WorkerStart, InFlight, db, loop
  <2>2. UNCHANGED <<output, pending>> \/ \E p : pending \subseteq p /\ Flush(p)
    BY <1>15 DEF WorkerStart
  <2>3. OnTheWay \subseteq OnTheWay'
    BY <2>1, <2>2, FlushKeeps, EventsKeepWay
  <2>4. Nobody \notin InFlight \cup batch
    BY ConstantsOK DEF InFlight, TypeOK, LoopType, Msgs, Nobody, ConstantsOK
  <2> QED
    BY <2>1, <2>3, <2>4
<1>16. CASE UNCHANGED vars
  BY <1>16 DEF vars, db, files, loop, registry, process, memory, InFlight, OnTheWay
<1> QED
  BY <1>1, <1>2, <1>3, <1>4, <1>5, <1>6, <1>7, <1>8, <1>9, <1>10, <1>11, <1>12, <1>13,
     <1>14, <1>15, <1>16 DEF CalmStep, LoopStep

------------------------------------------------------------------------------
(* Replies.                                                                *)

\* The user sees that m is worked on, or will when S is processed, or would have if
\* the write had not failed.
Told(m, S) == reply[m] # "none" \/ [id |-> m, kind |-> "stream"] \in S \/ m \in unwritten

Over(m, S) == \E e \in S : e.id = m /\ e.kind \in FinalKinds

\* A final event tells how its message ended, and a message ends once.
EndsAreTrue ==
  /\ \A e \in pending \cup output \cup events : e.kind \in FinalKinds => e.kind = outcome[e.id]
  /\ \A m \in Msgs : m \notin ran \/ (m = current /\ ~ended) => outcome[m] = "none"

\* A final event does not overtake the first stream event of its message.
ToldFirst ==
  \A m \in Users \ Quiet :
    /\ m \in ran => Told(m, events \cup output \cup pending)
    /\ Over(m, output) => Told(m, events \cup output)
    /\ Over(m, events) => Told(m, events)

CompletedShown ==
  \A m \in Users \ (Quiet \cup unwritten) :
    (m \in finished \/ row[m] = "answered") /\ outcome[m] = "complete" => reply[m] = "complete"

Visible == EndsAreTrue /\ ToldFirst /\ CompletedShown

LEMMA VisibleFrame ==
  ASSUME Visible, UNCHANGED <<reply, unwritten, pending, output, events, outcome, ran, current, ended>>,
         finished' \subseteq finished,
         \A m \in Msgs : row'[m] = "answered" => row[m] = "answered" \/ m \in finished
  PROVE  Visible'
<1>1. Users \subseteq Msgs
  BY ConstantsOK DEF ConstantsOK, Msgs
<1> QED
  BY <1>1 DEF Visible, EndsAreTrue, ToldFirst, CompletedShown, Told, Over

LEMMA VisibleFlush ==
  ASSUME ToldFirst, NEW p, pending \subseteq p, Flush(p), UNCHANGED <<reply, unwritten, events>>,
         \A m \in Users \ Quiet : m \in ran' => Told(m, events \cup output \cup p),
         \A m \in Users \ Quiet : Over(m, p) => m \in ran'
  PROVE  ToldFirst'
<1> USE DEF ToldFirst
<1> SUFFICES ASSUME NEW m \in Users \ Quiet
             PROVE  /\ m \in ran' => Told(m, events \cup output' \cup pending')
                    /\ Over(m, output') => Told(m, events \cup output')
                    /\ Over(m, events) => Told(m, events)
  BY DEF Told, Over
<1>1. CASE output = {}
  <2>1. output' = p /\ pending' = {}
    BY <1>1 DEF Flush
  <2> QED
    BY <1>1, <2>1 DEF Told
<1>2. CASE output # {}
  <2>1. output' = output /\ pending' = p
    BY <1>2 DEF Flush
  <2> QED
    BY <2>1 DEF Told
<1> QED
  BY <1>1, <1>2

\* A message whose final event is under way was started.
LEMMA OverWasStarted ==
  ASSUME TypeOK, EndsAreTrue, NEW m \in Msgs, Over(m, pending \cup output \cup events)
  PROVE  m \in ran /\ outcome[m] # "none"
  BY DEF EndsAreTrue, Over, FinalKinds

LEMMA LoopKeepsVisible ==
  ASSUME TypeOK, Kept, Visible, LoopStep
  PROVE  Visible'
<1> USE DEF bounds
<1>1. CASE LoopSelect \/ LoopWrite
  BY <1>1, VisibleFrame DEF LoopSelect, LoopWrite, db, files, process, memory
<1>2. CASE LoopMark
  <2>1. \A m \in Msgs : row'[m] = "answered" => row[m] = "answered"
    BY <1>2 DEF LoopMark, MarkOnly, Update
  <2> QED
    BY <1>2, <2>1, VisibleFrame DEF LoopMark, MarkOnly, files, process, memory
<1>3. CASE LoopDelete
  <2>1. \A m \in Msgs : row'[m] = "answered" => row[m] = "answered" \/ m \in finished
    BY <1>3 DEF LoopDelete, Deletable, Update
  <2> QED
    BY <1>3, <2>1, VisibleFrame DEF LoopDelete, files, process, memory
<1>4. CASE LoopRead
  <2>1. /\ events = {} /\ events' = output /\ output' = {}
        /\ UNCHANGED <<reply, unwritten, row, finished, pending, outcome, ran, current, ended>>
    BY <1>4 DEF LoopRead, Kept, db, process, memory
  <2>2. EndsAreTrue' /\ CompletedShown'
    BY <2>1 DEF Visible, EndsAreTrue, CompletedShown
  <2>3. ToldFirst'
    BY <2>1 DEF Visible, ToldFirst, Told, Over
  <2> QED
    BY <2>2, <2>3 DEF Visible
<1>5. ASSUME NEW e \in events, LoopHandle(e) PROVE Visible'
  <2>1. /\ events' = events \ {e}
        /\ \/ reply' = [reply EXCEPT ![e.id] = ReplyAfter(e)] /\ unwritten' = unwritten
           \/ reply' = reply /\ unwritten' = unwritten \cup {e.id}
        /\ finished' = IF e.kind \in FinalKinds THEN finished \cup {e.id} ELSE finished
        /\ e.kind = "stream" \/ \A f \in events : f.id = e.id => f.kind # "stream"
        /\ UNCHANGED <<row, output, pending, outcome, ran, current, ended>>
    BY <1>5 DEF LoopHandle, files, process, memory
  <2>2. e.id \in Msgs /\ e.kind \in {"stream"} \cup FinalKinds
    BY DEF TypeOK, LoopType, Event
  <2>3. reply \in [Msgs -> ReplyStatus]
    BY DEF TypeOK, DbType
  <2>4. /\ reply'[e.id] = ReplyAfter(e) \/ (reply'[e.id] = reply[e.id] /\ e.id \in unwritten')
        /\ \A m \in Msgs : m # e.id => reply'[m] = reply[m]
        /\ unwritten \subseteq unwritten'
    BY <2>1, <2>2, <2>3
  <2>5. /\ \A m \in Msgs : reply[m] # "none" => reply'[m] # "none"
        /\ \A m \in Msgs : reply[m] = "complete" => reply'[m] = "complete"
        /\ e.kind = "stream" => reply'[e.id] # "none" \/ e.id \in unwritten'
        /\ e.kind = "complete" /\ reply[e.id] # "none" =>
             reply'[e.id] = "complete" \/ e.id \in unwritten'
    BY <2>2, <2>3, <2>4 DEF ReplyAfter, FinalKinds, ReplyStatus
  <2>6. Users \subseteq Msgs
    BY ConstantsOK DEF ConstantsOK, Msgs
  <2>7. ASSUME NEW m \in Msgs, NEW S, NEW T, Told(m, S), S \subseteq T \cup {e}
        PROVE  Told(m, T)'
    BY <2>4, <2>5, <2>7 DEF Told
  <2>8. EndsAreTrue'
    BY <2>1 DEF Visible, EndsAreTrue
  <2>9. ToldFirst'
    <3> SUFFICES ASSUME NEW m \in Users \ Quiet
                 PROVE  /\ m \in ran => Told(m, events \cup output \cup pending)'
                        /\ Over(m, output) => Told(m, events \cup output)'
                        /\ Over(m, events') => Told(m, events)'
      BY <2>1 DEF ToldFirst, Over
    <3>1. m \in Msgs
      BY <2>6
    <3>2. /\ m \in ran => Told(m, events \cup output \cup pending)
          /\ Over(m, output) => Told(m, events \cup output)
          /\ Over(m, events') => Told(m, events)
      BY <2>1 DEF Visible, ToldFirst, Over
    <3> QED
      BY <2>1, <2>7, <3>1, <3>2 DEF Told
  <2>10. CompletedShown'
    <3> SUFFICES ASSUME NEW m \in Users \ (Quiet \cup unwritten'), m \in finished' \/ row[m] = "answered",
                        outcome[m] = "complete"
                 PROVE  reply'[m] = "complete"
      BY <2>1 DEF CompletedShown
    <3>1. m \in Msgs
      BY <2>6
    <3>2. CASE m \in finished \/ row[m] = "answered"
      BY <2>1, <2>4, <2>5, <3>1, <3>2 DEF Visible, CompletedShown
    <3>3. CASE ~(m \in finished \/ row[m] = "answered")
      <4>1. m = e.id /\ e.kind \in FinalKinds
        BY <2>1, <3>3
      <4>2. e.kind = "complete"
        BY <4>1 DEF Visible, EndsAreTrue
      <4>3. Told(m, events)
        BY <4>1 DEF Visible, ToldFirst, Over
      <4>4. reply[m] # "none"
        BY <2>1, <4>1, <4>2, <4>3 DEF Told
      <4> QED
        BY <2>5, <4>1, <4>2, <4>4
    <3> QED
      BY <3>2, <3>3
  <2> QED
    BY <2>8, <2>9, <2>10 DEF Visible
<1> QED
  BY <1>1, <1>2, <1>3, <1>4, <1>5 DEF LoopStep

LEMMA VisibleKept ==
  ASSUME NothingFails, TypeOK, SettledInv, Calm, Fresh, Kept, Visible, CalmStep
  PROVE  Visible'
<1> USE DEF bounds
<1>1. Users \subseteq Msgs /\ Nobody \notin Msgs
  BY ConstantsOK DEF ConstantsOK, Msgs, Nobody
<1>2. CASE SubmitHeadless
  <2>1. \A m \in Msgs : row'[m] = "answered" => row[m] = "answered"
    BY <1>2 DEF SubmitHeadless, TypeOK, DbType
  <2> QED
    BY <1>2, <2>1, VisibleFrame DEF SubmitHeadless, files, loop, process, memory
<1>3. CASE EnsureHeadless
  <2>1. CASE UNCHANGED <<loop, process>>
    BY <1>3, <2>1, VisibleFrame DEF EnsureHeadless, files, loop, process, memory
  <2>2. CASE ~UNCHANGED <<loop, process>>
    <3>1. worker = "none" /\ SpawnWorker(FALSE)
      BY <1>3, <2>2 DEF EnsureHeadless, Calm, ProcessLive
    <3>2. /\ UNCHANGED <<row, reply, unwritten, output, ran, outcome, pending, events, finished, current>>
          /\ current = Nobody
      BY <1>3, <3>1 DEF EnsureHeadless, SpawnWorker, SpawnContainer, ClearMemory, ResetLoop,
                        Calm, files
    <3>3. EndsAreTrue'
      BY <1>1, <3>2 DEF Visible, EndsAreTrue
    <3> QED
      BY <3>2, <3>3 DEF Visible, ToldFirst, CompletedShown, Told, Over
  <2> QED
    BY <2>1, <2>2
<1>4. ASSUME NEW m \in Msgs, DeleteItem(m) PROVE Visible'
  <2>1. \A n \in Msgs : row'[n] = "answered" => row[n] = "answered"
    BY <1>4 DEF DeleteItem, TypeOK, DbType
  <2> QED
    BY <1>4, <2>1, VisibleFrame DEF DeleteItem, files, loop, process, memory
<1>5. CASE LoopStep
  BY <1>5, LoopKeepsVisible
<1>6. CASE WorkerBoot
  <2>1. UNCHANGED <<row, reply, unwritten, output, ran, outcome, pending, events, finished, current, ended>>
    BY <1>6 DEF WorkerBoot, Calm, db, loop, memory
  <2> QED
    BY <2>1, VisibleFrame
<1>7. CASE WorkerRead \/ WorkerAck
  BY <1>7, VisibleFrame DEF WorkerRead, WorkerAck, db, files, loop, memory
<1>8. CASE WorkerFlush \/ WorkerStream \/ WorkerSettle
  <2>1. /\ UNCHANGED <<row, reply, unwritten, events, finished, ran, outcome>>
        /\ UNCHANGED <<current, ended>> \/ (current' = Nobody /\ ended)
    BY <1>8 DEF WorkerFlush, WorkerStream, WorkerSettle, db, loop
  <2>2. PICK p : /\ pending \subseteq p /\ Flush(p)
                 /\ \A e \in p : e \in pending \/ e.kind \notin FinalKinds
    BY <1>8 DEF WorkerFlush, WorkerStream, WorkerSettle, FinalKinds
  <2>3. pending' \cup output' = p \cup output
    BY <2>2, FlushKeeps
  <2>4. EndsAreTrue'
    BY <1>1, <2>1, <2>2, <2>3 DEF Visible, EndsAreTrue
  <2>5. \A m \in Users \ Quiet : Over(m, p) => m \in ran'
    BY <1>1, <2>1, <2>2, OverWasStarted DEF Visible, Over
  <2>6. \A m \in Users \ Quiet : m \in ran' => Told(m, events \cup output \cup p)
    BY <2>1, <2>2 DEF Visible, ToldFirst, Told
  <2>7. ToldFirst'
    BY <2>1, <2>2, <2>5, <2>6, VisibleFlush DEF Visible
  <2> QED
    BY <2>1, <2>4, <2>7 DEF Visible, CompletedShown
<1>9. ASSUME NEW k \in FinalKinds, WorkerEmit(k) PROVE Visible'
  <2> DEFINE e == [id |-> current, kind |-> k]
             p == pending \cup {e}
  <2>1. /\ UNCHANGED <<row, reply, unwritten, events, finished, ran, current>> /\ Flush(p)
        /\ current # Nobody /\ ~ended /\ ended' /\ outcome' = [outcome EXCEPT ![current] = k]
    BY <1>9 DEF WorkerEmit, db, loop
  <2>2. current \in Msgs /\ current \in ran /\ outcome \in [Msgs -> FinalKinds \cup {"none"}]
    BY <2>1 DEF TypeOK, WorkerType, Fresh
  <2>3. outcome[current] = "none"
    BY <2>1, <2>2 DEF Visible, EndsAreTrue
  <2>4. outcome'[current] = k /\ \A m \in Msgs : m # current => outcome'[m] = outcome[m]
    BY <2>1, <2>2
  <2>5. pending' \cup output' = p \cup output
    BY <2>1, FlushKeeps
  <2>6. EndsAreTrue'
    <3>1. ASSUME NEW f \in pending \cup output \cup events, f.kind \in FinalKinds
          PROVE  f.kind = outcome'[f.id]
      <4>1. f.id \in Msgs
        BY DEF TypeOK, LoopType, WorkerType, Event
      <4>2. f.kind = outcome[f.id]
        BY <3>1 DEF Visible, EndsAreTrue
      <4>3. f.id # current
        BY <2>3, <3>1, <4>2 DEF FinalKinds
      <4> QED
        BY <2>4, <4>1, <4>2, <4>3
    <3>2. e.kind = outcome'[e.id]
      BY <2>4
    <3>3. \A f \in (pending \cup output \cup events)' : f = e \/ f \in pending \cup output \cup events
      BY <2>1, <2>5
    <3>4. \A m \in Msgs : m \notin ran' \/ (m = current' /\ ~ended') => outcome'[m] = "none"
      BY <2>1, <2>2, <2>4 DEF Visible, EndsAreTrue
    <3> HIDE DEF e, p
    <3> QED
      BY <3>1, <3>2, <3>3, <3>4 DEF EndsAreTrue
  <2>7. \A m \in Users \ Quiet : Over(m, p) => m \in ran'
    BY <1>1, <2>1, <2>2, OverWasStarted DEF Visible, Over
  <2>8. \A m \in Users \ Quiet : m \in ran' => Told(m, events \cup output \cup p)
    BY <2>1 DEF Visible, ToldFirst, Told
  <2>9. ToldFirst'
    <3> HIDE DEF p
    <3>1. pending \subseteq p
      BY DEF p
    <3> QED
      BY <2>1, <2>7, <2>8, <3>1, VisibleFlush DEF Visible
  <2>10. CompletedShown'
    <3>1. current \notin finished /\ row[current] # "answered"
      BY <2>2, <2>3 DEF SettledInv, AnsweredWasSettled
    <3> QED
      BY <1>1, <2>1, <2>4, <3>1 DEF Visible, CompletedShown
  <2> QED
    BY <2>6, <2>9, <2>10 DEF Visible
<1>10. ASSUME NEW m \in Msgs, WorkerStart(m) PROVE Visible'
  <2> DEFINE e == [id |-> m, kind |-> "stream"]
  <2>1. /\ UNCHANGED <<row, reply, unwritten, events, finished, outcome>> /\ ran' = ran \cup {m}
        /\ current' = m /\ m \notin ran /\ current = Nobody
    BY <1>10 DEF WorkerStart, NextHeld, Fresh, db, loop
  <2>2. CASE m \in Users \ Quiet
    <3> DEFINE p == pending \cup {e}
    <3>1. Flush(p)
      BY <1>10, <2>2 DEF WorkerStart
    <3>2. pending' \cup output' = p \cup output
      BY <3>1, FlushKeeps
    <3>3. EndsAreTrue'
      <4>1. e.kind \notin FinalKinds
        BY DEF FinalKinds
      <4>2. outcome[m] = "none"
        BY <2>1 DEF Visible, EndsAreTrue
      <4>3. \A f \in (pending \cup output \cup events)' : f = e \/ f \in pending \cup output \cup events
        BY <2>1, <3>2
      <4> HIDE DEF e, p
      <4> QED
        BY <2>1, <4>1, <4>2, <4>3 DEF Visible, EndsAreTrue
    <3>4. \A n \in Users \ Quiet : Over(n, p) => n \in ran'
      <4>1. \A n \in Users \ Quiet : Over(n, p) => Over(n, pending)
        BY DEF Over, FinalKinds
      <4> QED
        BY <1>1, <2>1, <4>1, OverWasStarted DEF Visible, Over
    <3>5. \A n \in Users \ Quiet : n \in ran' => Told(n, events \cup output \cup p)
      BY <2>1 DEF Visible, ToldFirst, Told
    <3>6. ToldFirst'
      <4>1. pending \subseteq p
        OBVIOUS
      <4> HIDE DEF p
      <4> QED
        BY <2>1, <3>1, <3>4, <3>5, <4>1, VisibleFlush DEF Visible
    <3> QED
      BY <2>1, <3>3, <3>6 DEF Visible, CompletedShown
  <2>3. CASE m \notin Users \ Quiet
    <3>1. UNCHANGED <<output, pending>>
      BY <1>10, <2>3 DEF WorkerStart
    <3>2. EndsAreTrue'
      BY <2>1, <3>1 DEF Visible, EndsAreTrue
    <3>3. ToldFirst' /\ CompletedShown'
      BY <2>1, <2>3, <3>1 DEF Visible, ToldFirst, CompletedShown, Told, Over
    <3> QED
      BY <3>2, <3>3 DEF Visible
  <2> QED
    BY <2>2, <2>3
<1>11. CASE UNCHANGED vars
  BY <1>11, VisibleFrame DEF vars, db, files, loop, process, memory
<1> QED
  BY <1>2, <1>3, <1>4, <1>5, <1>6, <1>7, <1>8, <1>9, <1>10, <1>11 DEF CalmStep

------------------------------------------------------------------------------
(* The abstract service.                                                   *)

\* A message that is nearer to its start was sent before one that is not.
InOrder ==
  /\ \A m \in Msgs : row[m] # "discarded" /\ (row[m] = "none" <=> m > created)
  /\ worker = "ready" => \A h \in held, i \in input : h < i
  /\ \A x \in input \cup held, q \in Queued \ Marking : x < q
  /\ lp = "write" => /\ \A x \in input \cup held, b \in batch : x < b
                     /\ \A b \in batch, q \in Queued \ batch : b < q

LEMMA InOrderKept ==
  ASSUME NothingFails, TypeOK, Calm, Fresh, InOrder, CalmStep
  PROVE  InOrder'
<1> USE DEF InOrder, Marking
<1>1. CASE SubmitHeadless
  <2>1. created \in Nat /\ created' = created + 1 /\ created + 1 \in Msgs /\ Msgs \subseteq Nat
    BY <1>1, ConstantsOK DEF SubmitHeadless, TypeOK, DbType, ConstantsOK, Msgs
  <2>2. /\ \A m \in Msgs : m # created + 1 => row'[m] = row[m]
        /\ row'[created + 1] = "queued"
    BY <1>1, <2>1 DEF SubmitHeadless, TypeOK, DbType
  <2>3. Queued' = Queued \cup {created + 1}
    BY <2>1, <2>2 DEF Queued
  <2>4. \A x \in input \cup held \cup batch : x < created + 1
    BY <2>1 DEF Fresh, Started
  <2>5. UNCHANGED <<lp, batch, input, held, worker>>
    BY <1>1 DEF SubmitHeadless, files, loop, process, memory
  <2>6. \A m \in Msgs : row'[m] # "discarded" /\ (row'[m] = "none" <=> m > created')
    BY <2>1, <2>2
  <2> QED
    BY <2>3, <2>4, <2>5, <2>6
<1>2. CASE EnsureHeadless
  <2>1. CASE UNCHANGED <<loop, process>>
    BY <1>2, <2>1 DEF EnsureHeadless, Queued, files, loop, process, memory
  <2>2. CASE ~UNCHANGED <<loop, process>>
    <3>1. worker = "none" /\ SpawnWorker(FALSE)
      BY <1>2, <2>2 DEF EnsureHeadless, Calm, ProcessLive
    <3> QED
      BY <1>2, <3>1 DEF EnsureHeadless, SpawnWorker, SpawnContainer, ClearMemory, ResetLoop,
                        Calm, Queued, files
  <2> QED
    BY <2>1, <2>2
<1>3. ASSUME NEW m \in Msgs, DeleteItem(m) PROVE InOrder'
  <2>1. \A n \in Msgs : row'[n] = row[n] \/ (row'[n] = "removed" /\ row[n] \in {"queued", "inflight"})
    BY <1>3 DEF DeleteItem, TypeOK, DbType
  <2>2. Queued' \subseteq Queued
    BY <2>1 DEF Queued
  <2>3. UNCHANGED <<created, lp, batch, input, held, worker>>
    BY <1>3 DEF DeleteItem, files, loop, process, memory
  <2> QED
    BY <2>1, <2>2, <2>3
<1>4. CASE LoopSelect
  BY <1>4 DEF LoopSelect, Queued, files, process, memory
<1>5. CASE LoopWrite
  <2>1. UNCHANGED <<created, row, batch, held, worker>> /\ Queued' = Queued
    BY <1>5 DEF LoopWrite, Queued, db, process, memory
  <2>2. lp = "write" /\ input = {} /\ input' = batch /\ batch # {} /\ lp' = "mark"
    BY <1>5 DEF LoopWrite, Flushable, InputFree
  <2>3. \A q \in Queued \ batch, x \in held : x < q
    BY <2>2
  <2> QED
    BY <2>1, <2>2, <2>3
<1>6. CASE LoopMark \/ LoopDelete
  <2>1. /\ \A n \in Msgs : \/ row'[n] = row[n]
                           \/ /\ row'[n] \in {"inflight", "answered"}
                              /\ row[n] \in {"queued", "inflight"}
        /\ lp' # "write" /\ lp' # "mark"
        /\ UNCHANGED <<created, batch, input, held, worker>>
    BY <1>6 DEF LoopMark, MarkOnly, LoopDelete, Update, files, process, memory
  <2>2. Queued' \subseteq Queued \ Marking
    BY <1>6 DEF LoopMark, MarkOnly, LoopDelete, Update, Queued
  <2> QED
    BY <2>1, <2>2
<1>7. CASE LoopRead \/ \E e \in events : LoopHandle(e)
  <2>1. UNCHANGED <<created, row, input, held, worker>> /\ lp' \notin {"write", "mark"}
    BY <1>7 DEF LoopRead, LoopHandle, db, files, process, memory
  <2>2. lp # "mark"
    BY <1>7 DEF LoopRead, LoopHandle
  <2> QED
    BY <2>1, <2>2 DEF Queued
<1>8. CASE WorkerBoot \/ WorkerFlush \/ WorkerStream \/ WorkerSettle \/ \E k \in FinalKinds : WorkerEmit(k)
  <2>1. /\ UNCHANGED <<created, row, lp, batch, input, held>>
        /\ worker' = worker \/ held = {}
    BY <1>8 DEF WorkerBoot, WorkerFlush, WorkerStream, WorkerSettle, WorkerEmit, Calm, db, loop, memory
  <2> QED
    BY <2>1 DEF Queued
<1>9. CASE WorkerRead
  BY <1>9 DEF WorkerRead, Queued, db, loop, files
<1>10. CASE WorkerAck
  BY <1>10 DEF WorkerAck, Queued, db, loop, memory
<1>11. ASSUME NEW m \in Msgs, WorkerStart(m) PROVE InOrder'
  BY <1>11 DEF WorkerStart, Queued, db, loop
<1>12. CASE UNCHANGED vars
  BY <1>12 DEF vars, db, files, loop, process, memory, Queued
<1> QED
  BY <1>1, <1>2, <1>3, <1>4, <1>5, <1>6, <1>7, <1>8, <1>9, <1>10, <1>11, <1>12
     DEF CalmStep, LoopStep

CalmInv == TypeOK /\ SettledInv /\ Calm /\ Fresh /\ Kept /\ Visible /\ InOrder

LEMMA CalmStarts == Init => CalmInv
<1> SUFFICES ASSUME Init PROVE CalmInv
  OBVIOUS
<1> USE DEF Init
<1>1. TypeOK
  BY InitType
<1>2. SettledInv /\ Calm
  BY DEF SettledInv, AnsweredWasSettled, Calm, InFlight, Shutdown
<1>3. Queued = {} /\ InFlight = {} /\ OnTheWay = {}
  BY DEF Queued, InFlight, OnTheWay
<1>4. Fresh /\ Kept
  BY <1>3 DEF Fresh, Kept, Started, Marking
<1>5. Visible
  BY ConstantsOK DEF Visible, EndsAreTrue, ToldFirst, CompletedShown, Told, Over, ConstantsOK, Msgs
<1>6. InOrder
  BY <1>3, ConstantsOK DEF InOrder, ConstantsOK, Msgs
<1> QED
  BY <1>1, <1>2, <1>4, <1>5, <1>6 DEF CalmInv

LEMMA CalmGoesOn ==
  ASSUME NothingFails
  PROVE  CalmInv /\ [Next]_vars => CalmInv'
<1> SUFFICES ASSUME CalmInv, [Next]_vars PROVE CalmInv'
  OBVIOUS
<1> USE DEF CalmInv
<1>1. CalmStep
  BY OnlyCalmSteps
<1>2. TypeOK'
  BY RequestType, LoopStepType, WorkerStepType, RecoveryType, ReapType, StutterType DEF Next
<1>3. SettledInv'
  <2>1. CASE UNCHANGED vars
    BY <2>1, SettledFrame DEF vars, db, files, loop, registry, memory, process, bounds
  <2> QED
    BY <2>1, RequestSettled, RecoverySettled, LoopStepSettled, WorkerStepSettled DEF Next
<1> QED
  BY <1>1, <1>2, <1>3, CalmKept, FreshKept, KeptKept, VisibleKept, InOrderKept

\* Where a message is for the service, as module MessageDelivery maps it.
Stage(m) ==
  IF row[m] \in {"answered", "removed"} THEN row[m]
  ELSE IF m > created THEN "unsent"
  ELSE IF m \in ran THEN "started" ELSE "waiting"

Stages == [m \in Msgs |-> Stage(m)]

\* What waits for the service is queued, or before the worker.
LEMMA WaitingIsBefore ==
  ASSUME CalmInv, NEW m \in Msgs, Stage(m) = "waiting"
  PROVE  m \in (Queued \ Marking) \cup input \cup held
<1>1. m \notin ran /\ row[m] \in {"queued", "inflight"}
  <2>1. row[m] \in RowStatus /\ row[m] \notin {"none", "discarded", "answered", "removed"}
    BY DEF Stage, CalmInv, InOrder, TypeOK, DbType
  <2> QED
    BY <2>1 DEF Stage, RowStatus
<1>2. m # current /\ m \notin OnTheWay
  <2>1. m \notin finished
    BY <1>1 DEF CalmInv, SettledInv, Visible, EndsAreTrue
  <2>2. ~Over(m, pending \cup output \cup events)
    BY <1>1, OverWasStarted DEF CalmInv, Visible
  <2>3. current # Nobody => current \in ran
    BY DEF CalmInv, Fresh
  <2>4. m # Nobody
    BY ConstantsOK DEF ConstantsOK, Msgs, Nobody
  <2> QED
    BY <1>1, <2>1, <2>2, <2>3, <2>4 DEF OnTheWay, Over
<1> QED
  BY <1>1, <1>2 DEF CalmInv, Kept, Queued, InFlight

\* What a step does to one message, for the service.
LEMMA StageStays ==
  ASSUME UNCHANGED <<created, ran>>,
         \A m \in Msgs : row'[m] = row[m] \/ {row[m], row'[m]} \subseteq {"queued", "inflight"}
  PROVE  Stages' = Stages
<1>1. \A m \in Msgs : Stage(m)' = Stage(m)
  BY DEF Stage
<1> QED
  BY <1>1 DEF Stages

LEMMA ServiceSteps ==
  ASSUME CalmInv, CalmStep
  PROVE  \/ UNCHANGED <<created, Stages>>
         \/ /\ created < N /\ created' = created + 1
            /\ Stages' = [Stages EXCEPT ![created + 1] = "waiting"]
         \/ /\ UNCHANGED created
            /\ \/ \E m \in 1..N :
                    /\ Stages[m] = "waiting" /\ \A k \in 1..N : k < m => Stages[k] # "waiting"
                    /\ Stages' = [Stages EXCEPT ![m] = "started"]
               \/ \E m \in 1..N :
                    /\ Stages[m] \in {"waiting", "started"}
                    /\ Stages' = [Stages EXCEPT ![m] = "removed"]
               \/ \E S \in SUBSET (1..N) :
                    /\ S # {} /\ \A m \in S : Stages[m] = "started"
                    /\ Stages' = [m \in 1..N |-> IF m \in S THEN "answered" ELSE Stages[m]]
<1> USE DEF CalmInv, Stages
<1>0. TypeOK /\ Msgs = 1..N /\ N \in Nat /\ created \in 0..N /\ row \in [Msgs -> RowStatus]
  BY ConstantsOK DEF ConstantsOK, Msgs, TypeOK, DbType
<1>1. CASE SubmitHeadless
  <2>1. /\ created' = created + 1 /\ UNCHANGED ran /\ created < N
        /\ row' = [row EXCEPT ![created + 1] = "queued"]
    BY <1>0, <1>1 DEF SubmitHeadless, TypeOK, DbType, process
  <2>2. PICK next \in Msgs : next = created + 1 /\ next \notin ran
    BY <1>0, <2>1 DEF Fresh, Started
  <2>3. Stage(next)' = "waiting"
    BY <1>0, <2>1, <2>2 DEF Stage
  <2>4. \A m \in Msgs : m # next => Stage(m)' = Stage(m)
    BY <1>0, <2>1, <2>2 DEF Stage
  <2>5. Stages' = [Stages EXCEPT ![next] = "waiting"]
    BY <2>3, <2>4
  <2> QED
    BY <2>1, <2>2, <2>5
<1>2. CASE \/ EnsureHeadless \/ LoopSelect \/ LoopWrite \/ LoopMark \/ LoopRead
           \/ \E e \in events : LoopHandle(e)
           \/ WorkerBoot \/ WorkerFlush \/ WorkerRead \/ WorkerAck \/ WorkerStream \/ WorkerSettle
           \/ \E k \in FinalKinds : WorkerEmit(k)
           \/ UNCHANGED vars
  <2>1. UNCHANGED <<created, ran>>
    <3>1. CASE EnsureHeadless
      BY <3>1 DEF EnsureHeadless, SpawnWorker, SpawnContainer, process
    <3>2. CASE LoopSelect \/ LoopWrite \/ LoopMark \/ LoopRead \/ \E e \in events : LoopHandle(e)
      BY <3>2 DEF LoopSelect, LoopWrite, LoopMark, MarkOnly, LoopRead, LoopHandle, db, process
    <3>3. CASE WorkerBoot
      BY <3>3 DEF WorkerBoot, Calm, db
    <3>4. CASE \/ WorkerFlush \/ WorkerRead \/ WorkerAck \/ WorkerStream \/ WorkerSettle
               \/ \E k \in FinalKinds : WorkerEmit(k)
      BY <3>4 DEF WorkerFlush, WorkerRead, WorkerAck, WorkerStream, WorkerSettle, WorkerEmit, db
    <3>5. CASE UNCHANGED vars
      BY <3>5 DEF vars, db, process
    <3> QED
      BY <1>2, <3>1, <3>2, <3>3, <3>4, <3>5
  <2>2. CASE UNCHANGED row
    BY <2>1, <2>2, StageStays
  <2>3. CASE LoopMark
    <3>1. \A m \in Msgs : row'[m] = row[m] \/ {row[m], row'[m]} \subseteq {"queued", "inflight"}
      BY <2>3 DEF LoopMark, MarkOnly, Update
    <3> QED
      BY <2>1, <3>1, StageStays
  <2>4. UNCHANGED row \/ LoopMark
    BY <1>2 DEF EnsureHeadless, SpawnWorker, SpawnContainer, LoopSelect, LoopWrite, LoopRead,
                LoopHandle, WorkerBoot, WorkerFlush, WorkerRead, WorkerAck, WorkerStream,
                WorkerSettle, WorkerEmit, vars, db
  <2> QED
    BY <2>2, <2>3, <2>4
<1>3. ASSUME NEW m \in Msgs, DeleteItem(m)
      PROVE  /\ UNCHANGED created /\ Stages[m] \in {"waiting", "started"}
             /\ Stages' = [Stages EXCEPT ![m] = "removed"]
  <2>1. /\ row[m] \in {"queued", "inflight"} /\ row' = [row EXCEPT ![m] = "removed"]
        /\ UNCHANGED <<created, ran>>
    BY <1>3 DEF DeleteItem, process
  <2>2. Stage(m) \in {"waiting", "started"}
    BY <1>0, <2>1 DEF Stage, InOrder
  <2>3. Stage(m)' = "removed" /\ \A n \in Msgs : n # m => Stage(n)' = Stage(n)
    BY <1>0, <2>1 DEF Stage
  <2> QED
    BY <2>1, <2>2, <2>3
<1>4. CASE LoopDelete
  <2> DEFINE S == finished \cap InFlight
  <2>1. /\ \A m \in S : row'[m] = "answered" /\ row[m] = "inflight" /\ m \in Msgs
        /\ \A m \in Msgs \ S : row'[m] = row[m]
        /\ UNCHANGED <<created, ran>>
    BY <1>4 DEF LoopDelete, Deletable, Update, InFlight, process
  <2>2. \A m \in S : m \in ran
    BY <2>1 DEF SettledInv, Visible, EndsAreTrue
  <2>3. \A m \in S : Stage(m) = "started" /\ Stage(m)' = "answered"
    BY <1>0, <2>1, <2>2 DEF Stage, InOrder
  <2>4. \A m \in Msgs \ S : Stage(m)' = Stage(m)
    BY <2>1 DEF Stage
  <2> HIDE DEF S
  <2>5. S \subseteq 1..N
    BY <1>0 DEF S, InFlight
  <2>6. Stages' = [m \in 1..N |-> IF m \in S THEN "answered" ELSE Stages[m]]
    BY <1>0, <2>3, <2>4
  <2>7. CASE S = {}
    BY <1>0, <2>1, <2>4, <2>7
  <2>8. CASE S # {}
    <3>1. \A m \in S : Stages[m] = "started"
      BY <1>0, <2>3, <2>5
    <3> QED
      BY <2>1, <2>5, <2>6, <2>8, <3>1
  <2> QED
    BY <2>7, <2>8
<1>5. ASSUME NEW m \in Msgs, WorkerStart(m)
      PROVE  /\ UNCHANGED created
             /\ \/ Stages' = Stages
                \/ /\ Stages[m] = "waiting" /\ \A k \in 1..N : k < m => Stages[k] # "waiting"
                   /\ Stages' = [Stages EXCEPT ![m] = "started"]
  <2>1. /\ worker = "ready" /\ m \in held /\ \A k \in held : m <= k
        /\ ran' = ran \cup {m} /\ UNCHANGED <<created, row>>
    BY <1>5 DEF WorkerStart, NextHeld, db
  <2>2. \A n \in Msgs : n # m => Stage(n)' = Stage(n)
    BY <2>1 DEF Stage
  <2>3. CASE Stage(m)' = Stage(m)
    BY <2>1, <2>2, <2>3
  <2>4. CASE Stage(m)' # Stage(m)
    <3>1. Stage(m) = "waiting" /\ Stage(m)' = "started"
      BY <2>1, <2>4 DEF Stage
    <3>2. ASSUME NEW k \in 1..N, k < m PROVE Stages[k] # "waiting"
      <4>1. k \in Msgs /\ k \in Nat /\ m \in Nat
        BY <1>0
      <4>2. k \notin held
        BY <2>1, <3>2, <4>1
      <4>3. k \notin input
        BY <2>1, <3>2, <4>1 DEF InOrder
      <4>4. k \notin Queued \ Marking
        BY <2>1, <3>2, <4>1 DEF InOrder
      <4> QED
        BY <4>1, <4>2, <4>3, <4>4, WaitingIsBefore
    <3> QED
      BY <2>1, <2>2, <3>1, <3>2
  <2> QED
    BY <2>3, <2>4
<1> QED
  BY <1>0, <1>1, <1>2, <1>3, <1>4, <1>5 DEF CalmStep, LoopStep

------------------------------------------------------------------------------
(* The theorems.                                                           *)

\* Custody, AnswerVisible, QueuedIsFresh and the service rest on one invariant: where a
\* message is, and what is known of it there, while the loop and the worker exchange files.
THEOREM CalmInvariant ==
  ASSUME NothingFails
  PROVE  Spec => []CalmInv
<1>1. CalmInv /\ [Next]_vars => CalmInv'
  BY CalmGoesOn
<1> QED
  BY <1>1, CalmStarts, PTL DEF Spec

\* An in-flight row is always somebody's: input.json's, the worker's, or of a final event
\* that _process_output will see.
THEOREM InFlightIsKept ==
  ASSUME NothingFails
  PROVE  Spec => []Custody
<1>1. CalmInv => Custody
  BY DEF CalmInv, Kept, Custody
<1> QED
  BY <1>1, CalmInvariant, PTL

\* A row is dropped for a completed query only after its reply is complete in messages,
\* unless a write of that reply failed.
THEOREM AnswersAreVisible ==
  ASSUME NothingFails
  PROVE  Spec => []AnswerVisible
<1>1. CalmInv => AnswerVisible
  BY DEF CalmInv, Visible, CompletedShown, AnswerVisible
<1> QED
  BY <1>1, CalmInvariant, PTL

\* A queued row has no copy with the worker and was never started: nothing is delivered
\* twice.
THEOREM QueuedAreFresh ==
  ASSUME NothingFails
  PROVE  Spec => []QueuedIsFresh
<1>1. CalmInv => QueuedIsFresh
  BY DEF CalmInv, Fresh, Started, Marking, QueuedIsFresh
<1> QED
  BY <1>1, CalmInvariant, PTL

\* The message channel implements the service: what is sent is started once, in the order
\* of created_at, and answered afterwards, unless the user deletes it.
THEOREM ServiceIsImplemented ==
  ASSUME NothingFails
  PROVE  Spec => Service!Spec
<1>1. Init => Service!Init
  BY ConstantsOK DEF Init, Service!Init, ConstantsOK, Msgs
<1>2. CalmInv /\ [Next]_vars => [Service!Next]_(Service!vars)
  <2> SUFFICES ASSUME CalmInv, [Next]_vars PROVE [Service!Next]_(Service!vars)
    OBVIOUS
  <2>1. CalmStep
    BY OnlyCalmSteps DEF CalmInv
  <2> QED
    BY <2>1, ServiceSteps
       DEF Stages, Stage, Service!Next, Service!vars, Service!Send, Service!Start,
           Service!Remove, Service!Answer
<1> QED
  BY <1>1, <1>2, CalmInvariant, PTL DEF Spec, Service!Spec

=============================================================================
