-------------------------- MODULE Containers_proofs --------------------------
(***************************************************************************)
(* Theorems about those who own containers: ScheduledTasks, the ephemeral  *)
(* ones of one-off tasks, and Lifecycle, those of the workers; for any     *)
(* tasks, retries, requests, monitors, containers, crashes and restarts.   *)
(***************************************************************************)
EXTENDS ScheduledTasks, Lifecycle, FiniteSetTheorems, TLAPS

------------------------------------------------------------------------------
(* One-off tasks.                                                          *)

\* The state, without the bound on how often a task is carried out.
TasksTyped ==
  /\ task \in [Tasks -> [status : {"none", "pending", "running", "completed", "failed"},
                         retries : Nat]]
  /\ \A t \in Tasks : task[t].retries <= MaxRetries[t]
  /\ carriedOut \in [Tasks -> Nat]
  /\ runner \in [Tasks -> {"none", "spawning", "polling", "failing", "cleanup"}]
  /\ {tracked, stuck} \subseteq SUBSET Tasks
  /\ owner \in Tasks \cup {Absent} /\ input \in Items \cup {Absent}
  /\ output \subseteq Tasks \cup {"answer", "error"}
  /\ proc \in [TaskWorkers -> [at : {"off", "boot", "idle", "work"}, item : Items \cup {Absent}]]
  /\ troubles \in 0..MaxTroubles

\* A coroutine before its end belongs to a row that is running.
RunnersRun ==
  \A t \in Tasks : runner[t] \in {"spawning", "polling", "failing"} => task[t].status = "running"

One(condition) == IF condition THEN 1 ELSE 0

\* How often a task was carried out, or still can be from what is written or worked on.
Chances(t) ==
  carriedOut[t] + One(input = t) + One(proc["session"].item = t) + One(proc["ephemeral"].item = t)

\* An attempt that has begun has written its input once.
AttemptsAreCounted ==
  \A t \in Tasks :
    Chances(t) <= task[t].retries
                  + One(task[t].status \notin {"none", "pending"} /\ runner[t] # "spawning")

TasksInv == TasksTyped /\ RunnersRun /\ RunningHasOwner /\ AttemptsAreCounted

LEMMA TaskInitInv == TaskInit => TasksInv
<1> SUFFICES ASSUME TaskInit PROVE TasksInv
  OBVIOUS
<1> USE ScheduledTasksConstantsOK DEF ScheduledTasksConstantsOK, TaskInit
<1>1. TasksTyped
  BY DEF TasksTyped, TaskWorkers, Off, Items
<1>2. RunnersRun /\ RunningHasOwner
  BY DEF RunnersRun, RunningHasOwner
<1>3. AttemptsAreCounted
  BY DEF AttemptsAreCounted, Chances, One, Off, TaskWorkers
<1> QED
  BY <1>1, <1>2, <1>3 DEF TasksInv

------------------------------------------------------------------------------
(* One step of the coroutine of a task.                                    *)

LEMMA BecomesTyped ==
  ASSUME TasksTyped, NEW t \in Tasks,
         NEW s \in {"none", "pending", "running", "completed", "failed"}, Becomes(t, s)
  PROVE  /\ task' \in [Tasks -> [status : {"none", "pending", "running", "completed", "failed"},
                                 retries : Nat]]
         /\ task'[t].status = s
         /\ \A u \in Tasks : task'[u].retries = task[u].retries
         /\ \A u \in Tasks \ {t} : task'[u] = task[u]
<1>1. [task[t] EXCEPT !.status = s] \in
        [status : {"none", "pending", "running", "completed", "failed"}, retries : Nat]
  BY DEF TasksTyped
<1>2. task' = [task EXCEPT ![t] = [task[t] EXCEPT !.status = s]]
  BY DEF Becomes
<1> QED
  BY <1>1, <1>2 DEF TasksTyped

LEMMA CoroutineKeepsTypes ==
  ASSUME TasksInv, NEW t \in Tasks, StartTask(t) \/ ScheduleTask(t) \/ RunnerStep(t)
  PROVE  TasksTyped'
<1> USE ScheduledTasksConstantsOK
    DEF ScheduledTasksConstantsOK, TasksInv, TasksTyped, Trouble, Items, TaskWorkers, Off
<1>0. CASE ScheduleTask(t)
  <2>1. Becomes(t, "pending")
    BY <1>0 DEF ScheduleTask
  <2> QED
    BY <1>0, <2>1, BecomesTyped DEF ScheduleTask
<1>1. CASE StartTask(t)
  <2>1. Becomes(t, "running")
    BY <1>1 DEF StartTask
  <2> QED
    BY <1>1, <2>1, BecomesTyped DEF StartTask
<1>2. CASE SpawnTask(t)
  BY <1>2 DEF SpawnTask
<1>3. CASE SpawnTaskFails(t) \/ TaskExited(t) \/ TaskTimesOut(t) \/ CancelledAgain(t)
  <2>1. CASE SpawnTaskFails(t)
    BY <2>1 DEF SpawnTaskFails
  <2>2. CASE TaskExited(t)
    BY <2>2 DEF TaskExited
  <2>3. CASE TaskTimesOut(t)
    BY <2>3 DEF TaskTimesOut
  <2>4. CASE CancelledAgain(t)
    BY <2>4 DEF CancelledAgain
  <2> QED
    BY <1>3, <2>1, <2>2, <2>3, <2>4
<1>4. CASE TaskReadsOutput(t)
  <2>1. CASE Becomes(t, "completed")
    BY <1>4, <2>1, BecomesTyped DEF TaskReadsOutput
  <2>2. CASE UNCHANGED task
    BY <1>4, <2>2 DEF TaskReadsOutput
  <2> QED
    BY <1>4, <2>1, <2>2 DEF TaskReadsOutput
<1>5. CASE RetryOrFail(t)
  <2>1. Retried(task[t], MaxRetries[t]) \in
          [status : {"none", "pending", "running", "completed", "failed"}, retries : Nat]
    BY DEF Retried
  <2>2. Retried(task[t], MaxRetries[t]).retries <= MaxRetries[t]
    BY DEF Retried
  <2> QED
    BY <1>5, <2>1, <2>2 DEF RetryOrFail
<1>6. CASE EndTask(t)
  BY <1>6 DEF EndTask, Killed
<1> QED
  BY <1>0, <1>1, <1>2, <1>3, <1>4, <1>5, <1>6 DEF RunnerStep

LEMMA CoroutineKeepsOwner ==
  ASSUME TasksInv, NEW t \in Tasks, StartTask(t) \/ ScheduleTask(t) \/ RunnerStep(t)
  PROVE  RunnersRun' /\ RunningHasOwner'
<1> USE DEF TasksInv, TasksTyped, RunnersRun, RunningHasOwner
<1>0. CASE ScheduleTask(t)
  <2>1. Becomes(t, "pending") /\ task[t].status = "none"
    BY <1>0 DEF ScheduleTask
  <2> QED
    BY <1>0, <2>1, BecomesTyped DEF ScheduleTask
<1>1. CASE StartTask(t)
  <2>1. Becomes(t, "running")
    BY <1>1 DEF StartTask
  <2> QED
    BY <1>1, <2>1, BecomesTyped DEF StartTask
<1>2. CASE SpawnTask(t)
  BY <1>2 DEF SpawnTask
<1>3. CASE SpawnTaskFails(t) \/ TaskExited(t) \/ TaskTimesOut(t)
  BY <1>3 DEF SpawnTaskFails, TaskExited, TaskTimesOut
<1>4. CASE CancelledAgain(t)
  BY <1>4 DEF CancelledAgain
<1>5. CASE TaskReadsOutput(t)
  <2>1. CASE Becomes(t, "completed") /\ runner' = [runner EXCEPT ![t] = "cleanup"]
    BY <1>5, <2>1, BecomesTyped DEF TaskReadsOutput
  <2>2. CASE UNCHANGED task /\ runner' = [runner EXCEPT ![t] = IF "error" \in output THEN "failing" ELSE @]
    BY <1>5, <2>2 DEF TaskReadsOutput
  <2> QED
    BY <1>5, <2>1, <2>2 DEF TaskReadsOutput
<1>6. CASE RetryOrFail(t)
  <2>1. Retried(task[t], MaxRetries[t]).status # "running"
    BY <1>6 DEF Retried, RetryOrFail
  <2> QED
    BY <1>6, <2>1 DEF RetryOrFail
<1>7. CASE EndTask(t)
  BY <1>7 DEF EndTask, Killed, Off, TaskWorkers
<1> QED
  BY <1>0, <1>1, <1>2, <1>3, <1>4, <1>5, <1>6, <1>7 DEF RunnerStep

\* The chances of a task, where what they count does not grow.
LEMMA ChancesCounted ==
  ASSUME TasksTyped, NEW t \in Tasks
  PROVE  /\ Chances(t) \in Nat
         /\ UNCHANGED <<carriedOut, input, proc>> => Chances(t)' = Chances(t)
<1> USE DEF TasksTyped, Chances, One
<1>1. carriedOut[t] \in Nat
  OBVIOUS
<1> QED
  BY <1>1

LEMMA CoroutineKeepsCount ==
  ASSUME TasksInv, NEW t \in Tasks, StartTask(t) \/ ScheduleTask(t) \/ RunnerStep(t)
  PROVE  AttemptsAreCounted'
<1> SUFFICES ASSUME NEW u \in Tasks
    PROVE Chances(u)' <= task'[u].retries
                  + One(task'[u].status \notin {"none", "pending"} /\ runner'[u] # "spawning")
  BY DEF AttemptsAreCounted
<1> DEFINE Bound(s, r) == s.retries + One(s.status \notin {"none", "pending"} /\ r # "spawning")
<1>1. Chances(u) \in Nat /\ Chances(u) <= Bound(task[u], runner[u])
  BY ChancesCounted DEF TasksInv, AttemptsAreCounted
<1>2. task[u].retries \in Nat /\ task[u].retries <= MaxRetries[u] /\ MaxRetries[u] \in Nat
  BY ScheduledTasksConstantsOK DEF TasksInv, TasksTyped, ScheduledTasksConstantsOK
<1>3. ASSUME UNCHANGED <<carriedOut, input, proc>> PROVE Chances(u)' = Chances(u)
  BY <1>3, ChancesCounted DEF TasksInv
<1> USE DEF TasksInv, TasksTyped, RunnersRun, One
<1>4. CASE StartTask(t) \/ ScheduleTask(t)
  BY <1>1, <1>2, <1>3, <1>4 DEF StartTask, ScheduleTask, Becomes
<1>5. CASE SpawnTask(t)
  <2>1. CASE u = t
    <3>1. Chances(u)' <= Chances(u) + 1 /\ Chances(u)' \in Nat
      BY <1>5, <2>1, ScheduledTasksConstantsOK
         DEF SpawnTask, Chances, TaskWorkers, ScheduledTasksConstantsOK
    <3>2. Bound(task[u], runner[u]) = task[u].retries
      BY <1>5, <2>1 DEF SpawnTask
    <3>3. Bound(task'[u], runner'[u]) = task[u].retries + 1
      BY <1>5, <2>1 DEF SpawnTask
    <3> QED
      BY <1>1, <1>2, <3>1, <3>2, <3>3
  <2>2. CASE u # t
    <3>1. Chances(u)' <= Chances(u) /\ Chances(u)' \in Nat
      BY <1>5, <2>2, ScheduledTasksConstantsOK
         DEF SpawnTask, Chances, TaskWorkers, ScheduledTasksConstantsOK
    <3>2. Bound(task'[u], runner'[u]) = Bound(task[u], runner[u])
      BY <1>5, <2>2 DEF SpawnTask
    <3> QED
      BY <1>1, <1>2, <3>1, <3>2
  <2> QED
    BY <2>1, <2>2
<1>6. CASE SpawnTaskFails(t) \/ TaskExited(t) \/ TaskTimesOut(t) \/ CancelledAgain(t)
  BY <1>1, <1>2, <1>3, <1>6 DEF SpawnTaskFails, TaskExited, TaskTimesOut, CancelledAgain
<1>7. CASE TaskReadsOutput(t)
  BY <1>1, <1>2, <1>3, <1>7 DEF TaskReadsOutput, Becomes
<1>8. CASE RetryOrFail(t)
  <2>1. /\ UNCHANGED <<carriedOut, input, proc>>
        /\ task' = [task EXCEPT ![t] = Retried(@, MaxRetries[t])]
        /\ runner' = [runner EXCEPT ![t] = "cleanup"]
    BY <1>8 DEF RetryOrFail
  <2>2. CASE u = t
    <3>1. Bound(task'[u], runner'[u]) >= task[u].retries + 1
      BY <1>2, <1>8, <2>1, <2>2 DEF Retried, RetryOrFail
    <3>2. Bound(task[u], runner[u]) <= task[u].retries + 1 /\ Bound(task[u], runner[u]) \in Nat
      BY <1>2
    <3>3. Bound(task'[u], runner'[u]) \in Nat
      BY <1>2, <2>1, <2>2 DEF Retried
    <3>4. Chances(u)' = Chances(u)
      BY <1>3, <2>1
    <3> HIDE DEF Bound
    <3>5. Chances(u)' <= Bound(task'[u], runner'[u])
      BY <1>1, <1>2, <3>1, <3>2, <3>3, <3>4
    <3> QED
      BY <3>5 DEF Bound
  <2>3. CASE u # t
    BY <1>1, <1>3, <2>1, <2>3
  <2> QED
    BY <2>2, <2>3
<1>9. CASE EndTask(t)
  <2>1. Chances(u)' <= Chances(u) /\ Chances(u)' \in Nat
    BY <1>9, ScheduledTasksConstantsOK
       DEF EndTask, Killed, Off, Chances, TaskWorkers, ScheduledTasksConstantsOK
  <2>2. Bound(task'[u], runner'[u]) >= Bound(task[u], runner[u])
    BY <1>2, <1>9 DEF EndTask
  <2>3. Bound(task[u], runner[u]) \in Nat /\ Bound(task'[u], runner'[u]) \in Nat
    BY <1>2, <1>9 DEF EndTask
  <2> HIDE DEF Bound
  <2>4. Chances(u)' <= Bound(task'[u], runner'[u])
    BY <1>1, <2>1, <2>2, <2>3
  <2> QED
    BY <2>4 DEF Bound
<1> QED
  BY <1>4, <1>5, <1>6, <1>7, <1>8, <1>9 DEF RunnerStep

------------------------------------------------------------------------------
(* One step of a container, of the user, or a restart.                     *)

ContainerStep ==
  \/ \E p \in TaskWorkers :
       BootWorker(p) \/ TakeInput(p) \/ CarryOut(p)
       \/ \E event \in {"answer", "error"} : AnswerUser(p, event)
  \/ StartSession \/ UserMessage \/ SessionReadsOutput

LEMMA ContainersKeepTypes == TasksInv /\ ContainerStep => TasksTyped'
<1> SUFFICES ASSUME TasksInv, ContainerStep PROVE TasksTyped'
  OBVIOUS
<1> USE ScheduledTasksConstantsOK
    DEF ScheduledTasksConstantsOK, TasksInv, TasksTyped, Trouble, Items, TaskWorkers, Off, Ready
<1>1. ASSUME NEW p \in TaskWorkers, BootWorker(p) PROVE TasksTyped'
  BY <1>1 DEF BootWorker
<1>2. ASSUME NEW p \in TaskWorkers, TakeInput(p) PROVE TasksTyped'
  BY <1>2 DEF TakeInput
<1>3. ASSUME NEW p \in TaskWorkers, CarryOut(p) PROVE TasksTyped'
  <2>1. output' \subseteq Tasks \cup {"answer", "error"}
    BY <1>3 DEF CarryOut
  <2>2. carriedOut' \in [Tasks -> Nat]
    BY <1>3 DEF CarryOut
  <2> QED
    BY <1>3, <2>1, <2>2 DEF CarryOut
<1>4. ASSUME NEW p \in TaskWorkers, NEW event \in {"answer", "error"}, AnswerUser(p, event)
      PROVE  TasksTyped'
  BY <1>4 DEF AnswerUser
<1>5. CASE StartSession
  BY <1>5 DEF StartSession
<1>6. CASE UserMessage \/ SessionReadsOutput
  BY <1>6 DEF UserMessage, SessionReadsOutput
<1> QED
  BY <1>1, <1>2, <1>3, <1>4, <1>5, <1>6 DEF ContainerStep

\* A container starts working only when its coroutine has started it.
LEMMA ContainersKeepOwner == TasksInv /\ ContainerStep => RunnersRun' /\ RunningHasOwner'
<1> SUFFICES ASSUME TasksInv, ContainerStep PROVE RunnersRun' /\ RunningHasOwner'
  OBVIOUS
<1>1. UNCHANGED <<task, runner, tracked, owner, stuck>>
  BY DEF ContainerStep, BootWorker, TakeInput, CarryOut, AnswerUser, StartSession, UserMessage,
         SessionReadsOutput
<1>2. proc'["ephemeral"].at # "off" => proc["ephemeral"].at # "off"
  BY DEF ContainerStep, BootWorker, TakeInput, CarryOut, AnswerUser, StartSession, UserMessage,
         SessionReadsOutput, TasksInv, TasksTyped, TaskWorkers, Off, Ready
<1> QED
  BY <1>1, <1>2 DEF TasksInv, RunnersRun, RunningHasOwner

LEMMA ContainersKeepCount == TasksInv /\ ContainerStep => AttemptsAreCounted'
<1> SUFFICES ASSUME TasksInv, ContainerStep PROVE AttemptsAreCounted'
  OBVIOUS
<1>1. UNCHANGED <<task, runner>>
  BY DEF ContainerStep, BootWorker, TakeInput, CarryOut, AnswerUser, StartSession, UserMessage,
         SessionReadsOutput
<1>2. ASSUME NEW u \in Tasks
      PROVE  Chances(u)' \in Nat /\ Chances(u)' <= Chances(u)
  <2>1. u # Absent /\ u # "user"
    BY ScheduledTasksConstantsOK DEF ScheduledTasksConstantsOK
  <2>2. Chances(u)' \in Nat
    BY ContainersKeepTypes DEF TasksTyped, Chances, One
  <2> USE <2>1 DEF TasksInv, TasksTyped, Chances, One, TaskWorkers, Off, Ready
  <2>3. ASSUME NEW p \in TaskWorkers, BootWorker(p) PROVE Chances(u)' <= Chances(u)
    BY <2>3 DEF BootWorker
  <2>4. ASSUME NEW p \in TaskWorkers, TakeInput(p) PROVE Chances(u)' <= Chances(u)
    BY <2>4 DEF TakeInput
  <2>5. ASSUME NEW p \in TaskWorkers, CarryOut(p) PROVE Chances(u)' <= Chances(u)
    <3>1. carriedOut'[u] = IF proc[p].item = u THEN carriedOut[u] + 1 ELSE carriedOut[u]
      BY <2>5 DEF CarryOut
    <3>2. input' = input /\ proc' = [proc EXCEPT ![p] = [at |-> "off", item |-> Absent]]
      BY <2>5 DEF CarryOut
    <3> QED
      BY <3>1, <3>2
  <2>6. ASSUME NEW p \in TaskWorkers, NEW event \in {"answer", "error"}, AnswerUser(p, event)
        PROVE  Chances(u)' <= Chances(u)
    BY <2>6 DEF AnswerUser
  <2>7. CASE StartSession
    BY <2>7 DEF StartSession
  <2>8. CASE UserMessage \/ SessionReadsOutput
    BY <2>8 DEF UserMessage, SessionReadsOutput
  <2> QED
    BY <2>2, <2>3, <2>4, <2>5, <2>6, <2>7, <2>8 DEF ContainerStep
<1>3. ASSUME NEW u \in Tasks PROVE Chances(u) \in Nat /\ task[u].retries \in Nat
  BY ChancesCounted DEF TasksInv, TasksTyped
<1> QED
  BY <1>1, <1>2, <1>3 DEF TasksInv, AttemptsAreCounted, One

LEMMA RestartKeepsInv == TasksInv /\ RestartTasks => TasksInv'
<1> SUFFICES ASSUME TasksInv, RestartTasks PROVE TasksInv'
  OBVIOUS
<1> USE ScheduledTasksConstantsOK DEF ScheduledTasksConstantsOK, TasksInv, TasksTyped, RestartTasks
<1>1. /\ task' \in [Tasks -> [status : {"none", "pending", "running", "completed", "failed"},
                              retries : Nat]]
      /\ \A t \in Tasks : task'[t].retries = task[t].retries /\ task'[t].status # "running"
      /\ \A t \in Tasks : task'[t].status \in {"none", "pending"} => task'[t] = task[t]
  OBVIOUS
<1>2. TasksTyped'
  BY <1>1 DEF Trouble, Items, TaskWorkers, Off
<1>3. RunnersRun' /\ RunningHasOwner'
  BY <1>1 DEF RunnersRun, RunningHasOwner, TaskWorkers, Off
<1>4. AttemptsAreCounted'
  <2> SUFFICES ASSUME NEW t \in Tasks
      PROVE Chances(t)' <= task'[t].retries
                  + One(task'[t].status \notin {"none", "pending"} /\ runner'[t] # "spawning")
    BY DEF AttemptsAreCounted
  <2>1. Chances(t)' \in Nat /\ Chances(t) \in Nat /\ Chances(t)' <= Chances(t)
    BY DEF Chances, One, TaskWorkers, Off
  <2>2. /\ task[t].retries \in Nat
        /\ Chances(t) <= task[t].retries
                  + One(task[t].status \notin {"none", "pending"} /\ runner[t] # "spawning")
    BY DEF AttemptsAreCounted
  <2>3. task'[t].status \in {"none", "pending"} => task[t].status \in {"none", "pending"}
    BY <1>1
  <2>4. runner'[t] # "spawning"
    OBVIOUS
  <2> QED
    BY <1>1, <2>1, <2>2, <2>3, <2>4 DEF One
<1> QED
  BY <1>2, <1>3, <1>4

------------------------------------------------------------------------------

LEMMA TasksGoOn == TasksInv /\ [TaskNext]_taskVars => TasksInv'
<1> SUFFICES ASSUME TasksInv, [TaskNext]_taskVars PROVE TasksInv'
  OBVIOUS
<1>1. ASSUME NEW t \in Tasks, StartTask(t) \/ ScheduleTask(t) \/ RunnerStep(t) PROVE TasksInv'
  BY <1>1, CoroutineKeepsTypes, CoroutineKeepsOwner, CoroutineKeepsCount DEF TasksInv
<1>2. CASE ContainerStep
  BY <1>2, ContainersKeepTypes, ContainersKeepOwner, ContainersKeepCount DEF TasksInv
<1>3. CASE RestartTasks
  BY <1>3, RestartKeepsInv
<1>4. CASE UNCHANGED taskVars
  BY <1>4 DEF taskVars, TasksInv, TasksTyped, RunnersRun, RunningHasOwner, AttemptsAreCounted,
              Chances
<1> QED
  BY <1>1, <1>2, <1>3, <1>4 DEF TaskNext, ContainerStep

\* The state is well typed, a coroutine that works belongs to a running row, and the
\* attempts of a task bound how often it can be carried out, in every state.
THEOREM TasksInvariant == TaskSpec => []TasksInv
  BY TaskInitInv, TasksGoOn, PTL DEF TaskSpec

\* scheduler.py, _run_scheduled_task: a running row has a coroutine that will end it, and
\* the timeouts know the coroutine as long as its container may be alive.
THEOREM RunningAlwaysHasOwner == TaskSpec => []RunningHasOwner
<1>1. TasksInv => RunningHasOwner
  BY DEF TasksInv
<1> QED
  BY <1>1, TasksInvariant, PTL

LEMMA CarriedOutIsBounded == TasksInv => \A t \in Tasks : carriedOut[t] <= MaxRetries[t] + 1
<1> SUFFICES ASSUME TasksInv, NEW t \in Tasks PROVE carriedOut[t] <= MaxRetries[t] + 1
  OBVIOUS
<1>1. /\ carriedOut[t] \in Nat /\ task[t].retries \in Nat /\ MaxRetries[t] \in Nat
      /\ task[t].retries <= MaxRetries[t]
  BY ScheduledTasksConstantsOK DEF ScheduledTasksConstantsOK, TasksInv, TasksTyped
<1>2. carriedOut[t] <= Chances(t) /\ Chances(t) \in Nat
  BY <1>1 DEF Chances, One
<1>3. Chances(t) <= task[t].retries + 1
  BY <1>1, <1>2 DEF TasksInv, AttemptsAreCounted, One
<1> QED
  BY <1>1, <1>2, <1>3

LEMMA TasksAreTyped == TasksInv => TaskTypeOK
<1> SUFFICES ASSUME TasksInv PROVE TaskTypeOK
  OBVIOUS
<1>1. ASSUME NEW t \in Tasks
      PROVE  /\ task[t] \in [status : {"none", "pending", "running", "completed", "failed"},
                              retries : 0..MaxRetries[t]]
             /\ carriedOut[t] \in 0..(MaxRetries[t] + 1)
  <2>1. /\ task[t] \in [status : {"none", "pending", "running", "completed", "failed"}, retries : Nat]
        /\ task[t].retries <= MaxRetries[t] /\ carriedOut[t] \in Nat /\ MaxRetries[t] \in Nat
    BY ScheduledTasksConstantsOK DEF ScheduledTasksConstantsOK, TasksInv, TasksTyped
  <2>2. carriedOut[t] <= MaxRetries[t] + 1
    BY CarriedOutIsBounded
  <2> QED
    BY <2>1, <2>2
<1> QED
  BY <1>1 DEF TasksInv, TasksTyped, TaskTypeOK

\* scheduler.py, _apply_retry_or_fail, max_retries: whatever containers read and write the
\* files they share, a task is carried out once, and once more per retry at most.
THEOREM CarriedOutAsAllowed ==
  TaskSpec => [](\A t \in Tasks : carriedOut[t] <= MaxRetries[t] + 1)
  BY CarriedOutIsBounded, TasksInvariant, PTL

------------------------------------------------------------------------------
(* Results that complete tasks.                                            *)

\* A result was written by a worker that had carried a task out, and is taken once.
ResultsAreEarned ==
  /\ IsFiniteSet(CompletedTasks) /\ IsFiniteSet(Results) /\ IsFiniteSet(Occasions)
  /\ Cardinality(CompletedTasks) + Cardinality(Results) <= Cardinality(Occasions)

\* Where nothing is completed, written or carried out.
LEMMA LessIsEarned ==
  ASSUME ResultsAreEarned, CompletedTasks' \subseteq CompletedTasks, Results' \subseteq Results,
         Occasions' = Occasions
  PROVE  ResultsAreEarned'
<1> DEFINE C == CompletedTasks    D == CompletedTasks'
           R == Results           Q == Results'
<1>1. /\ IsFiniteSet(C) /\ IsFiniteSet(R) /\ IsFiniteSet(Occasions) /\ D \subseteq C /\ Q \subseteq R
      /\ Cardinality(C) + Cardinality(R) <= Cardinality(Occasions)
  BY DEF ResultsAreEarned
<1> HIDE DEF C, D, R, Q
<1>2. IsFiniteSet(D) /\ Cardinality(D) <= Cardinality(C) /\ IsFiniteSet(Q) /\ Cardinality(Q) <= Cardinality(R)
  BY <1>1, FS_Subset
<1>3. /\ Cardinality(C) \in Nat /\ Cardinality(R) \in Nat /\ Cardinality(D) \in Nat /\ Cardinality(Q) \in Nat
      /\ Cardinality(Occasions) \in Nat
  BY <1>1, <1>2, FS_CardinalityType
<1>4. Cardinality(D) + Cardinality(Q) <= Cardinality(Occasions)
  BY <1>1, <1>2, <1>3
<1> QED
  BY <1>1, <1>2, <1>4 DEF ResultsAreEarned, D, Q

\* Only the rows that become completed, the results and the count matter.
LEMMA FewerCompleted ==
  ASSUME TasksTyped, \A u \in Tasks : task'[u].status = "completed" => task[u].status = "completed"
  PROVE  CompletedTasks' \subseteq CompletedTasks
  BY DEF CompletedTasks

LEMMA CoroutineEarns ==
  ASSUME TasksInv, ResultsAreEarned, NEW t \in Tasks, StartTask(t) \/ ScheduleTask(t) \/ RunnerStep(t)
  PROVE  ResultsAreEarned'
<1>1. carriedOut' = carriedOut
  BY DEF StartTask, ScheduleTask, RunnerStep, SpawnTask, SpawnTaskFails, TaskReadsOutput, TaskExited,
         TaskTimesOut, RetryOrFail, CancelledAgain, EndTask
<1>2. Occasions' = Occasions
  BY <1>1 DEF Occasions
<1>3. CASE StartTask(t) \/ ScheduleTask(t)
  <2>1. output' = output /\ (Becomes(t, "running") \/ Becomes(t, "pending"))
    BY <1>3 DEF StartTask, ScheduleTask
  <2>2. \A u \in Tasks : task'[u].status = "completed" => task[u].status = "completed"
    BY <2>1, BecomesTyped DEF TasksInv
  <2>3. Results' \subseteq Results
    BY <2>1 DEF Results
  <2> QED
    BY <1>2, <2>2, <2>3, LessIsEarned, FewerCompleted DEF TasksInv
<1>4. CASE SpawnTask(t) \/ SpawnTaskFails(t) \/ TaskExited(t) \/ TaskTimesOut(t) \/ CancelledAgain(t) \/ EndTask(t)
  <2>1. output' = output /\ task' = task
    BY <1>4 DEF SpawnTask, SpawnTaskFails, TaskExited, TaskTimesOut, CancelledAgain, EndTask
  <2>2. Results' \subseteq Results /\ CompletedTasks' \subseteq CompletedTasks
    BY <2>1 DEF Results, CompletedTasks
  <2> QED
    BY <1>2, <2>2, LessIsEarned
<1>5. CASE RetryOrFail(t)
  <2>1. output' = output /\ task' = [task EXCEPT ![t] = Retried(@, MaxRetries[t])]
    BY <1>5 DEF RetryOrFail
  <2>2. Retried(task[t], MaxRetries[t]).status # "completed"
    BY DEF Retried, TasksInv, TasksTyped
  <2>3. \A u \in Tasks : task'[u].status = "completed" => task[u].status = "completed"
    BY <2>1, <2>2 DEF TasksInv, TasksTyped
  <2>4. Results' \subseteq Results
    BY <2>1 DEF Results
  <2> QED
    BY <1>2, <2>3, <2>4, LessIsEarned, FewerCompleted DEF TasksInv
<1>6. CASE TaskReadsOutput(t)
  <2>1. output' = {} /\ Results' = {}
    BY <1>6 DEF TaskReadsOutput, Results
  <2>2. CASE Results = {}
    <3>1. task' = task
      BY <1>6, <2>2 DEF TaskReadsOutput
    <3>2. Results' \subseteq Results /\ CompletedTasks' \subseteq CompletedTasks
      BY <2>1, <3>1 DEF CompletedTasks
    <3> QED
      BY <1>2, <3>2, LessIsEarned
  <2>3. CASE Results # {}
    <3>1. Becomes(t, "completed")
      BY <1>6, <2>3 DEF TaskReadsOutput
    <3>2. CompletedTasks' = CompletedTasks \cup {t}
      BY <3>1, BecomesTyped DEF TasksInv, CompletedTasks
    <3> DEFINE C == CompletedTasks   R == Results   O == Occasions   D == CompletedTasks'   Q == Results'
    <3>3. /\ IsFiniteSet(C) /\ IsFiniteSet(R) /\ IsFiniteSet(O) /\ Cardinality(C) + Cardinality(R) <= Cardinality(O)
          /\ D = C \cup {t} /\ R # {} /\ Q = {} /\ Occasions' = O
      BY <1>2, <2>1, <2>3, <3>2 DEF ResultsAreEarned
    <3> HIDE DEF C, R, O, D, Q
    <3>4. IsFiniteSet(D) /\ (Cardinality(D) = Cardinality(C) \/ Cardinality(D) = Cardinality(C) + 1)
      BY <3>3, FS_AddElement
    <3>5. Cardinality(C) \in Nat /\ Cardinality(R) \in Nat /\ Cardinality(O) \in Nat /\ Cardinality(R) # 0
      BY <3>3, FS_CardinalityType, FS_EmptySet
    <3>6. IsFiniteSet(Q) /\ Cardinality(Q) = 0
      BY <3>3, FS_EmptySet
    <3>7. Cardinality(D) + Cardinality(Q) <= Cardinality(O)
      BY <3>3, <3>4, <3>5, <3>6
    <3> QED
      BY <3>3, <3>4, <3>6, <3>7 DEF ResultsAreEarned, D, Q
  <2> QED
    BY <2>2, <2>3
<1> QED
  BY <1>3, <1>4, <1>5, <1>6 DEF RunnerStep

\* What is an occasion, for any count of how often tasks were carried out.
LEMMA OccasionsAreNumbered ==
  ASSUME NEW count \in [Tasks -> Nat]
  PROVE  LET occasions == UNION {{t} \X (1..count[t]) : t \in Tasks}
         IN /\ occasions \subseteq Tasks \X Nat
            /\ \A u \in Tasks, n \in Nat : <<u, n>> \in occasions <=> 1 <= n /\ n <= count[u]
<1> DEFINE occasions == UNION {{t} \X (1..count[t]) : t \in Tasks}
<1>1. \A o : o \in occasions <=> \E u \in Tasks : o \in {u} \X (1..count[u])
  OBVIOUS
<1>2. \A u \in Tasks : count[u] \in Nat
  OBVIOUS
<1>3. \A o, u : u \in Tasks =>
        (o \in {u} \X (1..count[u]) <=> \E n \in Nat : o = <<u, n>> /\ 1 <= n /\ n <= count[u])
  BY <1>2
<1> HIDE DEF occasions
<1>4. occasions \subseteq Tasks \X Nat /\ \A u \in Tasks, n \in Nat : <<u, n>> \in occasions <=> 1 <= n /\ n <= count[u]
  BY <1>1, <1>3
<1> QED
  BY <1>4 DEF occasions

\* One more occasion.
LEMMA OneMoreOccasion ==
  ASSUME TasksTyped, TasksTyped', NEW t \in Tasks, carriedOut' = [carriedOut EXCEPT ![t] = @ + 1]
  PROVE  /\ Occasions' = Occasions \cup {<<t, carriedOut[t] + 1>>}
         /\ <<t, carriedOut[t] + 1>> \notin Occasions
<1>1. carriedOut \in [Tasks -> Nat] /\ carriedOut' \in [Tasks -> Nat]
  BY DEF TasksTyped
<1>2. \A u \in Tasks : carriedOut[u] \in Nat /\ carriedOut'[u] = IF u = t THEN carriedOut[t] + 1 ELSE carriedOut[u]
  BY <1>1
<1>3. /\ Occasions \subseteq Tasks \X Nat
      /\ \A u \in Tasks, n \in Nat : <<u, n>> \in Occasions <=> 1 <= n /\ n <= carriedOut[u]
  BY <1>1, OccasionsAreNumbered DEF Occasions
<1>4. /\ Occasions' \subseteq Tasks \X Nat
      /\ \A u \in Tasks, n \in Nat : <<u, n>> \in Occasions' <=> 1 <= n /\ n <= carriedOut'[u]
  BY <1>1, OccasionsAreNumbered DEF Occasions
<1> DEFINE O == Occasions
           P == Occasions'
           new == O \cup {<<t, carriedOut[t] + 1>>}
<1>5. new \subseteq Tasks \X Nat
  BY <1>2, <1>3
<1>6. \A u \in Tasks, n \in Nat : <<u, n>> \in new <=> 1 <= n /\ n <= carriedOut'[u]
  <2> SUFFICES ASSUME NEW u \in Tasks, NEW n \in Nat
      PROVE  <<u, n>> \in new <=> 1 <= n /\ n <= carriedOut'[u]
    OBVIOUS
  <2>1. <<u, n>> \in new <=> <<u, n>> \in O \/ (u = t /\ n = carriedOut[t] + 1)
    OBVIOUS
  <2> HIDE DEF new
  <2> QED
    BY <1>2, <1>3, <2>1
<1> HIDE DEF new
<1>7. P = new
  BY <1>4, <1>5, <1>6 DEF P
<1>8. <<t, carriedOut[t] + 1>> \notin O
  BY <1>2, <1>3 DEF O
<1> QED
  BY <1>7, <1>8 DEF new, O, P

LEMMA ContainersEarn ==
  ASSUME TasksInv, ResultsAreEarned, ContainerStep
  PROVE  ResultsAreEarned'
<1>1. task' = task
  BY DEF ContainerStep, BootWorker, TakeInput, CarryOut, AnswerUser, StartSession, UserMessage,
         SessionReadsOutput
<1>2. CompletedTasks' \subseteq CompletedTasks
  BY <1>1 DEF CompletedTasks
<1>3. ASSUME NEW p \in TaskWorkers,
             BootWorker(p) \/ TakeInput(p) \/ \E event \in {"answer", "error"} : AnswerUser(p, event)
      PROVE  ResultsAreEarned'
  <2>1. carriedOut' = carriedOut
    BY <1>3 DEF BootWorker, TakeInput, AnswerUser
  <2>2. Occasions' = Occasions
    BY <2>1 DEF Occasions
  <2>3. Results' \subseteq Results
    BY <1>3, ScheduledTasksConstantsOK DEF ScheduledTasksConstantsOK, BootWorker, TakeInput, AnswerUser, Results
  <2> QED
    BY <1>2, <2>2, <2>3, LessIsEarned
<1>4. CASE StartSession \/ UserMessage \/ SessionReadsOutput
  <2>1. carriedOut' = carriedOut /\ Results' \subseteq Results
    BY <1>4 DEF StartSession, UserMessage, SessionReadsOutput, Results
  <2>2. Occasions' = Occasions
    BY <2>1 DEF Occasions
  <2> QED
    BY <1>2, <2>1, <2>2, LessIsEarned
<1>5. ASSUME NEW p \in TaskWorkers, CarryOut(p) PROVE ResultsAreEarned'
  <2> DEFINE t == proc[p].item
  <2>1. t \in Tasks /\ carriedOut' = [carriedOut EXCEPT ![t] = @ + 1]
    BY <1>5 DEF CarryOut
  <2>2. TasksTyped /\ TasksTyped'
    BY ContainersKeepTypes DEF TasksInv
  <2> DEFINE C == CompletedTasks    R == Results    O == Occasions
             Q == Results'          P == Occasions'
             o == <<t, carriedOut[t] + 1>>
  <2>3. P = O \cup {o} /\ o \notin O
    BY <2>1, <2>2, OneMoreOccasion
  <2>4. Q \subseteq R \cup {t}
    BY <1>5 DEF CarryOut, Results
  <2>5. CompletedTasks' = C
    BY <1>1 DEF CompletedTasks
  <2>6. /\ IsFiniteSet(C) /\ IsFiniteSet(R) /\ IsFiniteSet(O)
        /\ Cardinality(C) + Cardinality(R) <= Cardinality(O)
    BY DEF ResultsAreEarned
  <2> HIDE DEF t, C, R, O, Q, P, o
  <2>7. IsFiniteSet(P) /\ Cardinality(P) = Cardinality(O) + 1
    BY <2>3, <2>6, FS_AddElement
  <2>8. IsFiniteSet(R \cup {t}) /\ (Cardinality(R \cup {t}) = Cardinality(R) \/ Cardinality(R \cup {t}) = Cardinality(R) + 1)
    BY <2>6, FS_AddElement
  <2>9. IsFiniteSet(Q) /\ Cardinality(Q) <= Cardinality(R \cup {t})
    BY <2>4, <2>8, FS_Subset
  <2>10. /\ Cardinality(C) \in Nat /\ Cardinality(R) \in Nat /\ Cardinality(O) \in Nat /\ Cardinality(Q) \in Nat
         /\ Cardinality(R \cup {t}) \in Nat
    BY <2>6, <2>8, <2>9, FS_CardinalityType
  <2>11. Cardinality(C) + Cardinality(Q) <= Cardinality(P)
    BY <2>6, <2>7, <2>8, <2>9, <2>10
  <2> QED
    BY <2>5, <2>6, <2>7, <2>9, <2>11 DEF ResultsAreEarned, C, Q, P
<1> QED
  BY <1>3, <1>4, <1>5 DEF ContainerStep

LEMMA ResultsStart == TaskInit => ResultsAreEarned
<1> SUFFICES ASSUME TaskInit PROVE ResultsAreEarned
  OBVIOUS
<1>1. CompletedTasks = {} /\ Results = {}
  BY DEF TaskInit, CompletedTasks, Results
<1>2. carriedOut \in [Tasks -> Nat] /\ \A u \in Tasks : carriedOut[u] = 0
  BY DEF TaskInit
<1>3. Occasions = {}
  <2>1. \A u \in Tasks : 1..carriedOut[u] = {}
    BY <1>2
  <2> QED
    BY <2>1 DEF Occasions
<1>4. IsFiniteSet({}) /\ Cardinality({}) = 0
  BY FS_EmptySet
<1> QED
  BY <1>1, <1>3, <1>4 DEF ResultsAreEarned

LEMMA ResultsGoOn == TasksInv /\ ResultsAreEarned /\ [TaskNext]_taskVars => ResultsAreEarned'
<1> SUFFICES ASSUME TasksInv, ResultsAreEarned, [TaskNext]_taskVars PROVE ResultsAreEarned'
  OBVIOUS
<1>1. ASSUME NEW t \in Tasks, StartTask(t) \/ ScheduleTask(t) \/ RunnerStep(t) PROVE ResultsAreEarned'
  BY <1>1, CoroutineEarns
<1>2. CASE ContainerStep
  BY <1>2, ContainersEarn
<1>3. CASE RestartTasks \/ UNCHANGED taskVars
  <2>1. carriedOut' = carriedOut /\ Results' \subseteq Results
    BY <1>3 DEF RestartTasks, taskVars, Results
  <2>2. \A u \in Tasks : task'[u].status = "completed" => task[u].status = "completed"
    BY <1>3 DEF RestartTasks, taskVars, TasksInv, TasksTyped
  <2>3. Occasions' = Occasions
    BY <2>1 DEF Occasions
  <2> QED
    BY <2>1, <2>2, <2>3, LessIsEarned, FewerCompleted DEF TasksInv
<1> QED
  BY <1>1, <1>2, <1>3 DEF TaskNext, ContainerStep

\* scheduler.py, _poll_task_response: what completes tasks, and the results that are still
\* in output.json, are results that a container has written, each counted once.
THEOREM ResultsInvariant == TaskSpec => []ResultsAreEarned
  BY ResultsStart, ResultsGoOn, TasksInvariant, PTL DEF TaskSpec

\* scheduler.py, _poll_task_response: whatever containers of one agent write and whoever
\* reads it, no task is completed without a result, and no result completes two.
THEOREM CompletedWereCarriedOut == TaskSpec => []CompletedWasCarriedOut
<1>1. ResultsAreEarned => CompletedWasCarriedOut
  <2> SUFFICES ASSUME ResultsAreEarned PROVE CompletedWasCarriedOut
    OBVIOUS
  <2> DEFINE c == Cardinality(CompletedTasks)   r == Cardinality(Results)   o == Cardinality(Occasions)
  <2>1. c \in Nat /\ r \in Nat /\ o \in Nat /\ c + r <= o
    BY FS_CardinalityType DEF ResultsAreEarned
  <2> HIDE DEF c, r, o
  <2>2. c <= o
    BY <2>1
  <2> QED
    BY <2>2 DEF CompletedWasCarriedOut, c, o
<1> QED
  BY <1>1, ResultsInvariant, PTL

------------------------------------------------------------------------------
(* The inductive invariant, as long as no two requests have met where the  *)
(* lock does not keep them apart: one request at most spawns or attaches,  *)
(* one monitor at most is at work, and everything that runs, or waits for  *)
(* what runs, is in somebody's hands.                                      *)

Ensurers == {"page", "headless"}
Stoppers == {"kill", "reap"}

Ensures(h)   == ~At(h, "off") /\ handler[h].by \in Ensurers
Detaching(h) == handler[h].at \in {"detached", "attach"}
Stopping(h)  == handler[h].at \in {"await", "rows", "pop"}
\* it holds a worker that it has taken out of the registry to spawn another
Replaces(h, c) == At(h, "stale") /\ handler[h].by \in Ensurers /\ handler[h].obj = c

Watches(m) == monitor[m].at # "off"
Down(m)   == monitor[m].at \notin {"off", "wait"}

\* Who asks for what.
RolesAreKept ==
  \A h \in Handlers :
    /\ At(h, "stale") => handler[h].by \in Ensurers \cup {"check"}
    /\ handler[h].at \in {"detached", "attach", "mark", "remove", "run", "register"} =>
         handler[h].by \in Ensurers
    /\ handler[h].at \in {"await", "rows", "pop", "cancel"} => handler[h].by \in Stoppers
    /\ handler[h].mon # 0 => handler[h].at \in {"detached", "cancel"}
    /\ handler[h].at \in {"stale", "detached", "attach"} => handler[h].obj # 0

\* Containers are numbered as they are spawned.
NumbersAreBounded ==
  /\ live <= spawned /\ registered <= spawned
  /\ \A c \in Container : state[c].proc <= spawned
  /\ registered # 0 => state[registered].proc # 0
  /\ \A h \in Handlers : /\ handler[h].proc <= spawned
                         /\ At(h, "stale") => handler[h].obj <= spawned
  /\ \A m \in Monitors : monitor[m].new <= spawned /\ monitor[m].obj <= spawned

\* A container that is being spawned is not a worker's yet, and nobody waits for it.
NewIsUnknown ==
  /\ \A h \in Handlers : handler[h].at \in {"run", "register"} =>
       /\ handler[h].proc # 0
       /\ \A c \in Container : state[c].proc # handler[h].proc
       /\ \A g \in Handlers : /\ Stopping(g) => handler[g].proc # handler[h].proc
                              /\ At(g, "stale") => handler[g].obj # handler[h].proc
  /\ \A m \in Monitors : monitor[m].at \in {"run", "assign"} =>
       /\ monitor[m].new # 0
       /\ \A c \in Container : state[c].proc # monitor[m].new
       /\ \A g \in Handlers : Stopping(g) => handler[g].proc # monitor[m].new

OneAtWork ==
  /\ \A g, h \in Handlers : Ensures(g) /\ Ensures(h) => g = h
  /\ \A m, n \in Monitors : Watches(m) /\ Watches(n) => m = n

\* A monitor is known to the worker it watches, or to a request that will cancel it.
MonitorsAreHeld ==
  \A m \in Monitors : Watches(m) =>
    /\ monitor[m].obj # 0
    /\ \/ state[monitor[m].obj].mon = m /\ registered = monitor[m].obj
       \/ state[monitor[m].obj].mon = m /\ \E h \in Handlers : Replaces(h, monitor[m].obj)
       \/ \E h \in Handlers : handler[h].mon = m

\* Who knows a monitor knows one that is at work.
WorkersKnowTheirs ==
  \A c \in Container : state[c].mon # 0 =>
    /\ Watches(state[c].mon) /\ monitor[state[c].mon].obj = c
    /\ c = registered \/ \E h \in Handlers : Replaces(h, c)

RequestsKnowTheirs ==
  \A h \in Handlers : handler[h].mon # 0 =>
    /\ Watches(handler[h].mon)
    /\ \A c \in Container : state[c].mon # handler[h].mon
    /\ \A g \in Handlers : handler[g].mon = handler[h].mon => g = h
    /\ At(h, "detached") => /\ handler[h].obj = monitor[handler[h].mon].obj
                            /\ monitor[handler[h].mon].at # "assign"

\* A worker whose tasks were taken has none until it is attached.
DetachedIsBare ==
  \A h \in Handlers : Detaching(h) =>
    /\ registered \in {0, handler[h].obj}
    /\ state[handler[h].obj].mon = 0 /\ ~state[handler[h].obj].loop
    /\ \A m \in Monitors : Watches(m) => m = handler[h].mon

\* The registry is empty while a worker is replaced or its tasks are cancelled.
NobodyIsRegistered ==
  \A h \in Handlers :
    /\ Ensures(h) /\ handler[h].at \in {"stale", "remove", "run", "register"} => registered = 0
    /\ At(h, "cancel") => registered = 0
    /\ At(h, "stale") => registered # handler[h].obj
    /\ At(h, "stale") /\ ~Ensures(h) => state[handler[h].obj].mon = 0
    /\ At(h, "register") => /\ \A m \in Monitors : ~Watches(m)
                            /\ \A g \in Handlers : ~At(g, "cancel")

\* A monitor waits for the process of its worker, and goes on when it is dead.
DownIsDown ==
  \A m \in Monitors : Watches(m) =>
    /\ Down(m) => /\ live = 0 \/ state[monitor[m].obj].proc # live
                  /\ ~state[monitor[m].obj].loop
    /\ ~Down(m) => monitor[m].proc = state[monitor[m].obj].proc

\* What a kill or a reap has waited for is dead.
StoppedIsDead ==
  \A h \in Handlers :
    handler[h].at \in {"rows", "pop"} => handler[h].proc = 0 \/ handler[h].proc # live

\* What runs is the registered worker's, or about to be somebody's.
LiveIsKnown ==
  live # 0 =>
    \/ registered # 0 /\ live = state[registered].proc
    \/ \E h \in Handlers : At(h, "register") /\ handler[h].proc = live
    \/ \E m \in Monitors : monitor[m].at = "assign" /\ monitor[m].new = live

\* The registered worker has a monitor and a polling loop, or somebody will see to it.
RegisteredIsServed ==
  registered # 0 =>
    /\ state[registered].stop => \E h \in Handlers : Stopping(h)
    /\ state[registered].mon = 0 => state[registered].stop \/ \E h \in Handlers : Detaching(h)
    /\ ~state[registered].loop => \/ \E h \in Handlers : Detaching(h)
                                  \/ \E m \in Monitors : m = state[registered].mon /\ Down(m)

Orderly ==
  /\ RolesAreKept /\ NumbersAreBounded /\ NewIsUnknown /\ OneAtWork
  /\ MonitorsAreHeld /\ WorkersKnowTheirs /\ RequestsKnowTheirs
  /\ DetachedIsBare /\ NobodyIsRegistered /\ DownIsDown /\ StoppedIsDead /\ LiveIsKnown
  /\ RegisteredIsServed /\ ~abandoned

LifeInv == LifeTypeOK /\ (~raced => Orderly)

------------------------------------------------------------------------------
(* Types.                                                                  *)

LEMMA LifeRecords ==
  /\ NoState \in State /\ Ended \in Monitor /\ NoHandler \in Handler
  /\ NoState.proc = 0 /\ NoState.mon = 0 /\ NoState.loop = FALSE /\ NoState.stop = FALSE
  /\ Ended.at = "off" /\ Ended.obj = 0 /\ Ended.proc = 0 /\ Ended.new = 0
  /\ NoHandler.at = "off" /\ NoHandler.by = "page" /\ NoHandler.obj = 0 /\ NoHandler.proc = 0
  /\ NoHandler.loop = FALSE /\ NoHandler.mon = 0
<1>1. 0 \in Some /\ 0 \in 0..MaxCrashes
  BY LifecycleConstantsOK DEF LifecycleConstantsOK, Some
<1> QED
  BY <1>1 DEF NoState, State, Ended, Monitor, NoHandler, Handler

\* What the end of a monitor does to the workers.
LEMMA WithoutOne ==
  ASSUME NEW states \in [Container -> State], NEW m
  PROVE  /\ WithoutMonitor(states, m) \in [Container -> State]
         /\ \A c \in Container :
              /\ WithoutMonitor(states, m)[c].proc = states[c].proc
              /\ WithoutMonitor(states, m)[c].stop = states[c].stop
              /\ WithoutMonitor(states, m)[c].loop = states[c].loop
              /\ WithoutMonitor(states, m)[c].mon = IF states[c].mon = m THEN 0 ELSE states[c].mon
<1> DEFINE new(c) == [states[c] EXCEPT !.mon = IF @ = m THEN 0 ELSE @]
<1>1. ASSUME NEW c \in Container
      PROVE  /\ new(c) \in State /\ new(c).proc = states[c].proc /\ new(c).stop = states[c].stop
             /\ new(c).loop = states[c].loop /\ new(c).mon = IF states[c].mon = m THEN 0 ELSE states[c].mon
  BY DEF State
<1>2. WithoutMonitor(states, m) = [c \in Container |-> new(c)]
  BY DEF WithoutMonitor
<1> HIDE DEF new
<1> QED
  BY <1>1, <1>2

LEMMA LifeTypesStay ==
  ASSUME LifeTypeOK, [LifeNext]_lifeVars
  PROVE  LifeTypeOK'
<1> DEFINE Goal == LifeTypeOK'
<1>0. /\ live \in Some /\ spawned \in Some /\ registered \in Some /\ 0 \in Some /\ MaxContainers \in Nat /\ MaxCrashes \in Nat
      /\ row \in [Container -> Rows] /\ state \in [Container -> State]
      /\ monitor \in [Monitors -> Monitor] /\ handler \in [Handlers -> Handler]
      /\ abandoned \in BOOLEAN /\ raced \in BOOLEAN
      /\ \A c \in Some : c # 0 => c \in Container
  BY LifecycleConstantsOK DEF LifecycleConstantsOK, LifeTypeOK, Some, Container
<1>A. ASSUME live' \in Some, spawned' \in Some, registered' \in Some, row' \in [Container -> Rows],
             state' \in [Container -> State], monitor' \in [Monitors -> Monitor],
             handler' \in [Handlers -> Handler], abandoned' \in BOOLEAN, raced' \in BOOLEAN
      PROVE  Goal
  BY <1>A DEF LifeTypeOK
<1>r. \A c, s : s \in Rows /\ RowSays(c, s) => row' \in [Container -> Rows]
  BY <1>0 DEF RowSays
<1>s. {"none", "in use", "idle", "ended"} = Rows
  BY DEF Rows
<1>f. \A h \in Handlers : Finishes(h) => handler' \in [Handlers -> Handler]
  BY <1>0, LifeRecords DEF Finishes
<1>g. ASSUME NEW h \in Handlers, NEW at \in {"remove", "register", "rows", "pop"}, Goes(h, at)
      PROVE  handler' \in [Handlers -> Handler]
  BY <1>0, <1>g DEF Goes, Handler
<1>c. ASSUME NEW m
      PROVE  [h \in Handlers |-> [handler[h] EXCEPT !.mon = IF @ = m THEN 0 ELSE @]] \in [Handlers -> Handler]
  <2>1. ASSUME NEW g \in Handler PROVE [g EXCEPT !.mon = IF @ = m THEN 0 ELSE @] \in Handler
    BY <2>1, <1>0 DEF Handler
  <2> QED
    BY <2>1, <1>0
<1>m. ASSUME NEW m \in Monitors, MonitorEnds(m)
      PROVE  handler' \in [Handlers -> Handler] /\ monitor' \in [Monitors -> Monitor]
  BY <1>0, <1>m, <1>c, LifeRecords DEF MonitorEnds
<1>w. \A m : WithoutMonitor(state, m) \in [Container -> State]
  BY <1>0, WithoutOne
<1>l. (live = 0) \in BOOLEAN /\ \A a, b : (a \/ b) \in BOOLEAN
  OBVIOUS
<1>1. ASSUME ContainerExits \/ PageConnects PROVE Goal
  <2>1. ASSUME ContainerExits PROVE Goal
    <3> HIDE DEF Goal
    <3> QED
      BY <2>1, <1>0, <1>A DEF ContainerExits
  <2>2. ASSUME PageConnects PROVE Goal
    <3>1. state' \in [Container -> State]
      BY <2>2, <1>0 DEF PageConnects, State
    <3> HIDE DEF Goal
    <3> QED
      BY <2>2, <3>1, <1>0, <1>A DEF PageConnects
  <2> QED
    BY <1>1, <2>1, <2>2
<1>2. ASSUME NEW h \in Handlers, NEW by \in {"page", "headless"}, EnsureWorker(h, by) PROVE Goal
  <2> DEFINE w == registered
             s == IF w = 0 THEN NoState ELSE state[w]
  <2>1. s \in State
    BY <1>0, LifeRecords
  <2>2. \/ handler' = [handler EXCEPT ![h] = [NoHandler EXCEPT !.at = "remove", !.by = by]]
        \/ handler' = [handler EXCEPT ![h] =
             [at |-> "stale", by |-> by, obj |-> w, proc |-> s.proc, loop |-> FALSE, mon |-> 0]]
        \/ handler' = [handler EXCEPT ![h] =
             [at |-> "detached", by |-> by, obj |-> w, proc |-> s.proc, loop |-> s.loop, mon |-> s.mon]]
        \/ handler' = handler
    BY <1>2 DEF EnsureWorker
  <2>3. \/ state' = state \/ state' = [state EXCEPT ![w].loop = FALSE, ![w].mon = 0]
        \/ state' = [state EXCEPT ![w].loop = TRUE]
    BY <1>2 DEF EnsureWorker
  <2>4. handler' \in [Handlers -> Handler]
    <3>1. /\ [NoHandler EXCEPT !.at = "remove", !.by = by] \in Handler
          /\ [at |-> "stale", by |-> by, obj |-> w, proc |-> s.proc, loop |-> FALSE, mon |-> 0] \in Handler
          /\ [at |-> "detached", by |-> by, obj |-> w, proc |-> s.proc, loop |-> s.loop, mon |-> s.mon] \in Handler
      BY <2>1, <1>0, LifeRecords DEF State, Handler
    <3> QED
      BY <2>2, <3>1, <1>0
  <2>5. state' \in [Container -> State]
    <3>1. w # 0 \/ state' = state
      BY <1>2 DEF EnsureWorker
    <3>2. ASSUME w \in Container, state' = [state EXCEPT ![w].loop = FALSE, ![w].mon = 0] PROVE state' \in [Container -> State]
      <4> DEFINE new == [state[w] EXCEPT !.loop = FALSE, !.mon = 0]
      <4>1. new \in State
        BY <3>2, <1>0, ZenonT(60) DEF State
      <4>2. state' = [state EXCEPT ![w] = new]
        BY <3>2
      <4> HIDE DEF new
      <4> QED
        BY <4>1, <4>2, <1>0
    <3>3. ASSUME w \in Container, state' = [state EXCEPT ![w].loop = TRUE] PROVE state' \in [Container -> State]
      BY <3>3, <1>0 DEF State
    <3> QED
      BY <2>3, <3>1, <3>2, <3>3, <1>0
  <2>6. registered' \in Some /\ raced' \in BOOLEAN /\ UNCHANGED <<live, spawned, row, monitor, abandoned>>
    BY <1>2, <1>0 DEF EnsureWorker
  <2> HIDE DEF Goal
  <2> QED
    BY <2>4, <2>5, <2>6, <1>0, <1>A
<1>3. ASSUME NEW h \in Handlers, ClearStale(h) PROVE Goal
  <2> DEFINE w == handler[h].obj
             m == state[w].mon
             s == [state EXCEPT ![w].loop = FALSE]
  <2>1. s \in [Container -> State]
    BY <1>0 DEF State
  <2>2. state' = WithoutMonitor(s, m) /\ monitor' = [n \in Monitors |-> IF n = m THEN Ended ELSE monitor[n]]
    BY <1>3 DEF ClearStale
  <2>3. state' \in [Container -> State]
    BY <2>1, <2>2, WithoutOne
  <2>4. monitor' \in [Monitors -> Monitor]
    BY <2>2, <1>0, LifeRecords
  <2>5. Finishes(h) \/ Goes(h, "remove")
    BY <1>3 DEF ClearStale
  <2>6. handler' \in [Handlers -> Handler]
    BY <2>5, <1>f, <1>g
  <2>7. live' = 0 /\ RowSays(handler[h].proc, "ended") /\ UNCHANGED <<spawned, registered, abandoned, raced>>
    BY <1>3 DEF ClearStale
  <2>8. row' \in [Container -> Rows]
    BY <2>7, <1>r, <1>s
  <2> HIDE DEF Goal
  <2> QED
    BY <2>3, <2>4, <2>6, <2>7, <2>8, <1>0, <1>A
<1>4. ASSUME NEW h \in Handlers, CancelTasks(h) PROVE Goal
  <2>1. /\ monitor' = [n \in Monitors |-> IF n = handler[h].mon THEN Ended ELSE monitor[n]]
        /\ raced' \in BOOLEAN /\ UNCHANGED <<live, spawned, row, registered, state, abandoned>>
        /\ \/ handler' = [handler EXCEPT ![h] = [@ EXCEPT !.at = "attach", !.loop = FALSE, !.mon = 0]]
           \/ Finishes(h)
    BY <1>4, <1>0 DEF CancelTasks
  <2>2. [handler[h] EXCEPT !.at = "attach", !.loop = FALSE, !.mon = 0] \in Handler
    BY <1>0 DEF Handler
  <2>3. handler' \in [Handlers -> Handler]
    BY <2>1, <2>2, <1>0, <1>f
  <2>4. monitor' \in [Monitors -> Monitor]
    BY <2>1, <1>0, LifeRecords
  <2> HIDE DEF Goal
  <2> QED
    BY <2>1, <2>3, <2>4, <1>0, <1>A
<1>5. ASSUME NEW h \in Handlers, Attach(h) PROVE Goal
  <2>1. UNCHANGED <<live, spawned, row, registered, raced>>
    BY <1>5 DEF Attach
  <2>2. CASE registered = 0
    <3>1. Goes(h, "remove") /\ UNCHANGED <<state, monitor, abandoned>>
      BY <1>5, <2>2 DEF Attach
    <3>2. handler' \in [Handlers -> Handler]
      BY <3>1, <1>g
    <3> HIDE DEF Goal
    <3> QED
      BY <2>1, <3>1, <3>2, <1>0, <1>A
  <2>3. CASE registered # 0
    <3>1. PICK m \in FreeMonitors :
            /\ state' = [state EXCEPT ![registered].page = TRUE, ![registered].loop = TRUE, ![registered].mon = m]
            /\ abandoned' = (abandoned \/ state[registered].loop)
            /\ monitor' = [monitor EXCEPT ![m] = [at |-> "wait", obj |-> registered,
                                                  proc |-> state[registered].proc, new |-> 0]]
            /\ handler' = [handler EXCEPT ![h].at = "mark", ![h].obj = registered,
                                          ![h].proc = state[registered].proc]
      BY <1>5, <2>3 DEF Attach
    <3>2. m \in Monitors /\ registered \in Container /\ state[registered].proc \in Some /\ registered \in Some
      BY <1>0, <2>3 DEF FreeMonitors, State
    <3>3. state' \in [Container -> State]
      <4> DEFINE s == [state[registered] EXCEPT !.page = TRUE, !.loop = TRUE, !.mon = m]
      <4>1. s \in State
        <5>1. state[registered] \in State /\ m \in Monitors
          BY <3>2, <1>0
        <5> QED
          BY <5>1 DEF State
      <4>2. state' = [state EXCEPT ![registered] = s]
        BY <3>1
      <4> HIDE DEF s
      <4> QED
        BY <4>1, <4>2, <1>0
    <3>4. monitor' \in [Monitors -> Monitor]
      BY <3>1, <3>2, <1>0 DEF Monitor
    <3>5. handler' \in [Handlers -> Handler]
      <4> DEFINE s == [handler[h] EXCEPT !.at = "mark", !.obj = registered, !.proc = state[registered].proc]
      <4>1. s \in Handler
        BY <3>2, <1>0, ZenonT(60) DEF Handler
      <4>2. handler' = [handler EXCEPT ![h] = s]
        BY <3>1
      <4> HIDE DEF s
      <4> QED
        BY <4>1, <4>2, <1>0
    <3>6. abandoned' \in BOOLEAN
      BY <3>1, <3>2, <1>0
    <3> HIDE DEF Goal
    <3> QED
      BY <2>1, <3>3, <3>4, <3>5, <3>6, <1>0, <1>A
  <2> QED
    BY <2>2, <2>3
<1>6. ASSUME NEW h \in Handlers, MarkRunning(h) \/ MarkIdle(h) PROVE Goal
  <2>1. Finishes(h) /\ (\E c : RowSays(c, "in use") \/ RowSays(c, "idle"))
        /\ UNCHANGED <<live, spawned, registered, state, monitor, abandoned, raced>>
    BY <1>6 DEF MarkRunning, MarkIdle
  <2>2. row' \in [Container -> Rows]
    BY <2>1, <1>r, <1>s
  <2>3. handler' \in [Handlers -> Handler]
    BY <2>1, <1>f
  <2> HIDE DEF Goal
  <2> QED
    BY <2>1, <2>2, <2>3, <1>0, <1>A
<1>7. ASSUME NEW h \in Handlers, SpawnRemoves(h) PROVE Goal
  <2>1. /\ spawned' = spawned + 1 /\ live' = 0 /\ RowSays(spawned + 1, "in use") /\ spawned < MaxContainers
        /\ handler' = [handler EXCEPT ![h] = [NoHandler EXCEPT !.at = "run", !.by = handler[h].by, !.proc = spawned']]
        /\ UNCHANGED <<registered, state, monitor, abandoned, raced>>
    BY <1>7 DEF SpawnRemoves, Removes
  <2>2. spawned' \in Some
    <3>1. spawned \in 0..MaxContainers /\ MaxContainers \in Nat /\ spawned' = spawned + 1 /\ spawned < MaxContainers
      BY <2>1, <1>0 DEF Some
    <3> QED
      BY <3>1 DEF Some
  <2>3. [NoHandler EXCEPT !.at = "run", !.by = handler[h].by, !.proc = spawned'] \in Handler
    BY <2>2, <1>0, LifeRecords DEF Handler
  <2>4. handler' \in [Handlers -> Handler]
    BY <2>1, <2>3, <1>0
  <2>5. row' \in [Container -> Rows]
    BY <2>1, <1>r, <1>s
  <2> HIDE DEF Goal
  <2> QED
    BY <2>1, <2>2, <2>4, <2>5, <1>0, <1>A
<1>8. ASSUME NEW h \in Handlers, SpawnRaises(h) PROVE Goal
  <2>1. /\ Finishes(h) /\ raced' \in BOOLEAN
        /\ UNCHANGED <<live, spawned, row, registered, state, monitor, abandoned>>
    BY <1>8, <1>0 DEF SpawnRaises
  <2>2. handler' \in [Handlers -> Handler]
    BY <2>1, <1>f
  <2> HIDE DEF Goal
  <2> QED
    BY <2>1, <2>2, <1>0, <1>A
<1>9. ASSUME NEW h \in Handlers, SpawnRuns(h) PROVE Goal
  <2>1. /\ live' = (IF live = 0 THEN handler[h].proc ELSE live) /\ RowSays(handler[h].proc, "in use")
        /\ Goes(h, "register") /\ UNCHANGED <<spawned, registered, state, monitor, abandoned, raced>>
    BY <1>9 DEF SpawnRuns, Runs
  <2>2. live' \in Some
    BY <2>1, <1>0 DEF Handler
  <2>3. row' \in [Container -> Rows] /\ handler' \in [Handlers -> Handler]
    BY <2>1, <1>r, <1>s, <1>g
  <2> HIDE DEF Goal
  <2> QED
    BY <2>1, <2>2, <2>3, <1>0, <1>A
<1>10. ASSUME NEW h \in Handlers, Register(h) PROVE Goal
  <2> DEFINE c == handler[h].proc
  <2>1. PICK m \in FreeMonitors :
          /\ state' = [state EXCEPT ![c] = [proc |-> c, stop |-> FALSE, loop |-> TRUE, mon |-> m,
                                            page |-> handler[h].by = "page", crashes |-> 0]]
          /\ monitor' = [monitor EXCEPT ![m] = [at |-> "wait", obj |-> c, proc |-> c, new |-> 0]]
          /\ registered' = c
          /\ abandoned' = (abandoned \/ (registered # 0 /\ state[registered].loop))
          /\ Finishes(h) /\ UNCHANGED <<live, spawned, row, raced>>
    BY <1>10 DEF Register
  <2>2. m \in Monitors /\ c \in Some /\ (handler[h].by = "page") \in BOOLEAN
    BY <1>0 DEF FreeMonitors, Handler
  <2>3. abandoned' \in BOOLEAN
    BY <2>1, <1>0
  <2>4. handler' \in [Handlers -> Handler]
    BY <2>1, <1>f
  <2> HIDE DEF c
  <2>5. state' \in [Container -> State] /\ monitor' \in [Monitors -> Monitor] /\ registered' \in Some
    <3>1. [proc |-> c, stop |-> FALSE, loop |-> TRUE, mon |-> m,
           page |-> handler[h].by = "page", crashes |-> 0] \in State
      BY <2>2, <1>0 DEF State
    <3>2. [at |-> "wait", obj |-> c, proc |-> c, new |-> 0] \in Monitor
      BY <2>2, <1>0 DEF Monitor
    <3> QED
      BY <2>1, <2>2, <3>1, <3>2, <1>0
  <2> HIDE DEF Goal
  <2> QED
    BY <2>1, <2>3, <2>4, <2>5, <1>0, <1>A
<1>11. ASSUME NEW h \in Handlers, NEW pending \in BOOLEAN, PageLeaves(h, pending) PROVE Goal
  <2>1. /\ state' = [state EXCEPT ![registered].page = FALSE] /\ registered # 0
        /\ \/ handler' = handler
           \/ handler' = [handler EXCEPT ![h] = [NoHandler EXCEPT !.at = "idle", !.by = "leaver",
                                                                  !.proc = state[registered].proc]]
        /\ UNCHANGED <<live, spawned, row, registered, monitor, abandoned, raced>>
    BY <1>11 DEF PageLeaves
  <2>2. state[registered].proc \in Some
    BY <2>1, <1>0 DEF State
  <2>3. [NoHandler EXCEPT !.at = "idle", !.by = "leaver", !.proc = state[registered].proc] \in Handler
    BY <2>2, LifeRecords DEF Handler
  <2>4. state' \in [Container -> State]
    BY <2>1, <1>0, ZenonT(60) DEF State
  <2>5. handler' \in [Handlers -> Handler]
    BY <2>1, <2>3, <1>0
  <2> HIDE DEF Goal
  <2> QED
    BY <2>1, <2>4, <2>5, <1>0, <1>A
<1>12. ASSUME NEW h \in Handlers, NEW by \in {"kill", "reap"}, NEW c \in Container, Stop(h, by, c) PROVE Goal
  <2> DEFINE ours == IF registered = 0 THEN 0 ELSE state[registered].proc
             new == [NoHandler EXCEPT !.at = "await", !.by = by, !.proc = ours,
                                      !.obj = IF by = "reap" THEN c ELSE 0]
  <2>1. /\ state' = (IF registered = 0 THEN state ELSE [state EXCEPT ![registered].stop = TRUE])
        /\ handler' = [handler EXCEPT ![h] = new]
        /\ row' = (IF by = "reap" /\ registered # 0 THEN [row EXCEPT ![c] = "in use"] ELSE row)
        /\ UNCHANGED <<live, spawned, registered, monitor, abandoned, raced>>
    BY <1>12 DEF Stop
  <2>2. ours \in Some /\ c \in Some
    BY <1>0 DEF State, Container, Some
  <2>3. new \in Handler
    BY <2>2, <1>0, LifeRecords DEF Handler
  <2> HIDE DEF new
  <2>4. state' \in [Container -> State] /\ handler' \in [Handlers -> Handler] /\ row' \in [Container -> Rows]
    BY <2>1, <2>3, <1>0, <1>s, ZenonT(60) DEF State
  <2> HIDE DEF Goal
  <2> QED
    BY <2>1, <2>4, <1>0, <1>A
<1>13. ASSUME NEW h \in Handlers, StopAwaits(h) PROVE Goal
  <2>1. /\ live' \in {live, 0} /\ Goes(h, "rows")
        /\ UNCHANGED <<spawned, row, registered, state, monitor, abandoned, raced>>
    BY <1>13 DEF StopAwaits
  <2>2. handler' \in [Handlers -> Handler]
    BY <2>1, <1>g
  <2> HIDE DEF Goal
  <2> QED
    BY <2>1, <2>2, <1>0, <1>A
<1>14. ASSUME NEW h \in Handlers, StopRows(h) PROVE Goal
  <2>1. /\ Goes(h, "pop") /\ UNCHANGED <<live, spawned, registered, state, monitor, abandoned, raced>>
        /\ row' \in [Container -> Rows]
    BY <1>14, <1>0, <1>s DEF StopRows
  <2>2. handler' \in [Handlers -> Handler]
    BY <2>1, <1>g
  <2> HIDE DEF Goal
  <2> QED
    BY <2>1, <2>2, <1>0, <1>A
<1>15. ASSUME NEW h \in Handlers, StopPops(h) PROVE Goal
  <2>1. registered' = 0 /\ UNCHANGED <<live, spawned, row, monitor, abandoned>>
    BY <1>15 DEF StopPops
  <2>2. CASE registered = 0
    <3>1. Finishes(h) /\ UNCHANGED <<state, raced>>
      BY <1>15, <2>2 DEF StopPops
    <3>2. handler' \in [Handlers -> Handler]
      BY <3>1, <1>f
    <3> HIDE DEF Goal
    <3> QED
      BY <2>1, <3>1, <3>2, <1>0, <1>A
  <2>3. CASE registered # 0
    <3>1. /\ raced' = (raced \/ state[registered].proc # handler[h].proc)
          /\ handler' = [handler EXCEPT ![h].at = "cancel", ![h].loop = state[registered].loop,
                                        ![h].mon = state[registered].mon]
          /\ state' = [state EXCEPT ![registered].loop = FALSE, ![registered].mon = 0]
      BY <1>15, <2>3 DEF StopPops
    <3>2. state[registered] \in State
      BY <2>3, <1>0
    <3>3. handler' \in [Handlers -> Handler]
      <4> DEFINE s == [handler[h] EXCEPT !.at = "cancel", !.loop = state[registered].loop, !.mon = state[registered].mon]
      <4>1. s \in Handler
        <5>1. state[registered].loop \in BOOLEAN /\ state[registered].mon \in Monitors \cup {0} /\ handler[h] \in Handler
          BY <3>2, <1>0 DEF State
        <5> QED
          BY <5>1 DEF Handler
      <4>2. handler' = [handler EXCEPT ![h] = s]
        BY <3>1
      <4> HIDE DEF s
      <4> QED
        BY <4>1, <4>2, <1>0
    <3>4. state' \in [Container -> State]
      BY <3>1, <1>0, ZenonT(60) DEF State
    <3>5. raced' \in BOOLEAN
      BY <3>1, <1>0
    <3> HIDE DEF Goal
    <3> QED
      BY <2>1, <3>3, <3>4, <3>5, <1>0, <1>A
  <2> QED
    BY <2>2, <2>3
<1>16. ASSUME NEW h \in Handlers, CheckLiveness(h) PROVE Goal
  <2>1. /\ handler' = [handler EXCEPT ![h] = [NoHandler EXCEPT !.at = "stale", !.by = "check",
                                              !.obj = registered, !.proc = state[registered].proc]]
        /\ registered # 0 /\ registered' = 0
        /\ UNCHANGED <<live, spawned, row, state, monitor, abandoned, raced>>
    BY <1>16 DEF CheckLiveness
  <2>2. [NoHandler EXCEPT !.at = "stale", !.by = "check", !.obj = registered, !.proc = state[registered].proc] \in Handler
    BY <2>1, <1>0, LifeRecords DEF Handler, State
  <2>3. handler' \in [Handlers -> Handler]
    BY <2>1, <2>2, <1>0
  <2> HIDE DEF Goal
  <2> QED
    BY <2>1, <2>3, <1>0, <1>A
<1>17. ASSUME NEW m \in Monitors, MonitorWakes(m) PROVE Goal
  <2> DEFINE w == monitor[m].obj
  <2>1. UNCHANGED <<live, spawned, registered, abandoned, raced>>
    BY <1>17 DEF MonitorWakes
  <2>2. ASSUME row' = (IF registered = w THEN [row EXCEPT ![state[w].proc] = "ended"] ELSE row),
               state' = WithoutMonitor(state, m), MonitorEnds(m)
        PROVE Goal
    <3>1. row' \in [Container -> Rows]
      BY <2>2, <1>0, <1>s
    <3> HIDE DEF Goal
    <3> QED
      BY <2>1, <2>2, <3>1, <1>0, <1>A, <1>m, <1>w
  <2>3. ASSUME state' = [state EXCEPT ![w].loop = FALSE], monitor' = [monitor EXCEPT ![m].at = "crashed"],
               UNCHANGED <<row, handler>>
        PROVE Goal
    <3>1. state' \in [Container -> State]
      BY <2>3, <1>0, ZenonT(60) DEF State
    <3>2. monitor' \in [Monitors -> Monitor]
      BY <2>3, <1>0, ZenonT(60) DEF Monitor
    <3> HIDE DEF Goal
    <3> QED
      BY <2>1, <2>3, <3>1, <3>2, <1>0, <1>A
  <2> HIDE DEF Goal
  <2> QED
    BY <1>17, <2>2, <2>3 DEF MonitorWakes
<1>18. ASSUME NEW m \in Monitors, MonitorCleansUp(m) PROVE Goal
  <2>1. /\ live' = 0 /\ RowSays(state[monitor[m].obj].proc, "ended") /\ monitor' = [monitor EXCEPT ![m].at = "decide"]
        /\ UNCHANGED <<spawned, registered, state, handler, abandoned, raced>>
    BY <1>18 DEF MonitorCleansUp
  <2>2. row' \in [Container -> Rows]
    BY <2>1, <1>r, <1>s
  <2>3. monitor' \in [Monitors -> Monitor]
    BY <2>1, <1>0 DEF Monitor
  <2> HIDE DEF Goal
  <2> QED
    BY <2>1, <2>2, <2>3, <1>0, <1>A
<1>19. ASSUME NEW m \in Monitors, MonitorGivesUp(m) \/ RespawnRaises(m) PROVE Goal
  <2>1. /\ registered' \in {registered, 0} /\ state' = WithoutMonitor(state, m) /\ MonitorEnds(m)
        /\ raced' \in BOOLEAN /\ UNCHANGED <<live, spawned, row, abandoned>>
    BY <1>19, <1>0 DEF MonitorGivesUp, RespawnRaises
  <2> HIDE DEF Goal
  <2> QED
    BY <2>1, <1>0, <1>A, <1>m, <1>w
<1>20. ASSUME NEW m \in Monitors, MonitorRespawns(m) PROVE Goal
  <2> DEFINE w == monitor[m].obj
  <2>1. PICK crashes \in {1, state[w].crashes + 1} :
          /\ crashes < MaxCrashes
          /\ state' = LET counted == [state EXCEPT ![w].crashes = crashes]
                      IN IF registered = 0 THEN WithoutMonitor(counted, m) ELSE counted
    BY <1>20 DEF MonitorRespawns
  <2>2. /\ UNCHANGED <<live, spawned, row, registered, abandoned, raced>>
        /\ IF registered = 0 THEN MonitorEnds(m)
           ELSE /\ monitor' = [monitor EXCEPT ![m].at = "remove", ![m].obj = registered]
                /\ UNCHANGED handler
    BY <1>20 DEF MonitorRespawns
  <2>3. [state EXCEPT ![w].crashes = crashes] \in [Container -> State]
    <3>1. CASE w \in Container
      <4>1. crashes \in 0..MaxCrashes
        BY <2>1, <3>1, <1>0 DEF State
      <4> QED
        BY <4>1, <1>0 DEF State
    <3>2. CASE w \notin Container
      BY <3>2, <1>0
    <3> QED
      BY <3>1, <3>2
  <2>4. state' \in [Container -> State]
    BY <2>1, <2>3, WithoutOne
  <2>5. monitor' \in [Monitors -> Monitor] /\ handler' \in [Handlers -> Handler]
    <3>1. CASE registered = 0
      BY <2>2, <3>1, <1>m
    <3>2. CASE registered # 0
      BY <2>2, <3>2, <1>0 DEF Monitor
    <3> QED
      BY <3>1, <3>2
  <2> HIDE DEF Goal
  <2> QED
    BY <2>2, <2>4, <2>5, <1>0, <1>A
<1>21. ASSUME NEW m \in Monitors, RespawnRemoves(m) PROVE Goal
  <2>1. /\ spawned' = spawned + 1 /\ live' = 0 /\ RowSays(spawned + 1, "in use") /\ spawned < MaxContainers
        /\ monitor' = [monitor EXCEPT ![m].at = "run", ![m].new = spawned']
        /\ UNCHANGED <<registered, state, handler, abandoned, raced>>
    BY <1>21 DEF RespawnRemoves, Removes
  <2>2. spawned' \in Some
    <3>1. spawned \in 0..MaxContainers /\ MaxContainers \in Nat /\ spawned' = spawned + 1 /\ spawned < MaxContainers
      BY <2>1, <1>0 DEF Some
    <3> QED
      BY <3>1 DEF Some
  <2>3. monitor' \in [Monitors -> Monitor]
    BY <2>1, <2>2, <1>0 DEF Monitor
  <2>4. row' \in [Container -> Rows]
    BY <2>1, <1>r, <1>s
  <2> HIDE DEF Goal
  <2> QED
    BY <2>1, <2>2, <2>3, <2>4, <1>0, <1>A
<1>22. ASSUME NEW m \in Monitors, RespawnRuns(m) PROVE Goal
  <2>1. /\ live' = (IF live = 0 THEN monitor[m].new ELSE live) /\ RowSays(monitor[m].new, "in use")
        /\ monitor' = [monitor EXCEPT ![m].at = "assign"]
        /\ UNCHANGED <<spawned, registered, state, handler, abandoned, raced>>
    BY <1>22 DEF RespawnRuns, Runs
  <2>2. live' \in Some /\ monitor' \in [Monitors -> Monitor]
    BY <2>1, <1>0 DEF Monitor
  <2>3. row' \in [Container -> Rows]
    BY <2>1, <1>r, <1>s
  <2> HIDE DEF Goal
  <2> QED
    BY <2>1, <2>2, <2>3, <1>0, <1>A
<1>23. ASSUME NEW m \in Monitors, RespawnAssigns(m) PROVE Goal
  <2> DEFINE w == monitor[m].obj
             c == monitor[m].new
  <2>0. w \in Some /\ c \in Some
    BY <1>0 DEF Monitor
  <2>1. UNCHANGED <<spawned, row, registered, raced>>
    BY <1>23 DEF RespawnAssigns
  <2>2. CASE ~IsStillIts(m)
    <3>1. live' = 0 /\ state' = WithoutMonitor(state, m) /\ MonitorEnds(m) /\ UNCHANGED abandoned
      BY <1>23, <2>2 DEF RespawnAssigns
    <3> HIDE DEF Goal
    <3> QED
      BY <2>1, <3>1, <1>0, <1>A, <1>m, <1>w
  <2>3. CASE IsStillIts(m)
    <3>1. /\ state' = [WithoutMonitor(state, m) EXCEPT ![w].proc = c, ![w].loop = TRUE, ![w].mon = m]
          /\ monitor' = [monitor EXCEPT ![m] = [at |-> "wait", obj |-> w, proc |-> c, new |-> 0]]
          /\ handler' = [h \in Handlers |-> [handler[h] EXCEPT !.mon = IF @ = m THEN 0 ELSE @]]
          /\ abandoned' = (abandoned \/ state[w].loop)
          /\ UNCHANGED live
      BY <1>23, <2>3 DEF RespawnAssigns
    <3>2. WithoutMonitor(state, m) \in [Container -> State]
      BY <1>w
    <3> DEFINE s == WithoutMonitor(state, m)
    <3> HIDE DEF s
    <3>3. state' = [s EXCEPT ![w].proc = c, ![w].loop = TRUE, ![w].mon = m] /\ s \in [Container -> State]
      BY <3>1, <3>2 DEF s
    <3> HIDE DEF w, c
    <3>4. state' \in [Container -> State]
      BY <3>3, <2>0, ZenonT(60) DEF State
    <3>5. monitor' \in [Monitors -> Monitor]
      BY <3>1, <2>0, <1>0 DEF Monitor
    <3>6. handler' \in [Handlers -> Handler]
      BY <3>1, <1>c
    <3>7. abandoned' \in BOOLEAN
      BY <3>1, <1>0
    <3> HIDE DEF Goal
    <3> QED
      BY <2>1, <3>1, <3>4, <3>5, <3>6, <3>7, <1>0, <1>A
  <2> QED
    BY <2>2, <2>3
<1>24. ASSUME UNCHANGED lifeVars PROVE Goal
  <2>1. UNCHANGED <<live, spawned, row, registered, state, monitor, handler, abandoned, raced>>
    BY <1>24 DEF lifeVars
  <2> HIDE DEF Goal
  <2> QED
    BY <2>1, <1>0, <1>A
<1>25. \A h \in Handlers : HandlerStep(h) => Goal
  BY <1>3, <1>4, <1>5, <1>6, <1>7, <1>8, <1>9, <1>10, <1>13, <1>14, <1>15 DEF HandlerStep
<1>26. \A m \in Monitors : MonitorStep(m) => Goal
  BY <1>17, <1>18, <1>19, <1>20, <1>21, <1>22, <1>23 DEF MonitorStep
<1> HIDE DEF Goal
<1>27. Goal
  BY <1>1, <1>2, <1>11, <1>12, <1>16, <1>24, <1>25, <1>26 DEF LifeNext, Handlers
<1> QED
  BY <1>27 DEF Goal

------------------------------------------------------------------------------
(* The steps keep the order.                                               *)

LEMMA LifeShape ==
  ASSUME LifeTypeOK
  PROVE  /\ MaxContainers \in Nat /\ Some = 0..MaxContainers /\ Container = 1..MaxContainers
         /\ live \in Some /\ spawned \in Some /\ registered \in Some
         /\ 0 \notin Container /\ 0 \notin Monitors /\ \A c \in Some : c \in Nat /\ (c # 0 => c \in Container)
         /\ \A c \in Container : /\ state[c] \in State /\ state[c].proc \in Some
                                 /\ state[c].mon \in Monitors \cup {0}
         /\ \A h \in Handlers : /\ handler[h] \in Handler /\ handler[h].proc \in Some /\ handler[h].obj \in Some
                                /\ handler[h].mon \in Monitors \cup {0}
         /\ \A m \in Monitors : /\ monitor[m] \in Monitor /\ monitor[m].proc \in Some /\ monitor[m].obj \in Some
                                /\ monitor[m].new \in Some
<1>1. /\ MaxContainers \in Nat /\ 0 \notin Monitors /\ live \in Some /\ spawned \in Some /\ registered \in Some
      /\ state \in [Container -> State] /\ handler \in [Handlers -> Handler] /\ monitor \in [Monitors -> Monitor]
  BY LifecycleConstantsOK DEF LifecycleConstantsOK, LifeTypeOK
<1>2. \A c \in Container : state[c] \in State /\ state[c].proc \in Some /\ state[c].mon \in Monitors \cup {0}
  BY <1>1 DEF State
<1>3. \A h \in Handlers : /\ handler[h] \in Handler /\ handler[h].proc \in Some /\ handler[h].obj \in Some
                          /\ handler[h].mon \in Monitors \cup {0}
  BY <1>1 DEF Handler
<1>4. \A m \in Monitors : /\ monitor[m] \in Monitor /\ monitor[m].proc \in Some /\ monitor[m].obj \in Some
                          /\ monitor[m].new \in Some
  BY <1>1 DEF Monitor
<1> QED
  BY <1>1, <1>2, <1>3, <1>4 DEF Some, Container

LEMMA OrderlyShape ==
  ASSUME LifeTypeOK, Orderly
  PROVE  /\ registered # 0 => registered \in Container
         /\ \A g \in Handlers : handler[g].at \in {"stale", "detached", "attach"} => handler[g].obj \in Container
         /\ \A m \in Monitors : monitor[m].at # "off" => monitor[m].obj \in Container
  BY LifeShape DEF Orderly, RolesAreKept, MonitorsAreHeld, At, Watches

\* Requests begin, or end, that have no part in it.
LEMMA Asides ==
  ASSUME LifeTypeOK, Orderly, UNCHANGED <<live, spawned, registered, monitor, abandoned>>,
         \A c \in Container : /\ state'[c].proc = state[c].proc /\ state'[c].mon = state[c].mon
                              /\ state'[c].loop = state[c].loop /\ state'[c].stop = state[c].stop,
         \A g \in Handlers :
            \/ handler'[g] = handler[g]
            \/ /\ handler[g].at \in {"off", "mark", "idle", "remove", "run"}
               /\ handler'[g].at \in {"off", "idle"} /\ handler'[g].mon = 0
               /\ handler'[g].at = "idle" => handler'[g].by = "leaver"
               /\ handler'[g].proc <= spawned
  PROVE  Orderly'
<1>0. LifeTypeOK /\ Orderly
  OBVIOUS
<1>t. /\ registered # 0 => registered \in Container
      /\ \A g \in Handlers : handler[g].at \in {"stale", "detached", "attach"} => handler[g].obj \in Container
      /\ \A m \in Monitors : monitor[m].at # "off" => monitor[m].obj \in Container
  BY OrderlyShape
<1>f. /\ live' = live /\ spawned' = spawned /\ registered' = registered /\ monitor' = monitor /\ abandoned' = abandoned
      /\ \A c \in Container : /\ state'[c].proc = state[c].proc /\ state'[c].mon = state[c].mon
                              /\ state'[c].loop = state[c].loop /\ state'[c].stop = state[c].stop
      /\ \A g \in Handlers : \/ handler'[g] = handler[g]
                             \/ /\ handler[g].at \in {"off", "mark", "idle", "remove", "run"} /\ handler[g].mon = 0
                                /\ handler'[g].at \in {"off", "idle"} /\ handler'[g].mon = 0
                                /\ handler'[g].at = "idle" => handler'[g].by = "leaver"
                                /\ handler'[g].proc <= spawned
  BY <1>0 DEF Orderly, RolesAreKept, At
<1>1. RolesAreKept'
  BY <1>0, <1>t, <1>f DEF Orderly, RolesAreKept, At, Ensures, Detaching, Stopping, Replaces, Watches, Down, Ensurers, Stoppers
<1>2. NumbersAreBounded'
  BY <1>0, <1>t, <1>f DEF Orderly, NumbersAreBounded, RolesAreKept, At, Ensures, Detaching, Stopping, Replaces, Watches, Down, Ensurers, Stoppers
<1>3. NewIsUnknown'
  BY <1>0, <1>t, <1>f DEF Orderly, NewIsUnknown, RolesAreKept, At, Ensures, Detaching, Stopping, Replaces, Watches, Down, Ensurers, Stoppers
<1>4. OneAtWork'
  BY <1>0, <1>t, <1>f DEF Orderly, OneAtWork, RolesAreKept, At, Ensures, Detaching, Stopping, Replaces, Watches, Down, Ensurers, Stoppers
<1>5. MonitorsAreHeld'
  BY <1>0, <1>t, <1>f DEF Orderly, MonitorsAreHeld, RolesAreKept, At, Ensures, Detaching, Stopping, Replaces, Watches, Down, Ensurers, Stoppers
<1>6. WorkersKnowTheirs'
  BY <1>0, <1>t, <1>f DEF Orderly, WorkersKnowTheirs, RolesAreKept, At, Ensures, Detaching, Stopping, Replaces, Watches, Down, Ensurers, Stoppers
<1>7. RequestsKnowTheirs'
  BY <1>0, <1>t, <1>f DEF Orderly, RequestsKnowTheirs, RolesAreKept, At, Ensures, Detaching, Stopping, Replaces, Watches, Down, Ensurers, Stoppers
<1>8. DetachedIsBare'
  BY <1>0, <1>t, <1>f DEF Orderly, DetachedIsBare, RolesAreKept, At, Ensures, Detaching, Stopping, Replaces, Watches, Down, Ensurers, Stoppers
<1>9. NobodyIsRegistered'
  BY <1>0, <1>t, <1>f DEF Orderly, NobodyIsRegistered, RolesAreKept, At, Ensures, Detaching, Stopping, Replaces, Watches, Down, Ensurers, Stoppers
<1>10. DownIsDown'
  BY <1>0, <1>t, <1>f DEF Orderly, DownIsDown, RolesAreKept, At, Ensures, Detaching, Stopping, Replaces, Watches, Down, Ensurers, Stoppers
<1>11. StoppedIsDead'
  BY <1>0, <1>t, <1>f DEF Orderly, StoppedIsDead, RolesAreKept, At, Ensures, Detaching, Stopping, Replaces, Watches, Down, Ensurers, Stoppers
<1>12. LiveIsKnown'
  BY <1>0, <1>t, <1>f DEF Orderly, LiveIsKnown, RolesAreKept, At, Ensures, Detaching, Stopping, Replaces, Watches, Down, Ensurers, Stoppers
<1>13. RegisteredIsServed'
  BY <1>0, <1>t, <1>f DEF Orderly, RegisteredIsServed, RolesAreKept, At, Ensures, Detaching, Stopping, Replaces, Watches, Down, Ensurers, Stoppers
<1> QED
  BY <1>0, <1>1, <1>2, <1>3, <1>4, <1>5, <1>6, <1>7, <1>8, <1>9, <1>10, <1>11, <1>12, <1>13, <1>f DEF Orderly


\* A container ends by itself.
LEMMA Exits ==
  ASSUME LifeTypeOK, Orderly, ContainerExits
  PROVE  Orderly'
<1>0. LifeTypeOK /\ Orderly
  OBVIOUS
<1>t. /\ registered # 0 => registered \in Container
      /\ \A g \in Handlers : handler[g].at \in {"stale", "detached", "attach"} => handler[g].obj \in Container
      /\ \A m \in Monitors : monitor[m].at # "off" => monitor[m].obj \in Container
  BY OrderlyShape
<1>f. live' = 0 /\ spawned' = spawned /\ registered' = registered /\ monitor' = monitor /\ handler' = handler
      /\ state' = state /\ abandoned' = abandoned
  BY DEF ContainerExits
<1>n. spawned \in Nat
  BY LifeShape
<1>1. RolesAreKept'
  BY <1>0, <1>t, <1>f, <1>n DEF Orderly, RolesAreKept, At, Ensures, Detaching, Stopping, Replaces, Watches, Down, Ensurers, Stoppers
<1>2. NumbersAreBounded'
  BY <1>0, <1>t, <1>f, <1>n DEF Orderly, NumbersAreBounded, RolesAreKept, At, Ensures, Detaching, Stopping, Replaces, Watches, Down, Ensurers, Stoppers
<1>3. NewIsUnknown'
  BY <1>0, <1>t, <1>f, <1>n DEF Orderly, NewIsUnknown, RolesAreKept, At, Ensures, Detaching, Stopping, Replaces, Watches, Down, Ensurers, Stoppers
<1>4. OneAtWork'
  BY <1>0, <1>t, <1>f, <1>n DEF Orderly, OneAtWork, RolesAreKept, At, Ensures, Detaching, Stopping, Replaces, Watches, Down, Ensurers, Stoppers
<1>5. MonitorsAreHeld'
  BY <1>0, <1>t, <1>f, <1>n DEF Orderly, MonitorsAreHeld, RolesAreKept, At, Ensures, Detaching, Stopping, Replaces, Watches, Down, Ensurers, Stoppers
<1>6. WorkersKnowTheirs'
  BY <1>0, <1>t, <1>f, <1>n DEF Orderly, WorkersKnowTheirs, RolesAreKept, At, Ensures, Detaching, Stopping, Replaces, Watches, Down, Ensurers, Stoppers
<1>7. RequestsKnowTheirs'
  BY <1>0, <1>t, <1>f, <1>n DEF Orderly, RequestsKnowTheirs, RolesAreKept, At, Ensures, Detaching, Stopping, Replaces, Watches, Down, Ensurers, Stoppers
<1>8. DetachedIsBare'
  BY <1>0, <1>t, <1>f, <1>n DEF Orderly, DetachedIsBare, RolesAreKept, At, Ensures, Detaching, Stopping, Replaces, Watches, Down, Ensurers, Stoppers
<1>9. NobodyIsRegistered'
  BY <1>0, <1>t, <1>f, <1>n DEF Orderly, NobodyIsRegistered, RolesAreKept, At, Ensures, Detaching, Stopping, Replaces, Watches, Down, Ensurers, Stoppers
<1>10. DownIsDown'
  BY <1>0, <1>t, <1>f, <1>n DEF Orderly, DownIsDown, RolesAreKept, At, Ensures, Detaching, Stopping, Replaces, Watches, Down, Ensurers, Stoppers
<1>11. StoppedIsDead'
  BY <1>0, <1>t, <1>f, <1>n DEF Orderly, StoppedIsDead, RolesAreKept, At, Ensures, Detaching, Stopping, Replaces, Watches, Down, Ensurers, Stoppers
<1>12. LiveIsKnown'
  BY <1>0, <1>t, <1>f, <1>n DEF Orderly, LiveIsKnown, RolesAreKept, At, Ensures, Detaching, Stopping, Replaces, Watches, Down, Ensurers, Stoppers
<1>13. RegisteredIsServed'
  BY <1>0, <1>t, <1>f, <1>n DEF Orderly, RegisteredIsServed, RolesAreKept, At, Ensures, Detaching, Stopping, Replaces, Watches, Down, Ensurers, Stoppers
<1> QED
  BY <1>0, <1>1, <1>2, <1>3, <1>4, <1>5, <1>6, <1>7, <1>8, <1>9, <1>10, <1>11, <1>12, <1>13, <1>f DEF Orderly


\* A message finds no worker.
LEMMA EnsuresAnew ==
  ASSUME LifeTypeOK, Orderly, NEW h \in Handlers, NEW by \in {"page", "headless"}, EnsureWorker(h, by), ~raced',
         registered = 0
  PROVE  Orderly'
<1>0. LifeTypeOK /\ Orderly
  OBVIOUS
<1>t. /\ registered # 0 => registered \in Container
      /\ \A g \in Handlers : handler[g].at \in {"stale", "detached", "attach"} => handler[g].obj \in Container
      /\ \A m \in Monitors : monitor[m].at # "off" => monitor[m].obj \in Container
  BY OrderlyShape
<1>xh. handler \in [Handlers -> Handler] /\ state \in [Container -> State] /\ monitor \in [Monitors -> Monitor]
  BY DEF LifeTypeOK
<1>xe. handler' = [handler EXCEPT ![h] = [NoHandler EXCEPT !.at = "remove", !.by = by]] /\ state' = state
  BY <1>xh DEF EnsureWorker
<1>f. /\ handler[h].at = "off" /\ by \in {"page", "headless"} /\ registered = 0
      /\ handler'[h].at = "remove" /\ handler'[h].by = by /\ handler'[h].obj = 0
      /\ handler'[h].proc = 0 /\ handler'[h].mon = 0 /\ \A g \in Handlers : g # h => handler'[g] = handler[g]
      /\ state' = state
      /\ live' = live /\ spawned' = spawned /\ registered' = registered /\ monitor' = monitor /\ abandoned' = abandoned
  BY <1>xh, <1>xe DEF EnsureWorker, At, NoHandler
<1>o. \A g \in Handlers : handler[g].at = "off" \/ handler[g].by \notin {"page", "headless"}
  BY <1>0 DEF EnsureWorker, At
<1>n. /\ spawned \in Nat /\ live \in Nat /\ registered \in Nat /\ 0 \notin Monitors /\ 0 \notin Container
      /\ \A c \in Container : state[c].mon \in Monitors \cup {0}
      /\ \A g \in Handlers : handler[g].mon \in Monitors \cup {0}
  BY LifeShape
<1>1. RolesAreKept'
  BY <1>0, <1>t, <1>f, <1>o, <1>n DEF Orderly, RolesAreKept, At, Ensures, Detaching, Stopping, Replaces, Watches, Down, Ensurers, Stoppers
<1>2. NumbersAreBounded'
  BY <1>0, <1>t, <1>f, <1>o, <1>n DEF Orderly, NumbersAreBounded, RolesAreKept, At, Ensures, Detaching, Stopping, Replaces, Watches, Down, Ensurers, Stoppers
<1>3. NewIsUnknown'
  BY <1>0, <1>t, <1>f, <1>o, <1>n DEF Orderly, NewIsUnknown, RolesAreKept, At, Ensures, Detaching, Stopping, Replaces, Watches, Down, Ensurers, Stoppers
<1>4. OneAtWork'
  BY <1>0, <1>t, <1>f, <1>o, <1>n DEF Orderly, OneAtWork, RolesAreKept, At, Ensures, Detaching, Stopping, Replaces, Watches, Down, Ensurers, Stoppers
<1>5. MonitorsAreHeld'
  BY <1>0, <1>t, <1>f, <1>o, <1>n DEF Orderly, MonitorsAreHeld, RolesAreKept, At, Ensures, Detaching, Stopping, Replaces, Watches, Down, Ensurers, Stoppers
<1>6. WorkersKnowTheirs'
  BY <1>0, <1>t, <1>f, <1>o, <1>n DEF Orderly, WorkersKnowTheirs, RolesAreKept, At, Ensures, Detaching, Stopping, Replaces, Watches, Down, Ensurers, Stoppers
<1>7. RequestsKnowTheirs'
  BY <1>0, <1>t, <1>f, <1>o, <1>n DEF Orderly, RequestsKnowTheirs, RolesAreKept, At, Ensures, Detaching, Stopping, Replaces, Watches, Down, Ensurers, Stoppers
<1>8. DetachedIsBare'
  BY <1>0, <1>t, <1>f, <1>o, <1>n DEF Orderly, DetachedIsBare, RolesAreKept, At, Ensures, Detaching, Stopping, Replaces, Watches, Down, Ensurers, Stoppers
<1>9. NobodyIsRegistered'
  BY <1>0, <1>t, <1>f, <1>o, <1>n DEF Orderly, NobodyIsRegistered, RolesAreKept, At, Ensures, Detaching, Stopping, Replaces, Watches, Down, Ensurers, Stoppers
<1>10. DownIsDown'
  BY <1>0, <1>t, <1>f, <1>o, <1>n DEF Orderly, DownIsDown, RolesAreKept, At, Ensures, Detaching, Stopping, Replaces, Watches, Down, Ensurers, Stoppers
<1>11. StoppedIsDead'
  BY <1>0, <1>t, <1>f, <1>o, <1>n DEF Orderly, StoppedIsDead, RolesAreKept, At, Ensures, Detaching, Stopping, Replaces, Watches, Down, Ensurers, Stoppers
<1>12. LiveIsKnown'
  BY <1>0, <1>t, <1>f, <1>o, <1>n DEF Orderly, LiveIsKnown, RolesAreKept, At, Ensures, Detaching, Stopping, Replaces, Watches, Down, Ensurers, Stoppers
<1>13. RegisteredIsServed'
  BY <1>0, <1>t, <1>f, <1>o, <1>n DEF Orderly, RegisteredIsServed, RolesAreKept, At, Ensures, Detaching, Stopping, Replaces, Watches, Down, Ensurers, Stoppers
<1> QED
  BY <1>0, <1>1, <1>2, <1>3, <1>4, <1>5, <1>6, <1>7, <1>8, <1>9, <1>10, <1>11, <1>12, <1>13, <1>f DEF Orderly


\* A message takes a stale worker out of the registry.
LEMMA EnsuresForStale ==
  ASSUME LifeTypeOK, Orderly, NEW h \in Handlers, NEW by \in {"page", "headless"}, EnsureWorker(h, by), ~raced',
         registered # 0, Exited(state[registered].proc)
  PROVE  Orderly'
<1>0. LifeTypeOK /\ Orderly
  OBVIOUS
<1>t. /\ registered # 0 => registered \in Container
      /\ \A g \in Handlers : handler[g].at \in {"stale", "detached", "attach"} => handler[g].obj \in Container
      /\ \A m \in Monitors : monitor[m].at # "off" => monitor[m].obj \in Container
  BY OrderlyShape
<1>xh. handler \in [Handlers -> Handler] /\ state \in [Container -> State] /\ monitor \in [Monitors -> Monitor]
  BY DEF LifeTypeOK
<1>f. /\ handler[h].at = "off" /\ by \in {"page", "headless"} /\ registered # 0 /\ state[registered].proc # live
      /\ handler'[h].at = "stale" /\ handler'[h].by = by /\ handler'[h].obj = registered
      /\ handler'[h].proc = state[registered].proc /\ handler'[h].mon = 0 /\ \A g \in Handlers : g # h => handler'[g] = handler[g]
      /\ registered' = 0 /\ state' = state
      /\ live' = live /\ spawned' = spawned /\ monitor' = monitor /\ abandoned' = abandoned
  BY <1>xh DEF EnsureWorker, At, Handler, Exited
<1>o. \A g \in Handlers : handler[g].at = "off" \/ handler[g].by \notin {"page", "headless"}
  BY <1>0 DEF EnsureWorker, At
<1>n. /\ spawned \in Nat /\ live \in Nat /\ registered \in Nat /\ 0 \notin Monitors /\ 0 \notin Container
      /\ \A c \in Container : state[c].mon \in Monitors \cup {0}
      /\ \A g \in Handlers : handler[g].mon \in Monitors \cup {0}
  BY LifeShape
<1>1. RolesAreKept'
  BY <1>0, <1>t, <1>f, <1>o, <1>n DEF Orderly, RolesAreKept, At, Ensures, Detaching, Stopping, Replaces, Watches, Down, Ensurers, Stoppers
<1>2. NumbersAreBounded'
  BY <1>0, <1>t, <1>f, <1>o, <1>n DEF Orderly, NumbersAreBounded, RolesAreKept, At, Ensures, Detaching, Stopping, Replaces, Watches, Down, Ensurers, Stoppers
<1>3. NewIsUnknown'
  BY <1>0, <1>t, <1>f, <1>o, <1>n DEF Orderly, NewIsUnknown, RolesAreKept, At, Ensures, Detaching, Stopping, Replaces, Watches, Down, Ensurers, Stoppers
<1>4. OneAtWork'
  BY <1>0, <1>t, <1>f, <1>o, <1>n DEF Orderly, OneAtWork, RolesAreKept, At, Ensures, Detaching, Stopping, Replaces, Watches, Down, Ensurers, Stoppers
<1>5. MonitorsAreHeld'
  BY <1>0, <1>t, <1>f, <1>o, <1>n DEF Orderly, MonitorsAreHeld, RolesAreKept, At, Ensures, Detaching, Stopping, Replaces, Watches, Down, Ensurers, Stoppers
<1>6. WorkersKnowTheirs'
  BY <1>0, <1>t, <1>f, <1>o, <1>n DEF Orderly, WorkersKnowTheirs, RolesAreKept, At, Ensures, Detaching, Stopping, Replaces, Watches, Down, Ensurers, Stoppers
<1>7. RequestsKnowTheirs'
  BY <1>0, <1>t, <1>f, <1>o, <1>n DEF Orderly, RequestsKnowTheirs, RolesAreKept, At, Ensures, Detaching, Stopping, Replaces, Watches, Down, Ensurers, Stoppers
<1>8. DetachedIsBare'
  BY <1>0, <1>t, <1>f, <1>o, <1>n DEF Orderly, DetachedIsBare, RolesAreKept, At, Ensures, Detaching, Stopping, Replaces, Watches, Down, Ensurers, Stoppers
<1>9. NobodyIsRegistered'
  BY <1>0, <1>t, <1>f, <1>o, <1>n DEF Orderly, NobodyIsRegistered, RolesAreKept, At, Ensures, Detaching, Stopping, Replaces, Watches, Down, Ensurers, Stoppers
<1>10. DownIsDown'
  BY <1>0, <1>t, <1>f, <1>o, <1>n DEF Orderly, DownIsDown, RolesAreKept, At, Ensures, Detaching, Stopping, Replaces, Watches, Down, Ensurers, Stoppers
<1>11. StoppedIsDead'
  BY <1>0, <1>t, <1>f, <1>o, <1>n DEF Orderly, StoppedIsDead, RolesAreKept, At, Ensures, Detaching, Stopping, Replaces, Watches, Down, Ensurers, Stoppers
<1>12. LiveIsKnown'
  BY <1>0, <1>t, <1>f, <1>o, <1>n DEF Orderly, LiveIsKnown, RolesAreKept, At, Ensures, Detaching, Stopping, Replaces, Watches, Down, Ensurers, Stoppers
<1>13. RegisteredIsServed'
  BY <1>0, <1>t, <1>f, <1>o, <1>n DEF Orderly, RegisteredIsServed, RolesAreKept, At, Ensures, Detaching, Stopping, Replaces, Watches, Down, Ensurers, Stoppers
<1> QED
  BY <1>0, <1>1, <1>2, <1>3, <1>4, <1>5, <1>6, <1>7, <1>8, <1>9, <1>10, <1>11, <1>12, <1>13, <1>f DEF Orderly


\* A message of a page takes the tasks of a live worker.
LEMMA EnsuresByDetaching ==
  ASSUME LifeTypeOK, Orderly, NEW h \in Handlers, NEW by \in {"page", "headless"}, EnsureWorker(h, by), ~raced',
         registered # 0, ~Exited(state[registered].proc), by = "page"
  PROVE  Orderly'
<1>0. LifeTypeOK /\ Orderly
  OBVIOUS
<1>t. /\ registered # 0 => registered \in Container
      /\ \A g \in Handlers : handler[g].at \in {"stale", "detached", "attach"} => handler[g].obj \in Container
      /\ \A m \in Monitors : monitor[m].at # "off" => monitor[m].obj \in Container
  BY OrderlyShape
<1>xh. handler \in [Handlers -> Handler] /\ state \in [Container -> State] /\ monitor \in [Monitors -> Monitor]
  BY DEF LifeTypeOK
<1>xe. /\ handler' = [handler EXCEPT ![h] = [at |-> "detached", by |-> by, obj |-> registered, proc |-> state[registered].proc, loop |-> state[registered].loop, mon |-> state[registered].mon]]
       /\ state' = [state EXCEPT ![registered].loop = FALSE, ![registered].mon = 0]
  BY <1>xh DEF EnsureWorker
<1>xn. [state[registered] EXCEPT !.loop = FALSE, !.mon = 0].proc = state[registered].proc /\ [state[registered] EXCEPT !.loop = FALSE, !.mon = 0].stop = state[registered].stop /\ [state[registered] EXCEPT !.loop = FALSE, !.mon = 0].loop = FALSE /\ [state[registered] EXCEPT !.loop = FALSE, !.mon = 0].mon = 0
  BY <1>xh, <1>t DEF State
<1>xs. state' = [state EXCEPT ![registered] = [state[registered] EXCEPT !.loop = FALSE, !.mon = 0]]
  BY <1>xe
<1>f. /\ handler[h].at = "off" /\ by = "page" /\ registered # 0 /\ state[registered].proc = live
      /\ handler'[h].at = "detached" /\ handler'[h].by = by /\ handler'[h].obj = registered
      /\ handler'[h].proc = live /\ handler'[h].mon = state[registered].mon /\ \A g \in Handlers : g # h => handler'[g] = handler[g]
      /\ \A c \in Container : /\ state'[c].proc = state[c].proc /\ state'[c].stop = state[c].stop
                              /\ c = registered => state'[c].mon = 0 /\ ~state'[c].loop
                              /\ c # registered => state'[c].mon = state[c].mon /\ state'[c].loop = state[c].loop
      /\ live' = live /\ spawned' = spawned /\ registered' = registered /\ monitor' = monitor /\ abandoned' = abandoned
  BY <1>xh, <1>xe, <1>xn, <1>xs, <1>t DEF EnsureWorker, At, Exited
<1>o. \A g \in Handlers : handler[g].at = "off" \/ handler[g].by \notin {"page", "headless"}
  BY <1>0 DEF EnsureWorker, At
<1>n. /\ spawned \in Nat /\ live \in Nat /\ registered \in Nat /\ 0 \notin Monitors /\ 0 \notin Container
      /\ \A c \in Container : state[c].mon \in Monitors \cup {0}
      /\ \A g \in Handlers : handler[g].mon \in Monitors \cup {0}
  BY LifeShape
<1>k. \A m \in Monitors : monitor[m].at # "off" => state[registered].mon = m /\ monitor[m].obj = registered /\ monitor[m].at = "wait"
  BY <1>0, <1>t, <1>f, <1>o, <1>n DEF Orderly, RolesAreKept, NumbersAreBounded, MonitorsAreHeld, NobodyIsRegistered, RequestsKnowTheirs, DownIsDown, Down, Watches, Replaces, At, Ensurers, Stoppers
<1>1. RolesAreKept'
  BY <1>0, <1>t, <1>f, <1>o, <1>n, <1>k DEF Orderly, RolesAreKept, At, Ensures, Detaching, Stopping, Replaces, Watches, Down, Ensurers, Stoppers
<1>2. NumbersAreBounded'
  BY <1>0, <1>t, <1>f, <1>o, <1>n, <1>k DEF Orderly, NumbersAreBounded, RolesAreKept, At, Ensures, Detaching, Stopping, Replaces, Watches, Down, Ensurers, Stoppers
<1>3. NewIsUnknown'
  BY <1>0, <1>t, <1>f, <1>o, <1>n, <1>k DEF Orderly, NewIsUnknown, RolesAreKept, At, Ensures, Detaching, Stopping, Replaces, Watches, Down, Ensurers, Stoppers
<1>4. OneAtWork'
  BY <1>0, <1>t, <1>f, <1>o, <1>n, <1>k DEF Orderly, OneAtWork, RolesAreKept, At, Ensures, Detaching, Stopping, Replaces, Watches, Down, Ensurers, Stoppers
<1>5. MonitorsAreHeld'
  BY <1>0, <1>t, <1>f, <1>o, <1>n, <1>k DEF Orderly, MonitorsAreHeld, RolesAreKept, At, Ensures, Detaching, Stopping, Replaces, Watches, Down, Ensurers, Stoppers
<1>6. WorkersKnowTheirs'
  BY <1>0, <1>t, <1>f, <1>o, <1>n, <1>k DEF Orderly, WorkersKnowTheirs, RolesAreKept, At, Ensures, Detaching, Stopping, Replaces, Watches, Down, Ensurers, Stoppers
<1>7. RequestsKnowTheirs'
  BY <1>0, <1>t, <1>f, <1>o, <1>n, <1>k DEF Orderly, RequestsKnowTheirs, WorkersKnowTheirs, RolesAreKept, At, Ensures, Detaching, Stopping, Replaces, Watches, Down, Ensurers, Stoppers
<1>8. DetachedIsBare'
  BY <1>0, <1>t, <1>f, <1>o, <1>n, <1>k DEF Orderly, DetachedIsBare, RolesAreKept, At, Ensures, Detaching, Stopping, Replaces, Watches, Down, Ensurers, Stoppers
<1>9. NobodyIsRegistered'
  BY <1>0, <1>t, <1>f, <1>o, <1>n, <1>k DEF Orderly, NobodyIsRegistered, RolesAreKept, At, Ensures, Detaching, Stopping, Replaces, Watches, Down, Ensurers, Stoppers
<1>10. DownIsDown'
  BY <1>0, <1>t, <1>f, <1>o, <1>n, <1>k DEF Orderly, DownIsDown, RolesAreKept, At, Ensures, Detaching, Stopping, Replaces, Watches, Down, Ensurers, Stoppers
<1>11. StoppedIsDead'
  BY <1>0, <1>t, <1>f, <1>o, <1>n, <1>k DEF Orderly, StoppedIsDead, RolesAreKept, At, Ensures, Detaching, Stopping, Replaces, Watches, Down, Ensurers, Stoppers
<1>12. LiveIsKnown'
  BY <1>0, <1>t, <1>f, <1>o, <1>n, <1>k DEF Orderly, LiveIsKnown, RolesAreKept, At, Ensures, Detaching, Stopping, Replaces, Watches, Down, Ensurers, Stoppers
<1>13. RegisteredIsServed'
  BY <1>0, <1>t, <1>f, <1>o, <1>n, <1>k DEF Orderly, RegisteredIsServed, RolesAreKept, At, Ensures, Detaching, Stopping, Replaces, Watches, Down, Ensurers, Stoppers
<1> QED
  BY <1>0, <1>1, <1>2, <1>3, <1>4, <1>5, <1>6, <1>7, <1>8, <1>9, <1>10, <1>11, <1>12, <1>13, <1>f DEF Orderly


\* A headless message gives a live worker a polling loop.
LEMMA EnsuresALoop ==
  ASSUME LifeTypeOK, Orderly, NEW h \in Handlers, NEW by \in {"page", "headless"}, EnsureWorker(h, by), ~raced',
         registered # 0, ~Exited(state[registered].proc), by = "headless"
  PROVE  Orderly'
<1>0. LifeTypeOK /\ Orderly
  OBVIOUS
<1>t. /\ registered # 0 => registered \in Container
      /\ \A g \in Handlers : handler[g].at \in {"stale", "detached", "attach"} => handler[g].obj \in Container
      /\ \A m \in Monitors : monitor[m].at # "off" => monitor[m].obj \in Container
  BY OrderlyShape
<1>xh. handler \in [Handlers -> Handler] /\ state \in [Container -> State] /\ monitor \in [Monitors -> Monitor]
  BY DEF LifeTypeOK
<1>xe. handler' = handler /\ state' = [state EXCEPT ![registered].loop = TRUE]
  BY <1>xh DEF EnsureWorker
<1>f. /\ handler[h].at = "off" /\ registered # 0 /\ state[registered].proc = live /\ handler' = handler
      /\ \A c \in Container : /\ state'[c].proc = state[c].proc /\ state'[c].stop = state[c].stop
                              /\ state'[c].mon = state[c].mon
                              /\ c = registered => state'[c].loop
                              /\ c # registered => state'[c].loop = state[c].loop
      /\ live' = live /\ spawned' = spawned /\ registered' = registered /\ monitor' = monitor /\ abandoned' = abandoned
  BY <1>xh, <1>xe, <1>t, ZenonT(60) DEF EnsureWorker, At, State, Exited
<1>o. \A g \in Handlers : handler[g].at = "off" \/ handler[g].by \notin {"page", "headless"}
  BY <1>0 DEF EnsureWorker, At
<1>n. /\ spawned \in Nat /\ live \in Nat /\ registered \in Nat /\ 0 \notin Monitors /\ 0 \notin Container
      /\ \A c \in Container : state[c].mon \in Monitors \cup {0}
      /\ \A g \in Handlers : handler[g].mon \in Monitors \cup {0}
  BY LifeShape
<1>k. \A m \in Monitors : monitor[m].at # "off" => state[registered].mon = m /\ monitor[m].obj = registered /\ monitor[m].at = "wait"
  BY <1>0, <1>t, <1>f, <1>o, <1>n DEF Orderly, RolesAreKept, NumbersAreBounded, MonitorsAreHeld, NobodyIsRegistered, RequestsKnowTheirs, DownIsDown, Down, Watches, Replaces, At, Ensurers, Stoppers
<1>1. RolesAreKept'
  BY <1>0, <1>t, <1>f, <1>o, <1>n, <1>k DEF Orderly, RolesAreKept, At, Ensures, Detaching, Stopping, Replaces, Watches, Down, Ensurers, Stoppers
<1>2. NumbersAreBounded'
  BY <1>0, <1>t, <1>f, <1>o, <1>n, <1>k DEF Orderly, NumbersAreBounded, RolesAreKept, At, Ensures, Detaching, Stopping, Replaces, Watches, Down, Ensurers, Stoppers
<1>3. NewIsUnknown'
  BY <1>0, <1>t, <1>f, <1>o, <1>n, <1>k DEF Orderly, NewIsUnknown, RolesAreKept, At, Ensures, Detaching, Stopping, Replaces, Watches, Down, Ensurers, Stoppers
<1>4. OneAtWork'
  BY <1>0, <1>t, <1>f, <1>o, <1>n, <1>k DEF Orderly, OneAtWork, RolesAreKept, At, Ensures, Detaching, Stopping, Replaces, Watches, Down, Ensurers, Stoppers
<1>5. MonitorsAreHeld'
  BY <1>0, <1>t, <1>f, <1>o, <1>n, <1>k DEF Orderly, MonitorsAreHeld, RolesAreKept, At, Ensures, Detaching, Stopping, Replaces, Watches, Down, Ensurers, Stoppers
<1>6. WorkersKnowTheirs'
  BY <1>0, <1>t, <1>f, <1>o, <1>n, <1>k DEF Orderly, WorkersKnowTheirs, RolesAreKept, At, Ensures, Detaching, Stopping, Replaces, Watches, Down, Ensurers, Stoppers
<1>7. RequestsKnowTheirs'
  BY <1>0, <1>t, <1>f, <1>o, <1>n, <1>k DEF Orderly, RequestsKnowTheirs, RolesAreKept, At, Ensures, Detaching, Stopping, Replaces, Watches, Down, Ensurers, Stoppers
<1>8. DetachedIsBare'
  BY <1>0, <1>t, <1>f, <1>o, <1>n, <1>k DEF Orderly, DetachedIsBare, RolesAreKept, At, Ensures, Detaching, Stopping, Replaces, Watches, Down, Ensurers, Stoppers
<1>9. NobodyIsRegistered'
  BY <1>0, <1>t, <1>f, <1>o, <1>n, <1>k DEF Orderly, NobodyIsRegistered, RolesAreKept, At, Ensures, Detaching, Stopping, Replaces, Watches, Down, Ensurers, Stoppers
<1>10. DownIsDown'
  BY <1>0, <1>t, <1>f, <1>o, <1>n, <1>k DEF Orderly, DownIsDown, RolesAreKept, At, Ensures, Detaching, Stopping, Replaces, Watches, Down, Ensurers, Stoppers
<1>11. StoppedIsDead'
  BY <1>0, <1>t, <1>f, <1>o, <1>n, <1>k DEF Orderly, StoppedIsDead, RolesAreKept, At, Ensures, Detaching, Stopping, Replaces, Watches, Down, Ensurers, Stoppers
<1>12. LiveIsKnown'
  BY <1>0, <1>t, <1>f, <1>o, <1>n, <1>k DEF Orderly, LiveIsKnown, RolesAreKept, At, Ensures, Detaching, Stopping, Replaces, Watches, Down, Ensurers, Stoppers
<1>13. RegisteredIsServed'
  BY <1>0, <1>t, <1>f, <1>o, <1>n, <1>k DEF Orderly, RegisteredIsServed, RolesAreKept, At, Ensures, Detaching, Stopping, Replaces, Watches, Down, Ensurers, Stoppers
<1> QED
  BY <1>0, <1>1, <1>2, <1>3, <1>4, <1>5, <1>6, <1>7, <1>8, <1>9, <1>10, <1>11, <1>12, <1>13, <1>f DEF Orderly


\* A stale worker's tasks are cancelled and the container is killed.
LEMMA Clears ==
  ASSUME LifeTypeOK, Orderly, NEW h \in Handlers, ClearStale(h)
  PROVE  Orderly'
<1>0. LifeTypeOK /\ Orderly
  OBVIOUS
<1>t. /\ registered # 0 => registered \in Container
      /\ \A g \in Handlers : handler[g].at \in {"stale", "detached", "attach"} => handler[g].obj \in Container
      /\ \A m \in Monitors : monitor[m].at # "off" => monitor[m].obj \in Container
  BY OrderlyShape
<1>xh. handler \in [Handlers -> Handler] /\ state \in [Container -> State] /\ monitor \in [Monitors -> Monitor]
  BY DEF LifeTypeOK
<1>xs. [state EXCEPT ![handler[h].obj].loop = FALSE] \in [Container -> State]
      /\ handler[h].at = "stale" /\ handler[h].obj \in Container
  BY <1>xh, <1>t DEF State, ClearStale, At
<1> DEFINE s == [state EXCEPT ![handler[h].obj].loop = FALSE]
<1>xv. \A c \in Container : /\ s[c].proc = state[c].proc /\ s[c].stop = state[c].stop /\ s[c].mon = state[c].mon
                            /\ c = handler[h].obj => ~s[c].loop
                            /\ c # handler[h].obj => s[c].loop = state[c].loop
  BY <1>xh, <1>xs DEF State
<1>xu. state' = WithoutMonitor(s, state[handler[h].obj].mon) /\ s \in [Container -> State]
  BY <1>xs DEF ClearStale
<1> HIDE DEF s
<1>w. \A c \in Container : /\ state'[c].proc = state[c].proc /\ state'[c].stop = state[c].stop
                           /\ c = handler[h].obj => ~state'[c].loop
                           /\ c # handler[h].obj => state'[c].loop = state[c].loop
                           /\ state'[c].mon = IF state[c].mon = state[handler[h].obj].mon THEN 0 ELSE state[c].mon
  BY <1>xv, <1>xu, WithoutOne
<1>fr. /\ live' = 0 /\ spawned' = spawned /\ registered' = registered /\ abandoned' = abandoned
  BY DEF ClearStale
<1>xg. \/ handler[h].by = "check" /\ handler' = [handler EXCEPT ![h] = NoHandler]
       \/ handler[h].by # "check" /\ handler' = [handler EXCEPT ![h].at = "remove"]
  BY DEF ClearStale, Finishes, Goes
<1>f. handler[h].at = "stale" /\ handler[h].obj \in Container
  BY <1>xs
<1>m. \A n \in Monitors : IF n = state[handler[h].obj].mon THEN monitor'[n].at = "off" /\ monitor'[n].obj = 0 /\ monitor'[n].new = 0 ELSE monitor'[n] = monitor[n]
  BY <1>xs, LifeRecords DEF ClearStale
<1>h. /\ \A g \in Handlers : g # h => handler'[g] = handler[g]
      /\ \/ /\ handler[h].by = "check" /\ handler'[h].at = "off" /\ handler'[h].by = "page"
            /\ handler'[h].obj = 0 /\ handler'[h].proc = 0 /\ handler'[h].mon = 0
         \/ /\ handler[h].by # "check" /\ handler'[h].at = "remove" /\ handler'[h].by = handler[h].by
            /\ handler'[h].obj = handler[h].obj /\ handler'[h].proc = handler[h].proc /\ handler'[h].mon = handler[h].mon
  BY <1>xg, <1>xh, LifeRecords DEF Handler
<1>n. /\ spawned \in Nat /\ live \in Nat /\ registered \in Nat /\ 0 \notin Monitors /\ 0 \notin Container
      /\ \A c \in Container : state[c].mon \in Monitors \cup {0}
      /\ \A g \in Handlers : handler[g].mon \in Monitors \cup {0}
  BY LifeShape
<1>1. RolesAreKept'
  BY <1>0, <1>t, <1>w, <1>fr, <1>f, <1>m, <1>h, <1>n DEF Orderly, RolesAreKept, At, Ensures, Detaching, Stopping, Replaces, Watches, Down, Ensurers, Stoppers
<1>2. NumbersAreBounded'
  BY <1>0, <1>t, <1>w, <1>fr, <1>f, <1>m, <1>h, <1>n DEF Orderly, NumbersAreBounded, RolesAreKept, At, Ensures, Detaching, Stopping, Replaces, Watches, Down, Ensurers, Stoppers
<1>3. NewIsUnknown'
  BY <1>0, <1>t, <1>w, <1>fr, <1>f, <1>m, <1>h, <1>n DEF Orderly, NewIsUnknown, RolesAreKept, At, Ensures, Detaching, Stopping, Replaces, Watches, Down, Ensurers, Stoppers
<1>4. OneAtWork'
  BY <1>0, <1>t, <1>w, <1>fr, <1>f, <1>m, <1>h, <1>n DEF Orderly, OneAtWork, RolesAreKept, At, Ensures, Detaching, Stopping, Replaces, Watches, Down, Ensurers, Stoppers
<1>5. MonitorsAreHeld'
  BY <1>0, <1>t, <1>w, <1>fr, <1>f, <1>m, <1>h, <1>n DEF Orderly, MonitorsAreHeld, RolesAreKept, At, Ensures, Detaching, Stopping, Replaces, Watches, Down, Ensurers, Stoppers
<1>6. WorkersKnowTheirs'
  BY <1>0, <1>t, <1>w, <1>fr, <1>f, <1>m, <1>h, <1>n DEF Orderly, WorkersKnowTheirs, RequestsKnowTheirs, RolesAreKept, At, Ensures, Detaching, Stopping, Replaces, Watches, Down, Ensurers, Stoppers
<1>7. RequestsKnowTheirs'
  BY <1>0, <1>t, <1>w, <1>fr, <1>f, <1>m, <1>h, <1>n DEF Orderly, RequestsKnowTheirs, RolesAreKept, At, Ensures, Detaching, Stopping, Replaces, Watches, Down, Ensurers, Stoppers
<1>8. DetachedIsBare'
  BY <1>0, <1>t, <1>w, <1>fr, <1>f, <1>m, <1>h, <1>n DEF Orderly, DetachedIsBare, RolesAreKept, At, Ensures, Detaching, Stopping, Replaces, Watches, Down, Ensurers, Stoppers
<1>9. NobodyIsRegistered'
  BY <1>0, <1>t, <1>w, <1>fr, <1>f, <1>m, <1>h, <1>n DEF Orderly, NobodyIsRegistered, RolesAreKept, At, Ensures, Detaching, Stopping, Replaces, Watches, Down, Ensurers, Stoppers
<1>10. DownIsDown'
  BY <1>0, <1>t, <1>w, <1>fr, <1>f, <1>m, <1>h, <1>n DEF Orderly, DownIsDown, RolesAreKept, At, Ensures, Detaching, Stopping, Replaces, Watches, Down, Ensurers, Stoppers
<1>11. StoppedIsDead'
  BY <1>0, <1>t, <1>w, <1>fr, <1>f, <1>m, <1>h, <1>n DEF Orderly, StoppedIsDead, RolesAreKept, At, Ensures, Detaching, Stopping, Replaces, Watches, Down, Ensurers, Stoppers
<1>12. LiveIsKnown'
  BY <1>0, <1>t, <1>w, <1>fr, <1>f, <1>m, <1>h, <1>n DEF Orderly, LiveIsKnown, RequestsKnowTheirs, RolesAreKept, At, Ensures, Detaching, Stopping, Replaces, Watches, Down, Ensurers, Stoppers
<1>13. RegisteredIsServed'
  BY <1>0, <1>t, <1>w, <1>fr, <1>f, <1>m, <1>h, <1>n DEF Orderly, RegisteredIsServed, NobodyIsRegistered, RequestsKnowTheirs, RolesAreKept, At, Ensures, Detaching, Stopping, Replaces, Watches, Down, Ensurers, Stoppers
<1> QED
  BY <1>0, <1>1, <1>2, <1>3, <1>4, <1>5, <1>6, <1>7, <1>8, <1>9, <1>10, <1>11, <1>12, <1>13, <1>fr DEF Orderly


\* A page's request has cancelled what it has taken.
LEMMA Cancels ==
  ASSUME LifeTypeOK, Orderly, NEW h \in Handlers, CancelTasks(h), At(h, "detached")
  PROVE  Orderly'
<1>0. LifeTypeOK /\ Orderly
  OBVIOUS
<1>t. /\ registered # 0 => registered \in Container
      /\ \A g \in Handlers : handler[g].at \in {"stale", "detached", "attach"} => handler[g].obj \in Container
      /\ \A m \in Monitors : monitor[m].at # "off" => monitor[m].obj \in Container
  BY OrderlyShape
<1>xh. handler \in [Handlers -> Handler] /\ state \in [Container -> State] /\ monitor \in [Monitors -> Monitor]
  BY DEF LifeTypeOK
<1>xe. /\ handler' = [handler EXCEPT ![h] = [@ EXCEPT !.at = "attach", !.loop = FALSE, !.mon = 0]]
      /\ monitor' = [n \in Monitors |-> IF n = handler[h].mon THEN Ended ELSE monitor[n]]
  BY DEF CancelTasks
<1>f. /\ handler[h].at = "detached" /\ state' = state
      /\ handler'[h].at = "attach" /\ handler'[h].by = handler[h].by /\ handler'[h].obj = handler[h].obj
      /\ handler'[h].proc = handler[h].proc /\ handler'[h].mon = 0 /\ \A g \in Handlers : g # h => handler'[g] = handler[g]
      /\ \A n \in Monitors : /\ n # handler[h].mon => monitor'[n] = monitor[n]
                             /\ n = handler[h].mon => monitor'[n].at = "off" /\ monitor'[n].obj = 0 /\ monitor'[n].new = 0
      /\ live' = live /\ spawned' = spawned /\ registered' = registered /\ abandoned' = abandoned
  BY <1>xh, <1>xe, LifeRecords DEF CancelTasks, At, Handler
<1>n. /\ spawned \in Nat /\ live \in Nat /\ registered \in Nat /\ 0 \notin Monitors /\ 0 \notin Container
      /\ \A c \in Container : state[c].mon \in Monitors \cup {0}
      /\ \A g \in Handlers : handler[g].mon \in Monitors \cup {0}
  BY LifeShape
<1>1. RolesAreKept'
  BY <1>0, <1>t, <1>f, <1>n DEF Orderly, RolesAreKept, At, Ensures, Detaching, Stopping, Replaces, Watches, Down, Ensurers, Stoppers
<1>2. NumbersAreBounded'
  BY <1>0, <1>t, <1>f, <1>n DEF Orderly, NumbersAreBounded, RolesAreKept, At, Ensures, Detaching, Stopping, Replaces, Watches, Down, Ensurers, Stoppers
<1>3. NewIsUnknown'
  BY <1>0, <1>t, <1>f, <1>n DEF Orderly, NewIsUnknown, RolesAreKept, At, Ensures, Detaching, Stopping, Replaces, Watches, Down, Ensurers, Stoppers
<1>4. OneAtWork'
  BY <1>0, <1>t, <1>f, <1>n DEF Orderly, OneAtWork, RolesAreKept, At, Ensures, Detaching, Stopping, Replaces, Watches, Down, Ensurers, Stoppers
<1>5. MonitorsAreHeld'
  BY <1>0, <1>t, <1>f, <1>n DEF Orderly, MonitorsAreHeld, RolesAreKept, At, Ensures, Detaching, Stopping, Replaces, Watches, Down, Ensurers, Stoppers
<1>6. WorkersKnowTheirs'
  BY <1>0, <1>t, <1>f, <1>n DEF Orderly, WorkersKnowTheirs, RequestsKnowTheirs, RolesAreKept, At, Ensures, Detaching, Stopping, Replaces, Watches, Down, Ensurers, Stoppers
<1>7. RequestsKnowTheirs'
  BY <1>0, <1>t, <1>f, <1>n DEF Orderly, RequestsKnowTheirs, RolesAreKept, At, Ensures, Detaching, Stopping, Replaces, Watches, Down, Ensurers, Stoppers
<1>8. DetachedIsBare'
  BY <1>0, <1>t, <1>f, <1>n DEF Orderly, DetachedIsBare, RolesAreKept, At, Ensures, Detaching, Stopping, Replaces, Watches, Down, Ensurers, Stoppers
<1>9. NobodyIsRegistered'
  BY <1>0, <1>t, <1>f, <1>n DEF Orderly, NobodyIsRegistered, RolesAreKept, At, Ensures, Detaching, Stopping, Replaces, Watches, Down, Ensurers, Stoppers
<1>10. DownIsDown'
  BY <1>0, <1>t, <1>f, <1>n DEF Orderly, DownIsDown, RolesAreKept, At, Ensures, Detaching, Stopping, Replaces, Watches, Down, Ensurers, Stoppers
<1>11. StoppedIsDead'
  BY <1>0, <1>t, <1>f, <1>n DEF Orderly, StoppedIsDead, RolesAreKept, At, Ensures, Detaching, Stopping, Replaces, Watches, Down, Ensurers, Stoppers
<1>12. LiveIsKnown'
  BY <1>0, <1>t, <1>f, <1>n DEF Orderly, LiveIsKnown, RequestsKnowTheirs, RolesAreKept, At, Ensures, Detaching, Stopping, Replaces, Watches, Down, Ensurers, Stoppers
<1>13. RegisteredIsServed'
  BY <1>0, <1>t, <1>f, <1>n DEF Orderly, RegisteredIsServed, NobodyIsRegistered, RequestsKnowTheirs, RolesAreKept, At, Ensures, Detaching, Stopping, Replaces, Watches, Down, Ensurers, Stoppers
<1> QED
  BY <1>0, <1>1, <1>2, <1>3, <1>4, <1>5, <1>6, <1>7, <1>8, <1>9, <1>10, <1>11, <1>12, <1>13, <1>f DEF Orderly


\* A kill or a reap has cancelled what it has taken.
LEMMA CancelsLast ==
  ASSUME LifeTypeOK, Orderly, NEW h \in Handlers, CancelTasks(h), At(h, "cancel"), ~raced'
  PROVE  Orderly'
<1>0. LifeTypeOK /\ Orderly
  OBVIOUS
<1>t. /\ registered # 0 => registered \in Container
      /\ \A g \in Handlers : handler[g].at \in {"stale", "detached", "attach"} => handler[g].obj \in Container
      /\ \A m \in Monitors : monitor[m].at # "off" => monitor[m].obj \in Container
  BY OrderlyShape
<1>xh. handler \in [Handlers -> Handler] /\ state \in [Container -> State] /\ monitor \in [Monitors -> Monitor]
  BY DEF LifeTypeOK
<1>xe. /\ Finishes(h)
      /\ monitor' = [n \in Monitors |-> IF n = handler[h].mon THEN Ended ELSE monitor[n]]
  BY DEF CancelTasks, At
<1>xr. handler[h].mon # 0 => monitor[handler[h].mon].at # "assign"
  BY DEF CancelTasks, Respawning
<1>f. /\ handler[h].at = "cancel" /\ state' = state
      /\ handler'[h].at = "off" /\ handler'[h].by = "page" /\ handler'[h].obj = 0 /\ handler'[h].proc = 0 /\ handler'[h].mon = 0
      /\ \A g \in Handlers : g # h => handler'[g] = handler[g]
      /\ \A n \in Monitors : /\ n # handler[h].mon => monitor'[n] = monitor[n]
                             /\ n = handler[h].mon => monitor'[n].at = "off" /\ monitor'[n].obj = 0 /\ monitor'[n].new = 0
      /\ handler[h].mon # 0 => monitor[handler[h].mon].at # "assign"
      /\ live' = live /\ spawned' = spawned /\ registered' = registered /\ abandoned' = abandoned
  BY <1>xh, <1>xe, <1>xr, LifeRecords DEF CancelTasks, At, Finishes
<1>n. /\ spawned \in Nat /\ live \in Nat /\ registered \in Nat /\ 0 \notin Monitors /\ 0 \notin Container
      /\ \A c \in Container : state[c].mon \in Monitors \cup {0}
      /\ \A g \in Handlers : handler[g].mon \in Monitors \cup {0}
  BY LifeShape
<1>r. ASSUME NEW g \in Handlers, handler'[g].mon # 0
      PROVE  g # h /\ handler'[g] = handler[g] /\ handler[g].mon # handler[h].mon /\ handler[g].mon \in Monitors
  <2>1. g # h /\ handler'[g] = handler[g] /\ handler[g].mon # 0
    BY <1>r, <1>f
  <2>2. \A k \in Handlers : handler[k].mon = handler[g].mon => k = g
    BY <1>0, <2>1 DEF Orderly, RequestsKnowTheirs
  <2>3. handler[h].mon # handler[g].mon
    BY <2>1, <2>2
  <2>4. handler[g].mon \in Monitors
    BY <2>1, <1>n
  <2> QED
    BY <2>1, <2>3, <2>4
<1>rr. \A g \in Handlers : handler'[g].mon # 0 =>
         g # h /\ handler'[g] = handler[g] /\ handler[g].mon # handler[h].mon /\ handler[g].mon \in Monitors
  BY <1>r
<1>1. RolesAreKept'
  BY <1>0, <1>t, <1>f, <1>n, <1>rr DEF Orderly, RolesAreKept, At, Ensures, Detaching, Stopping, Replaces, Watches, Down, Ensurers, Stoppers
<1>2. NumbersAreBounded'
  BY <1>0, <1>t, <1>f, <1>n, <1>rr DEF Orderly, NumbersAreBounded, RolesAreKept, At, Ensures, Detaching, Stopping, Replaces, Watches, Down, Ensurers, Stoppers
<1>3. NewIsUnknown'
  BY <1>0, <1>t, <1>f, <1>n, <1>rr DEF Orderly, NewIsUnknown, RolesAreKept, At, Ensures, Detaching, Stopping, Replaces, Watches, Down, Ensurers, Stoppers
<1>4. OneAtWork'
  BY <1>0, <1>t, <1>f, <1>n, <1>rr DEF Orderly, OneAtWork, RolesAreKept, At, Ensures, Detaching, Stopping, Replaces, Watches, Down, Ensurers, Stoppers
<1>5. MonitorsAreHeld'
  BY <1>0, <1>t, <1>f, <1>n, <1>rr DEF Orderly, MonitorsAreHeld, RolesAreKept, At, Ensures, Detaching, Stopping, Replaces, Watches, Down, Ensurers, Stoppers
<1>6. WorkersKnowTheirs'
  BY <1>0, <1>t, <1>f, <1>n, <1>rr DEF Orderly, WorkersKnowTheirs, RequestsKnowTheirs, RolesAreKept, At, Ensures, Detaching, Stopping, Replaces, Watches, Down, Ensurers, Stoppers
<1>7. RequestsKnowTheirs'
  BY <1>0, <1>t, <1>f, <1>n, <1>rr DEF Orderly, RequestsKnowTheirs, RolesAreKept, At, Ensures, Detaching, Stopping, Replaces, Watches, Down, Ensurers, Stoppers
<1>8. DetachedIsBare'
  BY <1>0, <1>t, <1>f, <1>n, <1>rr DEF Orderly, DetachedIsBare, RolesAreKept, At, Ensures, Detaching, Stopping, Replaces, Watches, Down, Ensurers, Stoppers
<1>9. NobodyIsRegistered'
  BY <1>0, <1>t, <1>f, <1>n, <1>rr DEF Orderly, NobodyIsRegistered, RolesAreKept, At, Ensures, Detaching, Stopping, Replaces, Watches, Down, Ensurers, Stoppers
<1>10. DownIsDown'
  BY <1>0, <1>t, <1>f, <1>n, <1>rr DEF Orderly, DownIsDown, RolesAreKept, At, Ensures, Detaching, Stopping, Replaces, Watches, Down, Ensurers, Stoppers
<1>11. StoppedIsDead'
  BY <1>0, <1>t, <1>f, <1>n, <1>rr DEF Orderly, StoppedIsDead, RolesAreKept, At, Ensures, Detaching, Stopping, Replaces, Watches, Down, Ensurers, Stoppers
<1>12. LiveIsKnown'
  BY <1>0, <1>t, <1>f, <1>n, <1>rr DEF Orderly, LiveIsKnown, RequestsKnowTheirs, RolesAreKept, At, Ensures, Detaching, Stopping, Replaces, Watches, Down, Ensurers, Stoppers
<1>13. RegisteredIsServed'
  BY <1>0, <1>t, <1>f, <1>n, <1>rr DEF Orderly, RegisteredIsServed, NobodyIsRegistered, RequestsKnowTheirs, RolesAreKept, At, Ensures, Detaching, Stopping, Replaces, Watches, Down, Ensurers, Stoppers
<1> QED
  BY <1>0, <1>1, <1>2, <1>3, <1>4, <1>5, <1>6, <1>7, <1>8, <1>9, <1>10, <1>11, <1>12, <1>13, <1>f DEF Orderly


\* A page's request finds that the worker has gone.
LEMMA AttachesNone ==
  ASSUME LifeTypeOK, Orderly, NEW h \in Handlers, Attach(h), registered = 0
  PROVE  Orderly'
<1>0. LifeTypeOK /\ Orderly
  OBVIOUS
<1>t. /\ registered # 0 => registered \in Container
      /\ \A g \in Handlers : handler[g].at \in {"stale", "detached", "attach"} => handler[g].obj \in Container
      /\ \A m \in Monitors : monitor[m].at # "off" => monitor[m].obj \in Container
  BY OrderlyShape
<1>xh. handler \in [Handlers -> Handler] /\ state \in [Container -> State] /\ monitor \in [Monitors -> Monitor]
  BY DEF LifeTypeOK
<1>xe. handler[h].at = "attach" /\ handler' = [handler EXCEPT ![h].at = "remove"]
  BY DEF Attach, Goes, At
<1>f. /\ handler[h].at = "attach" /\ registered = 0 /\ state' = state /\ monitor' = monitor
      /\ handler'[h].at = "remove" /\ handler'[h].by = handler[h].by /\ handler'[h].obj = handler[h].obj
      /\ handler'[h].proc = handler[h].proc /\ handler'[h].mon = handler[h].mon /\ \A g \in Handlers : g # h => handler'[g] = handler[g]
      /\ live' = live /\ spawned' = spawned /\ registered' = registered /\ abandoned' = abandoned
  BY <1>xh, <1>xe DEF Attach, Handler
<1>n. /\ spawned \in Nat /\ live \in Nat /\ registered \in Nat /\ 0 \notin Monitors /\ 0 \notin Container
      /\ \A c \in Container : state[c].mon \in Monitors \cup {0}
      /\ \A g \in Handlers : handler[g].mon \in Monitors \cup {0}
  BY LifeShape
<1>1. RolesAreKept'
  BY <1>0, <1>t, <1>f, <1>n DEF Orderly, RolesAreKept, At, Ensures, Detaching, Stopping, Replaces, Watches, Down, Ensurers, Stoppers
<1>2. NumbersAreBounded'
  BY <1>0, <1>t, <1>f, <1>n DEF Orderly, NumbersAreBounded, RolesAreKept, At, Ensures, Detaching, Stopping, Replaces, Watches, Down, Ensurers, Stoppers
<1>3. NewIsUnknown'
  BY <1>0, <1>t, <1>f, <1>n DEF Orderly, NewIsUnknown, RolesAreKept, At, Ensures, Detaching, Stopping, Replaces, Watches, Down, Ensurers, Stoppers
<1>4. OneAtWork'
  BY <1>0, <1>t, <1>f, <1>n DEF Orderly, OneAtWork, RolesAreKept, At, Ensures, Detaching, Stopping, Replaces, Watches, Down, Ensurers, Stoppers
<1>5. MonitorsAreHeld'
  BY <1>0, <1>t, <1>f, <1>n DEF Orderly, MonitorsAreHeld, RolesAreKept, At, Ensures, Detaching, Stopping, Replaces, Watches, Down, Ensurers, Stoppers
<1>6. WorkersKnowTheirs'
  BY <1>0, <1>t, <1>f, <1>n DEF Orderly, WorkersKnowTheirs, RolesAreKept, At, Ensures, Detaching, Stopping, Replaces, Watches, Down, Ensurers, Stoppers
<1>7. RequestsKnowTheirs'
  BY <1>0, <1>t, <1>f, <1>n DEF Orderly, RequestsKnowTheirs, RolesAreKept, At, Ensures, Detaching, Stopping, Replaces, Watches, Down, Ensurers, Stoppers
<1>8. DetachedIsBare'
  BY <1>0, <1>t, <1>f, <1>n DEF Orderly, DetachedIsBare, RolesAreKept, At, Ensures, Detaching, Stopping, Replaces, Watches, Down, Ensurers, Stoppers
<1>9. NobodyIsRegistered'
  BY <1>0, <1>t, <1>f, <1>n DEF Orderly, NobodyIsRegistered, RolesAreKept, At, Ensures, Detaching, Stopping, Replaces, Watches, Down, Ensurers, Stoppers
<1>10. DownIsDown'
  BY <1>0, <1>t, <1>f, <1>n DEF Orderly, DownIsDown, RolesAreKept, At, Ensures, Detaching, Stopping, Replaces, Watches, Down, Ensurers, Stoppers
<1>11. StoppedIsDead'
  BY <1>0, <1>t, <1>f, <1>n DEF Orderly, StoppedIsDead, RolesAreKept, At, Ensures, Detaching, Stopping, Replaces, Watches, Down, Ensurers, Stoppers
<1>12. LiveIsKnown'
  BY <1>0, <1>t, <1>f, <1>n DEF Orderly, LiveIsKnown, RolesAreKept, At, Ensures, Detaching, Stopping, Replaces, Watches, Down, Ensurers, Stoppers
<1>13. RegisteredIsServed'
  BY <1>0, <1>t, <1>f, <1>n DEF Orderly, RegisteredIsServed, RolesAreKept, At, Ensures, Detaching, Stopping, Replaces, Watches, Down, Ensurers, Stoppers
<1> QED
  BY <1>0, <1>1, <1>2, <1>3, <1>4, <1>5, <1>6, <1>7, <1>8, <1>9, <1>10, <1>11, <1>12, <1>13, <1>f DEF Orderly


\* A page's request gives the worker new tasks.
LEMMA Attaches ==
  ASSUME LifeTypeOK, Orderly, NEW h \in Handlers, Attach(h), registered # 0
  PROVE  Orderly'
<1>0. LifeTypeOK /\ Orderly
  OBVIOUS
<1>t. /\ registered # 0 => registered \in Container
      /\ \A g \in Handlers : handler[g].at \in {"stale", "detached", "attach"} => handler[g].obj \in Container
      /\ \A m \in Monitors : monitor[m].at # "off" => monitor[m].obj \in Container
  BY OrderlyShape
<1>xh. handler \in [Handlers -> Handler] /\ state \in [Container -> State] /\ monitor \in [Monitors -> Monitor]
  BY DEF LifeTypeOK
<1>x1. PICK m \in FreeMonitors :
         /\ state' = [state EXCEPT ![registered].page = TRUE, ![registered].loop = TRUE, ![registered].mon = m]
         /\ monitor' = [monitor EXCEPT ![m] = [at |-> "wait", obj |-> registered,
                                               proc |-> state[registered].proc, new |-> 0]]
         /\ abandoned' = (abandoned \/ state[registered].loop)
         /\ handler' = [handler EXCEPT ![h].at = "mark", ![h].obj = registered,
                                       ![h].proc = state[registered].proc]
  BY DEF Attach
<1> DEFINE s == [state[registered] EXCEPT !.page = TRUE, !.loop = TRUE, !.mon = m]
           k == [handler[h] EXCEPT !.at = "mark", !.obj = registered, !.proc = state[registered].proc]
<1>xs. /\ s.proc = state[registered].proc /\ s.stop = state[registered].stop /\ s.loop = TRUE /\ s.mon = m
       /\ k.at = "mark" /\ k.by = handler[h].by /\ k.obj = registered /\ k.proc = state[registered].proc /\ k.mon = handler[h].mon
  BY <1>xh, <1>t DEF State, Handler
<1>xe. state' = [state EXCEPT ![registered] = s] /\ handler' = [handler EXCEPT ![h] = k]
  BY <1>x1
<1> HIDE DEF s, k
<1>f. /\ handler[h].at = "attach" /\ registered # 0 /\ m \in Monitors /\ monitor[m].at = "off"
      /\ handler'[h].at = "mark" /\ handler'[h].by = handler[h].by /\ handler'[h].obj = registered
      /\ handler'[h].proc = state[registered].proc /\ handler'[h].mon = handler[h].mon /\ \A g \in Handlers : g # h => handler'[g] = handler[g]
      /\ live' = live /\ spawned' = spawned /\ registered' = registered
  BY <1>xh, <1>xe, <1>xs DEF Attach, At, FreeMonitors
<1>w. \A c \in Container : /\ state'[c].stop = state[c].stop /\ state'[c].proc = state[c].proc
                           /\ c = registered => state'[c].loop /\ state'[c].mon = m
                           /\ c # registered => state'[c].loop = state[c].loop /\ state'[c].mon = state[c].mon
  BY <1>xh, <1>xe, <1>xs, <1>f
<1>m. /\ monitor'[m].at = "wait" /\ monitor'[m].obj = registered /\ monitor'[m].proc = state[registered].proc /\ monitor'[m].new = 0
      /\ \A n \in Monitors : n # m => monitor'[n] = monitor[n]
  BY <1>xh, <1>x1 DEF FreeMonitors
<1>k. /\ registered = handler[h].obj /\ ~state[registered].loop /\ state[registered].mon = 0 /\ handler[h].mon = 0
      /\ \A n \in Monitors : monitor[n].at = "off"
  BY <1>0, <1>f, LifeShape DEF Orderly, RolesAreKept, DetachedIsBare, Detaching, Watches, At
<1>a. ~abandoned'
  BY <1>0, <1>x1, <1>k DEF Orderly
<1>n. /\ spawned \in Nat /\ live \in Nat /\ registered \in Nat /\ 0 \notin Monitors /\ 0 \notin Container
      /\ \A c \in Container : state[c].mon \in Monitors \cup {0}
      /\ \A g \in Handlers : handler[g].mon \in Monitors \cup {0}
  BY LifeShape
<1>1. RolesAreKept'
  BY <1>0, <1>t, <1>f, <1>w, <1>m, <1>k, <1>a, <1>n DEF Orderly, RolesAreKept, At, Ensures, Detaching, Stopping, Replaces, Watches, Down, Ensurers, Stoppers
<1>2. NumbersAreBounded'
  BY <1>0, <1>t, <1>f, <1>w, <1>m, <1>k, <1>a, <1>n DEF Orderly, NumbersAreBounded, RolesAreKept, At, Ensures, Detaching, Stopping, Replaces, Watches, Down, Ensurers, Stoppers
<1>3. NewIsUnknown'
  BY <1>0, <1>t, <1>f, <1>w, <1>m, <1>k, <1>a, <1>n DEF Orderly, NewIsUnknown, RolesAreKept, At, Ensures, Detaching, Stopping, Replaces, Watches, Down, Ensurers, Stoppers
<1>4. OneAtWork'
  BY <1>0, <1>t, <1>f, <1>w, <1>m, <1>k, <1>a, <1>n DEF Orderly, OneAtWork, RolesAreKept, At, Ensures, Detaching, Stopping, Replaces, Watches, Down, Ensurers, Stoppers
<1>5. MonitorsAreHeld'
  BY <1>0, <1>t, <1>f, <1>w, <1>m, <1>k, <1>a, <1>n DEF Orderly, MonitorsAreHeld, RolesAreKept, At, Ensures, Detaching, Stopping, Replaces, Watches, Down, Ensurers, Stoppers
<1>6. WorkersKnowTheirs'
  BY <1>0, <1>t, <1>f, <1>w, <1>m, <1>k, <1>a, <1>n DEF Orderly, WorkersKnowTheirs, RolesAreKept, At, Ensures, Detaching, Stopping, Replaces, Watches, Down, Ensurers, Stoppers
<1>7. RequestsKnowTheirs'
  BY <1>0, <1>t, <1>f, <1>w, <1>m, <1>k, <1>a, <1>n DEF Orderly, RequestsKnowTheirs, RolesAreKept, At, Ensures, Detaching, Stopping, Replaces, Watches, Down, Ensurers, Stoppers
<1>8. DetachedIsBare'
  BY <1>0, <1>t, <1>f, <1>w, <1>m, <1>k, <1>a, <1>n DEF Orderly, DetachedIsBare, OneAtWork, RolesAreKept, At, Ensures, Detaching, Stopping, Replaces, Watches, Down, Ensurers, Stoppers
<1>9. NobodyIsRegistered'
  BY <1>0, <1>t, <1>f, <1>w, <1>m, <1>k, <1>a, <1>n DEF Orderly, NobodyIsRegistered, RolesAreKept, At, Ensures, Detaching, Stopping, Replaces, Watches, Down, Ensurers, Stoppers
<1>10. DownIsDown'
  BY <1>0, <1>t, <1>f, <1>w, <1>m, <1>k, <1>a, <1>n DEF Orderly, DownIsDown, RolesAreKept, At, Ensures, Detaching, Stopping, Replaces, Watches, Down, Ensurers, Stoppers
<1>11. StoppedIsDead'
  BY <1>0, <1>t, <1>f, <1>w, <1>m, <1>k, <1>a, <1>n DEF Orderly, StoppedIsDead, RolesAreKept, At, Ensures, Detaching, Stopping, Replaces, Watches, Down, Ensurers, Stoppers
<1>12. LiveIsKnown'
  BY <1>0, <1>t, <1>f, <1>w, <1>m, <1>k, <1>a, <1>n DEF Orderly, LiveIsKnown, RolesAreKept, At, Ensures, Detaching, Stopping, Replaces, Watches, Down, Ensurers, Stoppers
<1>13. RegisteredIsServed'
  BY <1>0, <1>t, <1>f, <1>w, <1>m, <1>k, <1>a, <1>n DEF Orderly, RegisteredIsServed, RolesAreKept, At, Ensures, Detaching, Stopping, Replaces, Watches, Down, Ensurers, Stoppers
<1> QED
  BY <1>0, <1>1, <1>2, <1>3, <1>4, <1>5, <1>6, <1>7, <1>8, <1>9, <1>10, <1>11, <1>12, <1>13, <1>a DEF Orderly


\* A message's request removes what runs, and its container gets a number.
LEMMA RemovesFirst ==
  ASSUME LifeTypeOK, Orderly, NEW h \in Handlers, SpawnRemoves(h)
  PROVE  Orderly'
<1>0. LifeTypeOK /\ Orderly
  OBVIOUS
<1>t. /\ registered # 0 => registered \in Container
      /\ \A g \in Handlers : handler[g].at \in {"stale", "detached", "attach"} => handler[g].obj \in Container
      /\ \A m \in Monitors : monitor[m].at # "off" => monitor[m].obj \in Container
  BY OrderlyShape
<1>xh. handler \in [Handlers -> Handler] /\ state \in [Container -> State] /\ monitor \in [Monitors -> Monitor]
  BY DEF LifeTypeOK
<1>xe. /\ handler[h].at = "remove" /\ spawned' = spawned + 1
       /\ handler' = [handler EXCEPT ![h] = [NoHandler EXCEPT !.at = "run", !.by = handler[h].by, !.proc = spawned']]
  BY DEF SpawnRemoves, At, Removes
<1>f. /\ handler[h].at = "remove" /\ spawned' = spawned + 1 /\ live' = 0 /\ state' = state /\ monitor' = monitor
      /\ handler'[h].at = "run" /\ handler'[h].by = handler[h].by /\ handler'[h].obj = 0
      /\ handler'[h].proc = spawned + 1 /\ handler'[h].mon = 0 /\ \A g \in Handlers : g # h => handler'[g] = handler[g]
      /\ registered' = registered /\ abandoned' = abandoned
  BY <1>xh, <1>xe DEF SpawnRemoves, Removes, NoHandler
<1>n. /\ spawned \in Nat /\ live \in Nat /\ registered \in Nat /\ 0 \notin Monitors /\ 0 \notin Container
      /\ \A c \in Container : state[c].mon \in Monitors \cup {0}
      /\ \A g \in Handlers : handler[g].mon \in Monitors \cup {0}
  BY LifeShape
<1>b. /\ \A c \in Container : state[c].proc \in Nat
      /\ \A g \in Handlers : handler[g].proc \in Nat /\ handler[g].obj \in Nat
      /\ \A m \in Monitors : monitor[m].new \in Nat /\ monitor[m].obj \in Nat
  BY LifeShape
<1>1. RolesAreKept'
  BY <1>0, <1>t, <1>f, <1>n, <1>b DEF Orderly, RolesAreKept, At, Ensures, Detaching, Stopping, Replaces, Watches, Down, Ensurers, Stoppers
<1>2. NumbersAreBounded'
  <2>1. live' <= spawned' /\ registered' <= spawned'
    BY <1>0, <1>f, <1>n, <1>b DEF Orderly, NumbersAreBounded
  <2>2. \A c \in Container : state'[c].proc <= spawned'
    BY <1>0, <1>f, <1>n, <1>b DEF Orderly, NumbersAreBounded
  <2>3. registered' # 0 => state'[registered'].proc # 0
    BY <1>0, <1>f, <1>n, <1>b DEF Orderly, NumbersAreBounded
  <2>4. \A g \in Handlers : handler'[g].proc <= spawned'
    BY <1>0, <1>f, <1>n, <1>b DEF Orderly, NumbersAreBounded
  <2>5. \A g \in Handlers : handler'[g].at = "stale" => handler'[g].obj <= spawned'
    BY <1>0, <1>f, <1>n, <1>b DEF Orderly, NumbersAreBounded, At
  <2>6. \A n \in Monitors : monitor'[n].new <= spawned' /\ monitor'[n].obj <= spawned'
    BY <1>0, <1>f, <1>n, <1>b DEF Orderly, NumbersAreBounded
  <2> QED
    BY <2>1, <2>2, <2>3, <2>4, <2>5, <2>6 DEF NumbersAreBounded, At
<1>3. NewIsUnknown'
  BY <1>0, <1>t, <1>f, <1>n, <1>b DEF Orderly, NewIsUnknown, NumbersAreBounded, RolesAreKept, At, Ensures, Detaching, Stopping, Replaces, Watches, Down, Ensurers, Stoppers
<1>4. OneAtWork'
  BY <1>0, <1>t, <1>f, <1>n, <1>b DEF Orderly, OneAtWork, RolesAreKept, At, Ensures, Detaching, Stopping, Replaces, Watches, Down, Ensurers, Stoppers
<1>5. MonitorsAreHeld'
  BY <1>0, <1>t, <1>f, <1>n, <1>b DEF Orderly, MonitorsAreHeld, RolesAreKept, At, Ensures, Detaching, Stopping, Replaces, Watches, Down, Ensurers, Stoppers
<1>6. WorkersKnowTheirs'
  BY <1>0, <1>t, <1>f, <1>n, <1>b DEF Orderly, WorkersKnowTheirs, RolesAreKept, At, Ensures, Detaching, Stopping, Replaces, Watches, Down, Ensurers, Stoppers
<1>7. RequestsKnowTheirs'
  BY <1>0, <1>t, <1>f, <1>n, <1>b DEF Orderly, RequestsKnowTheirs, RolesAreKept, At, Ensures, Detaching, Stopping, Replaces, Watches, Down, Ensurers, Stoppers
<1>8. DetachedIsBare'
  BY <1>0, <1>t, <1>f, <1>n, <1>b DEF Orderly, DetachedIsBare, RolesAreKept, At, Ensures, Detaching, Stopping, Replaces, Watches, Down, Ensurers, Stoppers
<1>9. NobodyIsRegistered'
  BY <1>0, <1>t, <1>f, <1>n, <1>b DEF Orderly, NobodyIsRegistered, RolesAreKept, At, Ensures, Detaching, Stopping, Replaces, Watches, Down, Ensurers, Stoppers
<1>10. DownIsDown'
  BY <1>0, <1>t, <1>f, <1>n, <1>b DEF Orderly, DownIsDown, RolesAreKept, At, Ensures, Detaching, Stopping, Replaces, Watches, Down, Ensurers, Stoppers
<1>11. StoppedIsDead'
  BY <1>0, <1>t, <1>f, <1>n, <1>b DEF Orderly, StoppedIsDead, RolesAreKept, At, Ensures, Detaching, Stopping, Replaces, Watches, Down, Ensurers, Stoppers
<1>12. LiveIsKnown'
  BY <1>0, <1>t, <1>f, <1>n, <1>b DEF Orderly, LiveIsKnown, RolesAreKept, At, Ensures, Detaching, Stopping, Replaces, Watches, Down, Ensurers, Stoppers
<1>13. RegisteredIsServed'
  BY <1>0, <1>t, <1>f, <1>n, <1>b DEF Orderly, RegisteredIsServed, RolesAreKept, At, Ensures, Detaching, Stopping, Replaces, Watches, Down, Ensurers, Stoppers
<1> QED
  BY <1>0, <1>1, <1>2, <1>3, <1>4, <1>5, <1>6, <1>7, <1>8, <1>9, <1>10, <1>11, <1>12, <1>13, <1>f DEF Orderly


\* The container of a message's request runs.
LEMMA RunsFirst ==
  ASSUME LifeTypeOK, Orderly, NEW h \in Handlers, SpawnRuns(h)
  PROVE  Orderly'
<1>0. LifeTypeOK /\ Orderly
  OBVIOUS
<1>t. /\ registered # 0 => registered \in Container
      /\ \A g \in Handlers : handler[g].at \in {"stale", "detached", "attach"} => handler[g].obj \in Container
      /\ \A m \in Monitors : monitor[m].at # "off" => monitor[m].obj \in Container
  BY OrderlyShape
<1>xh. handler \in [Handlers -> Handler] /\ state \in [Container -> State] /\ monitor \in [Monitors -> Monitor]
  BY DEF LifeTypeOK
<1>xe. /\ handler[h].at = "run" /\ handler' = [handler EXCEPT ![h].at = "register"]
       /\ \A g \in Handlers : handler[g].at \notin {"detached", "cancel"}
       /\ live' = IF live = 0 THEN handler[h].proc ELSE live
  BY DEF SpawnRuns, At, Runs, Goes
<1>f. /\ handler[h].at = "run" /\ state' = state /\ monitor' = monitor
      /\ \A g \in Handlers : handler[g].at \notin {"detached", "cancel"}
      /\ live' = IF live = 0 THEN handler[h].proc ELSE live
      /\ handler'[h].at = "register" /\ handler'[h].by = handler[h].by /\ handler'[h].obj = handler[h].obj
      /\ handler'[h].proc = handler[h].proc /\ handler'[h].mon = handler[h].mon /\ \A g \in Handlers : g # h => handler'[g] = handler[g]
      /\ spawned' = spawned /\ registered' = registered /\ abandoned' = abandoned
  BY <1>xh, <1>xe DEF SpawnRuns, Handler
<1>n. /\ spawned \in Nat /\ live \in Nat /\ registered \in Nat /\ 0 \notin Monitors /\ 0 \notin Container
      /\ \A c \in Container : state[c].mon \in Monitors \cup {0}
      /\ \A g \in Handlers : handler[g].mon \in Monitors \cup {0}
  BY LifeShape
<1>k. /\ registered = 0 /\ \A m \in Monitors : monitor[m].at = "off"
      /\ \A g \in Handlers : g # h => handler[g].at \notin {"run", "register"}
  BY <1>0, <1>f, <1>n, <1>t DEF Orderly, RolesAreKept, OneAtWork, MonitorsAreHeld, NobodyIsRegistered, Ensures, Replaces, Watches, At, Ensurers
<1>v. live = 0 /\ live' = handler[h].proc
  BY <1>0, <1>f, <1>k DEF Orderly, LiveIsKnown, At
<1>1. RolesAreKept'
  BY <1>0, <1>t, <1>f, <1>n, <1>k, <1>v DEF Orderly, RolesAreKept, At, Ensures, Detaching, Stopping, Replaces, Watches, Down, Ensurers, Stoppers
<1>2. NumbersAreBounded'
  <2>1. live' <= spawned' /\ registered' <= spawned'
    BY <1>0, <1>f, <1>n, <1>k, <1>v DEF Orderly, NumbersAreBounded
  <2>2. \A c \in Container : state'[c].proc <= spawned'
    BY <1>0, <1>f, <1>n, <1>k, <1>v DEF Orderly, NumbersAreBounded
  <2>3. registered' # 0 => state'[registered'].proc # 0
    BY <1>0, <1>f, <1>n, <1>k, <1>v DEF Orderly, NumbersAreBounded
  <2>4. \A g \in Handlers : handler'[g].proc <= spawned'
    BY <1>0, <1>f, <1>n, <1>k, <1>v DEF Orderly, NumbersAreBounded
  <2>5. \A g \in Handlers : handler'[g].at = "stale" => handler'[g].obj <= spawned'
    BY <1>0, <1>f, <1>n, <1>k, <1>v DEF Orderly, NumbersAreBounded, At
  <2>6. \A n \in Monitors : monitor'[n].new <= spawned' /\ monitor'[n].obj <= spawned'
    BY <1>0, <1>f, <1>n, <1>k, <1>v DEF Orderly, NumbersAreBounded
  <2> QED
    BY <2>1, <2>2, <2>3, <2>4, <2>5, <2>6 DEF NumbersAreBounded, At
<1>3. NewIsUnknown'
  BY <1>0, <1>t, <1>f, <1>n, <1>k, <1>v DEF Orderly, NewIsUnknown, RolesAreKept, At, Ensures, Detaching, Stopping, Replaces, Watches, Down, Ensurers, Stoppers
<1>4. OneAtWork'
  BY <1>0, <1>t, <1>f, <1>n, <1>k, <1>v DEF Orderly, OneAtWork, RolesAreKept, At, Ensures, Detaching, Stopping, Replaces, Watches, Down, Ensurers, Stoppers
<1>5. MonitorsAreHeld'
  BY <1>0, <1>t, <1>f, <1>n, <1>k, <1>v DEF Orderly, MonitorsAreHeld, RolesAreKept, At, Ensures, Detaching, Stopping, Replaces, Watches, Down, Ensurers, Stoppers
<1>6. WorkersKnowTheirs'
  BY <1>0, <1>t, <1>f, <1>n, <1>k, <1>v DEF Orderly, WorkersKnowTheirs, RolesAreKept, At, Ensures, Detaching, Stopping, Replaces, Watches, Down, Ensurers, Stoppers
<1>7. RequestsKnowTheirs'
  BY <1>0, <1>t, <1>f, <1>n, <1>k, <1>v DEF Orderly, RequestsKnowTheirs, RolesAreKept, At, Ensures, Detaching, Stopping, Replaces, Watches, Down, Ensurers, Stoppers
<1>8. DetachedIsBare'
  BY <1>0, <1>t, <1>f, <1>n, <1>k, <1>v DEF Orderly, DetachedIsBare, RolesAreKept, At, Ensures, Detaching, Stopping, Replaces, Watches, Down, Ensurers, Stoppers
<1>9. NobodyIsRegistered'
  BY <1>0, <1>t, <1>f, <1>n, <1>k, <1>v DEF Orderly, NobodyIsRegistered, RolesAreKept, At, Ensures, Detaching, Stopping, Replaces, Watches, Down, Ensurers, Stoppers
<1>10. DownIsDown'
  BY <1>0, <1>t, <1>f, <1>n, <1>k, <1>v DEF Orderly, DownIsDown, RolesAreKept, At, Ensures, Detaching, Stopping, Replaces, Watches, Down, Ensurers, Stoppers
<1>11. StoppedIsDead'
  BY <1>0, <1>t, <1>f, <1>n, <1>k, <1>v DEF Orderly, StoppedIsDead, NewIsUnknown, RolesAreKept, At, Ensures, Detaching, Stopping, Replaces, Watches, Down, Ensurers, Stoppers
<1>12. LiveIsKnown'
  BY <1>0, <1>t, <1>f, <1>n, <1>k, <1>v DEF Orderly, LiveIsKnown, RolesAreKept, At, Ensures, Detaching, Stopping, Replaces, Watches, Down, Ensurers, Stoppers
<1>13. RegisteredIsServed'
  BY <1>0, <1>t, <1>f, <1>n, <1>k, <1>v DEF Orderly, RegisteredIsServed, RolesAreKept, At, Ensures, Detaching, Stopping, Replaces, Watches, Down, Ensurers, Stoppers
<1> QED
  BY <1>0, <1>1, <1>2, <1>3, <1>4, <1>5, <1>6, <1>7, <1>8, <1>9, <1>10, <1>11, <1>12, <1>13, <1>f DEF Orderly


\* A container becomes the registered worker.
LEMMA Registers ==
  ASSUME LifeTypeOK, Orderly, NEW h \in Handlers, Register(h)
  PROVE  Orderly'
<1>0. LifeTypeOK /\ Orderly
  OBVIOUS
<1>t. /\ registered # 0 => registered \in Container
      /\ \A g \in Handlers : handler[g].at \in {"stale", "detached", "attach"} => handler[g].obj \in Container
      /\ \A m \in Monitors : monitor[m].at # "off" => monitor[m].obj \in Container
  BY OrderlyShape
<1>xh. handler \in [Handlers -> Handler] /\ state \in [Container -> State] /\ monitor \in [Monitors -> Monitor]
  BY DEF LifeTypeOK
<1> DEFINE c == handler[h].proc
<1>x1. PICK m \in FreeMonitors :
         /\ state' = [state EXCEPT ![c] = [proc |-> c, stop |-> FALSE, loop |-> TRUE, mon |-> m,
                                           page |-> handler[h].by = "page", crashes |-> 0]]
         /\ monitor' = [monitor EXCEPT ![m] = [at |-> "wait", obj |-> c, proc |-> c, new |-> 0]]
         /\ abandoned' = (abandoned \/ (registered # 0 /\ state[registered].loop))
  BY DEF Register
<1>xe. handler[h].at = "register" /\ registered' = c /\ handler' = [handler EXCEPT ![h] = NoHandler]
  BY DEF Register, At, Finishes
<1>xk. /\ c \in Container /\ registered = 0 /\ m \in Monitors /\ \A n \in Monitors : monitor[n].at = "off"
       /\ \A g \in Handlers : handler[g].at # "cancel"
       /\ \A g \in Handlers : g # h => handler[g].at = "off" \/ handler[g].by \notin {"page", "headless"}
  BY <1>0, <1>xe, LifeShape DEF Orderly, NobodyIsRegistered, NewIsUnknown, OneAtWork, RolesAreKept, Ensures, Watches, At, Ensurers, FreeMonitors
<1>k. /\ c \in Container /\ registered = 0 /\ m \in Monitors /\ \A n \in Monitors : monitor[n].at = "off"
      /\ \A g \in Handlers : handler[g].at # "cancel"
      /\ \A g \in Handlers : g # h => handler[g].at = "off" \/ handler[g].by \notin {"page", "headless"}
  BY <1>xk
<1>f. /\ handler[h].at = "register" /\ registered' = c
      /\ handler'[h].at = "off" /\ handler'[h].by = "page" /\ handler'[h].obj = 0 /\ handler'[h].proc = 0 /\ handler'[h].mon = 0
      /\ \A g \in Handlers : g # h => handler'[g] = handler[g]
      /\ live' = live /\ spawned' = spawned
  BY <1>xh, <1>xe, LifeRecords DEF Register
<1>w. /\ state'[c].stop = FALSE /\ state'[c].proc = c /\ state'[c].loop = TRUE /\ state'[c].mon = m
      /\ \A d \in Container : d # c => state'[d] = state[d]
  BY <1>xh, <1>x1, <1>k
<1>m. /\ monitor'[m].at = "wait" /\ monitor'[m].obj = c /\ monitor'[m].proc = c /\ monitor'[m].new = 0
      /\ \A n \in Monitors : n # m => monitor'[n] = monitor[n]
  BY <1>xh, <1>x1, <1>k
<1>a. ~abandoned'
  BY <1>0, <1>x1, <1>k DEF Orderly
<1>n. /\ spawned \in Nat /\ live \in Nat /\ registered \in Nat /\ 0 \notin Monitors /\ 0 \notin Container
      /\ \A d \in Container : state[d].mon \in Monitors \cup {0}
      /\ \A g \in Handlers : handler[g].mon \in Monitors \cup {0}
  BY LifeShape
<1>1. RolesAreKept'
  BY <1>0, <1>t, <1>k, <1>f, <1>w, <1>m, <1>a, <1>n DEF Orderly, RolesAreKept, At, Ensures, Detaching, Stopping, Replaces, Watches, Down, Ensurers, Stoppers
<1>2. NumbersAreBounded'
  BY <1>0, <1>t, <1>k, <1>f, <1>w, <1>m, <1>a, <1>n DEF Orderly, NumbersAreBounded, RolesAreKept, At, Ensures, Detaching, Stopping, Replaces, Watches, Down, Ensurers, Stoppers
<1>3. NewIsUnknown'
  BY <1>0, <1>t, <1>k, <1>f, <1>w, <1>m, <1>a, <1>n DEF Orderly, NewIsUnknown, RolesAreKept, At, Ensures, Detaching, Stopping, Replaces, Watches, Down, Ensurers, Stoppers
<1>4. OneAtWork'
  BY <1>0, <1>t, <1>k, <1>f, <1>w, <1>m, <1>a, <1>n DEF Orderly, OneAtWork, RolesAreKept, At, Ensures, Detaching, Stopping, Replaces, Watches, Down, Ensurers, Stoppers
<1>5. MonitorsAreHeld'
  BY <1>0, <1>t, <1>k, <1>f, <1>w, <1>m, <1>a, <1>n DEF Orderly, MonitorsAreHeld, RolesAreKept, At, Ensures, Detaching, Stopping, Replaces, Watches, Down, Ensurers, Stoppers
<1>6. WorkersKnowTheirs'
  BY <1>0, <1>t, <1>k, <1>f, <1>w, <1>m, <1>a, <1>n DEF Orderly, WorkersKnowTheirs, RolesAreKept, At, Ensures, Detaching, Stopping, Replaces, Watches, Down, Ensurers, Stoppers
<1>7. RequestsKnowTheirs'
  BY <1>0, <1>t, <1>k, <1>f, <1>w, <1>m, <1>a, <1>n DEF Orderly, RequestsKnowTheirs, RolesAreKept, At, Ensures, Detaching, Stopping, Replaces, Watches, Down, Ensurers, Stoppers
<1>8. DetachedIsBare'
  BY <1>0, <1>t, <1>k, <1>f, <1>w, <1>m, <1>a, <1>n DEF Orderly, DetachedIsBare, RolesAreKept, At, Ensures, Detaching, Stopping, Replaces, Watches, Down, Ensurers, Stoppers
<1>9. NobodyIsRegistered'
  BY <1>0, <1>t, <1>k, <1>f, <1>w, <1>m, <1>a, <1>n DEF Orderly, NobodyIsRegistered, NewIsUnknown, RolesAreKept, At, Ensures, Detaching, Stopping, Replaces, Watches, Down, Ensurers, Stoppers
<1>10. DownIsDown'
  BY <1>0, <1>t, <1>k, <1>f, <1>w, <1>m, <1>a, <1>n DEF Orderly, DownIsDown, RolesAreKept, At, Ensures, Detaching, Stopping, Replaces, Watches, Down, Ensurers, Stoppers
<1>11. StoppedIsDead'
  BY <1>0, <1>t, <1>k, <1>f, <1>w, <1>m, <1>a, <1>n DEF Orderly, StoppedIsDead, RolesAreKept, At, Ensures, Detaching, Stopping, Replaces, Watches, Down, Ensurers, Stoppers
<1>12. LiveIsKnown'
  BY <1>0, <1>t, <1>k, <1>f, <1>w, <1>m, <1>a, <1>n DEF Orderly, LiveIsKnown, RolesAreKept, At, Ensures, Detaching, Stopping, Replaces, Watches, Down, Ensurers, Stoppers
<1>13. RegisteredIsServed'
  BY <1>0, <1>t, <1>k, <1>f, <1>w, <1>m, <1>a, <1>n DEF Orderly, RegisteredIsServed, RolesAreKept, At, Ensures, Detaching, Stopping, Replaces, Watches, Down, Ensurers, Stoppers
<1> QED
  BY <1>0, <1>1, <1>2, <1>3, <1>4, <1>5, <1>6, <1>7, <1>8, <1>9, <1>10, <1>11, <1>12, <1>13, <1>a DEF Orderly


\* A kill or a reap tells the registered worker to shut down.
LEMMA Stops ==
  ASSUME LifeTypeOK, Orderly, NEW h \in Handlers, NEW by \in {"kill", "reap"}, NEW c \in Container, Stop(h, by, c)
  PROVE  Orderly'
<1>0. LifeTypeOK /\ Orderly
  OBVIOUS
<1>t. /\ registered # 0 => registered \in Container
      /\ \A g \in Handlers : handler[g].at \in {"stale", "detached", "attach"} => handler[g].obj \in Container
      /\ \A m \in Monitors : monitor[m].at # "off" => monitor[m].obj \in Container
  BY OrderlyShape
<1>xh. handler \in [Handlers -> Handler] /\ state \in [Container -> State] /\ monitor \in [Monitors -> Monitor]
  BY DEF LifeTypeOK
<1> DEFINE ours == IF registered = 0 THEN 0 ELSE state[registered].proc
           k == [NoHandler EXCEPT !.at = "await", !.by = by, !.proc = ours, !.obj = IF by = "reap" THEN c ELSE 0]
<1>xs. k.at = "await" /\ k.by = by /\ k.mon = 0 /\ k.proc = ours
  BY DEF NoHandler
<1>xe. /\ handler[h].at = "off" /\ handler' = [handler EXCEPT ![h] = k]
       /\ state' = IF registered = 0 THEN state ELSE [state EXCEPT ![registered].stop = TRUE]
  BY DEF Stop, At
<1>xp. (registered = 0 /\ ours = 0) \/ (registered # 0 /\ ours = state[registered].proc)
  OBVIOUS
<1> HIDE DEF k, ours
<1>f. /\ handler[h].at = "off" /\ by \in {"kill", "reap"}
      /\ handler'[h].at = "await" /\ handler'[h].by = by /\ handler'[h].mon = 0
      /\ (registered = 0 /\ handler'[h].proc = 0) \/ (registered # 0 /\ handler'[h].proc = state[registered].proc)
      /\ \A g \in Handlers : g # h => handler'[g] = handler[g]
      /\ live' = live /\ spawned' = spawned /\ registered' = registered /\ monitor' = monitor /\ abandoned' = abandoned
  BY <1>xh, <1>xe, <1>xs, <1>xp DEF Stop
<1>w. \A d \in Container : /\ state'[d].proc = state[d].proc /\ state'[d].loop = state[d].loop
                           /\ state'[d].mon = state[d].mon
                           /\ d # registered => state'[d].stop = state[d].stop
                           /\ d = registered => state'[d].stop
  <2>1. CASE registered = 0
    BY <1>xe, <2>1, LifeShape
  <2>2. CASE registered # 0
    <3>1. state' = [state EXCEPT ![registered].stop = TRUE] /\ registered \in Container
      BY <1>xe, <1>t, <2>2
    <3> QED
      BY <1>xh, <3>1 DEF State
  <2> QED
    BY <2>1, <2>2
<1>n. /\ spawned \in Nat /\ live \in Nat /\ registered \in Nat /\ 0 \notin Monitors /\ 0 \notin Container
      /\ \A d \in Container : state[d].mon \in Monitors \cup {0}
      /\ \A g \in Handlers : handler[g].mon \in Monitors \cup {0}
  BY LifeShape
<1>1. RolesAreKept'
  BY <1>0, <1>t, <1>f, <1>w, <1>n DEF Orderly, RolesAreKept, At, Ensures, Detaching, Stopping, Replaces, Watches, Down, Ensurers, Stoppers
<1>2. NumbersAreBounded'
  BY <1>0, <1>t, <1>f, <1>w, <1>n DEF Orderly, NumbersAreBounded, RolesAreKept, At, Ensures, Detaching, Stopping, Replaces, Watches, Down, Ensurers, Stoppers
<1>3. NewIsUnknown'
  BY <1>0, <1>t, <1>f, <1>w, <1>n DEF Orderly, NewIsUnknown, RolesAreKept, At, Ensures, Detaching, Stopping, Replaces, Watches, Down, Ensurers, Stoppers
<1>4. OneAtWork'
  BY <1>0, <1>t, <1>f, <1>w, <1>n DEF Orderly, OneAtWork, RolesAreKept, At, Ensures, Detaching, Stopping, Replaces, Watches, Down, Ensurers, Stoppers
<1>5. MonitorsAreHeld'
  BY <1>0, <1>t, <1>f, <1>w, <1>n DEF Orderly, MonitorsAreHeld, RolesAreKept, At, Ensures, Detaching, Stopping, Replaces, Watches, Down, Ensurers, Stoppers
<1>6. WorkersKnowTheirs'
  BY <1>0, <1>t, <1>f, <1>w, <1>n DEF Orderly, WorkersKnowTheirs, RolesAreKept, At, Ensures, Detaching, Stopping, Replaces, Watches, Down, Ensurers, Stoppers
<1>7. RequestsKnowTheirs'
  BY <1>0, <1>t, <1>f, <1>w, <1>n DEF Orderly, RequestsKnowTheirs, RolesAreKept, At, Ensures, Detaching, Stopping, Replaces, Watches, Down, Ensurers, Stoppers
<1>8. DetachedIsBare'
  BY <1>0, <1>t, <1>f, <1>w, <1>n DEF Orderly, DetachedIsBare, RolesAreKept, At, Ensures, Detaching, Stopping, Replaces, Watches, Down, Ensurers, Stoppers
<1>9. NobodyIsRegistered'
  BY <1>0, <1>t, <1>f, <1>w, <1>n DEF Orderly, NobodyIsRegistered, RolesAreKept, At, Ensures, Detaching, Stopping, Replaces, Watches, Down, Ensurers, Stoppers
<1>10. DownIsDown'
  BY <1>0, <1>t, <1>f, <1>w, <1>n DEF Orderly, DownIsDown, RolesAreKept, At, Ensures, Detaching, Stopping, Replaces, Watches, Down, Ensurers, Stoppers
<1>11. StoppedIsDead'
  BY <1>0, <1>t, <1>f, <1>w, <1>n DEF Orderly, StoppedIsDead, RolesAreKept, At, Ensures, Detaching, Stopping, Replaces, Watches, Down, Ensurers, Stoppers
<1>12. LiveIsKnown'
  BY <1>0, <1>t, <1>f, <1>w, <1>n DEF Orderly, LiveIsKnown, RolesAreKept, At, Ensures, Detaching, Stopping, Replaces, Watches, Down, Ensurers, Stoppers
<1>13. RegisteredIsServed'
  BY <1>0, <1>t, <1>f, <1>w, <1>n DEF Orderly, RegisteredIsServed, RolesAreKept, At, Ensures, Detaching, Stopping, Replaces, Watches, Down, Ensurers, Stoppers
<1> QED
  BY <1>0, <1>1, <1>2, <1>3, <1>4, <1>5, <1>6, <1>7, <1>8, <1>9, <1>10, <1>11, <1>12, <1>13, <1>f DEF Orderly


\* What a kill or a reap waited for has ended.
LEMMA StopsAwaited ==
  ASSUME LifeTypeOK, Orderly, NEW h \in Handlers, StopAwaits(h)
  PROVE  Orderly'
<1>0. LifeTypeOK /\ Orderly
  OBVIOUS
<1>t. /\ registered # 0 => registered \in Container
      /\ \A g \in Handlers : handler[g].at \in {"stale", "detached", "attach"} => handler[g].obj \in Container
      /\ \A m \in Monitors : monitor[m].at # "off" => monitor[m].obj \in Container
  BY OrderlyShape
<1>xh. handler \in [Handlers -> Handler] /\ state \in [Container -> State] /\ monitor \in [Monitors -> Monitor]
  BY DEF LifeTypeOK
<1>xe. handler[h].at = "await" /\ handler' = [handler EXCEPT ![h].at = "rows"]
  BY DEF StopAwaits, Goes, At
<1>f. /\ handler[h].at = "await" /\ state' = state /\ monitor' = monitor
      /\ handler'[h].at = "rows" /\ handler'[h].by = handler[h].by /\ handler'[h].obj = handler[h].obj
      /\ handler'[h].proc = handler[h].proc /\ handler'[h].mon = handler[h].mon /\ \A g \in Handlers : g # h => handler'[g] = handler[g]
      /\ live' \in {live, 0} /\ (handler[h].proc = 0 \/ handler[h].proc # live')
      /\ spawned' = spawned /\ registered' = registered /\ abandoned' = abandoned
  BY <1>xh, <1>xe DEF StopAwaits, Handler, Exited
<1>n. /\ spawned \in Nat /\ live \in Nat /\ registered \in Nat /\ 0 \notin Monitors /\ 0 \notin Container
      /\ \A c \in Container : state[c].mon \in Monitors \cup {0}
      /\ \A g \in Handlers : handler[g].mon \in Monitors \cup {0}
  BY LifeShape
<1>1. RolesAreKept'
  BY <1>0, <1>t, <1>f, <1>n DEF Orderly, RolesAreKept, At, Ensures, Detaching, Stopping, Replaces, Watches, Down, Ensurers, Stoppers
<1>2. NumbersAreBounded'
  BY <1>0, <1>t, <1>f, <1>n DEF Orderly, NumbersAreBounded, RolesAreKept, At, Ensures, Detaching, Stopping, Replaces, Watches, Down, Ensurers, Stoppers
<1>3. NewIsUnknown'
  BY <1>0, <1>t, <1>f, <1>n DEF Orderly, NewIsUnknown, RolesAreKept, At, Ensures, Detaching, Stopping, Replaces, Watches, Down, Ensurers, Stoppers
<1>4. OneAtWork'
  BY <1>0, <1>t, <1>f, <1>n DEF Orderly, OneAtWork, RolesAreKept, At, Ensures, Detaching, Stopping, Replaces, Watches, Down, Ensurers, Stoppers
<1>5. MonitorsAreHeld'
  BY <1>0, <1>t, <1>f, <1>n DEF Orderly, MonitorsAreHeld, RolesAreKept, At, Ensures, Detaching, Stopping, Replaces, Watches, Down, Ensurers, Stoppers
<1>6. WorkersKnowTheirs'
  BY <1>0, <1>t, <1>f, <1>n DEF Orderly, WorkersKnowTheirs, RolesAreKept, At, Ensures, Detaching, Stopping, Replaces, Watches, Down, Ensurers, Stoppers
<1>7. RequestsKnowTheirs'
  BY <1>0, <1>t, <1>f, <1>n DEF Orderly, RequestsKnowTheirs, RolesAreKept, At, Ensures, Detaching, Stopping, Replaces, Watches, Down, Ensurers, Stoppers
<1>8. DetachedIsBare'
  BY <1>0, <1>t, <1>f, <1>n DEF Orderly, DetachedIsBare, RolesAreKept, At, Ensures, Detaching, Stopping, Replaces, Watches, Down, Ensurers, Stoppers
<1>9. NobodyIsRegistered'
  BY <1>0, <1>t, <1>f, <1>n DEF Orderly, NobodyIsRegistered, RolesAreKept, At, Ensures, Detaching, Stopping, Replaces, Watches, Down, Ensurers, Stoppers
<1>10. DownIsDown'
  BY <1>0, <1>t, <1>f, <1>n DEF Orderly, DownIsDown, RolesAreKept, At, Ensures, Detaching, Stopping, Replaces, Watches, Down, Ensurers, Stoppers
<1>11. StoppedIsDead'
  BY <1>0, <1>t, <1>f, <1>n DEF Orderly, StoppedIsDead, RolesAreKept, At, Ensures, Detaching, Stopping, Replaces, Watches, Down, Ensurers, Stoppers
<1>12. LiveIsKnown'
  BY <1>0, <1>t, <1>f, <1>n DEF Orderly, LiveIsKnown, RolesAreKept, At, Ensures, Detaching, Stopping, Replaces, Watches, Down, Ensurers, Stoppers
<1>13. RegisteredIsServed'
  BY <1>0, <1>t, <1>f, <1>n DEF Orderly, RegisteredIsServed, RolesAreKept, At, Ensures, Detaching, Stopping, Replaces, Watches, Down, Ensurers, Stoppers
<1> QED
  BY <1>0, <1>1, <1>2, <1>3, <1>4, <1>5, <1>6, <1>7, <1>8, <1>9, <1>10, <1>11, <1>12, <1>13, <1>f DEF Orderly


\* A kill or a reap has finished the rows.
LEMMA StopsInRows ==
  ASSUME LifeTypeOK, Orderly, NEW h \in Handlers, StopRows(h)
  PROVE  Orderly'
<1>0. LifeTypeOK /\ Orderly
  OBVIOUS
<1>t. /\ registered # 0 => registered \in Container
      /\ \A g \in Handlers : handler[g].at \in {"stale", "detached", "attach"} => handler[g].obj \in Container
      /\ \A m \in Monitors : monitor[m].at # "off" => monitor[m].obj \in Container
  BY OrderlyShape
<1>xh. handler \in [Handlers -> Handler] /\ state \in [Container -> State] /\ monitor \in [Monitors -> Monitor]
  BY DEF LifeTypeOK
<1>xe. handler[h].at = "rows" /\ handler' = [handler EXCEPT ![h].at = "pop"]
  BY DEF StopRows, Goes, At
<1>f. /\ handler[h].at = "rows" /\ state' = state /\ monitor' = monitor
      /\ handler'[h].at = "pop" /\ handler'[h].by = handler[h].by /\ handler'[h].obj = handler[h].obj
      /\ handler'[h].proc = handler[h].proc /\ handler'[h].mon = handler[h].mon /\ \A g \in Handlers : g # h => handler'[g] = handler[g]
      /\ live' = live /\ spawned' = spawned /\ registered' = registered /\ abandoned' = abandoned
  BY <1>xh, <1>xe DEF StopRows, Handler
<1>n. /\ spawned \in Nat /\ live \in Nat /\ registered \in Nat /\ 0 \notin Monitors /\ 0 \notin Container
      /\ \A c \in Container : state[c].mon \in Monitors \cup {0}
      /\ \A g \in Handlers : handler[g].mon \in Monitors \cup {0}
  BY LifeShape
<1>1. RolesAreKept'
  BY <1>0, <1>t, <1>f, <1>n DEF Orderly, RolesAreKept, At, Ensures, Detaching, Stopping, Replaces, Watches, Down, Ensurers, Stoppers
<1>2. NumbersAreBounded'
  BY <1>0, <1>t, <1>f, <1>n DEF Orderly, NumbersAreBounded, RolesAreKept, At, Ensures, Detaching, Stopping, Replaces, Watches, Down, Ensurers, Stoppers
<1>3. NewIsUnknown'
  BY <1>0, <1>t, <1>f, <1>n DEF Orderly, NewIsUnknown, RolesAreKept, At, Ensures, Detaching, Stopping, Replaces, Watches, Down, Ensurers, Stoppers
<1>4. OneAtWork'
  BY <1>0, <1>t, <1>f, <1>n DEF Orderly, OneAtWork, RolesAreKept, At, Ensures, Detaching, Stopping, Replaces, Watches, Down, Ensurers, Stoppers
<1>5. MonitorsAreHeld'
  BY <1>0, <1>t, <1>f, <1>n DEF Orderly, MonitorsAreHeld, RolesAreKept, At, Ensures, Detaching, Stopping, Replaces, Watches, Down, Ensurers, Stoppers
<1>6. WorkersKnowTheirs'
  BY <1>0, <1>t, <1>f, <1>n DEF Orderly, WorkersKnowTheirs, RolesAreKept, At, Ensures, Detaching, Stopping, Replaces, Watches, Down, Ensurers, Stoppers
<1>7. RequestsKnowTheirs'
  BY <1>0, <1>t, <1>f, <1>n DEF Orderly, RequestsKnowTheirs, RolesAreKept, At, Ensures, Detaching, Stopping, Replaces, Watches, Down, Ensurers, Stoppers
<1>8. DetachedIsBare'
  BY <1>0, <1>t, <1>f, <1>n DEF Orderly, DetachedIsBare, RolesAreKept, At, Ensures, Detaching, Stopping, Replaces, Watches, Down, Ensurers, Stoppers
<1>9. NobodyIsRegistered'
  BY <1>0, <1>t, <1>f, <1>n DEF Orderly, NobodyIsRegistered, RolesAreKept, At, Ensures, Detaching, Stopping, Replaces, Watches, Down, Ensurers, Stoppers
<1>10. DownIsDown'
  BY <1>0, <1>t, <1>f, <1>n DEF Orderly, DownIsDown, RolesAreKept, At, Ensures, Detaching, Stopping, Replaces, Watches, Down, Ensurers, Stoppers
<1>11. StoppedIsDead'
  BY <1>0, <1>t, <1>f, <1>n DEF Orderly, StoppedIsDead, RolesAreKept, At, Ensures, Detaching, Stopping, Replaces, Watches, Down, Ensurers, Stoppers
<1>12. LiveIsKnown'
  BY <1>0, <1>t, <1>f, <1>n DEF Orderly, LiveIsKnown, RolesAreKept, At, Ensures, Detaching, Stopping, Replaces, Watches, Down, Ensurers, Stoppers
<1>13. RegisteredIsServed'
  BY <1>0, <1>t, <1>f, <1>n DEF Orderly, RegisteredIsServed, RolesAreKept, At, Ensures, Detaching, Stopping, Replaces, Watches, Down, Ensurers, Stoppers
<1> QED
  BY <1>0, <1>1, <1>2, <1>3, <1>4, <1>5, <1>6, <1>7, <1>8, <1>9, <1>10, <1>11, <1>12, <1>13, <1>f DEF Orderly


\* A kill or a reap finds that the worker has gone.
LEMMA PopsNobody ==
  ASSUME LifeTypeOK, Orderly, NEW h \in Handlers, StopPops(h), registered = 0
  PROVE  Orderly'
<1>0. LifeTypeOK /\ Orderly
  OBVIOUS
<1>t. /\ registered # 0 => registered \in Container
      /\ \A g \in Handlers : handler[g].at \in {"stale", "detached", "attach"} => handler[g].obj \in Container
      /\ \A m \in Monitors : monitor[m].at # "off" => monitor[m].obj \in Container
  BY OrderlyShape
<1>xh. handler \in [Handlers -> Handler] /\ state \in [Container -> State] /\ monitor \in [Monitors -> Monitor]
  BY DEF LifeTypeOK
<1>xe. handler[h].at = "pop" /\ handler' = [handler EXCEPT ![h] = NoHandler] /\ registered' = 0 /\ state' = state
  BY DEF StopPops, Finishes, At
<1>f. /\ handler[h].at = "pop" /\ registered = 0 /\ state' = state /\ monitor' = monitor
      /\ handler'[h].at = "off" /\ handler'[h].by = "page" /\ handler'[h].obj = 0 /\ handler'[h].proc = 0 /\ handler'[h].mon = 0
      /\ \A g \in Handlers : g # h => handler'[g] = handler[g]
      /\ live' = live /\ spawned' = spawned /\ registered' = registered /\ abandoned' = abandoned
  BY <1>xh, <1>xe, LifeRecords DEF StopPops
<1>n. /\ spawned \in Nat /\ live \in Nat /\ registered \in Nat /\ 0 \notin Monitors /\ 0 \notin Container
      /\ \A c \in Container : state[c].mon \in Monitors \cup {0}
      /\ \A g \in Handlers : handler[g].mon \in Monitors \cup {0}
  BY LifeShape
<1>1. RolesAreKept'
  BY <1>0, <1>t, <1>f, <1>n DEF Orderly, RolesAreKept, At, Ensures, Detaching, Stopping, Replaces, Watches, Down, Ensurers, Stoppers
<1>2. NumbersAreBounded'
  BY <1>0, <1>t, <1>f, <1>n DEF Orderly, NumbersAreBounded, RolesAreKept, At, Ensures, Detaching, Stopping, Replaces, Watches, Down, Ensurers, Stoppers
<1>3. NewIsUnknown'
  BY <1>0, <1>t, <1>f, <1>n DEF Orderly, NewIsUnknown, RolesAreKept, At, Ensures, Detaching, Stopping, Replaces, Watches, Down, Ensurers, Stoppers
<1>4. OneAtWork'
  BY <1>0, <1>t, <1>f, <1>n DEF Orderly, OneAtWork, RolesAreKept, At, Ensures, Detaching, Stopping, Replaces, Watches, Down, Ensurers, Stoppers
<1>5. MonitorsAreHeld'
  BY <1>0, <1>t, <1>f, <1>n DEF Orderly, MonitorsAreHeld, RolesAreKept, At, Ensures, Detaching, Stopping, Replaces, Watches, Down, Ensurers, Stoppers
<1>6. WorkersKnowTheirs'
  BY <1>0, <1>t, <1>f, <1>n DEF Orderly, WorkersKnowTheirs, RolesAreKept, At, Ensures, Detaching, Stopping, Replaces, Watches, Down, Ensurers, Stoppers
<1>7. RequestsKnowTheirs'
  BY <1>0, <1>t, <1>f, <1>n DEF Orderly, RequestsKnowTheirs, RolesAreKept, At, Ensures, Detaching, Stopping, Replaces, Watches, Down, Ensurers, Stoppers
<1>8. DetachedIsBare'
  BY <1>0, <1>t, <1>f, <1>n DEF Orderly, DetachedIsBare, RolesAreKept, At, Ensures, Detaching, Stopping, Replaces, Watches, Down, Ensurers, Stoppers
<1>9. NobodyIsRegistered'
  BY <1>0, <1>t, <1>f, <1>n DEF Orderly, NobodyIsRegistered, RolesAreKept, At, Ensures, Detaching, Stopping, Replaces, Watches, Down, Ensurers, Stoppers
<1>10. DownIsDown'
  BY <1>0, <1>t, <1>f, <1>n DEF Orderly, DownIsDown, RolesAreKept, At, Ensures, Detaching, Stopping, Replaces, Watches, Down, Ensurers, Stoppers
<1>11. StoppedIsDead'
  BY <1>0, <1>t, <1>f, <1>n DEF Orderly, StoppedIsDead, RolesAreKept, At, Ensures, Detaching, Stopping, Replaces, Watches, Down, Ensurers, Stoppers
<1>12. LiveIsKnown'
  BY <1>0, <1>t, <1>f, <1>n DEF Orderly, LiveIsKnown, RolesAreKept, At, Ensures, Detaching, Stopping, Replaces, Watches, Down, Ensurers, Stoppers
<1>13. RegisteredIsServed'
  BY <1>0, <1>t, <1>f, <1>n DEF Orderly, RegisteredIsServed, RolesAreKept, At, Ensures, Detaching, Stopping, Replaces, Watches, Down, Ensurers, Stoppers
<1> QED
  BY <1>0, <1>1, <1>2, <1>3, <1>4, <1>5, <1>6, <1>7, <1>8, <1>9, <1>10, <1>11, <1>12, <1>13, <1>f DEF Orderly


\* A kill or a reap takes the worker it has waited for out of the registry.
LEMMA Pops ==
  ASSUME LifeTypeOK, Orderly, NEW h \in Handlers, StopPops(h), registered # 0, ~raced'
  PROVE  Orderly'
<1>0. LifeTypeOK /\ Orderly
  OBVIOUS
<1>t. /\ registered # 0 => registered \in Container
      /\ \A g \in Handlers : handler[g].at \in {"stale", "detached", "attach"} => handler[g].obj \in Container
      /\ \A m \in Monitors : monitor[m].at # "off" => monitor[m].obj \in Container
  BY OrderlyShape
<1>xh. handler \in [Handlers -> Handler] /\ state \in [Container -> State] /\ monitor \in [Monitors -> Monitor]
  BY DEF LifeTypeOK
<1> DEFINE s == [state[registered] EXCEPT !.loop = FALSE, !.mon = 0]
           k == [handler[h] EXCEPT !.at = "cancel", !.loop = state[registered].loop, !.mon = state[registered].mon]
<1>xs. /\ s.proc = state[registered].proc /\ s.stop = state[registered].stop /\ s.loop = FALSE /\ s.mon = 0
       /\ k.at = "cancel" /\ k.by = handler[h].by /\ k.obj = handler[h].obj /\ k.proc = handler[h].proc /\ k.mon = state[registered].mon
  BY <1>xh, <1>t DEF State, Handler
<1>xe. state' = [state EXCEPT ![registered] = s] /\ handler' = [handler EXCEPT ![h] = k]
  BY DEF StopPops
<1> HIDE DEF s, k
<1>f. /\ handler[h].at = "pop" /\ registered # 0 /\ state[registered].proc = handler[h].proc /\ registered' = 0
      /\ handler'[h].at = "cancel" /\ handler'[h].by = handler[h].by /\ handler'[h].obj = handler[h].obj
      /\ handler'[h].proc = handler[h].proc /\ handler'[h].mon = state[registered].mon /\ \A g \in Handlers : g # h => handler'[g] = handler[g]
      /\ live' = live /\ spawned' = spawned /\ monitor' = monitor /\ abandoned' = abandoned
  BY <1>xh, <1>xe, <1>xs DEF StopPops, At
<1>w. \A c \in Container : /\ state'[c].stop = state[c].stop /\ state'[c].proc = state[c].proc
                           /\ c = registered => ~state'[c].loop /\ state'[c].mon = 0
                           /\ c # registered => state'[c].loop = state[c].loop /\ state'[c].mon = state[c].mon
  BY <1>xh, <1>xe, <1>xs, <1>t
<1>k. /\ state[registered].proc # live
      /\ \A g \in Handlers : handler[g].at \notin {"cancel", "register"} /\ (handler[g].at = "stale" => handler[g].by \notin {"page", "headless"})
  BY <1>0, <1>f DEF Orderly, RolesAreKept, NumbersAreBounded, NobodyIsRegistered, StoppedIsDead, Ensures, At, Ensurers
<1>n. /\ spawned \in Nat /\ live \in Nat /\ registered \in Nat /\ 0 \notin Monitors /\ 0 \notin Container
      /\ \A c \in Container : state[c].mon \in Monitors \cup {0}
      /\ \A g \in Handlers : handler[g].mon \in Monitors \cup {0}
  BY LifeShape
<1>1. RolesAreKept'
  BY <1>0, <1>t, <1>f, <1>w, <1>k, <1>n DEF Orderly, RolesAreKept, At, Ensures, Detaching, Stopping, Replaces, Watches, Down, Ensurers, Stoppers
<1>2. NumbersAreBounded'
  BY <1>0, <1>t, <1>f, <1>w, <1>k, <1>n DEF Orderly, NumbersAreBounded, RolesAreKept, At, Ensures, Detaching, Stopping, Replaces, Watches, Down, Ensurers, Stoppers
<1>3. NewIsUnknown'
  BY <1>0, <1>t, <1>f, <1>w, <1>k, <1>n DEF Orderly, NewIsUnknown, RolesAreKept, At, Ensures, Detaching, Stopping, Replaces, Watches, Down, Ensurers, Stoppers
<1>4. OneAtWork'
  BY <1>0, <1>t, <1>f, <1>w, <1>k, <1>n DEF Orderly, OneAtWork, RolesAreKept, At, Ensures, Detaching, Stopping, Replaces, Watches, Down, Ensurers, Stoppers
<1>5. MonitorsAreHeld'
  BY <1>0, <1>t, <1>f, <1>w, <1>k, <1>n DEF Orderly, MonitorsAreHeld, RolesAreKept, At, Ensures, Detaching, Stopping, Replaces, Watches, Down, Ensurers, Stoppers
<1>6. WorkersKnowTheirs'
  BY <1>0, <1>t, <1>f, <1>w, <1>k, <1>n DEF Orderly, WorkersKnowTheirs, RolesAreKept, At, Ensures, Detaching, Stopping, Replaces, Watches, Down, Ensurers, Stoppers
<1>7. RequestsKnowTheirs'
  BY <1>0, <1>t, <1>f, <1>w, <1>k, <1>n DEF Orderly, RequestsKnowTheirs, WorkersKnowTheirs, RolesAreKept, At, Ensures, Detaching, Stopping, Replaces, Watches, Down, Ensurers, Stoppers
<1>8. DetachedIsBare'
  BY <1>0, <1>t, <1>f, <1>w, <1>k, <1>n DEF Orderly, DetachedIsBare, RolesAreKept, At, Ensures, Detaching, Stopping, Replaces, Watches, Down, Ensurers, Stoppers
<1>9. NobodyIsRegistered'
  BY <1>0, <1>t, <1>f, <1>w, <1>k, <1>n DEF Orderly, NobodyIsRegistered, RolesAreKept, At, Ensures, Detaching, Stopping, Replaces, Watches, Down, Ensurers, Stoppers
<1>10. DownIsDown'
  BY <1>0, <1>t, <1>f, <1>w, <1>k, <1>n DEF Orderly, DownIsDown, RolesAreKept, At, Ensures, Detaching, Stopping, Replaces, Watches, Down, Ensurers, Stoppers
<1>11. StoppedIsDead'
  BY <1>0, <1>t, <1>f, <1>w, <1>k, <1>n DEF Orderly, StoppedIsDead, RolesAreKept, At, Ensures, Detaching, Stopping, Replaces, Watches, Down, Ensurers, Stoppers
<1>12. LiveIsKnown'
  BY <1>0, <1>t, <1>f, <1>w, <1>k, <1>n DEF Orderly, LiveIsKnown, RolesAreKept, At, Ensures, Detaching, Stopping, Replaces, Watches, Down, Ensurers, Stoppers
<1>13. RegisteredIsServed'
  BY <1>0, <1>t, <1>f, <1>w, <1>k, <1>n DEF Orderly, RegisteredIsServed, RolesAreKept, At, Ensures, Detaching, Stopping, Replaces, Watches, Down, Ensurers, Stoppers
<1> QED
  BY <1>0, <1>1, <1>2, <1>3, <1>4, <1>5, <1>6, <1>7, <1>8, <1>9, <1>10, <1>11, <1>12, <1>13, <1>f DEF Orderly


\* A worker that is dead and has no monitor is taken out of the registry.
LEMMA ChecksLiveness ==
  ASSUME LifeTypeOK, Orderly, NEW h \in Handlers, CheckLiveness(h)
  PROVE  Orderly'
<1>0. LifeTypeOK /\ Orderly
  OBVIOUS
<1>t. /\ registered # 0 => registered \in Container
      /\ \A g \in Handlers : handler[g].at \in {"stale", "detached", "attach"} => handler[g].obj \in Container
      /\ \A m \in Monitors : monitor[m].at # "off" => monitor[m].obj \in Container
  BY OrderlyShape
<1>xh. handler \in [Handlers -> Handler] /\ state \in [Container -> State] /\ monitor \in [Monitors -> Monitor]
  BY DEF LifeTypeOK
<1>xe. handler' = [handler EXCEPT ![h] = [NoHandler EXCEPT !.at = "stale", !.by = "check",
                                                          !.obj = registered, !.proc = state[registered].proc]]
  BY DEF CheckLiveness
<1>f. /\ handler[h].at = "off" /\ registered # 0 /\ state[registered].proc # live /\ state[registered].mon = 0 /\ registered' = 0
      /\ state' = state /\ monitor' = monitor
      /\ handler'[h].at = "stale" /\ handler'[h].by = "check" /\ handler'[h].obj = registered
      /\ handler'[h].proc = state[registered].proc /\ handler'[h].mon = 0 /\ \A g \in Handlers : g # h => handler'[g] = handler[g]
      /\ live' = live /\ spawned' = spawned /\ abandoned' = abandoned
  BY <1>xh, <1>xe DEF CheckLiveness, At, Exited, NoHandler
<1>k. \A g \in Handlers : handler[g].at \notin {"run", "register"}
  BY <1>0, <1>f DEF Orderly, RolesAreKept, NobodyIsRegistered, Ensures, At, Ensurers
<1>n. /\ spawned \in Nat /\ live \in Nat /\ registered \in Nat /\ 0 \notin Monitors /\ 0 \notin Container
      /\ \A c \in Container : state[c].mon \in Monitors \cup {0}
      /\ \A g \in Handlers : handler[g].mon \in Monitors \cup {0}
  BY LifeShape
<1>1. RolesAreKept'
  BY <1>0, <1>t, <1>f, <1>k, <1>n DEF Orderly, RolesAreKept, At, Ensures, Detaching, Stopping, Replaces, Watches, Down, Ensurers, Stoppers
<1>2. NumbersAreBounded'
  BY <1>0, <1>t, <1>f, <1>k, <1>n DEF Orderly, NumbersAreBounded, RolesAreKept, At, Ensures, Detaching, Stopping, Replaces, Watches, Down, Ensurers, Stoppers
<1>3. NewIsUnknown'
  BY <1>0, <1>t, <1>f, <1>k, <1>n DEF Orderly, NewIsUnknown, RolesAreKept, At, Ensures, Detaching, Stopping, Replaces, Watches, Down, Ensurers, Stoppers
<1>4. OneAtWork'
  BY <1>0, <1>t, <1>f, <1>k, <1>n DEF Orderly, OneAtWork, RolesAreKept, At, Ensures, Detaching, Stopping, Replaces, Watches, Down, Ensurers, Stoppers
<1>5. MonitorsAreHeld'
  BY <1>0, <1>t, <1>f, <1>k, <1>n DEF Orderly, MonitorsAreHeld, RolesAreKept, At, Ensures, Detaching, Stopping, Replaces, Watches, Down, Ensurers, Stoppers
<1>6. WorkersKnowTheirs'
  BY <1>0, <1>t, <1>f, <1>k, <1>n DEF Orderly, WorkersKnowTheirs, RolesAreKept, At, Ensures, Detaching, Stopping, Replaces, Watches, Down, Ensurers, Stoppers
<1>7. RequestsKnowTheirs'
  BY <1>0, <1>t, <1>f, <1>k, <1>n DEF Orderly, RequestsKnowTheirs, RolesAreKept, At, Ensures, Detaching, Stopping, Replaces, Watches, Down, Ensurers, Stoppers
<1>8. DetachedIsBare'
  BY <1>0, <1>t, <1>f, <1>k, <1>n DEF Orderly, DetachedIsBare, RolesAreKept, At, Ensures, Detaching, Stopping, Replaces, Watches, Down, Ensurers, Stoppers
<1>9. NobodyIsRegistered'
  BY <1>0, <1>t, <1>f, <1>k, <1>n DEF Orderly, NobodyIsRegistered, RolesAreKept, At, Ensures, Detaching, Stopping, Replaces, Watches, Down, Ensurers, Stoppers
<1>10. DownIsDown'
  BY <1>0, <1>t, <1>f, <1>k, <1>n DEF Orderly, DownIsDown, RolesAreKept, At, Ensures, Detaching, Stopping, Replaces, Watches, Down, Ensurers, Stoppers
<1>11. StoppedIsDead'
  BY <1>0, <1>t, <1>f, <1>k, <1>n DEF Orderly, StoppedIsDead, RolesAreKept, At, Ensures, Detaching, Stopping, Replaces, Watches, Down, Ensurers, Stoppers
<1>12. LiveIsKnown'
  BY <1>0, <1>t, <1>f, <1>k, <1>n DEF Orderly, LiveIsKnown, RolesAreKept, At, Ensures, Detaching, Stopping, Replaces, Watches, Down, Ensurers, Stoppers
<1>13. RegisteredIsServed'
  BY <1>0, <1>t, <1>f, <1>k, <1>n DEF Orderly, RegisteredIsServed, RolesAreKept, At, Ensures, Detaching, Stopping, Replaces, Watches, Down, Ensurers, Stoppers
<1> QED
  BY <1>0, <1>1, <1>2, <1>3, <1>4, <1>5, <1>6, <1>7, <1>8, <1>9, <1>10, <1>11, <1>12, <1>13, <1>f DEF Orderly


\* A monitor ends that has no worker to care for.
LEMMA MonitorEnding ==
  ASSUME LifeTypeOK, Orderly, NEW m \in Monitors, MonitorEnds(m), UNCHANGED <<spawned, abandoned>>,
         NEW states \in [Container -> State],
         \A c \in Container : /\ states[c].proc = state[c].proc /\ states[c].mon = state[c].mon
                              /\ states[c].loop = state[c].loop /\ states[c].stop = state[c].stop,
         state' = WithoutMonitor(states, m),
         live' \in {live, 0}, registered' \in {registered, 0}, monitor[m].at # "off",
         \/ /\ monitor[m].at = "wait" /\ live' = live /\ registered' = registered
            /\ registered # monitor[m].obj \/ state[registered].stop
         \/ /\ monitor[m].at # "wait" /\ registered' # monitor[m].obj
            /\ registered' = registered \/ registered = monitor[m].obj
            /\ monitor[m].at = "assign" => live' = 0
  PROVE  Orderly'
<1>0. LifeTypeOK /\ Orderly
  OBVIOUS
<1>t. /\ registered # 0 => registered \in Container
      /\ \A g \in Handlers : handler[g].at \in {"stale", "detached", "attach"} => handler[g].obj \in Container
      /\ \A n \in Monitors : monitor[n].at # "off" => monitor[n].obj \in Container
  BY OrderlyShape
<1>xh. handler \in [Handlers -> Handler] /\ state \in [Container -> State] /\ monitor \in [Monitors -> Monitor]
  BY DEF LifeTypeOK
<1>f. /\ monitor[m].at # "off" /\ live' \in {live, 0} /\ registered' \in {registered, 0}
      /\ spawned' = spawned /\ abandoned' = abandoned
  OBVIOUS
<1>g. \/ /\ monitor[m].at = "wait" /\ live' = live /\ registered' = registered
         /\ registered # monitor[m].obj \/ state[registered].stop
      \/ /\ monitor[m].at # "wait" /\ registered' # monitor[m].obj
         /\ registered' = registered \/ registered = monitor[m].obj
         /\ monitor[m].at = "assign" => live' = 0
  OBVIOUS
<1>w. \A c \in Container : /\ state'[c].proc = state[c].proc /\ state'[c].stop = state[c].stop /\ state'[c].loop = state[c].loop
                           /\ state'[c].mon = IF state[c].mon = m THEN 0 ELSE state[c].mon
  BY WithoutOne
<1>m. /\ \A n \in Monitors : n # m => monitor'[n] = monitor[n]
      /\ monitor'[m].at = "off" /\ monitor'[m].obj = 0 /\ monitor'[m].new = 0
  BY <1>xh, LifeRecords DEF MonitorEnds
<1> DEFINE q(g) == [handler[g] EXCEPT !.mon = IF @ = m THEN 0 ELSE @]
<1>xi. ASSUME NEW g \in Handlers
       PROVE  /\ q(g).at = handler[g].at /\ q(g).by = handler[g].by /\ q(g).obj = handler[g].obj /\ q(g).proc = handler[g].proc
              /\ q(g).mon = IF handler[g].mon = m THEN 0 ELSE handler[g].mon
  <2>1. handler[g] \in Handler
    BY <1>xh
  <2> QED
    BY <2>1 DEF Handler
<1>xg. \A g \in Handlers : handler'[g] = q(g)
  BY DEF MonitorEnds
<1> HIDE DEF q
<1>h. \A g \in Handlers : /\ handler'[g].at = handler[g].at /\ handler'[g].by = handler[g].by
                           /\ handler'[g].obj = handler[g].obj /\ handler'[g].proc = handler[g].proc
                           /\ handler'[g].mon = IF handler[g].mon = m THEN 0 ELSE handler[g].mon
  BY <1>xi, <1>xg
<1>n. /\ spawned \in Nat /\ live \in Nat /\ registered \in Nat /\ 0 \notin Monitors /\ 0 \notin Container
      /\ \A c \in Container : state[c].mon \in Monitors \cup {0}
      /\ \A g \in Handlers : handler[g].mon \in Monitors \cup {0}
  BY LifeShape
<1>k. \A n \in Monitors : n # m => monitor[n].at = "off"
  BY <1>0, <1>f DEF Orderly, OneAtWork, Watches
<1>1. RolesAreKept'
  BY <1>0, <1>t, <1>f, <1>g, <1>w, <1>m, <1>h, <1>n, <1>k DEF Orderly, RolesAreKept, At, Ensures, Detaching, Stopping, Replaces, Watches, Down, Ensurers, Stoppers
<1>2. NumbersAreBounded'
  BY <1>0, <1>t, <1>f, <1>g, <1>w, <1>m, <1>h, <1>n, <1>k DEF Orderly, NumbersAreBounded, RolesAreKept, At, Ensures, Detaching, Stopping, Replaces, Watches, Down, Ensurers, Stoppers
<1>3. NewIsUnknown'
  BY <1>0, <1>t, <1>f, <1>g, <1>w, <1>m, <1>h, <1>n, <1>k DEF Orderly, NewIsUnknown, RolesAreKept, At, Ensures, Detaching, Stopping, Replaces, Watches, Down, Ensurers, Stoppers
<1>4. OneAtWork'
  BY <1>0, <1>t, <1>f, <1>g, <1>w, <1>m, <1>h, <1>n, <1>k DEF Orderly, OneAtWork, RolesAreKept, At, Ensures, Detaching, Stopping, Replaces, Watches, Down, Ensurers, Stoppers
<1>5. MonitorsAreHeld'
  BY <1>0, <1>t, <1>f, <1>g, <1>w, <1>m, <1>h, <1>n, <1>k DEF Orderly, MonitorsAreHeld, RolesAreKept, At, Ensures, Detaching, Stopping, Replaces, Watches, Down, Ensurers, Stoppers
<1>6. WorkersKnowTheirs'
  BY <1>0, <1>t, <1>f, <1>g, <1>w, <1>m, <1>h, <1>n, <1>k DEF Orderly, WorkersKnowTheirs, RolesAreKept, At, Ensures, Detaching, Stopping, Replaces, Watches, Down, Ensurers, Stoppers
<1>7. RequestsKnowTheirs'
  BY <1>0, <1>t, <1>f, <1>g, <1>w, <1>m, <1>h, <1>n, <1>k DEF Orderly, RequestsKnowTheirs, RolesAreKept, At, Ensures, Detaching, Stopping, Replaces, Watches, Down, Ensurers, Stoppers
<1>8. DetachedIsBare'
  BY <1>0, <1>t, <1>f, <1>g, <1>w, <1>m, <1>h, <1>n, <1>k DEF Orderly, DetachedIsBare, RolesAreKept, At, Ensures, Detaching, Stopping, Replaces, Watches, Down, Ensurers, Stoppers
<1>9. NobodyIsRegistered'
  BY <1>0, <1>t, <1>f, <1>g, <1>w, <1>m, <1>h, <1>n, <1>k DEF Orderly, NobodyIsRegistered, RolesAreKept, At, Ensures, Detaching, Stopping, Replaces, Watches, Down, Ensurers, Stoppers
<1>10. DownIsDown'
  BY <1>0, <1>t, <1>f, <1>g, <1>w, <1>m, <1>h, <1>n, <1>k DEF Orderly, DownIsDown, RolesAreKept, At, Ensures, Detaching, Stopping, Replaces, Watches, Down, Ensurers, Stoppers
<1>11. StoppedIsDead'
  BY <1>0, <1>t, <1>f, <1>g, <1>w, <1>m, <1>h, <1>n, <1>k DEF Orderly, StoppedIsDead, RolesAreKept, At, Ensures, Detaching, Stopping, Replaces, Watches, Down, Ensurers, Stoppers
<1>12. LiveIsKnown'
  BY <1>0, <1>t, <1>f, <1>g, <1>w, <1>m, <1>h, <1>n, <1>k DEF Orderly, LiveIsKnown, DownIsDown, RolesAreKept, At, Ensures, Detaching, Stopping, Replaces, Watches, Down, Ensurers, Stoppers
<1>13. RegisteredIsServed'
  BY <1>0, <1>t, <1>f, <1>g, <1>w, <1>m, <1>h, <1>n, <1>k DEF Orderly, RegisteredIsServed, WorkersKnowTheirs, RolesAreKept, At, Ensures, Detaching, Stopping, Replaces, Watches, Down, Ensurers, Stoppers
<1> QED
  BY <1>0, <1>1, <1>2, <1>3, <1>4, <1>5, <1>6, <1>7, <1>8, <1>9, <1>10, <1>11, <1>12, <1>13, <1>f DEF Orderly


\* A monitor finds that its worker has crashed.
LEMMA CrashNoticed ==
  ASSUME LifeTypeOK, Orderly, NEW m \in Monitors, MonitorWakes(m), registered = monitor[m].obj, ~state[registered].stop
  PROVE  Orderly'
<1>0. LifeTypeOK /\ Orderly
  OBVIOUS
<1>t. /\ registered # 0 => registered \in Container
      /\ \A g \in Handlers : handler[g].at \in {"stale", "detached", "attach"} => handler[g].obj \in Container
      /\ \A n \in Monitors : monitor[n].at # "off" => monitor[n].obj \in Container
  BY OrderlyShape
<1>xh. handler \in [Handlers -> Handler] /\ state \in [Container -> State] /\ monitor \in [Monitors -> Monitor]
  BY DEF LifeTypeOK
<1>xe. /\ monitor[m].at = "wait" /\ monitor[m].proc # live /\ handler' = handler
       /\ state' = [state EXCEPT ![registered].loop = FALSE] /\ monitor' = [monitor EXCEPT ![m].at = "crashed"]
  BY DEF MonitorWakes, Exited
<1>f. /\ monitor[m].at = "wait" /\ monitor[m].proc # live /\ handler' = handler /\ registered = monitor[m].obj /\ ~state[registered].stop
      /\ live' = live /\ spawned' = spawned /\ registered' = registered /\ abandoned' = abandoned
  BY <1>xe DEF MonitorWakes
<1>w. \A c \in Container : /\ state'[c].stop = state[c].stop /\ state'[c].proc = state[c].proc /\ state'[c].mon = state[c].mon
                           /\ c = registered => ~state'[c].loop
                           /\ c # registered => state'[c].loop = state[c].loop
  BY <1>xh, <1>xe, <1>t DEF State
<1>m. /\ \A n \in Monitors : n # m => monitor'[n] = monitor[n]
      /\ monitor'[m].at = "crashed" /\ monitor'[m].obj = monitor[m].obj /\ monitor'[m].new = monitor[m].new
  BY <1>xh, <1>xe DEF Monitor
<1>n. /\ spawned \in Nat /\ live \in Nat /\ registered \in Nat /\ 0 \notin Monitors /\ 0 \notin Container
      /\ \A c \in Container : state[c].mon \in Monitors \cup {0}
      /\ \A g \in Handlers : handler[g].mon \in Monitors \cup {0}
  BY LifeShape
<1>1. RolesAreKept'
  BY <1>0, <1>t, <1>f, <1>w, <1>m, <1>n DEF Orderly, RolesAreKept, At, Ensures, Detaching, Stopping, Replaces, Watches, Down, Ensurers, Stoppers
<1>2. NumbersAreBounded'
  BY <1>0, <1>t, <1>f, <1>w, <1>m, <1>n DEF Orderly, NumbersAreBounded, RolesAreKept, At, Ensures, Detaching, Stopping, Replaces, Watches, Down, Ensurers, Stoppers
<1>3. NewIsUnknown'
  BY <1>0, <1>t, <1>f, <1>w, <1>m, <1>n DEF Orderly, NewIsUnknown, RolesAreKept, At, Ensures, Detaching, Stopping, Replaces, Watches, Down, Ensurers, Stoppers
<1>4. OneAtWork'
  BY <1>0, <1>t, <1>f, <1>w, <1>m, <1>n DEF Orderly, OneAtWork, RolesAreKept, At, Ensures, Detaching, Stopping, Replaces, Watches, Down, Ensurers, Stoppers
<1>5. MonitorsAreHeld'
  BY <1>0, <1>t, <1>f, <1>w, <1>m, <1>n DEF Orderly, MonitorsAreHeld, RolesAreKept, At, Ensures, Detaching, Stopping, Replaces, Watches, Down, Ensurers, Stoppers
<1>6. WorkersKnowTheirs'
  BY <1>0, <1>t, <1>f, <1>w, <1>m, <1>n DEF Orderly, WorkersKnowTheirs, RolesAreKept, At, Ensures, Detaching, Stopping, Replaces, Watches, Down, Ensurers, Stoppers
<1>7. RequestsKnowTheirs'
  BY <1>0, <1>t, <1>f, <1>w, <1>m, <1>n DEF Orderly, RequestsKnowTheirs, RolesAreKept, At, Ensures, Detaching, Stopping, Replaces, Watches, Down, Ensurers, Stoppers
<1>8. DetachedIsBare'
  BY <1>0, <1>t, <1>f, <1>w, <1>m, <1>n DEF Orderly, DetachedIsBare, RolesAreKept, At, Ensures, Detaching, Stopping, Replaces, Watches, Down, Ensurers, Stoppers
<1>9. NobodyIsRegistered'
  BY <1>0, <1>t, <1>f, <1>w, <1>m, <1>n DEF Orderly, NobodyIsRegistered, RolesAreKept, At, Ensures, Detaching, Stopping, Replaces, Watches, Down, Ensurers, Stoppers
<1>10. DownIsDown'
  BY <1>0, <1>t, <1>f, <1>w, <1>m, <1>n DEF Orderly, DownIsDown, RolesAreKept, At, Ensures, Detaching, Stopping, Replaces, Watches, Down, Ensurers, Stoppers
<1>11. StoppedIsDead'
  BY <1>0, <1>t, <1>f, <1>w, <1>m, <1>n DEF Orderly, StoppedIsDead, RolesAreKept, At, Ensures, Detaching, Stopping, Replaces, Watches, Down, Ensurers, Stoppers
<1>12. LiveIsKnown'
  BY <1>0, <1>t, <1>f, <1>w, <1>m, <1>n DEF Orderly, LiveIsKnown, RolesAreKept, At, Ensures, Detaching, Stopping, Replaces, Watches, Down, Ensurers, Stoppers
<1>13. RegisteredIsServed'
  BY <1>0, <1>t, <1>f, <1>w, <1>m, <1>n DEF Orderly, RegisteredIsServed, MonitorsAreHeld, NobodyIsRegistered, RolesAreKept, At, Ensures, Detaching, Stopping, Replaces, Watches, Down, Ensurers, Stoppers
<1> QED
  BY <1>0, <1>1, <1>2, <1>3, <1>4, <1>5, <1>6, <1>7, <1>8, <1>9, <1>10, <1>11, <1>12, <1>13, <1>f DEF Orderly


\* A monitor removes the container of a crashed worker.
LEMMA CleansUp ==
  ASSUME LifeTypeOK, Orderly, NEW m \in Monitors, MonitorCleansUp(m)
  PROVE  Orderly'
<1>0. LifeTypeOK /\ Orderly
  OBVIOUS
<1>t. /\ registered # 0 => registered \in Container
      /\ \A g \in Handlers : handler[g].at \in {"stale", "detached", "attach"} => handler[g].obj \in Container
      /\ \A n \in Monitors : monitor[n].at # "off" => monitor[n].obj \in Container
  BY OrderlyShape
<1>xh. handler \in [Handlers -> Handler] /\ state \in [Container -> State] /\ monitor \in [Monitors -> Monitor]
  BY DEF LifeTypeOK
<1>xe. monitor[m].at = "crashed" /\ monitor' = [monitor EXCEPT ![m].at = "decide"]
  BY DEF MonitorCleansUp
<1>f. /\ monitor[m].at = "crashed" /\ handler' = handler /\ state' = state /\ live' = 0
      /\ spawned' = spawned /\ registered' = registered /\ abandoned' = abandoned
  BY <1>xe DEF MonitorCleansUp
<1>m. /\ \A n \in Monitors : n # m => monitor'[n] = monitor[n]
      /\ monitor'[m].at = "decide" /\ monitor'[m].obj = monitor[m].obj /\ monitor'[m].new = monitor[m].new
  BY <1>xh, <1>xe DEF Monitor
<1>n. /\ spawned \in Nat /\ live \in Nat /\ registered \in Nat /\ 0 \notin Monitors /\ 0 \notin Container
      /\ \A c \in Container : state[c].mon \in Monitors \cup {0}
      /\ \A g \in Handlers : handler[g].mon \in Monitors \cup {0}
  BY LifeShape
<1>1. RolesAreKept'
  BY <1>0, <1>t, <1>f, <1>m, <1>n DEF Orderly, RolesAreKept, At, Ensures, Detaching, Stopping, Replaces, Watches, Down, Ensurers, Stoppers
<1>2. NumbersAreBounded'
  BY <1>0, <1>t, <1>f, <1>m, <1>n DEF Orderly, NumbersAreBounded, RolesAreKept, At, Ensures, Detaching, Stopping, Replaces, Watches, Down, Ensurers, Stoppers
<1>3. NewIsUnknown'
  BY <1>0, <1>t, <1>f, <1>m, <1>n DEF Orderly, NewIsUnknown, RolesAreKept, At, Ensures, Detaching, Stopping, Replaces, Watches, Down, Ensurers, Stoppers
<1>4. OneAtWork'
  BY <1>0, <1>t, <1>f, <1>m, <1>n DEF Orderly, OneAtWork, RolesAreKept, At, Ensures, Detaching, Stopping, Replaces, Watches, Down, Ensurers, Stoppers
<1>5. MonitorsAreHeld'
  BY <1>0, <1>t, <1>f, <1>m, <1>n DEF Orderly, MonitorsAreHeld, RolesAreKept, At, Ensures, Detaching, Stopping, Replaces, Watches, Down, Ensurers, Stoppers
<1>6. WorkersKnowTheirs'
  BY <1>0, <1>t, <1>f, <1>m, <1>n DEF Orderly, WorkersKnowTheirs, RolesAreKept, At, Ensures, Detaching, Stopping, Replaces, Watches, Down, Ensurers, Stoppers
<1>7. RequestsKnowTheirs'
  BY <1>0, <1>t, <1>f, <1>m, <1>n DEF Orderly, RequestsKnowTheirs, RolesAreKept, At, Ensures, Detaching, Stopping, Replaces, Watches, Down, Ensurers, Stoppers
<1>8. DetachedIsBare'
  BY <1>0, <1>t, <1>f, <1>m, <1>n DEF Orderly, DetachedIsBare, RolesAreKept, At, Ensures, Detaching, Stopping, Replaces, Watches, Down, Ensurers, Stoppers
<1>9. NobodyIsRegistered'
  BY <1>0, <1>t, <1>f, <1>m, <1>n DEF Orderly, NobodyIsRegistered, RolesAreKept, At, Ensures, Detaching, Stopping, Replaces, Watches, Down, Ensurers, Stoppers
<1>10. DownIsDown'
  BY <1>0, <1>t, <1>f, <1>m, <1>n DEF Orderly, DownIsDown, RolesAreKept, At, Ensures, Detaching, Stopping, Replaces, Watches, Down, Ensurers, Stoppers
<1>11. StoppedIsDead'
  BY <1>0, <1>t, <1>f, <1>m, <1>n DEF Orderly, StoppedIsDead, RolesAreKept, At, Ensures, Detaching, Stopping, Replaces, Watches, Down, Ensurers, Stoppers
<1>12. LiveIsKnown'
  BY <1>0, <1>t, <1>f, <1>m, <1>n DEF Orderly, LiveIsKnown, RolesAreKept, At, Ensures, Detaching, Stopping, Replaces, Watches, Down, Ensurers, Stoppers
<1>13. RegisteredIsServed'
  BY <1>0, <1>t, <1>f, <1>m, <1>n DEF Orderly, RegisteredIsServed, RolesAreKept, At, Ensures, Detaching, Stopping, Replaces, Watches, Down, Ensurers, Stoppers
<1> QED
  BY <1>0, <1>1, <1>2, <1>3, <1>4, <1>5, <1>6, <1>7, <1>8, <1>9, <1>10, <1>11, <1>12, <1>13, <1>f DEF Orderly


\* A monitor decides to respawn the registered worker.
LEMMA RespawnBegins ==
  ASSUME LifeTypeOK, Orderly, NEW m \in Monitors, MonitorRespawns(m), registered # 0
  PROVE  Orderly'
<1>0. LifeTypeOK /\ Orderly
  OBVIOUS
<1>t. /\ registered # 0 => registered \in Container
      /\ \A g \in Handlers : handler[g].at \in {"stale", "detached", "attach"} => handler[g].obj \in Container
      /\ \A n \in Monitors : monitor[n].at # "off" => monitor[n].obj \in Container
  BY OrderlyShape
<1>xh. handler \in [Handlers -> Handler] /\ state \in [Container -> State] /\ monitor \in [Monitors -> Monitor]
  BY DEF LifeTypeOK
<1>x1. PICK crashes \in {1, state[monitor[m].obj].crashes + 1} :
         state' = [state EXCEPT ![monitor[m].obj].crashes = crashes]
  BY DEF MonitorRespawns
<1>xe. monitor[m].at = "decide" /\ monitor' = [monitor EXCEPT ![m].at = "remove", ![m].obj = registered]
  BY DEF MonitorRespawns
<1>n. /\ spawned \in Nat /\ live \in Nat /\ registered \in Nat /\ 0 \notin Monitors /\ 0 \notin Container
      /\ \A c \in Container : state[c].mon \in Monitors \cup {0}
      /\ \A g \in Handlers : handler[g].mon \in Monitors \cup {0}
  BY LifeShape
<1>k. registered = monitor[m].obj
  BY <1>0, <1>t, <1>n, <1>xe DEF Orderly, RolesAreKept, MonitorsAreHeld, RequestsKnowTheirs, DetachedIsBare, NobodyIsRegistered, Ensures, Detaching, Replaces, Watches, At, Ensurers
<1>f. /\ monitor[m].at = "decide" /\ handler' = handler /\ registered # 0
      /\ live' = live /\ spawned' = spawned /\ registered' = registered /\ abandoned' = abandoned
  BY <1>xe DEF MonitorRespawns
<1>w. \A c \in Container : /\ state'[c].stop = state[c].stop /\ state'[c].proc = state[c].proc
                           /\ state'[c].mon = state[c].mon /\ state'[c].loop = state[c].loop
  BY <1>xh, <1>x1 DEF State
<1> DEFINE k == [monitor[m] EXCEPT !.at = "remove", !.obj = registered]
<1>x2. monitor' = [monitor EXCEPT ![m] = k]
  BY <1>xe
<1>x3. k.at = "remove" /\ k.obj = registered /\ k.new = monitor[m].new /\ k.proc = monitor[m].proc
  BY <1>xh DEF Monitor
<1> HIDE DEF k
<1>m. /\ \A n \in Monitors : n # m => monitor'[n] = monitor[n]
      /\ monitor'[m].at = "remove" /\ monitor'[m].obj = monitor[m].obj /\ monitor'[m].new = monitor[m].new
  BY <1>xh, <1>x2, <1>x3, <1>k
<1>1. RolesAreKept'
  BY <1>0, <1>t, <1>n, <1>k, <1>f, <1>w, <1>m DEF Orderly, RolesAreKept, At, Ensures, Detaching, Stopping, Replaces, Watches, Down, Ensurers, Stoppers
<1>2. NumbersAreBounded'
  BY <1>0, <1>t, <1>n, <1>k, <1>f, <1>w, <1>m DEF Orderly, NumbersAreBounded, RolesAreKept, At, Ensures, Detaching, Stopping, Replaces, Watches, Down, Ensurers, Stoppers
<1>3. NewIsUnknown'
  BY <1>0, <1>t, <1>n, <1>k, <1>f, <1>w, <1>m DEF Orderly, NewIsUnknown, RolesAreKept, At, Ensures, Detaching, Stopping, Replaces, Watches, Down, Ensurers, Stoppers
<1>4. OneAtWork'
  BY <1>0, <1>t, <1>n, <1>k, <1>f, <1>w, <1>m DEF Orderly, OneAtWork, RolesAreKept, At, Ensures, Detaching, Stopping, Replaces, Watches, Down, Ensurers, Stoppers
<1>5. MonitorsAreHeld'
  BY <1>0, <1>t, <1>n, <1>k, <1>f, <1>w, <1>m DEF Orderly, MonitorsAreHeld, RolesAreKept, At, Ensures, Detaching, Stopping, Replaces, Watches, Down, Ensurers, Stoppers
<1>6. WorkersKnowTheirs'
  BY <1>0, <1>t, <1>n, <1>k, <1>f, <1>w, <1>m DEF Orderly, WorkersKnowTheirs, RolesAreKept, At, Ensures, Detaching, Stopping, Replaces, Watches, Down, Ensurers, Stoppers
<1>7. RequestsKnowTheirs'
  BY <1>0, <1>t, <1>n, <1>k, <1>f, <1>w, <1>m DEF Orderly, RequestsKnowTheirs, RolesAreKept, At, Ensures, Detaching, Stopping, Replaces, Watches, Down, Ensurers, Stoppers
<1>8. DetachedIsBare'
  BY <1>0, <1>t, <1>n, <1>k, <1>f, <1>w, <1>m DEF Orderly, DetachedIsBare, RolesAreKept, At, Ensures, Detaching, Stopping, Replaces, Watches, Down, Ensurers, Stoppers
<1>9. NobodyIsRegistered'
  BY <1>0, <1>t, <1>n, <1>k, <1>f, <1>w, <1>m DEF Orderly, NobodyIsRegistered, RolesAreKept, At, Ensures, Detaching, Stopping, Replaces, Watches, Down, Ensurers, Stoppers
<1>10. DownIsDown'
  BY <1>0, <1>t, <1>n, <1>k, <1>f, <1>w, <1>m DEF Orderly, DownIsDown, RolesAreKept, At, Ensures, Detaching, Stopping, Replaces, Watches, Down, Ensurers, Stoppers
<1>11. StoppedIsDead'
  BY <1>0, <1>t, <1>n, <1>k, <1>f, <1>w, <1>m DEF Orderly, StoppedIsDead, RolesAreKept, At, Ensures, Detaching, Stopping, Replaces, Watches, Down, Ensurers, Stoppers
<1>12. LiveIsKnown'
  BY <1>0, <1>t, <1>n, <1>k, <1>f, <1>w, <1>m DEF Orderly, LiveIsKnown, RolesAreKept, At, Ensures, Detaching, Stopping, Replaces, Watches, Down, Ensurers, Stoppers
<1>13. RegisteredIsServed'
  BY <1>0, <1>t, <1>n, <1>k, <1>f, <1>w, <1>m DEF Orderly, RegisteredIsServed, RolesAreKept, At, Ensures, Detaching, Stopping, Replaces, Watches, Down, Ensurers, Stoppers
<1> QED
  BY <1>0, <1>1, <1>2, <1>3, <1>4, <1>5, <1>6, <1>7, <1>8, <1>9, <1>10, <1>11, <1>12, <1>13, <1>f DEF Orderly


\* A monitor removes what runs, and the new container gets a number.
LEMMA RespawnRemovesFirst ==
  ASSUME LifeTypeOK, Orderly, NEW m \in Monitors, RespawnRemoves(m)
  PROVE  Orderly'
<1>0. LifeTypeOK /\ Orderly
  OBVIOUS
<1>t. /\ registered # 0 => registered \in Container
      /\ \A g \in Handlers : handler[g].at \in {"stale", "detached", "attach"} => handler[g].obj \in Container
      /\ \A n \in Monitors : monitor[n].at # "off" => monitor[n].obj \in Container
  BY OrderlyShape
<1>xh. handler \in [Handlers -> Handler] /\ state \in [Container -> State] /\ monitor \in [Monitors -> Monitor]
  BY DEF LifeTypeOK
<1>xe. monitor[m].at = "remove" /\ spawned' = spawned + 1 /\ monitor' = [monitor EXCEPT ![m].at = "run", ![m].new = spawned']
  BY DEF RespawnRemoves, Removes
<1>f. /\ monitor[m].at = "remove" /\ handler' = handler /\ state' = state /\ live' = 0 /\ spawned' = spawned + 1
      /\ registered' = registered /\ abandoned' = abandoned
  BY <1>xe DEF RespawnRemoves, Removes
<1> DEFINE k == [monitor[m] EXCEPT !.at = "run", !.new = spawned']
<1>x2. monitor' = [monitor EXCEPT ![m] = k]
  BY <1>xe
<1>x3. k.at = "run" /\ k.obj = monitor[m].obj /\ k.new = spawned' /\ k.proc = monitor[m].proc
  BY <1>xh DEF Monitor
<1> HIDE DEF k
<1>m. /\ \A n \in Monitors : n # m => monitor'[n] = monitor[n]
      /\ monitor'[m].at = "run" /\ monitor'[m].obj = monitor[m].obj /\ monitor'[m].new = spawned'
  BY <1>xh, <1>x2, <1>x3
<1>n. /\ spawned \in Nat /\ live \in Nat /\ registered \in Nat /\ 0 \notin Monitors /\ 0 \notin Container
      /\ \A c \in Container : state[c].mon \in Monitors \cup {0}
      /\ \A g \in Handlers : handler[g].mon \in Monitors \cup {0}
  BY LifeShape
<1>b. /\ \A c \in Container : state[c].proc \in Nat
      /\ \A g \in Handlers : handler[g].proc \in Nat /\ handler[g].obj \in Nat
      /\ \A n \in Monitors : monitor[n].new \in Nat /\ monitor[n].obj \in Nat
  BY LifeShape
<1>1. RolesAreKept'
  BY <1>0, <1>t, <1>f, <1>m, <1>n, <1>b DEF Orderly, RolesAreKept, At, Ensures, Detaching, Stopping, Replaces, Watches, Down, Ensurers, Stoppers
<1>2. NumbersAreBounded'
  BY <1>0, <1>t, <1>f, <1>m, <1>n, <1>b DEF Orderly, NumbersAreBounded, RolesAreKept, At, Ensures, Detaching, Stopping, Replaces, Watches, Down, Ensurers, Stoppers
<1>3. NewIsUnknown'
  BY <1>0, <1>t, <1>f, <1>m, <1>n, <1>b DEF Orderly, NewIsUnknown, NumbersAreBounded, RolesAreKept, At, Ensures, Detaching, Stopping, Replaces, Watches, Down, Ensurers, Stoppers
<1>4. OneAtWork'
  BY <1>0, <1>t, <1>f, <1>m, <1>n, <1>b DEF Orderly, OneAtWork, RolesAreKept, At, Ensures, Detaching, Stopping, Replaces, Watches, Down, Ensurers, Stoppers
<1>5. MonitorsAreHeld'
  BY <1>0, <1>t, <1>f, <1>m, <1>n, <1>b DEF Orderly, MonitorsAreHeld, RolesAreKept, At, Ensures, Detaching, Stopping, Replaces, Watches, Down, Ensurers, Stoppers
<1>6. WorkersKnowTheirs'
  BY <1>0, <1>t, <1>f, <1>m, <1>n, <1>b DEF Orderly, WorkersKnowTheirs, RolesAreKept, At, Ensures, Detaching, Stopping, Replaces, Watches, Down, Ensurers, Stoppers
<1>7. RequestsKnowTheirs'
  BY <1>0, <1>t, <1>f, <1>m, <1>n, <1>b DEF Orderly, RequestsKnowTheirs, RolesAreKept, At, Ensures, Detaching, Stopping, Replaces, Watches, Down, Ensurers, Stoppers
<1>8. DetachedIsBare'
  BY <1>0, <1>t, <1>f, <1>m, <1>n, <1>b DEF Orderly, DetachedIsBare, RolesAreKept, At, Ensures, Detaching, Stopping, Replaces, Watches, Down, Ensurers, Stoppers
<1>9. NobodyIsRegistered'
  BY <1>0, <1>t, <1>f, <1>m, <1>n, <1>b DEF Orderly, NobodyIsRegistered, RolesAreKept, At, Ensures, Detaching, Stopping, Replaces, Watches, Down, Ensurers, Stoppers
<1>10. DownIsDown'
  BY <1>0, <1>t, <1>f, <1>m, <1>n, <1>b DEF Orderly, DownIsDown, RolesAreKept, At, Ensures, Detaching, Stopping, Replaces, Watches, Down, Ensurers, Stoppers
<1>11. StoppedIsDead'
  BY <1>0, <1>t, <1>f, <1>m, <1>n, <1>b DEF Orderly, StoppedIsDead, RolesAreKept, At, Ensures, Detaching, Stopping, Replaces, Watches, Down, Ensurers, Stoppers
<1>12. LiveIsKnown'
  BY <1>0, <1>t, <1>f, <1>m, <1>n, <1>b DEF Orderly, LiveIsKnown, RolesAreKept, At, Ensures, Detaching, Stopping, Replaces, Watches, Down, Ensurers, Stoppers
<1>13. RegisteredIsServed'
  BY <1>0, <1>t, <1>f, <1>m, <1>n, <1>b DEF Orderly, RegisteredIsServed, RolesAreKept, At, Ensures, Detaching, Stopping, Replaces, Watches, Down, Ensurers, Stoppers
<1> QED
  BY <1>0, <1>1, <1>2, <1>3, <1>4, <1>5, <1>6, <1>7, <1>8, <1>9, <1>10, <1>11, <1>12, <1>13, <1>f DEF Orderly


\* The container of a respawn runs.
LEMMA RespawnRunsFirst ==
  ASSUME LifeTypeOK, Orderly, NEW m \in Monitors, RespawnRuns(m)
  PROVE  Orderly'
<1>0. LifeTypeOK /\ Orderly
  OBVIOUS
<1>t. /\ registered # 0 => registered \in Container
      /\ \A g \in Handlers : handler[g].at \in {"stale", "detached", "attach"} => handler[g].obj \in Container
      /\ \A n \in Monitors : monitor[n].at # "off" => monitor[n].obj \in Container
  BY OrderlyShape
<1>xh. handler \in [Handlers -> Handler] /\ state \in [Container -> State] /\ monitor \in [Monitors -> Monitor]
  BY DEF LifeTypeOK
<1>xe. /\ monitor[m].at = "run" /\ monitor' = [monitor EXCEPT ![m].at = "assign"]
       /\ \A g \in Handlers : handler[g].at \notin {"detached", "cancel"}
       /\ live' = IF live = 0 THEN monitor[m].new ELSE live
  BY DEF RespawnRuns, Runs
<1>f. /\ monitor[m].at = "run" /\ handler' = handler /\ state' = state
      /\ \A g \in Handlers : handler[g].at \notin {"detached", "cancel"}
      /\ live' = live \/ (live = 0 /\ live' = monitor[m].new)
      /\ spawned' = spawned /\ registered' = registered /\ abandoned' = abandoned
  BY <1>xe DEF RespawnRuns
<1>m. /\ \A n \in Monitors : n # m => monitor'[n] = monitor[n]
      /\ monitor'[m].at = "assign" /\ monitor'[m].obj = monitor[m].obj /\ monitor'[m].new = monitor[m].new
  BY <1>xh, <1>xe DEF Monitor
<1>n. /\ spawned \in Nat /\ live \in Nat /\ registered \in Nat /\ 0 \notin Monitors /\ 0 \notin Container
      /\ \A c \in Container : state[c].mon \in Monitors \cup {0}
      /\ \A g \in Handlers : handler[g].mon \in Monitors \cup {0}
  BY LifeShape
<1>1. RolesAreKept'
  BY <1>0, <1>t, <1>f, <1>m, <1>n DEF Orderly, RolesAreKept, At, Ensures, Detaching, Stopping, Replaces, Watches, Down, Ensurers, Stoppers
<1>2. NumbersAreBounded'
  BY <1>0, <1>t, <1>f, <1>m, <1>n DEF Orderly, NumbersAreBounded, RolesAreKept, At, Ensures, Detaching, Stopping, Replaces, Watches, Down, Ensurers, Stoppers
<1>3. NewIsUnknown'
  BY <1>0, <1>t, <1>f, <1>m, <1>n DEF Orderly, NewIsUnknown, RolesAreKept, At, Ensures, Detaching, Stopping, Replaces, Watches, Down, Ensurers, Stoppers
<1>4. OneAtWork'
  BY <1>0, <1>t, <1>f, <1>m, <1>n DEF Orderly, OneAtWork, RolesAreKept, At, Ensures, Detaching, Stopping, Replaces, Watches, Down, Ensurers, Stoppers
<1>5. MonitorsAreHeld'
  BY <1>0, <1>t, <1>f, <1>m, <1>n DEF Orderly, MonitorsAreHeld, RolesAreKept, At, Ensures, Detaching, Stopping, Replaces, Watches, Down, Ensurers, Stoppers
<1>6. WorkersKnowTheirs'
  BY <1>0, <1>t, <1>f, <1>m, <1>n DEF Orderly, WorkersKnowTheirs, RolesAreKept, At, Ensures, Detaching, Stopping, Replaces, Watches, Down, Ensurers, Stoppers
<1>7. RequestsKnowTheirs'
  BY <1>0, <1>t, <1>f, <1>m, <1>n DEF Orderly, RequestsKnowTheirs, RolesAreKept, At, Ensures, Detaching, Stopping, Replaces, Watches, Down, Ensurers, Stoppers
<1>8. DetachedIsBare'
  BY <1>0, <1>t, <1>f, <1>m, <1>n DEF Orderly, DetachedIsBare, RolesAreKept, At, Ensures, Detaching, Stopping, Replaces, Watches, Down, Ensurers, Stoppers
<1>9. NobodyIsRegistered'
  BY <1>0, <1>t, <1>f, <1>m, <1>n DEF Orderly, NobodyIsRegistered, RolesAreKept, At, Ensures, Detaching, Stopping, Replaces, Watches, Down, Ensurers, Stoppers
<1>10. DownIsDown'
  BY <1>0, <1>t, <1>f, <1>m, <1>n DEF Orderly, DownIsDown, NewIsUnknown, OneAtWork, RolesAreKept, At, Ensures, Detaching, Stopping, Replaces, Watches, Down, Ensurers, Stoppers
<1>11. StoppedIsDead'
  BY <1>0, <1>t, <1>f, <1>m, <1>n DEF Orderly, StoppedIsDead, NewIsUnknown, RolesAreKept, At, Ensures, Detaching, Stopping, Replaces, Watches, Down, Ensurers, Stoppers
<1>12. LiveIsKnown'
  BY <1>0, <1>t, <1>f, <1>m, <1>n DEF Orderly, LiveIsKnown, RolesAreKept, At, Ensures, Detaching, Stopping, Replaces, Watches, Down, Ensurers, Stoppers
<1>13. RegisteredIsServed'
  BY <1>0, <1>t, <1>f, <1>m, <1>n DEF Orderly, RegisteredIsServed, RolesAreKept, At, Ensures, Detaching, Stopping, Replaces, Watches, Down, Ensurers, Stoppers
<1> QED
  BY <1>0, <1>1, <1>2, <1>3, <1>4, <1>5, <1>6, <1>7, <1>8, <1>9, <1>10, <1>11, <1>12, <1>13, <1>f DEF Orderly


\* The registered worker gets the new container.
LEMMA RespawnAssigned ==
  ASSUME LifeTypeOK, Orderly, NEW m \in Monitors, RespawnAssigns(m), IsStillIts(m)
  PROVE  Orderly'
<1>0. LifeTypeOK /\ Orderly
  OBVIOUS
<1>t. /\ registered # 0 => registered \in Container
      /\ \A g \in Handlers : handler[g].at \in {"stale", "detached", "attach"} => handler[g].obj \in Container
      /\ \A n \in Monitors : monitor[n].at # "off" => monitor[n].obj \in Container
  BY OrderlyShape
<1>xh. handler \in [Handlers -> Handler] /\ state \in [Container -> State] /\ monitor \in [Monitors -> Monitor]
  BY DEF LifeTypeOK
<1> DEFINE w == monitor[m].obj
           c == monitor[m].new
           s == WithoutMonitor(state, m)
           k == [s[w] EXCEPT !.proc = c, !.loop = TRUE, !.mon = m]
<1>xe. /\ monitor[m].at = "assign" /\ registered = w /\ state' = [s EXCEPT ![w].proc = c, ![w].loop = TRUE, ![w].mon = m]
       /\ monitor' = [monitor EXCEPT ![m] = [at |-> "wait", obj |-> w, proc |-> c, new |-> 0]]
       /\ abandoned' = (abandoned \/ state[w].loop)
  BY DEF RespawnAssigns, IsStillIts
<1>xs. /\ s \in [Container -> State] /\ w \in Container
       /\ \A d \in Container : /\ s[d].proc = state[d].proc /\ s[d].stop = state[d].stop /\ s[d].loop = state[d].loop
                               /\ s[d].mon = IF state[d].mon = m THEN 0 ELSE state[d].mon
  BY <1>xh, <1>xe, <1>t, WithoutOne
<1>xk. k.proc = c /\ k.loop = TRUE /\ k.mon = m /\ k.stop = s[w].stop
  BY <1>xs DEF State
<1>xf. state' = [s EXCEPT ![w] = k]
  BY <1>xe
<1> HIDE DEF s, k
<1>w. \A d \in Container : /\ state'[d].stop = state[d].stop
                           /\ d = w => state'[d].proc = c /\ state'[d].loop /\ state'[d].mon = m
                           /\ d # w => /\ state'[d].proc = state[d].proc /\ state'[d].loop = state[d].loop
                                       /\ state'[d].mon = IF state[d].mon = m THEN 0 ELSE state[d].mon
  BY <1>xs, <1>xk, <1>xf
<1>f. /\ monitor[m].at = "assign" /\ registered = w /\ w \in Container /\ w # 0
      /\ live' = live /\ spawned' = spawned /\ registered' = registered
  BY <1>xe, <1>xs, LifeShape DEF RespawnAssigns
<1>m. /\ \A n \in Monitors : n # m => monitor'[n] = monitor[n]
      /\ monitor'[m].at = "wait" /\ monitor'[m].obj = w /\ monitor'[m].proc = c /\ monitor'[m].new = 0
  BY <1>xh, <1>xe
<1> DEFINE q(g) == [handler[g] EXCEPT !.mon = IF @ = m THEN 0 ELSE @]
<1>xi. ASSUME NEW g \in Handlers
       PROVE  /\ q(g).at = handler[g].at /\ q(g).by = handler[g].by /\ q(g).obj = handler[g].obj /\ q(g).proc = handler[g].proc
              /\ q(g).mon = IF handler[g].mon = m THEN 0 ELSE handler[g].mon
  <2>1. handler[g] \in Handler
    BY <1>xh
  <2> QED
    BY <2>1 DEF Handler
<1>xg. \A g \in Handlers : handler'[g] = q(g)
  BY DEF RespawnAssigns, IsStillIts
<1> HIDE DEF q
<1>h. \A g \in Handlers : /\ handler'[g].at = handler[g].at /\ handler'[g].by = handler[g].by
                           /\ handler'[g].obj = handler[g].obj /\ handler'[g].proc = handler[g].proc
                           /\ handler'[g].mon = IF handler[g].mon = m THEN 0 ELSE handler[g].mon
  BY <1>xi, <1>xg
<1>n. /\ spawned \in Nat /\ live \in Nat /\ registered \in Nat /\ 0 \notin Monitors /\ 0 \notin Container
      /\ \A d \in Container : state[d].mon \in Monitors \cup {0}
      /\ \A g \in Handlers : handler[g].mon \in Monitors \cup {0}
  BY LifeShape
<1>k. /\ state[w].mon = m /\ ~state[w].loop /\ c # 0 /\ \A n \in Monitors : n # m => monitor[n].at = "off"
      /\ \A g \in Handlers : handler[g].at \notin {"run", "register"}
  BY <1>0, <1>f, <1>t, <1>n DEF Orderly, RolesAreKept, OneAtWork, NewIsUnknown, MonitorsAreHeld, RequestsKnowTheirs, NobodyIsRegistered, DownIsDown, Down, Ensures, Detaching, Replaces, Watches, At, Ensurers
<1>a. ~abandoned'
  BY <1>0, <1>xe, <1>k DEF Orderly
<1>1. RolesAreKept'
  BY <1>0, <1>t, <1>w, <1>f, <1>m, <1>h, <1>n, <1>k, <1>a DEF Orderly, RolesAreKept, At, Ensures, Detaching, Stopping, Replaces, Watches, Down, Ensurers, Stoppers
<1>2. NumbersAreBounded'
  BY <1>0, <1>t, <1>w, <1>f, <1>m, <1>h, <1>n, <1>k, <1>a DEF Orderly, NumbersAreBounded, RolesAreKept, At, Ensures, Detaching, Stopping, Replaces, Watches, Down, Ensurers, Stoppers
<1>3. NewIsUnknown'
  BY <1>0, <1>t, <1>w, <1>f, <1>m, <1>h, <1>n, <1>k, <1>a DEF Orderly, NewIsUnknown, RolesAreKept, At, Ensures, Detaching, Stopping, Replaces, Watches, Down, Ensurers, Stoppers
<1>4. OneAtWork'
  BY <1>0, <1>t, <1>w, <1>f, <1>m, <1>h, <1>n, <1>k, <1>a DEF Orderly, OneAtWork, RolesAreKept, At, Ensures, Detaching, Stopping, Replaces, Watches, Down, Ensurers, Stoppers
<1>5. MonitorsAreHeld'
  BY <1>0, <1>t, <1>w, <1>f, <1>m, <1>h, <1>n, <1>k, <1>a DEF Orderly, MonitorsAreHeld, RolesAreKept, At, Ensures, Detaching, Stopping, Replaces, Watches, Down, Ensurers, Stoppers
<1>6. WorkersKnowTheirs'
  BY <1>0, <1>t, <1>w, <1>f, <1>m, <1>h, <1>n, <1>k, <1>a DEF Orderly, WorkersKnowTheirs, RolesAreKept, At, Ensures, Detaching, Stopping, Replaces, Watches, Down, Ensurers, Stoppers
<1>7. RequestsKnowTheirs'
  BY <1>0, <1>t, <1>w, <1>f, <1>m, <1>h, <1>n, <1>k, <1>a DEF Orderly, RequestsKnowTheirs, RolesAreKept, At, Ensures, Detaching, Stopping, Replaces, Watches, Down, Ensurers, Stoppers
<1>8. DetachedIsBare'
  BY <1>0, <1>t, <1>w, <1>f, <1>m, <1>h, <1>n, <1>k, <1>a DEF Orderly, DetachedIsBare, RequestsKnowTheirs, RolesAreKept, At, Ensures, Detaching, Stopping, Replaces, Watches, Down, Ensurers, Stoppers
<1>9. NobodyIsRegistered'
  BY <1>0, <1>t, <1>w, <1>f, <1>m, <1>h, <1>n, <1>k, <1>a DEF Orderly, NobodyIsRegistered, RolesAreKept, At, Ensures, Detaching, Stopping, Replaces, Watches, Down, Ensurers, Stoppers
<1>10. DownIsDown'
  BY <1>0, <1>t, <1>w, <1>f, <1>m, <1>h, <1>n, <1>k, <1>a DEF Orderly, DownIsDown, RolesAreKept, At, Ensures, Detaching, Stopping, Replaces, Watches, Down, Ensurers, Stoppers
<1>11. StoppedIsDead'
  BY <1>0, <1>t, <1>w, <1>f, <1>m, <1>h, <1>n, <1>k, <1>a DEF Orderly, StoppedIsDead, RolesAreKept, At, Ensures, Detaching, Stopping, Replaces, Watches, Down, Ensurers, Stoppers
<1>12. LiveIsKnown'
  BY <1>0, <1>t, <1>w, <1>f, <1>m, <1>h, <1>n, <1>k, <1>a DEF Orderly, LiveIsKnown, DownIsDown, RolesAreKept, At, Ensures, Detaching, Stopping, Replaces, Watches, Down, Ensurers, Stoppers
<1>13. RegisteredIsServed'
  BY <1>0, <1>t, <1>w, <1>f, <1>m, <1>h, <1>n, <1>k, <1>a DEF Orderly, RegisteredIsServed, RolesAreKept, At, Ensures, Detaching, Stopping, Replaces, Watches, Down, Ensurers, Stoppers
<1> QED
  BY <1>0, <1>1, <1>2, <1>3, <1>4, <1>5, <1>6, <1>7, <1>8, <1>9, <1>10, <1>11, <1>12, <1>13, <1>a DEF Orderly

\* What has raced has raced.
LEMMA RacesLast ==
  ASSUME LifeTypeOK, [LifeNext]_lifeVars, raced
  PROVE  raced'
<1>1. raced \in BOOLEAN
  BY DEF LifeTypeOK
<1> QED
  BY <1>1 DEF LifeNext, lifeVars, ContainerExits, PageConnects, HandlerStep, MonitorStep, EnsureWorker, CheckLiveness,
       PageLeaves, Stop, ClearStale, CancelTasks, Attach, MarkRunning, SpawnRemoves, SpawnRaises, SpawnRuns, Register,
       MarkIdle, StopAwaits, StopRows, StopPops, MonitorWakes, MonitorCleansUp, MonitorGivesUp, MonitorRespawns,
       RespawnRemoves, RespawnRaises, RespawnRuns, RespawnAssigns, Finishes

LEMMA AsidesOfRequests ==
  ASSUME LifeTypeOK, Orderly, ~raced', NEW h \in Handlers,
         \/ MarkRunning(h) \/ SpawnRaises(h) \/ MarkIdle(h)
         \/ \E pending \in BOOLEAN : PageLeaves(h, pending)
  PROVE  Orderly'
<1>0. /\ LifeTypeOK /\ Orderly
      /\ handler \in [Handlers -> Handler] /\ state \in [Container -> State]
      /\ registered # 0 => registered \in Container
  BY OrderlyShape DEF LifeTypeOK
<1>f. handler[h].at \in {"off", "mark", "idle", "remove", "run"} /\ UNCHANGED <<live, spawned, registered, monitor, abandoned>>
  BY DEF MarkRunning, SpawnRaises, MarkIdle, PageLeaves, At
<1>1. ASSUME MarkRunning(h) \/ SpawnRaises(h) \/ MarkIdle(h) PROVE Orderly'
  <2>1. handler' = [handler EXCEPT ![h] = NoHandler] /\ state' = state
    BY <1>1 DEF MarkRunning, SpawnRaises, MarkIdle, Finishes
  <2>2. 0 <= spawned
    BY LifeShape
  <2>3. \A g \in Handlers : \/ handler'[g] = handler[g]
                            \/ /\ handler[g].at \in {"off", "mark", "idle", "remove", "run"}
                               /\ handler'[g].at = "off" /\ handler'[g].mon = 0 /\ handler'[g].proc <= spawned
    BY <1>0, <1>f, <2>1, <2>2, LifeRecords
  <2> QED
    BY <1>0, <1>f, <2>1, <2>3, Asides
<1>2. ASSUME NEW pending \in BOOLEAN, PageLeaves(h, pending) PROVE Orderly'
  <2> DEFINE k == [NoHandler EXCEPT !.at = "idle", !.by = "leaver", !.proc = state[registered].proc]
  <2>1. /\ state' = [state EXCEPT ![registered].page = FALSE] /\ registered \in Container
        /\ handler' = handler \/ handler' = [handler EXCEPT ![h] = k]
    BY <1>2, <1>0 DEF PageLeaves
  <2>2. k.at = "idle" /\ k.by = "leaver" /\ k.mon = 0 /\ k.proc <= spawned
    BY <2>1, <1>0 DEF NoHandler, Orderly, NumbersAreBounded
  <2> HIDE DEF k
  <2>3. \A c \in Container : /\ state'[c].proc = state[c].proc /\ state'[c].mon = state[c].mon
                             /\ state'[c].loop = state[c].loop /\ state'[c].stop = state[c].stop
    BY <2>1, <1>0 DEF State
  <2>4. \A g \in Handlers : handler'[g] = handler[g] \/ (g = h /\ handler'[g] = k)
    BY <2>1, <1>0
  <2>5. \A g \in Handlers : \/ handler'[g] = handler[g]
                            \/ /\ handler[g].at \in {"off", "mark", "idle", "remove", "run"}
                               /\ handler'[g].at \in {"off", "idle"} /\ handler'[g].mon = 0
                               /\ handler'[g].at = "idle" => handler'[g].by = "leaver"
                               /\ handler'[g].proc <= spawned
    BY <1>f, <2>2, <2>4
  <2> QED
    BY <1>0, <1>f, <2>3, <2>5, Asides
<1> QED
  BY <1>1, <1>2

LEMMA AsidesOfPages ==
  ASSUME LifeTypeOK, Orderly, PageConnects \/ UNCHANGED lifeVars
  PROVE  Orderly'
<1>0. /\ LifeTypeOK /\ Orderly /\ state \in [Container -> State]
      /\ registered # 0 => registered \in Container
  BY OrderlyShape DEF LifeTypeOK
<1>1. handler' = handler /\ UNCHANGED <<live, spawned, registered, monitor, abandoned>>
  BY DEF PageConnects, lifeVars
<1>2. \A c \in Container : /\ state'[c].proc = state[c].proc /\ state'[c].mon = state[c].mon
                           /\ state'[c].loop = state[c].loop /\ state'[c].stop = state[c].stop
  <2>1. CASE PageConnects
    <3>1. state' = [state EXCEPT ![registered].page = TRUE] /\ registered \in Container
      BY <1>0, <2>1 DEF PageConnects
    <3> QED
      BY <1>0, <3>1 DEF State
  <2>2. CASE UNCHANGED lifeVars
    BY <2>2 DEF lifeVars
  <2> QED
    BY <2>1, <2>2
<1> QED
  BY <1>0, <1>1, <1>2, Asides

LEMMA MonitorEndings ==
  ASSUME LifeTypeOK, Orderly, ~raced', NEW m \in Monitors, MonitorEnds(m),
         \/ MonitorWakes(m) /\ (registered # monitor[m].obj \/ state[registered].stop)
         \/ MonitorGivesUp(m) \/ RespawnRaises(m)
         \/ MonitorRespawns(m) /\ registered = 0
         \/ RespawnAssigns(m) /\ ~IsStillIts(m)
  PROVE  Orderly'
<1> DEFINE Same(states) == \A c \in Container : /\ states[c].proc = state[c].proc /\ states[c].mon = state[c].mon
                                                /\ states[c].loop = state[c].loop /\ states[c].stop = state[c].stop
           How == \/ /\ monitor[m].at = "wait" /\ live' = live /\ registered' = registered
                     /\ registered # monitor[m].obj \/ state[registered].stop
                  \/ /\ monitor[m].at # "wait" /\ registered' # monitor[m].obj
                     /\ registered' = registered \/ registered = monitor[m].obj
                     /\ monitor[m].at = "assign" => live' = 0
<1>0. LifeTypeOK /\ Orderly /\ state \in [Container -> State]
  BY DEF LifeTypeOK
<1>1. monitor[m].at # "off" /\ UNCHANGED <<spawned, abandoned>> /\ live' \in {live, 0} /\ registered' \in {registered, 0}
  BY DEF MonitorWakes, MonitorGivesUp, RespawnRaises, MonitorRespawns, RespawnAssigns
<1>2. monitor[m].obj # 0
  BY <1>0, <1>1, OrderlyShape, LifeShape
<1>3. How
  <2>1. ASSUME MonitorWakes(m), registered # monitor[m].obj \/ state[registered].stop PROVE How
    BY <2>1 DEF MonitorWakes
  <2>2. ASSUME MonitorGivesUp(m) PROVE How
    BY <1>2, <2>2 DEF MonitorGivesUp
  <2>3. ASSUME RespawnRaises(m) PROVE How
    BY <1>2, <2>3, LifecycleConstantsOK DEF RespawnRaises, Respawning, LifecycleConstantsOK
  <2>4. ASSUME MonitorRespawns(m), registered = 0 PROVE How
    BY <1>2, <2>4 DEF MonitorRespawns
  <2>5. ASSUME RespawnAssigns(m), ~IsStillIts(m) PROVE How
    BY <2>5 DEF RespawnAssigns, IsStillIts
  <2> HIDE DEF How
  <2> QED
    BY <2>1, <2>2, <2>3, <2>4, <2>5
<1>4. PICK states \in [Container -> State] : Same(states) /\ state' = WithoutMonitor(states, m)
  <2>1. CASE MonitorRespawns(m) /\ registered = 0
    <3>1. PICK crashes \in {1, state[monitor[m].obj].crashes + 1} :
            crashes < MaxCrashes /\ state' = WithoutMonitor([state EXCEPT ![monitor[m].obj].crashes = crashes], m)
      BY <2>1 DEF MonitorRespawns
    <3>2. monitor[m].obj \in Container /\ MaxCrashes \in Nat
      BY <1>0, <1>1, OrderlyShape, LifecycleConstantsOK DEF LifecycleConstantsOK
    <3>3. crashes \in 0..MaxCrashes
      BY <1>0, <3>1, <3>2 DEF State
    <3> DEFINE counted == [state EXCEPT ![monitor[m].obj].crashes = crashes]
    <3>4. counted \in [Container -> State] /\ Same(counted)
      BY <1>0, <3>2, <3>3 DEF State
    <3>5. state' = WithoutMonitor(counted, m)
      BY <3>1
    <3> HIDE DEF counted
    <3> QED
      BY <3>4, <3>5
  <2>2. CASE ~(MonitorRespawns(m) /\ registered = 0)
    <3>1. state' = WithoutMonitor(state, m)
      <4>1. ASSUME MonitorWakes(m), registered # monitor[m].obj \/ state[registered].stop
            PROVE  state' = WithoutMonitor(state, m)
        BY <4>1 DEF MonitorWakes
      <4>2. ASSUME RespawnAssigns(m), ~IsStillIts(m) PROVE state' = WithoutMonitor(state, m)
        BY <4>2 DEF RespawnAssigns
      <4> QED
        BY <2>2, <4>1, <4>2 DEF MonitorGivesUp, RespawnRaises
    <3>2. Same(state)
      OBVIOUS
    <3> QED
      BY <1>0, <3>1, <3>2
  <2> QED
    BY <2>1, <2>2
<1> QED
  BY <1>0, <1>1, <1>3, <1>4, MonitorEnding

\* As long as requests do not meet where the lock does not keep them apart.
LEMMA OrderStays ==
  ASSUME LifeTypeOK, Orderly, ~raced', [LifeNext]_lifeVars
  PROVE  Orderly'
<1> DEFINE Goal == Orderly'
<1>0. LifeTypeOK /\ Orderly /\ ~raced'
  OBVIOUS
<1>1. ASSUME NEW h \in Handlers, NEW by \in {"page", "headless"}, EnsureWorker(h, by) PROVE Goal
  <2>1. CASE registered = 0
    BY <1>0, <1>1, <2>1, EnsuresAnew
  <2>2. CASE registered # 0 /\ Exited(state[registered].proc)
    BY <1>0, <1>1, <2>2, EnsuresForStale
  <2>3. CASE registered # 0 /\ ~Exited(state[registered].proc) /\ by = "page"
    BY <1>0, <1>1, <2>3, EnsuresByDetaching
  <2>4. CASE registered # 0 /\ ~Exited(state[registered].proc) /\ by = "headless"
    BY <1>0, <1>1, <2>4, EnsuresALoop
  <2> QED
    BY <2>1, <2>2, <2>3, <2>4
<1>2. ASSUME NEW h \in Handlers, HandlerStep(h) PROVE Goal
  <2>1. CASE ClearStale(h)
    BY <1>0, <2>1, Clears
  <2>2. CASE CancelTasks(h)
    <3>1. At(h, "detached") \/ At(h, "cancel")
      BY <2>2 DEF CancelTasks, At
    <3> QED
      BY <1>0, <2>2, <3>1, Cancels, CancelsLast
  <2>3. CASE Attach(h)
    BY <1>0, <2>3, AttachesNone, Attaches
  <2>4. CASE MarkRunning(h) \/ SpawnRaises(h) \/ MarkIdle(h)
    BY <1>0, <2>4, AsidesOfRequests
  <2>5. CASE SpawnRemoves(h) \/ SpawnRuns(h)
    BY <1>0, <2>5, RemovesFirst, RunsFirst
  <2>6. CASE Register(h)
    BY <1>0, <2>6, Registers
  <2>7. CASE StopAwaits(h) \/ StopRows(h)
    BY <1>0, <2>7, StopsAwaited, StopsInRows
  <2>8. CASE StopPops(h)
    BY <1>0, <2>8, PopsNobody, Pops
  <2> HIDE DEF Goal
  <2> QED
    BY <1>2, <2>1, <2>2, <2>3, <2>4, <2>5, <2>6, <2>7, <2>8 DEF HandlerStep
<1>3. ASSUME NEW m \in Monitors, MonitorStep(m) PROVE Goal
  <2>1. CASE MonitorWakes(m)
    <3>1. CASE registered = monitor[m].obj /\ ~state[registered].stop
      BY <1>0, <2>1, <3>1, CrashNoticed
    <3>2. CASE registered # monitor[m].obj \/ state[registered].stop
      <4>1. MonitorEnds(m)
        BY <2>1, <3>2 DEF MonitorWakes
      <4> QED
        BY <1>0, <2>1, <3>2, <4>1, MonitorEndings
    <3> QED
      BY <3>1, <3>2
  <2>2. CASE MonitorCleansUp(m)
    BY <1>0, <2>2, CleansUp
  <2>3. CASE MonitorGivesUp(m) \/ RespawnRaises(m)
    <3>1. MonitorEnds(m)
      BY <2>3 DEF MonitorGivesUp, RespawnRaises
    <3> QED
      BY <1>0, <2>3, <3>1, MonitorEndings
  <2>4. CASE MonitorRespawns(m)
    <3>1. registered = 0 => MonitorEnds(m)
      BY <2>4 DEF MonitorRespawns
    <3> QED
      BY <1>0, <2>4, <3>1, MonitorEndings, RespawnBegins
  <2>5. CASE RespawnRemoves(m) \/ RespawnRuns(m)
    BY <1>0, <2>5, RespawnRemovesFirst, RespawnRunsFirst
  <2>6. CASE RespawnAssigns(m)
    <3>1. ~IsStillIts(m) => MonitorEnds(m)
      BY <2>6 DEF RespawnAssigns
    <3> QED
      BY <1>0, <2>6, <3>1, MonitorEndings, RespawnAssigned
  <2> HIDE DEF Goal
  <2> QED
    BY <1>3, <2>1, <2>2, <2>3, <2>4, <2>5, <2>6 DEF MonitorStep
<1>4. ASSUME NEW h \in Handlers, \/ CheckLiveness(h) \/ \E pending \in BOOLEAN : PageLeaves(h, pending)
                                 \/ \E by \in {"kill", "reap"}, c \in Container : Stop(h, by, c)
      PROVE  Goal
  BY <1>0, <1>4, ChecksLiveness, AsidesOfRequests, Stops
<1>5. ASSUME ContainerExits PROVE Goal
  BY <1>0, <1>5, Exits
<1>6. ASSUME PageConnects \/ UNCHANGED lifeVars PROVE Goal
  BY <1>0, <1>6, AsidesOfPages
<1> HIDE DEF Goal
<1>7. Goal
  BY <1>1, <1>2, <1>3, <1>4, <1>5, <1>6 DEF LifeNext, Handlers
<1> QED
  BY <1>7 DEF Goal

------------------------------------------------------------------------------
(* The results.                                                            *)

LEMMA LifeStarts == LifeInit => LifeInv
<1> SUFFICES ASSUME LifeInit PROVE LifeInv
  OBVIOUS
<1>1. /\ live = 0 /\ spawned = 0 /\ registered = 0 /\ abandoned = FALSE /\ raced = FALSE
      /\ row = [c \in Container |-> "none"] /\ state = [c \in Container |-> NoState]
      /\ monitor = [m \in Monitors |-> Ended] /\ handler = [h \in Handlers |-> NoHandler]
  BY DEF LifeInit
<1>2. LifeTypeOK
  <2>1. 0 \in Some /\ "none" \in Rows
    BY LifecycleConstantsOK DEF LifecycleConstantsOK, Some, Rows
  <2> QED
    BY <1>1, <2>1, LifeRecords DEF LifeTypeOK
<1>3. /\ \A c \in Container : state[c].proc = 0 /\ state[c].mon = 0
      /\ \A m \in Monitors : monitor[m].at = "off" /\ monitor[m].obj = 0 /\ monitor[m].new = 0
      /\ \A h \in Handlers : /\ handler[h].at = "off" /\ handler[h].by = "page" /\ handler[h].obj = 0
                             /\ handler[h].proc = 0 /\ handler[h].mon = 0
  BY <1>1, LifeRecords
<1>4. RolesAreKept /\ NumbersAreBounded /\ NewIsUnknown /\ OneAtWork
  BY <1>1, <1>3 DEF RolesAreKept, NumbersAreBounded, NewIsUnknown, OneAtWork, Ensures, Watches, At
<1>5. MonitorsAreHeld /\ WorkersKnowTheirs /\ RequestsKnowTheirs /\ DetachedIsBare /\ NobodyIsRegistered
  BY <1>1, <1>3 DEF MonitorsAreHeld, WorkersKnowTheirs, RequestsKnowTheirs, DetachedIsBare, NobodyIsRegistered,
                    Detaching, Ensures, Watches, At
<1>6. DownIsDown /\ StoppedIsDead /\ LiveIsKnown /\ RegisteredIsServed /\ ~abandoned
  BY <1>1, <1>3 DEF DownIsDown, StoppedIsDead, LiveIsKnown, RegisteredIsServed, Watches, At
<1> QED
  BY <1>2, <1>4, <1>5, <1>6 DEF LifeInv, Orderly

LEMMA LifeGoesOn == LifeInv /\ [LifeNext]_lifeVars => LifeInv'
<1> SUFFICES ASSUME LifeInv, [LifeNext]_lifeVars PROVE LifeInv'
  OBVIOUS
<1>1. LifeTypeOK'
  BY LifeTypesStay DEF LifeInv
<1>2. ASSUME ~raced' PROVE Orderly'
  <2>1. ~raced
    BY <1>2, RacesLast DEF LifeInv
  <2> QED
    BY <1>2, <2>1, OrderStays DEF LifeInv
<1> QED
  BY <1>1, <1>2 DEF LifeInv

\* container_manager.py: everything has its type; and as long as no two requests have met
\* outside the lock, one of them at most spawns or attaches, one monitor at most restarts,
\* and what runs, and what waits for it, is in somebody's hands.
THEOREM LifeInvariant == LifeSpec => []LifeInv
  BY LifeStarts, LifeGoesOn, PTL DEF LifeSpec

\* LifeTypeOK: everything has its type.
THEOREM LifeIsTyped == LifeSpec => []LifeTypeOK
<1>1. LifeInv => LifeTypeOK
  BY DEF LifeInv
<1> QED
  BY <1>1, LifeInvariant, PTL

\* RestIsConsistent: whatever pages, messages, kills, reaps, liveness checks and crashes
\* have done to the worker of an agent, when they are done the registered worker's process
\* is the container that runs, with one polling loop and one monitor, and nothing else runs.
THEOREM RestStaysConsistent == LifeSpec => []RestIsConsistent
<1>1. LifeInv => RestIsConsistent
  <2> SUFFICES ASSUME LifeTypeOK, Orderly, AtRest PROVE
           /\ live = IF registered = 0 THEN 0 ELSE state[registered].proc
           /\ ~abandoned
           /\ registered # 0 => state[registered].loop
           /\ {m \in Monitors : monitor[m].at = "wait"} = IF registered = 0 THEN {} ELSE {state[registered].mon}
    BY DEF LifeInv, RestIsConsistent
  <2>1. /\ \A h \in Handlers : handler[h].at = "off" /\ handler[h].mon = 0
        /\ \A m \in Monitors : monitor[m].at \in {"off", "wait"}
        /\ \A m \in Monitors : monitor[m].at = "wait" => monitor[m].proc = live
    BY DEF AtRest, At, Exited, Orderly, RolesAreKept
  <2>2. registered # 0 => registered \in Container
    BY OrderlyShape
  <2>3. \A m \in Monitors : monitor[m].at = "wait" =>
          /\ registered # 0 /\ state[registered].mon = m /\ monitor[m].obj = registered
          /\ live = state[registered].proc
    BY <2>1, LifeShape DEF Orderly, MonitorsAreHeld, DownIsDown, Replaces, Watches, Down, At
  <2>4. ASSUME registered # 0
        PROVE  /\ state[registered].loop /\ state[registered].mon \in Monitors
               /\ monitor[state[registered].mon].at = "wait"
    <3>1. ~state[registered].stop
      BY <2>1, <2>4 DEF Orderly, RegisteredIsServed, Stopping
    <3>2. state[registered].mon # 0
      BY <2>1, <2>4, <3>1 DEF Orderly, RegisteredIsServed, Detaching
    <3>3. state[registered].mon \in Monitors
      BY <2>2, <2>4, <3>2, LifeShape
    <3>4. monitor[state[registered].mon].at = "wait"
      BY <2>1, <2>2, <2>4, <3>2, <3>3 DEF Orderly, WorkersKnowTheirs, Watches
    <3>5. state[registered].loop
      BY <2>1, <2>4, <3>3 DEF Orderly, RegisteredIsServed, Detaching, Down
    <3> QED
      BY <3>3, <3>4, <3>5
  <2>5. live = IF registered = 0 THEN 0 ELSE state[registered].proc
    <3>1. CASE registered = 0
      BY <2>1, <3>1 DEF Orderly, LiveIsKnown, At
    <3>2. CASE registered # 0
      BY <2>3, <2>4, <3>2
    <3> QED
      BY <3>1, <3>2
  <2>6. {m \in Monitors : monitor[m].at = "wait"} = IF registered = 0 THEN {} ELSE {state[registered].mon}
    <3>1. CASE registered = 0
      BY <2>3, <3>1
    <3>2. CASE registered # 0
      BY <2>3, <2>4, <3>2
    <3> QED
      BY <3>1, <3>2
  <2> QED
    BY <2>4, <2>5, <2>6 DEF Orderly
<1> QED
  BY <1>1, LifeInvariant, PTL

==============================================================================
