--------------------------- MODULE ScheduledTasks ---------------------------
(***************************************************************************)
(* The one-off tasks of the scheduler (memory compactions): rows with      *)
(* retries, a coroutine and an ephemeral container per attempt, timeouts,  *)
(* and the end of every attempt.  The container of a task works in the     *)
(* directory of its agent, with the name all task containers of the agent  *)
(* have: this module follows one agent, its session's container, and the   *)
(* files input.json and output.json that all of them take for theirs.      *)
(***************************************************************************)
EXTENDS Naturals, FiniteSets

CONSTANTS
  Tasks,        \* rows of scheduled_tasks
  Absent,       \* no task, no file
  MaxRetries,   \* per task, its column max_retries: 3 by default
  MaxTroubles   \* bound: messages of the user, failed spawns, second cancellations, restarts

ASSUME ScheduledTasksConstantsOK ==
  /\ Absent \notin Tasks \cup {"user"} /\ Tasks \cap {"user", "answer", "error"} = {}
  /\ MaxRetries \in [Tasks -> Nat] /\ MaxTroubles \in Nat

VARIABLES
  task,       \* per task, its row: status and retry_count
  runner,     \* per task, where _run_scheduled_task is
  tracked,    \* _running_tasks
  owner,      \* the task whose coroutine started the task container
  proc,       \* the two containers: what they do, and with which input
  input,      \* input.json
  output,     \* output.json: the events in it
  troubles,
  carriedOut, \* history: how often some worker carried a task out to the end
  stuck       \* history: tasks whose end was cancelled in its turn

taskVars == <<task, runner, tracked, owner, proc, input, output, troubles,
              carriedOut, stuck>>

Items   == Tasks \cup {"user"}
TaskWorkers == {"session", "ephemeral"}
Off     == [at |-> "off", item |-> Absent]
Ready   == [at |-> "idle", item |-> Absent]

TaskInit ==
  /\ task = [t \in Tasks |-> [status |-> "none", retries |-> 0]]
  /\ runner = [t \in Tasks |-> "none"] /\ tracked = {} /\ owner = Absent
  /\ proc = [p \in TaskWorkers |-> Off] /\ input = Absent /\ output = {}
  /\ troubles = 0 /\ carriedOut = [t \in Tasks |-> 0] /\ stuck = {}

Trouble == troubles < MaxTroubles /\ troubles' = troubles + 1
Becomes(t, s) == task' = [task EXCEPT ![t].status = s]
\* the container is left to itself
LeftAlone == UNCHANGED proc

\* The container is gone; nobody tells its coroutine.
Killed == proc' = [proc EXCEPT !["ephemeral"] = Off]

------------------------------------------------------------------------------
\* The rows and the coroutines.

\* _schedule_compaction_task.
ScheduleTask(t) ==
  /\ task[t].status = "none" /\ Becomes(t, "pending")
  /\ UNCHANGED <<runner, tracked, owner, proc, input, output, troubles,
                 carriedOut, stuck>>

\* _poll_pending_tasks, and the first step of the coroutine.  That the coroutine of the
\* attempt before has ended is due to the backoff, of 30 seconds at least.
StartTask(t) ==
  /\ task[t].status = "pending" /\ t \notin tracked /\ runner[t] = "none"
  /\ Becomes(t, "running")
  /\ runner' = [runner EXCEPT ![t] = "spawning"]
  /\ UNCHANGED <<tracked, owner, proc, input, output, troubles, carriedOut, stuck>>

\* spawn_scheduled_container removes a container of the same name, and input.json is
\* replaced, whatever it held.
SpawnTask(t) ==
  /\ runner[t] = "spawning"
  /\ runner' = [runner EXCEPT ![t] = "polling"]
  /\ tracked' = tracked \cup {t} /\ owner' = t
  /\ proc' = [proc EXCEPT !["ephemeral"] = [at |-> "boot", item |-> Absent]]
  /\ input' = t
  /\ UNCHANGED <<task, output, troubles, carriedOut, stuck>>

SpawnTaskFails(t) ==
  /\ runner[t] = "spawning" /\ Trouble
  /\ runner' = [runner EXCEPT ![t] = "failing"]
  /\ UNCHANGED <<task, tracked, owner, proc, input, output, carriedOut, stuck>>

\* whatever the file says is taken for a result
AnyEvent == output

Results == output \cap Tasks

\* _poll_task_response takes output.json away, whoever wrote it: the first result or
\* error in it ends the attempt, whatever task or message it is about.
TaskReadsOutput(t) ==
  /\ runner[t] = "polling" /\ output # {}
  /\ output' = {}
  /\ IF Results # {}
     THEN Becomes(t, "completed") /\ runner' = [runner EXCEPT ![t] = "cleanup"]
     ELSE /\ runner' = [runner EXCEPT ![t] = IF "error" \in output THEN "failing" ELSE @]
          /\ UNCHANGED task
  /\ UNCHANGED <<tracked, owner, proc, input, troubles, carriedOut, stuck>>

\* The container of the attempt has exited, and left no output.
TaskExited(t) ==
  /\ runner[t] = "polling" /\ output = {}
  /\ owner # t \/ proc["ephemeral"].at = "off"
  /\ runner' = [runner EXCEPT ![t] = "failing"]
  /\ UNCHANGED <<task, tracked, owner, proc, input, output, troubles, carriedOut, stuck>>

\* The deadline of the poll, or _check_task_timeouts.
TaskTimesOut(t) ==
  /\ runner[t] = "polling"
  /\ runner' = [runner EXCEPT ![t] = "failing"]
  /\ UNCHANGED <<task, tracked, owner, proc, input, output, troubles, carriedOut, stuck>>

\* a row out of retries is left as it is
RetriedIfLeft(row, max) ==
  IF row.retries < max THEN [status |-> "pending", retries |-> row.retries + 1] ELSE row

\* one more retry than allowed
RetriedOnceMore(row, max) ==
  IF row.retries <= max THEN [status |-> "pending", retries |-> row.retries + 1]
  ELSE [row EXCEPT !.status = "failed"]

Retried(row, max) ==
  IF row.retries < max THEN [status |-> "pending", retries |-> row.retries + 1]
  ELSE [row EXCEPT !.status = "failed"]

\* _apply_retry_or_fail.
RetryOrFail(t) ==
  /\ runner[t] = "failing"
  /\ task' = [task EXCEPT ![t] = Retried(@, MaxRetries[t])]
  /\ runner' = [runner EXCEPT ![t] = "cleanup"]
  /\ UNCHANGED <<tracked, owner, proc, input, output, troubles, carriedOut, stuck>>

\* The next _check_task_timeouts cancels the task while it handles its cancellation.
CancelledAgain(t) ==
  /\ runner[t] = "failing" /\ t \in tracked /\ Trouble
  /\ runner' = [runner EXCEPT ![t] = "cleanup"]
  /\ stuck' = stuck \cup {t}
  /\ UNCHANGED <<task, tracked, owner, proc, input, output, carriedOut>>

\* The end of the coroutine: the container is killed by its name, unless the process of
\* this attempt is known to have exited.
EndTask(t) ==
  /\ runner[t] = "cleanup"
  /\ tracked' = tracked \ {t}
  /\ runner' = [runner EXCEPT ![t] = "none"]
  /\ IF owner = t /\ t \in tracked THEN Killed ELSE UNCHANGED proc
  /\ UNCHANGED <<task, owner, input, output, troubles, carriedOut, stuck>>

\* The orchestrator starts again: boot recovery removes the containers and the files, and
\* fails what was pending or running.
RestartTasks ==
  /\ Trouble
  /\ task' = [t \in Tasks |-> IF task[t].status \in {"pending", "running"}
                              THEN [task[t] EXCEPT !.status = "failed"] ELSE task[t]]
  /\ runner' = [t \in Tasks |-> "none"] /\ tracked' = {} /\ owner' = Absent
  /\ proc' = [p \in TaskWorkers |-> Off] /\ input' = Absent /\ output' = {}
  /\ UNCHANGED <<carriedOut, stuck>>

------------------------------------------------------------------------------
\* The containers: each runs the same worker.

\* A page connects, to send a message.
StartSession ==
  /\ proc["session"] = Off /\ troubles < MaxTroubles
  /\ proc' = [proc EXCEPT !["session"].at = "boot"]
  /\ UNCHANGED <<task, runner, tracked, owner, input, output, troubles,
                 carriedOut, stuck>>

\* main: what was left in output.json is removed.
BootWorker(p) ==
  /\ proc[p].at = "boot"
  /\ proc' = [proc EXCEPT ![p] = Ready] /\ output' = {}
  /\ UNCHANGED <<task, runner, tracked, owner, input, troubles, carriedOut, stuck>>

\* The session's polling loop writes the user's messages when there is no input.json.
UserMessage ==
  /\ Trouble /\ proc["session"].at # "off" /\ input = Absent
  /\ input' = "user"
  /\ UNCHANGED <<task, runner, tracked, owner, proc, output, carriedOut, stuck>>

TakeInput(p) ==
  /\ proc[p].at = "idle" /\ input # Absent
  /\ proc' = [proc EXCEPT ![p] = [at |-> "work", item |-> input]]
  /\ input' = Absent
  /\ UNCHANGED <<task, runner, tracked, owner, output, troubles, carriedOut, stuck>>

\* A message is answered; its events wait until output.json is free.
AnswerUser(p, event) ==
  /\ proc[p].at = "work" /\ proc[p].item = "user" /\ output = {}
  /\ output' = {event}
  /\ proc' = [proc EXCEPT ![p] = Ready]
  /\ UNCHANGED <<task, runner, tracked, owner, input, troubles, carriedOut, stuck>>

\* _handle_scheduled_task and sys.exit: the result is lost if output.json is not free.
CarryOut(p) ==
  /\ proc[p].at = "work" /\ proc[p].item \in Tasks
  /\ carriedOut' = [carriedOut EXCEPT ![proc[p].item] = @ + 1]
  /\ output' = IF output = {} THEN {proc[p].item} ELSE output
  /\ proc' = [proc EXCEPT ![p] = Off]
  /\ UNCHANGED <<task, runner, tracked, owner, input, troubles, stuck>>

\* The session's polling loop takes output.json, and knows nothing of task_result.
SessionReadsOutput ==
  /\ proc["session"].at # "off" /\ output # {}
  /\ output' = {}
  /\ UNCHANGED <<task, runner, tracked, owner, proc, input, troubles, carriedOut, stuck>>

RunnerStep(t) ==
  \/ SpawnTask(t) \/ SpawnTaskFails(t) \/ TaskReadsOutput(t) \/ TaskExited(t)
  \/ TaskTimesOut(t) \/ RetryOrFail(t) \/ CancelledAgain(t) \/ EndTask(t)

TaskNext ==
  \/ \E t \in Tasks : ScheduleTask(t) \/ StartTask(t) \/ RunnerStep(t)
  \/ \E p \in TaskWorkers :
       BootWorker(p) \/ TakeInput(p) \/ CarryOut(p)
       \/ \E event \in {"answer", "error"} : AnswerUser(p, event)
  \/ StartSession \/ UserMessage \/ SessionReadsOutput \/ RestartTasks

\* The scheduler polls on every tick; a coroutine that waits is resumed, by an answer, by
\* its container's exit or by its deadline.
TaskFairness == \A t \in Tasks : WF_taskVars(StartTask(t)) /\ WF_taskVars(RunnerStep(t))

TaskSpec == TaskInit /\ [][TaskNext]_taskVars /\ TaskFairness

------------------------------------------------------------------------------

TaskTypeOK ==
  /\ \A t \in Tasks :
       /\ task[t] \in [status : {"none", "pending", "running", "completed", "failed"},
                       retries : 0..MaxRetries[t]]
       /\ carriedOut[t] \in 0..(MaxRetries[t] + 1)
  /\ runner \in [Tasks -> {"none", "spawning", "polling", "failing", "cleanup"}]
  /\ {tracked, stuck} \subseteq SUBSET Tasks
  /\ owner \in Tasks \cup {Absent} /\ input \in Items \cup {Absent}
  /\ output \subseteq Tasks \cup {"answer", "error"}
  /\ proc \in [TaskWorkers -> [at : {"off", "boot", "idle", "work"}, item : Items \cup {Absent}]]
  /\ troubles \in 0..MaxTroubles

\* A row that says 'running' has a coroutine that will end it, and a coroutine is known to
\* the timeouts as long as its container may be alive: also after a failed spawn, a
\* timeout or a restart, but not after a second cancellation.
RunningHasOwner ==
  \A t \in Tasks \ stuck :
    /\ task[t].status = "running" <=> runner[t] \in {"spawning", "polling", "failing"}
    /\ owner = t /\ proc["ephemeral"].at # "off" => t \in tracked

CompletedTasks == {t \in Tasks : task[t].status = "completed"}

\* The times a task was carried out.
Occasions == UNION {{t} \X (1..carriedOut[t]) : t \in Tasks}

\* A task is 'completed' by a result that a worker wrote after it had carried a task out,
\* and no result completes two.  The task need not be the same one: the result of another
\* task of the agent, that ran at the same time or had timed out, is taken for this one's.
CompletedWasCarriedOut == Cardinality(CompletedTasks) <= Cardinality(Occasions)

\* ARCHITECTURE.md, "Has retry logic and configurable timeouts": a task that was scheduled
\* is completed or failed in the end, whatever becomes of its containers and its files.
EveryTaskEnds ==
  \A t \in Tasks :
    task[t].status # "none" ~> task[t].status \in {"completed", "failed"} \/ t \in stuck

=============================================================================
