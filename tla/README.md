# Verification of takopod

TLA+ models of takopod, the orchestrator and worker of containerised agents, with
the TLC configurations that check them and TLAPS proofs of their main invariants.
Every definition follows the code; `PROJECT.json` gives the lines each one stands
for. Paths below are relative to the repository.

## 1. The system

One **orchestrator** process (FastAPI, asyncio, SQLite through one database
thread) serves a web page and runs one **worker** container per active agent. The
two sides share a directory and talk through five files in it, each holding one
message: `input.json` and `cancel.json` down, `output.json` up, `request.json` up
and `response.json` down for tool calls. Everything is written by rename, and the
reader removes a file once it has read it.

| Component | State | Operations | Talks to |
|---|---|---|---|
| Message channel (`orchestrator/ipc.py`, `worker/worker.py`) | `message_queue`, `messages`, the files, the loop's locals, the worker's pending events and `processed_messages` | queue a message, polling loop, process events, flush, execute | all of them |
| Worker lifecycle (`orchestrator/routes.py`, `scheduler.py`, `container_manager.py`) | `_active_workers`, `agent_containers`, process handles, crash times | ensure, re-attach, monitor, respawn, reap, kill, graceful shutdown | message channel, tool channel |
| Boot recovery (`orchestrator/boot_recovery.py`) | all tables, all directories | recover once, before the first request | all of them |
| Tool channel (`worker/tools/`, `orchestrator/ipc.py`, `gh_approval.py`, `cli_registry.py`) | the two files, `pending_request`, background tasks, pending approvals, cards in `messages` | call, handle, approve, execute, respond | page, MCP servers, database |
| Recurring tasks (`orchestrator/scheduler.py`, `checkers/`) | `agentic_tasks`, `_running_agentic`, `_activity_signaled` | poll, check, run, count failures, back off, advance the cursor; pause, resume, run now, webhook | message channel |
| One-off tasks (`orchestrator/scheduler.py`) | `scheduled_tasks`, `_running_tasks` | run in an ephemeral container, retry, time out | container manager, the session's worker (same files) |
| Slack poller (`orchestrator/slack_poller.py`, `slack_routes.py`) | cursors of channels and threads, failure counts | poll, dispatch, back off, reply, follow a thread | message channel |
| Memory and search (`worker/memory.py`, `search.py`, `search_routes.py`) | memory files, their registry, full-text and vector index, facts | append, compact, index, prune, rebuild, edit, delete; store a fact | worker, one-off tasks |
| Sessions (`worker/worker.py`, `worker/agent.py`) | SDK session, continuations, transcripts, history files of each conversation | query, stop, split, clear, shut down, seed | memory, message channel |
| Context budget (`worker/context_budget.py`) | none | truncate, assemble | worker |
| Ticket pipeline (`skills/quay-sdlc/db.py`) | `tickets`, `ticket_log` | add, claim, finish, list and recover | agents only |
| Page side (`routes.websocket_endpoint`) | rate limit windows, socket | accept, limit, attach, detach | message channel |
| MCP manager, CLI gates | server processes, rule sets | start, stop, call, classify | tool channel |
| HTTP API, OAuth, models, settings, skills, integrations, web page | one row or file each | create, read, update, delete | database |

### What is hard about it

* *Two readers and writers per file.* The polling loop and the worker are separate
  processes; each file is a slot that the other side may not have emptied yet.
* *A coroutine is interrupted at every await.* Selecting rows, writing
  `input.json` and marking the rows are three steps; so are reading
  `output.json`, processing its events and deleting rows; so are counting a
  failure, reading the count and disabling a task.
* *Cancellation.* A message over the WebSocket cancels the polling loop of a live
  worker wherever it is, and starts another.
* *Many rescuers.* The exit of a worker is seen by its monitor, the reaper, a
  liveness check and the next request, and each repairs part of the state.
* *Restarts of either side.* Files outlive the worker, rows outlive both, and
  `processed_messages` is emptied when a worker boots.
* *Timeouts whose subject goes on.* A tool call, an approval or a scheduled run
  may be given up while the other side still works on it.
* *One name for two things.* The containers of an agent have one name, and so have
  those of all its one-off tasks; these share `input.json` and `output.json` with
  the agent's session. Whoever kills, spawns or reads by name may hit another's.
* *Cursors.* A position in a stream of posts or changes is written after what it
  covers was handed over, and something may end in between.
* *Copies.* A summary is in a file, a registry row, two indexes and perhaps in what
  a compaction has just read; a turn is in a session, a transcript, a history file
  or a memory. They are written one after another by processes without a lock.

`PROJECT.json` lists each hazard at its line with the properties that cover it, or
says why none does.

### What makes each component correct

* Message channel: a message is executed once while nothing fails, in the order
  sent, and at least once after recovery; a row leaves the queue only when its
  message was finished; a reply that was completed stays so; nothing blocks the
  queue for ever.
* Lifecycle: a dead worker is noticed; at most one worker per agent; nothing is
  taken from the queue by the reaper unexecuted.
* Tool channel: nothing runs without the approval it needs, nothing runs twice,
  the agent and the user are told what happened, nothing waits for ever.
* Recurring tasks: executions do not overlap, the cursor covers only what was
  handled, failures disable the task, a due task runs.
* Slack poller: a cursor passes only mentions that were dispatched or refused, a mention is
  dispatched once unless a poll was cut short, agents answer each other only as long as the
  marks of their answers get lost, and a mention in a polled place is handled in the end.
* One-off tasks: a running row has somebody who will end it, a task is carried out
  at most once more than it may be retried, and every task ends.
* Memory: no summary is lost, the indexes describe the files as they are, a key has
  one current fact.
* Sessions: a turn that ended is not forgotten, a turn that was cleared does not come
  back, and a thread is not told the turns of another conversation.
* Context budget: the prompt keeps to its budget up to what nobody has budgeted (a
  marker, blank lines), and no section starves another.
* Ticket pipeline: allowed moves only, each of them logged, and one agent per claim.

## 2. The modules

| Module | What it is |
|---|---|
| `MessageService` | what the message channel promises while nothing fails: each message is started once, in order, then answered |
| `MessageDelivery` | the message channel and the lifecycle of one worker, with crashes, restarts, reaps and re-attachments |
| `MessageDelivery_proofs` | its theorems, those that hold while nothing fails, and that it implements the service |
| `MCMessageDelivery` | sets of messages for the TLC instances |
| `ToolChannel` | tool calls, the request slot, background tasks and approvals |
| `ToolChannel_proofs`, `MCToolChannel` | its theorems, its instance |
| `AgenticTasks` | one recurring task: scheduler, runs, cursor, circuit breaker, backoff |
| `AgenticTasks_proofs`, `MCAgenticTasks` | its theorems, its instance |
| `Lifecycle` | the container of one agent, and everybody who spawns, watches or stops it |
| `ScheduledTasks` | one-off tasks and the files their containers share with the session |
| `Containers_proofs` | theorems about `Lifecycle` and `ScheduledTasks` |
| `SlackPoller`, `SlackPoller_proofs` | a polled channel, the threads that are followed, and the way back of an answer; its theorems |
| `Memory` | the memory files of a day, their registry and their two indexes |
| `Facts` | the table of facts under concurrent transactions |
| `Memory_proofs` | theorems about `Memory` and `Facts` |
| `Sessions`, `Sessions_proofs` | what a worker remembers of its conversations; its theorems |
| `Prompt` | the assembly of the system prompt |
| `Tickets` | the ticket database of the quay-sdlc skill and its workflows |
| `MCServices` | the sum of the last eight models, for the runs `services` and `services_liveness` |
| `Services_proofs` | theorems about `Tickets`, `Prompt` and the sum |

A definition whose name says how it goes wrong (`InputAssumedFree`, `TakeCopy`,
`LeaveApproving`, `TooManyLate`, ...) stands before the definition it corrupts and
is used nowhere: it is the fault with which a property is tested.

### MessageDelivery

One agent. Messages are numbers in the order of `created_at`; `Users` of them are
chat messages, which the worker looks up in `processed_messages`, the others are
scripts and commands, which it does not; `Quiet` ones run without a thinking
status, so that nothing creates their reply row before the first token; `Web` ones
come over the WebSocket.

| State | In the code |
|---|---|
| `row`, `reply`, `cstatus` | `message_queue.status`, `messages.status` of the assistant's row, `agent_containers.status` |
| `input`, `output` | the files; the empty set is no file |
| `lp`, `batch`, `events`, `finished` | the await at which `_polling_loop` is, and its locals |
| `tracked`, `shutting`, `connected`, `strikes`, `mp` | the `WorkerState` and where its monitor is |
| `req`, `rp` | the request handler and the reaper between two awaits |
| `worker`, `held`, `current`, `ended`, `pending`, `processed` | the worker process, its loop and its table |
| `ran`, `outcome`, `unwritten` | history, for the properties only |

An action is what one coroutine does between two awaits (`LoopSelect`, `LoopWrite`,
`LoopMark`, `LoopRead`, `LoopHandle`, `LoopDelete`; `MonitorExit`, `RespawnSpawn`,
`RespawnRequeue`; `ReapCheck` to `ReapPop`), a step of the worker process, a request, or a
fault. Events of one kind for one message are one event: no property counts tokens. The code
swallows the error of a statement that writes a reply and goes on to delete the row;
`LoopHandle` has that for the messages in `Fragile`, and `unwritten` remembers which. The
events of one `output.json` are a set in which those of a message keep their order; those of
different messages touch different rows.

Left out: the text of messages; `cancel.json`, which is in `Sessions`; the
containers of one-off tasks, which boot the same worker in the same directory, empty
`processed_messages` (`worker.py:668`) and may take `input.json`: what is shown here of a
session holds while none runs beside it, and `ScheduledTasks` has both; several
requests for the same agent at the same time, `_check_worker_liveness` and
`kill_agent`, which are in `Lifecycle`; `graceful_shutdown`, which does a reap and
a restart in one; a spawn while the reaper is between its check and its shutdown
command (the record it then stops is the old one). Rows created in the same
second are ordered by their insertion. `podman` is slower than the reaper's next
statement, so a reap that finds a dead worker comes before the respawn of it
(`~shutting` in `RespawnSpawn` and `RespawnRequeue`).

### ToolChannel

One agent and a set of calls. `Gate` says what the CLI gate thinks of each command. A call
writes `request.json` and waits (`Call`, `Receive`, `GiveUp`); the loop takes it when no
task is pending (`Take`); the background task goes through `HandleNew`, `PersistCard`,
`SendCard`, `EndWait`, `SettleCard`, `TellPage`, `Execute` and `Respond`, one per await. The
statements that store and settle a card may fail, which the code logs and ignores; the
frames to the page may detach it (`FrameEnds`) or raise what `WebSocketManager.send` does
not catch (`FrameRaises`), which ends the call. `stranded` is history: the calls whose
pending card the orchestrator has failed to settle. `Hang` is an MCP server that does not
answer, for which the host has no timeout. A wait may end at any time: the timeouts of the
worker (60 to 360 seconds), of the approval and of the subprocess (300 seconds each) overlap
in every order. `clicks` and `runs` are history. Up to `MaxOpen` calls are open at once, so
requests and responses replace each other as they do in the files.

Left out: what the actions other than `mcp_call` do; a second page open beside the
first; and what a call does to the outside world beyond having been executed.

### AgenticTasks

One task, of any kind (`trigger`), and the runs of it. A run is a coroutine with
one action per await, `CheckSees` to `Double`; `registered` is the task's entry in
`_running_agentic`, `row` what the scheduler has read and not acted upon. The
watched source is a counter, the cursor one of its values. A checker that sees no change
may have a new cursor all the same (an ETag, messages it filters out), which is written as
well (`renewed`). The worker is reduced
to what `_wait_for_completion` can see: no reply, one that is streaming, a complete
one with an answer or an error, and one completed because its worker died.

Left out: `update_schedule`, the webhook's rate limit, database errors inside a
run, the messages that report a failure, and the contents of cursors.

### Lifecycle

One agent's container, row by row of `agent_containers`, and all that acts on it at
once. A container is known by the number of its spawn, a `WorkerState` by the
container it was made for; `live` is what podman runs under the agent's name, so a
spawn removes whatever had the name (`Removes`, `Runs`).

| State | In the code |
|---|---|
| `registered`, `state` | `_active_workers`, the fields of each `WorkerState` |
| `handler` | a request: `page` (`_ensure_worker`), `headless` (`ensure_worker_headless`), `leaver` (`_cleanup_agent`), `kill`, `reap` and `check` (the scheduler), with its locals and the await at which it is |
| `monitor` | the tasks `_monitor_worker`, with the await and the locals of a respawn |
| `row`, `live`, `spawned` | the database's and podman's view |
| `abandoned`, `raced` | history |

An action is what a coroutine does between two awaits, whether it holds
`_workers_lock` or not. The lock is held only for the tests, so most of the
interleavings are there. `raced` marks the pairs that the code does not keep apart: two
messages that both find no worker, a kill or a reap that pops, or cancels the
respawn of, a container other than the one it waited for, and an exception between
`podman run` and the registration (`SpawnRaises`, `RespawnRaises`: the UPDATE at
`container_manager.py:504`, the statements at `routes.py:2746`), after which a container runs
that no registry names, until the next spawn removes it by its name. Left out: what happens to
messages meanwhile (`MessageDelivery`), and `graceful_shutdown`.

### ScheduledTasks

The one-off tasks of an agent: `task` is the row, `runner` the await at which
`_run_scheduled_task` is, `tracked` its entry in `_running_tasks`, `owner` the
coroutine that started the task container last. `proc` has two containers, the
session's and the one of the tasks: all task containers of an agent have the same
name, and each spawn removes its predecessor. Both read `input.json` and write
`output.json` of the same directory, so a task may be carried out by the session, its
result be taken by the session's loop or by the coroutine of another task. This is
what the code does; the properties say what holds nevertheless. `stuck` is a task
whose cancellation was cancelled by the next `_check_task_timeouts`, and stays
`running` until a restart.

### SlackPoller

A post is its position in the workspace, which orders posts as their `ts` do. `poll` holds
the locals of the loop: the job it is asking about (the channel, or a thread of an agent),
the mentions still to be dispatched, the cursor to be written. `Arrives` computes the page,
the newest `Window` posts of a channel or the oldest of a thread; `Dispatch` makes one
message of one mention, or refuses it in the thread; `Persist` writes the cursor.
`PollFails` is any exception, between two dispatches too; `ApiError` an error Slack answers
with, which the code takes for an empty page. `PostReply` and `RegisterReply` bring the
answer of `MessageDelivery` back to Slack and follow its thread. The answer is marked as an
agent's, unless the lookup of the agent's name failed (`ipc.py:564`, `slack_poller.py:810`):
then it looks like a user's. `depth` is history, the number of answers that led to a post. A
refusal may fail to be posted, so that a mention in `handled` may be one that nobody was
told of. `from` is the cursor a row was created with and `spent` counts what cut polls
short: both are history. Left out: attachments, the context of a thread in the prompt,
Markdown, the length of intervals.

### Memory, Facts

`Memory` follows the files of one date. A summary is a number and a chunk the set of
summaries it tells, so that a compaction can be followed through. `disk`, `registry`, `fts`
and `vec` are the files, `memory_files` and the two indexes, each committed on its own.
`writer` is the session's container (`WriteSummary`, `RegisterSummary`, `EmbedSummary`),
`compactor` the ephemeral one (`CompactReads` to `CompactEmbeds`, killed and tried again by
`CompactorGone`), `rebuilder` the orchestrator's rebuild; the user's requests edit, reindex
and delete. `excepted` and `dirty` are histories of the cases in which the code loses a
summary, or leaves the indexes wrong until a rebuild; each action says why it adds to them.

`Facts` has the committed table, at most one open write transaction, and per container
what `store_facts` has read and has still to write. The read comes before the
transaction. `raced` are the keys written on a read that was out of date by then.

### Sessions

A text is the set of turns it tells. `session`, `continuation`, `transcript`, `saved`
and `memory` are, per conversation, the SDK session, `_continuations`,
`_transcripts`, the file under `session_history/` and the daily memory. `StartWorker`
includes the seed of `spawn_container`: the last visible messages of the agent,
whatever their conversation, for the web conversation, unless it has a file.
`ClearContext` is two requests, the command and the hiding of the messages, of which
the second may not arrive. `forgiven` are turns whose summary failed, or whose worker
died, when the window of the history file had moved past them. What a query knows is
`Known`: that a web conversation may be told the turns of threads follows from the
seed, and is not excluded.

### Prompt

`Fill` is one step of the loop of `assemble_system_prompt`. A text is its length;
`Truncated` is what `truncate_text` may leave of it, with the marker that it appends.
`joined` is the prompt, with the blank line between two sections that no budget is charged
for. `remaining` is the local variable of that name; `above` is history: how many tokens the
sections above each one have taken, and how many of them beyond their allocations.

### Tickets

`status`, `stale` (is `updated_at` too old?) and `history` (`ticket_log`) are the
tables; `command` is what a running `db.py` has read and not yet written; `holds` is
what the workflow of an agent believes it has claimed. `UpdateReads` and
`UpdateWrites` are `cmd_update`, `ListReads` and `ListWrites` the recovery of stale
claims in `cmd_list`. `recovered` counts how often a ticket's claim was recovered.

### MCServices

The models of this group share no variable, and a run for each would say no more:
`MCServices` has one behaviour per service. `focus` is chosen in the initial state among
`Services`, and the actions of that service alone are taken. The state graph is the
disjoint union of the eight; an invariant of one service is checked on all of its
states, at the bounds below. `ServicesFairness` restates `SlackFairness` and
`TaskFairness` for the behaviours they are about.


## 3. The runs

| Run | Instance | Shows |
|---|---|---|
| `delivery_faults` | two messages over the WebSocket, one of them a command; a crash and a reap | `AnsweredWasSettled`, `StartedOncePerBoot`, `CompleteReplyStays` in every interleaving of loop, worker, monitor, reaper and user |
| `delivery_liveness` | one message; two crashes, a restart, a reap | `TypeOK`; `QueuedIsHandedOver`, `DeadWorkerIsNoticed` |
| `delivery_faultfree` | three headless messages, one quiet, one a command; the writes of one reply may fail | `Custody`, `AnswerVisible`, `QueuedIsFresh`, and `ImplementsService`: the channel refines `MessageService` with its liveness |
| `delivery_dedup` | a restart | finding: a settled message is executed again |
| `delivery_reap` | a reap, no hard timeout | finding: the reaper deletes a row that was never executed |
| `delivery_reattach` | no fault | finding: an event that was read is dropped |
| `toolchannel` | two calls, three troubles (also failing statements and frames), servers that hang | the six properties of the tool channel |
| `agentic_safety` | a task of each kind, two changes, two requests, a death, a restart | `TypeOK`, `OneRunAtATime`, `CursorIsAnsweredIfAlive`, `BreakerTrips`, `CursorOnlyAdvances` |
| `agentic_liveness` | a task that is polled for, one change, one request, a restart | `ChangeIsHandled`, `DueTaskRuns` |
| `agentic_cursor` | one death of the worker | finding: the cursor passes a change whose work was cut short |
| `services` | the eight services, one per behaviour | `ServicesTypeOK` and the fourteen safety properties below |
| `services_liveness` | Slack poller and one-off tasks | `MentionIsHandled`, `EveryTaskEnds` |

What `services` shows, service by service:

| Property | Holds for | Except, as the code has it |
|---|---|---|
| `CursorIsHonest` | every mention a cursor has passed was dispatched or refused | mentions that a burst pushed off the page, and names of no agent (`excused`) |
| `RepeatsAreAccounted` | a mention is dispatched twice only for a poll cut short or a thread followed anew | |
| `FeedbackNeedsFailures` | a chain of answers up to a dispatched mention has no more links than answers that went out unmarked | |
| `LogIsPath` | a ticket's log is an unbroken path of allowed moves | |
| `ClaimIsExclusive` | one agent works on a ticket | one more per recovery of its claim: the table has no owner |
| `SummariesSurvive` | every summary is told by some file, through appends, compactions killed anywhere, retries, deletions | what is appended to a file that a compaction has read; what did not fit in its input; what the user deletes (`excepted`) |
| `IndexMatchesFiles` | at rest the indexes hold what the files hold | overlapping writers, a crash between two commits, edits of entries, until a rebuild (`dirty`) |
| `FactIsCurrent` | a key has one active row, with the last value stored | a key written on a stale read (`raced`) |
| `TurnsAreRemembered` | a turn that ended can still be recalled or summarised | a failed summary, or a crash, beyond the window (`forgiven`) |
| `ConversationsStayApart` | cleared turns do not return, threads are told only their own | |
| `RunningHasOwner` | a running row has a coroutine that will end it | a task cancelled while it handles a cancellation (`stuck`) |
| `CompletedWasCarriedOut` | there are no more completed tasks than tasks carried out | that it was this task: results are not matched |
| `RestIsConsistent` | when nobody acts, one container, its worker, one loop and one monitor belong together | the pairs and failures in `raced` |
| `PromptIsFair` | the joined prompt is over its budget by a marker, the blank lines and the rounding at most, and no section loses text that fits | what markers above it took |

Each exception in the table is a history variable, set by the very step in which the code goes
wrong and by no other, so that the property still speaks about everything else.

`CardIsSettled`, of `toolchannel`, has two exceptions: a task that a restart of the
orchestrator has ended (`dead`), and a card that it failed to settle itself, because its UPDATE
failed or because a frame raised before the wait (`stranded`). `RequestIsTaken` exempts a slot
kept by an MCP server that does not answer. `AnswerVisible`, of `delivery_faultfree`, exempts
a message a write of whose own reply failed (`unwritten`), which loses the answer.

### Bounds

`MessageDelivery`: two messages suffice for one to be executed while the other is queued, in
the file or re-attaching; three, for the order of two that wait behind one. `BreakerMax` is
2 or 3 instead of the code's 3 in 300 seconds: with 2 the breaker trips within the crashes
of the instance. One crash and one reap in `delivery_faults` meet at every point of each
other; the proofs cover any number. `ToolChannel`: two open calls compete for the slot and
for `response.json`, and three troubles allow a loop replaced, a worker crashed and a page
left in one history, or a failing statement with any two of them. `AgenticTasks`: two names
for runs, since one polled run may start while another is in its backoff; two changes, so
that a cursor could go back; three failures take no bound, since a run may fail each time.

In `services`:

* Slack: three posts and a page of two, so that a burst overflows the page, and a
  mention, an answer and its thread fit in; two events, so that a poll fails after
  another thing went wrong. `MaxRetry = 1`: a channel survives one failure and is
  disabled by the next. Liveness is checked with two posts, a page of one and two
  events; it was also found to hold with three posts.
* Lifecycle: two containers, one message, one other request and a monitor for each
  container; `MaxCrashes = 2` lets the breaker trip. With `MaxContainers = 3` and
  `MaxCrashes = 3`, as in the code, TLC finds the same in 13.9 million states; this
  instance is too large to be repeated with each change and is not among the runs.
* Tasks: two tasks, one with a retry, and one trouble, which may be a user's message
  in the shared file, a failed spawn, a second cancellation or a restart. The proofs
  cover any number of each.
* Memory: three summaries make a file, a continuation and one too many with
  `MaxContinuation = 1`, so that the compaction takes place, twice if it is killed;
  `InputFiles = 2` lets the third be cut off. One mishap at each point.
* Facts: two containers, one key, two values, lists of up to two facts, three calls.
* Sessions: two conversations, two turns, a window of one, so that the window moves
  past a turn; it was also found to hold with three turns, in 528 thousand states.
* Tickets: one ticket, since no command relates two of them, except a list, which
  only reads and resets each; two agents; seven moves allow a claim, a failure, the
  return and a recovery. The proofs take any number.
* Prompt: three sections of unequal allocation, with lengths up to one and a half times
  the larger budget, a marker of more than a token and a separator of one. With the
  numbers of the code (five sections, 15000 tokens of 4 characters, a marker of 16, a
  separator of 2) the bound, proved for all of them, is 60039 characters, or 15009 tokens.

Deadlock is not checked: when the bounds are used up and nobody sends anything the
system stops, as it should. `agentic_safety` uses the symmetry of the names of
runs, and no liveness property.

### Fairness

* `MessageDelivery`: weak fairness of the polling loop (it wakes up by itself), of
  the worker process (its queries end, by the SDK's own limits), of the monitor,
  the respawn and the reaper once they have begun, and of a request handler that
  has begun. None for users, for tokens or for faults. A reap need not begin.
* `ToolChannel`: weak fairness of taking a request, of each background task (the
  approval ends after 300 seconds), and of a call's wait (which ends by its own
  timeout). None for a task whose MCP server does not answer: `call_tool` has no timeout on
  the host (`mcp_manager.py:271`). None for the user.
* `AgenticTasks`: weak fairness of the scheduler's tick, of the passage of an
  interval and of each run (its wait ends after 300 seconds). Strong fairness of a
  check that succeeds: a source that never answers is never noticed, because
  `run_checker` reports a failure as no change.
* `SlackPoller`: weak fairness of the loop (`PollerStep`; every request of Slack has a
  timeout). Whether the channel is due is a choice of each tick, and so is which
  threads are: strong fairness of `PollChannel` and of the choice of each thread says
  that an interval ends some time, as a bounded `poll_interval` does. None for people,
  agents or requests; failures are bounded events.
* `ScheduledTasks`: weak fairness of the start of a pending row, which the scheduler polls
  for on every tick, and of each coroutine, whose wait ends by its deadline. None for the
  containers, which need never answer.

`Lifecycle`, `Memory`, `Facts`, `Sessions`, `Prompt` and `Tickets` have no fairness,
and no liveness is claimed of them.

## 4. The proofs

Eight modules hold theorems; the invariants in them were checked with TLC first.

`MessageDelivery_proofs`: for every number and mix of messages and any number of
crashes, restarts and reaps, `TypeCorrect`, `AnsweredIsSettled`, `OncePerBoot` and
`RepliesStayComplete`. The invariants are `SettledInv` (every final event between
the worker's memory and the loop's `finished_ids` was emitted for its message:
without it an `output.json` could finish anything) and `RanInv` (what a process
started is in its table, except the message it is executing). Types are proved one
part at a time (`DbType`, `LoopType`, ...), with a frame lemma for the parts an
action leaves alone.

`MessageDelivery_proofs`, while nothing fails: with any number and mix of headless messages,
any deletions, whichever writes of replies fail, and no crash, restart or reap
(`NothingFails`, constants only), `InFlightIsKept` (`Custody`), `AnswersAreVisible`
(`AnswerVisible`, for the replies whose own writes succeed), `QueuedAreFresh`
(`QueuedIsFresh`) and `ServiceIsImplemented`: every behaviour of `MessageDelivery` is one of
`MessageService`, by the mapping that `delivery_faultfree` checks. None of the three is
inductive. `Calm` is that one worker and one loop work undisturbed, from which
`OnlyCalmSteps` are left; `Fresh` puts a message in one of queue, `input.json`, worker and
history, also between the write of `input.json` and the mark of its rows (`Marking`); `Kept`
adds that the message a worker leaves has its final event under way; `ToldFirst` that a
final event does not overtake the first stream event of its message, although one may be in
`output.json` and the other still pending; `InOrder` that what is nearer to its start was
sent earlier, which `Start` of the service demands. What is proved of the refinement is its
safety; that the service's fairness is kept too is left to TLC.

`ToolChannel_proofs`: for every set of calls and gates, `ApprovalIsRequired`,
`RequestsRunOnce`, `AnswersAreTrue` and `CardsAreTrue` follow from `ToolInvariant`,
the conjunction, for each call, of what a request that is not taken, a task that
has not executed, a verdict, and a result that is told mean. `ExecutedOnce` alone is
not inductive: it needs `Untaken`, that a request in the file has no task yet, and
that in turn that an idle call has neither.

`AgenticTasks_proofs`: for any number of runs, changes, requests, deaths and restarts,
`TasksTypeCorrect`, `RunsStayApart`, `CursorAdvances`, `CursorIsHonest` and `BreakerWorks`.
`RunsStayApart` rests on `RegistrationInv`: the only run of a polled task is the one
registered. The cursor needs it, since otherwise a second run could write in between, and
`CursorInv`: a run that will write the cursor looked at the source after the last write.
`AnswerInv` adds which replies can be there in which phase of a run, and that a cursor
renewed without a change is at what was read; `BreakerInv` relates the database's count to
the history.

`Containers_proofs`, one-off tasks: for any tasks, retries and troubles,
`RunningAlwaysHasOwner`, `CarriedOutAsAllowed` and `CompletedWereCarriedOut`. The first
needs only that a coroutine before its end has a running row (`RunnersRun`). The second is
not inductive: what matters is not how often a task was carried out but how often it still
may be (`Chances`: in the file, in the session's container or in the tasks'), which one
attempt increases by one at most, when it writes its input (`AttemptsAreCounted`). That the
containers of different tasks take each other's input moves a chance and never makes one.
For the third a result is counted as long as it may complete a task: the completed tasks and
the results in `output.json` are together no more than the occasions on which a container
carried a task out (`ResultsAreEarned`). The sum over the tasks is the cardinality of the
set of `Occasions`, pairs of a task and a number, so that no induction over data is needed.

`Containers_proofs`, `Lifecycle`: for any number of requests, monitors, containers and crashes,
`RestStaysConsistent` and the types. At rest almost nothing is going on; the invariant says what
holds while requests are halfway, as long as they have not met where the lock leaves them
(`~raced`). One request at most spawns or attaches, one monitor at most is at work
(`OneAtWork`). A monitor is held by the registered worker, by one that a request is replacing,
or by a request that will cancel it, and nobody else knows it (`MonitorsAreHeld`,
`WorkersKnowTheirs`, `RequestsKnowTheirs`); a worker whose tasks were taken is bare until it is
attached (`DetachedIsBare`); what a kill has waited for is dead (`StoppedIsDead`); and the
container that runs is the registered worker's, or that of a request or a monitor that is about
to register it (`LiveIsKnown`). Each is needed: with fewer an old monitor could respawn beside
the new worker, or a container run on that no registry names.

`Services_proofs`, tickets: for any tickets, agents (also infinitely many) and logs,
`LogIsAlwaysPath` and `ClaimIsAlwaysExclusive`. The commands between their read and
their write are the difficulty: `MovesAreAllowed` says that what one is about to write
is allowed from the status it has read, and the write tests that status again.
`ClaimsAreCounted` says that a ticket has room for one holder while it is claimed and
one more per recovery; `ResultsAreHeld`, that a result releases what its agent holds.

`SlackPoller_proofs`: for any agents, any number of posts, pages of any size and any number
of failures, requests and restarts, `CursorsAreHonest`, `FeedbackEnds`,
`RepeatsStayAccounted` and the types. `CursorIsHonest` says what a cursor has passed;
`TodoIsComplete`, which it needs, what it is about to pass: between the page and the cursor
every mention up to `high` is dispatched, waits in `todo` or was left out by the page. That
takes two facts about data: `high` is the greatest of the posts that count
(`GreatestElement`, from the well-foundedness of `<`), and the page of a thread has no gap
(`ThreadPageIsPrefix`, about cardinalities). `JobIsBehind` lets the row of the channel move
while a poll is under way, as it does when the channel is deleted and added again;
`PointsToPosts` says that no cursor is beyond the history, so that what is written later is
never passed unseen.

`FeedbackEnds` rests on `ChainInv`: whatever a user seems to have written is at most as many
answers away from a person's post as there are unmarked answers, since an answer comes from a
mention that was dispatched, and one that is not marked is itself one more of them.

`RepeatsAreAccounted` bounds what was dispatched; what can be proved step by step is a bound on
that and on what is still to come. A mention of a thread is still ahead of the row of its
thread, or of one that an answer may yet create, and perhaps also of a job whose row was
removed, since the poller goes on with it (`AheadOfThread`, `AheadOfOrphan`): its dispatches so
far and these are one, and one more for each poll that was cut short and each removal
(`ThreadRepeats`). In the channel no row is made anew behind the cursor, so that only cuts count
(`ChannelRepeats`). Both need that an agent has one row per thread, that one tick has one job
for it, and that a job whose row is there has the cursor of the row (`JobsHaveRows`).

`Memory_proofs`, the files of a day: for any number of summaries, continuation files, mishaps
and requests, `SummariesAreKept` and `IndexesMatch`. What makes the first inductive is
`TodoIsTold`: the files that a compaction has still to replace tell nothing that the distilled
text does not tell, but for the named losses, and from the moment that text is written
`<date>.md` tells it; the order "write, then remove" of the code is what it rests on. The second
speaks of rest only. `IndexIsNear` says of every moment that what the indexes lack is what a
process at work is about to write, the chunk a session has appended or the whole of
`<date>.md`; that a vector is of the text that is indexed; and that a session and a compaction
that are both under way work on different files, or the state is `dirty`.

`Memory_proofs`, facts: for any keys, values, containers and number of calls,
`FactsAreCurrent`. The invariant is `FactIsCurrent` itself, of the committed table and of
the one an open transaction would commit; `WrittenIsCurrent` is what one step of
`store_facts` does to the rows of a key. `FactsTypesInvariant` counts rows: those of a key and
the facts still to be written, of all calls in progress, are at most two per call, also across
transactions and rollbacks, so that the number of a row is never that of `Unread`.

`Sessions_proofs`: for any threads, turns and window, `TurnsStayRemembered` and
`ConversationsAreApart`. A history file is the end of its transcript or it is not there;
if not, what was recorded of the conversation is in the daily memory or forgiven
(`SavedIsRecent`): a split that removes the file has stored its summary before. That
cleared turns do not return takes that no text a session is opened with has them
(`ClearedIsGone`), of which the messages that seed a new container are one.

`Services_proofs`, the prompt: for any sections, allocations, texts and marker,
`PromptStaysFair`. The property compares what a section gets with what the markers above it
took; the invariant is about what is left for it. `LaidOut` places the allocations one
after the other in the total, which is what `ContextConfig` promises of them;
`BudgetIsKept` says that the budget that remains, with what was taken beyond the allocations,
reaches from the place of the next section to the end of the total. `TurnKeepsBudget` is the
arithmetic of one turn of the loop, `CutFits` that of a text cut by characters and measured in
tokens. `JoinIsCharged` relates the joined text, in characters, to the tokens charged for it:
what n texts are longer by is n - 1 separators and n roundings (`JoinGrows`, `JoinFits`).

`Services_proofs`, the sum: `ServicesAreWellTyped` (`ServicesTypeOK`), from `ServicesInvariant`:
a step of the sum is a step, or none, of each service (`ServicesStepAlone`), so that the
invariants of all of them hold together in the instances the runs check.

The proofs assume only the `ASSUME`s on constants that stand in the modules, and every
invariant that a passing run checks is proved. Not proved, and left to TLC: liveness
(`QueuedIsHandedOver`, `DeadWorkerIsNoticed`, `RequestIsTaken`, `CardIsSettled`,
`ChangeIsHandled`, `DueTaskRuns`, `MentionIsHandled`, `EveryTaskEnds`), because fairness and
`ENABLED` are out of the prover's reach, and with it the fairness of `MessageService` in
`ImplementsService`, whose safety is proved. The bounds of the proved modules remain
(`MaxPosts`, `MaxTurns`, `MaxContainers`, ...), but as constants of any value.

## 5. Where code and documents disagree

Each is a run of its own, with the quoted line in `PROJECT.json`: messages are not
deduplicated across workers (`delivery_dedup`), the reaper does not spare a message
that went in flight after its check (`delivery_reap`), an event read from
`output.json` may be dropped (`delivery_reattach`), and a checker's cursor advances
on a reply cut short (`agentic_cursor`). More that no run shows:

* `ARCHITECTURE.md:20` speaks of rows marked PROCESSED, while the code deletes them.
* A resume by the agent's tool keeps `retry_count` (`ipc.py:863`), against the comment
  of `_reset_retry_count`.
* `ARCHITECTURE.md:198` has the last entries of the transcript carried into the next
  session as raw history after a split; the code opens it with the summary alone.

Observed while modelling, and visible in the exceptions of section 3:

* A worker without a history file of the web conversation is seeded with the last
  messages of all conversations.
* A burst of more than 50 posts hides its oldest from the poller; an error that Slack
  answers with counts as a successful poll.
* The answer of one task's container completes whichever task is waiting; a
  compaction whose answer is empty or late is reported as completed.
* An agent whose claim was recovered may finish the claim of the next.
* A thread that is followed because of an answer in it is polled from that answer on
  (`ipc.py:585`): a mention written between the root and the answer is not seen.
* A polling loop started again by a headless message has no `mcp_manager`.
* A reply whose write fails is lost: the error is logged and the row deleted (`ipc.py:403`).
* A card that could not be updated, or whose first frame raised, stays pending for ever
  (`gh_approval.py:84`, `:195`); a command whose second frame raises (`gh_approval.py:104`) is
  shown as approved and reported as failed.
* An MCP server that does not answer keeps the request slot of its agent until the polling
  loop is replaced.
* An answer whose agent's name could not be looked up is posted without its prefix, and
  may be taken for a user's mention (`slack_poller.py:810`).
* The prompt may exceed its budget, by a marker, the blank lines between its sections and
  the rounding of their lengths (`context_budget.py:73`, `:133`).
* An exception between `podman run` and the registration leaves a container that nobody
  watches (`container_manager.py:504`, `routes.py:2746`).
* The container of a one-off task empties `processed_messages` under the agent's session
  and may take its `input.json` (`worker.py:668`).
* A signal of activity that comes while a run computes its backoff is lost
  (`scheduler.py:625`).

## 6. Not modelled, and what is left

Left for the future, in this order:

1. `graceful_shutdown` together with the coroutines it ends.
2. What each checker puts into its cursor.
3. Pure operators against reference definitions: `classify_command`, the fusion of
   ranks in a search, the conversion of Markdown for Slack.

Left out for good: the sliding windows of the rate limits, which are local to one
connection; rendering; HTTP requests that touch one row; wrappers around external
commands; `podman`, the SDK and the embedding model. `PROJECT.json` names each with its
reason.
