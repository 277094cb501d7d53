-------------------------- MODULE MessageDelivery --------------------------
(***************************************************************************)
(* One agent's message channel: the message_queue table, the orchestrator  *)
(* polling loop, the files input.json and output.json, the worker process  *)
(* that consumes them, and everything that interrupts that traffic: a      *)
(* WebSocket handler that re-attaches to a live worker, the monitor that   *)
(* respawns a crashed one, the idle reaper, the user who deletes a queue   *)
(* item, and an orchestrator restart followed by boot recovery.            *)
(*                                                                         *)
(* A step of the polling loop, of the reaper or of the monitor is what its *)
(* coroutine does between two awaits; worker steps interleave with all of  *)
(* them because the worker is another process.  Messages are numbered in   *)
(* the order of message_queue.created_at.                                  *)
(***************************************************************************)
EXTENDS Naturals, FiniteSets

CONSTANTS
  N,            \* number of messages sent to the agent in a behaviour
  Users,        \* those of type user_message; the others are run_script and
                \* clear_context, which the worker does not deduplicate
  Quiet,        \* user messages of a scheduled task that run without the full
                \* context: they emit no thinking status
  Web,          \* messages sent over the WebSocket; the others are sent headless
                \* (scheduler, Slack poller, webhooks)
  BreakerMax,   \* CIRCUIT_BREAKER_MAX_CRASHES
  Fragile,      \* messages the writes of whose reply may fail
  HardTimeout,  \* can a message stay in flight past inflight_hard_timeout?
  MaxCrashes,   \* bound: crashes of a worker process
  MaxRestarts,  \* bound: restarts of the orchestrator
  MaxReaps      \* bound: reaps of an idle worker

ASSUME ConstantsOK ==
  /\ N \in Nat
  /\ Users \subseteq 1..N
  /\ Quiet \subseteq Users
  /\ Web \subseteq 1..N
  /\ Fragile \subseteq 1..N
  /\ BreakerMax \in Nat \ {0}
  /\ HardTimeout \in BOOLEAN
  /\ MaxCrashes \in Nat
  /\ MaxRestarts \in Nat
  /\ MaxReaps \in Nat

Msgs == 1..N

Shutdown == 0   \* the shutdown command in input.json: it has no message_id

Nobody == 0     \* no message is being executed

\* A message's row in message_queue.  The last three stand for a deleted row:
\* by the polling loop after the final event, by the user, by the reaper.
RowStatus == {"none", "queued", "inflight", "answered", "removed", "discarded"}

Gone == {"answered", "removed", "discarded"}

\* The assistant's row in messages, whose id is derived from the message's.
ReplyStatus == {"none", "streaming", "complete"}

\* "stream" stands for the thinking, token, tool and image events, which ensure
\* the reply row; the three others end a message.  "result" is script_result,
\* or the complete event of a command, for which no reply row exists.
FinalKinds == {"complete", "error", "result"}

Event == [id : Msgs, kind : {"stream"} \cup FinalKinds]

VARIABLES
  created,    \* rows inserted into message_queue so far
  row,        \* message_queue
  reply,      \* the assistant rows of messages
  cstatus,    \* status of the newest agent_containers record
  input,      \* input.json; {} when the file does not exist
  output,     \* output.json; {} when the file does not exist
  lp,         \* where the polling loop is; "off" when there is no task
  batch,      \* rows the loop selected in this iteration
  events,     \* events the loop read from output.json and has yet to process
  finished,   \* finished_ids of _process_output
  tracked,    \* is there a WorkerState in _active_workers?
  shutting,   \* its shutting_down flag
  connected,  \* its ws_manager.connected
  strikes,    \* length of its crash_times
  mp,         \* where the monitor is
  req,        \* the request handler between its two steps
  rp,         \* where the reaper is
  worker,     \* the worker process
  held,       \* messages it read from input.json and has not started
  current,    \* the message it is executing
  ended,      \* has the final event of current been emitted?
  pending,    \* its _pending_events
  processed,  \* its processed_messages table
  ran,        \* history: messages started since the process booted
  outcome,    \* history: the kind of the last final event emitted for a message
  unwritten,  \* history: messages a write of whose reply has failed
  crashes, restarts, reaps

db       == <<created, row, reply, cstatus>>
files    == <<input, output>>
loop     == <<lp, batch, events, finished>>
registry == <<tracked, shutting, connected, strikes, mp>>
memory   == <<held, current, ended, pending>>
process  == <<worker, memory, processed, ran, outcome>>
bounds   == <<unwritten, crashes, restarts, reaps>>
vars == <<db, files, loop, registry, req, rp, process, bounds>>

Init ==
  /\ created = 0
  /\ row = [m \in Msgs |-> "none"]
  /\ reply = [m \in Msgs |-> "none"]
  /\ cstatus = "stopped"
  /\ input = {} /\ output = {}
  /\ lp = "off" /\ batch = {} /\ events = {} /\ finished = {}
  /\ tracked = FALSE /\ shutting = FALSE /\ connected = FALSE /\ strikes = 0
  /\ mp = "watch"
  /\ req = "none"
  /\ rp = "off"
  /\ worker = "none"
  /\ held = {} /\ current = Nobody /\ ended = FALSE /\ pending = {}
  /\ processed = {}
  /\ ran = {} /\ outcome = [m \in Msgs |-> "none"]
  /\ unwritten = {} /\ crashes = 0 /\ restarts = 0 /\ reaps = 0

-----------------------------------------------------------------------------
(* Helpers *)

InFlight == {m \in Msgs : row[m] = "inflight"}
Queued   == {m \in Msgs : row[m] = "queued"}

\* worker.process.returncode is None: until the monitor has stored the process
\* it respawned, the WorkerState still holds the dead one
Live == {"booting", "ready", "reading"}

ProcessLive == mp = "watch" /\ worker \in Live

\* the rows of S, when they exist, get status s
Update(S, s) ==
  [m \in Msgs |-> IF m \in S /\ row[m] \in {"queued", "inflight"} THEN s ELSE row[m]]

\* UPDATE messages SET status = 'complete' WHERE status = 'streaming'
FinalizeReplies ==
  reply' = [m \in Msgs |-> IF reply[m] = "streaming" THEN "complete" ELSE reply[m]]

\* the process is gone, and its memory with it
ClearMemory ==
  /\ held' = {} /\ current' = Nobody /\ ended' = FALSE /\ pending' = {}

\* A polling loop is started at, or left for, point p; what an earlier one had
\* in its locals is lost.
ResetLoop(p) ==
  /\ lp' = p /\ batch' = {} /\ events' = {} /\ finished' = {}

\* Cancellation reaches the loop at an await.  A statement handed to the
\* database thread is executed all the same, so the loop is never cancelled
\* between writing input.json and marking the rows.
Cancellable == lp # "mark"

\* podman rm -f of a container with that name, then podman run
SpawnContainer ==
  /\ worker' = "booting"
  /\ ClearMemory
  /\ UNCHANGED <<processed, ran, outcome>>
  /\ cstatus' = "running"

\* a new WorkerState, with its polling loop and its monitor
SpawnWorker(ws) ==
  /\ SpawnContainer
  /\ ResetLoop("select")
  /\ tracked' = TRUE /\ shutting' = FALSE /\ connected' = ws /\ strikes' = 0
  /\ mp' = "watch"

-----------------------------------------------------------------------------
(* Requests *)

\* websocket_endpoint up to the insertion of the row; EnsureWorker follows.
SubmitWeb ==
  /\ req = "none"
  /\ created < N
  /\ created + 1 \in Web
  /\ created' = created + 1
  /\ row' = [row EXCEPT ![created + 1] = "queued"]
  /\ req' = "web"
  /\ UNCHANGED <<reply, cstatus, files, loop, registry, rp, process, bounds>>

\* _ensure_worker, worker alive: its polling loop and its monitor are cancelled,
\* wherever they are, and new ones are started.
Reattach ==
  /\ req = "web"
  /\ tracked /\ ProcessLive
  /\ Cancellable
  /\ ResetLoop("select")
  /\ connected' = TRUE
  /\ cstatus' = "running"
  /\ req' = "none"
  /\ UNCHANGED <<created, row, reply, files, tracked, shutting, strikes, mp, rp,
                 process, bounds>>

\* _ensure_worker, no worker or a dead one: a fresh container and WorkerState.
SpawnForWeb ==
  /\ req = "web"
  /\ ~(tracked /\ ProcessLive)
  /\ Cancellable
  /\ rp # "checked"
  /\ SpawnWorker(TRUE)
  /\ req' = "none"
  /\ UNCHANGED <<created, row, reply, files, rp, bounds>>

\* ensure_worker_headless, called before a headless message is stored.
EnsureHeadless ==
  /\ req = "none"
  /\ created < N
  /\ created + 1 \notin Web
  /\ req' = "headless"
  /\ \/ /\ tracked /\ ProcessLive
        /\ IF lp = "off" THEN ResetLoop("select") ELSE UNCHANGED loop
        /\ UNCHANGED <<registry, cstatus, process>>
     \/ /\ ~(tracked /\ ProcessLive)
        /\ Cancellable
        /\ rp # "checked"
        /\ SpawnWorker(FALSE)
  /\ UNCHANGED <<created, row, reply, files, rp, bounds>>

\* store_scheduled_message, store_slack_message, store_script_message
SubmitHeadless ==
  /\ req = "headless"
  /\ created' = created + 1
  /\ row' = [row EXCEPT ![created + 1] = "queued"]
  /\ req' = "none"
  /\ UNCHANGED <<reply, cstatus, files, loop, registry, rp, process, bounds>>

\* the page is opened again: websocket_endpoint attaches to a tracked worker
Connect ==
  /\ tracked /\ ~connected
  /\ Web # {}
  /\ connected' = TRUE
  /\ UNCHANGED <<db, files, loop, tracked, shutting, strikes, mp, req, rp,
                 process, bounds>>

\* _cleanup_agent: the worker keeps running
Disconnect ==
  /\ connected
  /\ req # "web"
  /\ connected' = FALSE
  /\ cstatus' = IF Queued \cup InFlight = {} THEN "idle" ELSE cstatus
  /\ UNCHANGED <<created, row, reply, files, loop, tracked, shutting, strikes, mp,
                 req, rp, process, bounds>>

\* delete_queue_item
DeleteItem(m) ==
  /\ row[m] \in {"queued", "inflight"}
  /\ row' = [row EXCEPT ![m] = "removed"]
  /\ UNCHANGED <<created, reply, cstatus, files, loop, registry, req, rp, process,
                 bounds>>

-----------------------------------------------------------------------------
(* The polling loop: one action per stretch between two awaits *)

\* Selects the queued rows and keeps the container's status up to date.
LoopSelect ==
  /\ lp = "select"
  /\ batch' = Queued
  /\ cstatus' = IF Queued \cup InFlight # {}
                  THEN IF cstatus = "idle" THEN "running" ELSE cstatus
                  ELSE IF cstatus = "running" /\ ~connected THEN "idle" ELSE cstatus
  /\ lp' = "write"
  /\ UNCHANGED <<created, row, reply, files, events, finished, registry, req, rp,
                 process, bounds>>

\* Writes the batch to input.json unless the worker has yet to read the last one.
InputAssumedFree == TRUE

InputFree == input = {}

Flushable == batch # {} /\ InputFree

LoopWrite ==
  /\ lp = "write" /\ Flushable
  /\ input' = batch
  /\ lp' = "mark"
  /\ UNCHANGED <<db, output, batch, events, finished, registry, req, rp, process,
                 bounds>>

\* UPDATE message_queue SET status = 'IN-FLIGHT' WHERE id IN (batch)
MarkOnly(ids) ==
  /\ lp = "mark"
  /\ row' = Update(ids, "inflight")
  /\ lp' = "read"
  /\ UNCHANGED <<created, reply, cstatus, files, batch, events, finished, registry,
                 req, rp, process, bounds>>

LoopMarkFirst == MarkOnly({m \in batch : \A n \in batch : m <= n})

LoopMark == MarkOnly(batch)

\* _process_output reads output.json and removes it, in the same stretch as the
\* test on input.json when there was nothing to write
LoopRead ==
  /\ lp = "read" \/ (lp = "write" /\ ~Flushable)
  /\ events' = output
  /\ output' = {}
  /\ lp' = IF output = {} THEN "select" ELSE "handle"
  /\ batch' = {}
  /\ UNCHANGED <<db, input, finished, registry, req, rp, process, bounds>>

\* _process_event: the reply row is created by a stream event, and completed,
\* if it exists, by the complete event.
ReplyReplaced(e) ==
  CASE e.kind = "stream"   -> "streaming"
    [] e.kind = "complete" -> IF reply[e.id] = "none" THEN "none" ELSE "complete"
    [] OTHER               -> reply[e.id]

ReplyDropped(e) ==
  IF e.kind = "stream" /\ reply[e.id] = "none" THEN "streaming" ELSE reply[e.id]

ReplyAfter(e) ==
  CASE e.kind = "stream"   -> IF reply[e.id] = "none" THEN "streaming" ELSE reply[e.id]
    [] e.kind = "complete" -> IF reply[e.id] = "none" THEN "none" ELSE "complete"
    [] OTHER               -> reply[e.id]

\* One event of the list; those of one message come in the order of emission,
\* and those of different messages touch different rows.  A statement that fails
\* is logged, and the event counts as processed.
LoopHandle(e) ==
  /\ lp = "handle"
  /\ e \in events
  /\ e.kind = "stream" \/ \A f \in events : f.id = e.id => f.kind # "stream"
  /\ \/ /\ reply' = [reply EXCEPT ![e.id] = ReplyAfter(e)]
        /\ UNCHANGED unwritten
     \/ /\ e.id \in Fragile /\ ReplyAfter(e) # reply[e.id]
        /\ unwritten' = unwritten \cup {e.id}
        /\ UNCHANGED reply
  /\ finished' = IF e.kind \in FinalKinds THEN finished \cup {e.id} ELSE finished
  /\ events' = events \ {e}
  /\ lp' = IF events = {e} THEN "delete" ELSE "handle"
  /\ UNCHANGED <<created, row, cstatus, files, batch, registry, req, rp, process,
                 crashes, restarts, reaps>>

\* DELETE FROM message_queue WHERE id IN (finished) AND status = 'IN-FLIGHT'
DeletableInFlight == InFlight

Deletable == finished \cap InFlight

LoopDelete ==
  /\ lp = "delete"
  /\ row' = Update(Deletable, "answered")
  /\ finished' = {}
  /\ lp' = "select"
  /\ UNCHANGED <<created, reply, cstatus, files, batch, events, registry, req, rp,
                 process, bounds>>

LoopStep ==
  \/ LoopSelect \/ LoopWrite \/ LoopMark \/ LoopRead \/ LoopDelete
  \/ \E e \in events : LoopHandle(e)

-----------------------------------------------------------------------------
(* The worker process *)

\* flush_responses: what is pending becomes output.json if there is none
Flush(p) ==
  IF output = {} THEN output' = p /\ pending' = {}
                 ELSE output' = output /\ pending' = p

\* main, before the loop: drops output.json and empties processed_messages.
\* input.json stays.  (The container of a one-off task boots in the same directory
\* and does the same to a worker that runs there; that is left out.)
WorkerBoot ==
  /\ worker = "booting"
  /\ worker' = "ready"
  /\ output' = {}
  /\ processed' = {}
  /\ ran' = {}
  /\ UNCHANGED <<db, input, loop, registry, req, rp, memory, outcome, bounds>>

\* an iteration of main flushes what is pending
WorkerFlush ==
  /\ worker = "ready" /\ current = Nobody /\ held = {}
  /\ pending # {} /\ output = {}
  /\ Flush(pending)
  /\ UNCHANGED <<db, input, loop, registry, req, rp, worker, held, current, ended,
                 processed, ran, outcome, bounds>>

\* then it reads input.json and removes it, in two steps
WorkerRead ==
  /\ worker = "ready" /\ current = Nobody /\ held = {}
  /\ input # {}
  /\ held' = input
  /\ worker' = "reading"
  /\ UNCHANGED <<db, files, loop, registry, req, rp, current, ended, pending,
                 processed, ran, outcome, bounds>>

WorkerAck ==
  /\ worker = "reading"
  /\ input' = {}
  /\ worker' = "ready"
  /\ UNCHANGED <<db, output, loop, registry, req, rp, memory, processed, ran, outcome,
                 bounds>>

\* the next message of the list, which is in the order of created_at
AnyHeld(m) == m \in held

NextHeld(m) == m \in held /\ \A k \in held : m <= k

\* only user messages are looked up in processed_messages
NeverDuplicate(m) == FALSE

Duplicate(m) == m \in Users \cap processed

\* process_message, a duplicate: no event
WorkerSkip(m) ==
  /\ worker = "ready" /\ current = Nobody
  /\ NextHeld(m)
  /\ Duplicate(m)
  /\ held' = held \ {m}
  /\ UNCHANGED <<db, files, loop, registry, req, rp, worker, current, ended, pending,
                 processed, ran, outcome, bounds>>

\* process_message starts: a user message emits its thinking status, unless it is
\* run by the lightweight query
WorkerStart(m) ==
  /\ worker = "ready" /\ current = Nobody
  /\ NextHeld(m)
  /\ m \in Msgs /\ ~Duplicate(m)
  /\ held' = held \ {m}
  /\ current' = m
  /\ ended' = FALSE
  /\ ran' = ran \cup {m}
  /\ IF m \in Users \ Quiet THEN Flush(pending \cup {[id |-> m, kind |-> "stream"]})
                            ELSE UNCHANGED <<output, pending>>
  /\ UNCHANGED <<db, input, loop, registry, req, rp, worker, processed, outcome, bounds>>

\* tokens and tool calls of the query, each with an attempt to flush
WorkerStream ==
  /\ worker = "ready" /\ current \in Users /\ ~ended
  /\ Flush(pending \cup {[id |-> current, kind |-> "stream"]})
  /\ UNCHANGED <<db, input, loop, registry, req, rp, worker, held, current, ended,
                 processed, ran, outcome, bounds>>

\* The query is over: complete, also when stopped by the user, or system_error.
\* A script or a command emits script_result or complete.
FinalOf(m) == IF m \in Users THEN {"complete", "error"} ELSE {"result"}

WorkerEmit(k) ==
  /\ worker = "ready" /\ current # Nobody /\ ~ended
  /\ k \in FinalOf(current)
  /\ Flush(pending \cup {[id |-> current, kind |-> k]})
  /\ ended' = TRUE
  /\ outcome' = [outcome EXCEPT ![current] = k]
  /\ UNCHANGED <<db, input, loop, registry, req, rp, worker, held, current, processed,
                 ran, bounds>>

\* drain_pending waits, at most ten seconds, for output.json to be free; the
\* message is then marked processed and the done status emitted.
WorkerSettle ==
  /\ worker = "ready" /\ current # Nobody /\ ended
  /\ Flush(pending)
  /\ processed' = processed \cup {current}
  /\ current' = Nobody
  /\ ended' = FALSE
  /\ UNCHANGED <<db, input, loop, registry, req, rp, worker, held, ran, outcome, bounds>>

\* process_message, shutdown: one attempt to flush, then exit
WorkerExit ==
  /\ worker = "ready" /\ current = Nobody
  /\ NextHeld(Shutdown)
  /\ output' = IF output = {} THEN pending ELSE output
  /\ worker' = "exited"
  /\ ClearMemory
  /\ UNCHANGED <<db, input, loop, registry, req, rp, processed, ran, outcome, bounds>>

WorkerStep ==
  \/ WorkerBoot \/ WorkerFlush \/ WorkerRead \/ WorkerAck \/ WorkerStream \/ WorkerSettle \/ WorkerExit
  \/ \E m \in Msgs : WorkerSkip(m) \/ WorkerStart(m)
  \/ \E k \in FinalKinds : WorkerEmit(k)

-----------------------------------------------------------------------------
(* Faults and recovery *)

\* the container dies: killed, out of memory, an exception out of main
Crash ==
  /\ crashes < MaxCrashes
  /\ worker \in Live
  /\ crashes' = crashes + 1
  /\ worker' = "exited"
  /\ ClearMemory
  /\ UNCHANGED <<db, files, loop, registry, req, rp, processed, ran, outcome,
                 unwritten, restarts, reaps>>

\* _monitor_worker: too many crashes in the window for another respawn
TrippedLate(s) == s > BreakerMax

Tripped(s) == s >= BreakerMax

\* _monitor_worker after process.wait(): the loop is cancelled, the replies are
\* finalised, and, without a WebSocket or past the circuit breaker, the worker
\* is forgotten.  Crash times older than the window have been pruned.
SeenIfConnected == worker = "exited" /\ ~shutting /\ connected

CrashSeen == worker = "exited" /\ ~shutting

MonitorExit ==
  /\ mp = "watch" /\ tracked /\ CrashSeen
  /\ Cancellable
  /\ ResetLoop("off")
  /\ FinalizeReplies
  /\ cstatus' = "error"
  /\ \E s \in 1..(strikes + 1) :
       IF connected /\ ~Tripped(s)
         THEN mp' = "respawn" /\ strikes' = s /\ UNCHANGED <<tracked, connected>>
         ELSE mp' = "watch" /\ strikes' = 0 /\ tracked' = FALSE /\ connected' = FALSE
  /\ UNCHANGED <<created, row, files, shutting, req, rp, process, bounds>>

\* _respawn_worker, spawn_container.  A reap that finds the worker dead cancels
\* the monitor before podman is done.
RespawnSpawn ==
  /\ mp = "respawn" /\ ~shutting
  /\ SpawnContainer
  /\ mp' = "requeue"
  /\ UNCHANGED <<created, row, reply, files, loop, tracked, shutting, connected,
                 strikes, req, rp, bounds>>

\* _respawn_worker: in-flight rows are queued again, then the loop is started
RequeueThen(p) ==
  /\ mp = "requeue" /\ ~shutting
  /\ row' = Update(InFlight, "queued")
  /\ ResetLoop(p)
  /\ mp' = "watch"
  /\ UNCHANGED <<created, reply, cstatus, files, tracked, shutting, connected,
                 strikes, req, rp, process, bounds>>

RequeueOnly == RequeueThen("off")

RespawnRequeue == RequeueThen("select")

\* _reap_idle_workers: the container is idle and nothing is in flight, or for
\* longer than the hard timeout
ReapCheck ==
  /\ reaps < MaxReaps
  /\ rp = "off"
  /\ tracked /\ cstatus = "idle"
  /\ InFlight = {} \/ HardTimeout
  /\ rp' = "checked"
  /\ reaps' = reaps + 1
  /\ UNCHANGED <<db, files, loop, registry, req, process, unwritten, crashes,
                 restarts>>

\* marks the worker and replaces input.json by the shutdown command; a worker
\* forgotten meanwhile is killed
ReapSend ==
  /\ rp = "checked"
  /\ rp' = "waiting"
  /\ IF tracked
       THEN /\ shutting' = TRUE
            /\ input' = {Shutdown}
            /\ cstatus' = "stopping"
            /\ UNCHANGED process
       ELSE /\ worker' = "none"
            /\ ClearMemory
            /\ UNCHANGED <<shutting, input, cstatus, processed, ran, outcome>>
  /\ UNCHANGED <<created, row, reply, output, loop, tracked, connected, strikes, mp,
                 req, bounds>>

\* no exit within 60 seconds: podman kill
ReapKill ==
  /\ rp = "waiting" /\ shutting
  /\ ProcessLive
  /\ worker' = "exited"
  /\ ClearMemory
  /\ UNCHANGED <<db, files, loop, registry, req, rp, processed, ran, outcome, bounds>>

\* The process it waits for has exited, or was replaced: the in-flight rows of
\* the agent are deleted.
ReapDelete ==
  /\ rp = "waiting"
  /\ ~(shutting /\ ProcessLive)
  /\ row' = Update(InFlight, "discarded")
  /\ cstatus' = IF shutting THEN "stopped" ELSE cstatus
  /\ rp' = "deleted"
  /\ UNCHANGED <<created, reply, files, loop, registry, req, process, bounds>>

\* the WorkerState is dropped and its tasks are cancelled
ReapPop ==
  /\ rp = "deleted"
  /\ Cancellable
  /\ ResetLoop("off")
  /\ tracked' = FALSE /\ shutting' = FALSE /\ connected' = FALSE /\ strikes' = 0
  /\ mp' = "watch"
  /\ rp' = "off"
  /\ UNCHANGED <<db, files, req, process, bounds>>

\* The orchestrator stops at any point and boot_recovery runs: containers are
\* removed, in-flight rows queued again, IPC files deleted, replies finalised.
Restart ==
  /\ restarts < MaxRestarts
  /\ restarts' = restarts + 1
  /\ row' = Update(InFlight, "queued")
  /\ input' = {} /\ output' = {}
  /\ FinalizeReplies
  /\ cstatus' = IF cstatus \in {"running", "idle", "stopping"} THEN "stopped" ELSE cstatus
  /\ worker' = "none"
  /\ ClearMemory
  /\ ResetLoop("off")
  /\ tracked' = FALSE /\ shutting' = FALSE /\ connected' = FALSE /\ strikes' = 0
  /\ mp' = "watch"
  /\ req' = "none"
  /\ rp' = "off"
  /\ UNCHANGED <<created, processed, ran, outcome, unwritten, crashes, reaps>>

-----------------------------------------------------------------------------
Request == SubmitWeb \/ Reattach \/ SpawnForWeb \/ EnsureHeadless \/ SubmitHeadless
             \/ Connect \/ Disconnect \/ \E m \in Msgs : DeleteItem(m)

Recovery == Crash \/ MonitorExit \/ RespawnSpawn \/ RespawnRequeue \/ Restart

Reap == ReapCheck \/ ReapSend \/ ReapKill \/ ReapDelete \/ ReapPop

Next == Request \/ LoopStep \/ WorkerStep \/ Recovery \/ Reap

Spec == Init /\ [][Next]_vars

-----------------------------------------------------------------------------
(* Properties *)

DbType ==
  /\ created \in 0..N
  /\ row \in [Msgs -> RowStatus]
  /\ reply \in [Msgs -> ReplyStatus]
  /\ cstatus \in {"running", "idle", "stopping", "stopped", "error"}
  /\ req = "headless" => created < N

LoopType ==
  /\ input \subseteq Msgs \cup {Shutdown}
  /\ output \subseteq Event
  /\ lp \in {"off", "select", "write", "mark", "read", "handle", "delete"}
  /\ batch \subseteq Msgs
  /\ events \subseteq Event
  /\ finished \subseteq Msgs

RegistryType ==
  /\ tracked \in BOOLEAN /\ shutting \in BOOLEAN /\ connected \in BOOLEAN
  /\ mp \in {"watch", "respawn", "requeue"}
  /\ req \in {"none", "web", "headless"}
  /\ rp \in {"off", "checked", "waiting", "deleted"}

WorkerType ==
  /\ worker \in {"none", "exited"} \cup Live
  /\ held \subseteq Msgs \cup {Shutdown}
  /\ current \in Msgs \cup {Nobody}
  /\ ended \in BOOLEAN
  /\ pending \subseteq Event
  /\ processed \subseteq Msgs
  /\ ran \subseteq Msgs
  /\ outcome \in [Msgs -> FinalKinds \cup {"none"}]

CountType ==
  /\ strikes \in Nat /\ strikes < BreakerMax
  /\ unwritten \subseteq Fragile
  /\ crashes \in 0..MaxCrashes /\ restarts \in 0..MaxRestarts /\ reaps \in 0..MaxReaps

TypeOK == DbType /\ LoopType /\ RegistryType /\ WorkerType /\ CountType

\* A worker process never starts the same user message twice, however often the
\* row is queued again and whatever an earlier process left in input.json
\* (_is_processed in process_message against the re-queueing in _respawn_worker).
StartedOncePerBoot ==
  [][\A m \in Users : current' = m /\ current # m => m \notin ran]_vars

\* A row is only dropped as finished when a worker has emitted a final event for
\* that very message: an output.json that outlives a crash, a cancelled loop or a
\* re-queued row never finishes another one (_process_output).
AnsweredWasSettled ==
  \A m \in Msgs : row[m] = "answered" => outcome[m] # "none"

\* Inductive form: every final event on its way to the DELETE was emitted for its
\* message, and so was every one the loop has counted.
SettledInv ==
  /\ \A e \in pending \cup output \cup events : e.kind \in FinalKinds => outcome[e.id] # "none"
  /\ \A m \in finished : outcome[m] # "none"
  /\ AnsweredWasSettled

\* Inductive form of StartedOncePerBoot: what a booted process has started is in
\* its processed_messages, except the message it is executing.
RanInv == worker \in {"ready", "reading"} => ran \subseteq processed \cup {current}

\* A reply the user has seen completed, also by the monitor or by boot recovery
\* on behalf of a dead worker, never goes back to streaming, although the message
\* may be executed again (_db_ensure_row).
CompleteReplyStays ==
  [][\A m \in Msgs : reply[m] = "complete" => reply'[m] = "complete"]_vars

\* As long as the orchestrator keeps a worker for the agent, a queued message is
\* handed over: no crash, respawn, reap or stale input.json blocks the queue.
QueuedIsHandedOver ==
  \A m \in Msgs : (row[m] = "queued" /\ tracked) ~> (row[m] # "queued" \/ ~tracked)

\* A tracked worker that is dead is always noticed, by the monitor, by the reaper
\* or by the next request: it is replaced or forgotten.
DeadWorkerIsNoticed ==
  (tracked /\ worker = "exited") ~> (~tracked \/ worker \in Live)

\* Messages whose final event is between emit and the DELETE.
OnTheWay ==
  finished \cup {e.id : e \in {f \in pending \cup output \cup events : f.kind \in FinalKinds}}

\* Without crashes, restarts and reaps an in-flight row always stands for a
\* message that somebody has: input.json, the worker, or a final event that the
\* polling loop will see.  A row nobody works on would block the reaper.
Custody == InFlight \subseteq input \cup held \cup {current} \cup OnTheWay

\* A user message whose query completed and whose row is gone has its complete
\* reply in messages, unless a write of that very reply failed: no other order of
\* events, writes and DELETEs drops the row before the reply is stored.
AnswerVisible ==
  \A m \in Users \ (Quiet \cup unwritten) :
    row[m] = "answered" /\ outcome[m] = "complete" => reply[m] = "complete"

\* Without crashes, restarts and reaps the message is delivered exactly once: a
\* queued row has no copy with the worker, and was never started.
QueuedIsFresh ==
  lp # "mark" => Queued \cap (input \cup held \cup ran) = {}

\* ARCHITECTURE.md, section 7: "Workers deduplicate by `message_id` (via
\* `processed_messages` table) to handle at-least-once delivery after recovery."
\* A user message a worker has settled is not executed again.
SettledOnce ==
  [][\A m \in Users : current' = m /\ current # m => outcome[m] = "none"]_vars

\* scheduler.py, _reap_idle_workers: "Skip containers that still have messages
\* being processed, unless they've been in-flight longer than the hard timeout."
ReapSparesFresh ==
  ~HardTimeout => \A m \in Msgs : row[m] # "discarded"

\* ipc.py, _process_output: "Read output.json and forward events to DB +
\* WebSocket."  An event that was read leaves the list by being processed.
ReadIsForwarded ==
  [][events # {} /\ events' # events => \E e \in events : LoopHandle(e)]_vars

-----------------------------------------------------------------------------
(* Fairness: the coroutines and the process are scheduled, the SDK query and   *)
(* podman return, and a request handler runs to its end.                       *)

WorkerProgress ==
  \/ WorkerBoot \/ WorkerFlush \/ WorkerRead \/ WorkerAck \/ WorkerSettle \/ WorkerExit
  \/ \E m \in Msgs : WorkerSkip(m) \/ WorkerStart(m)
  \/ \E k \in FinalKinds : WorkerEmit(k)

Fairness ==
  /\ WF_vars(LoopStep)
  /\ WF_vars(WorkerProgress)
  /\ WF_vars(MonitorExit) /\ WF_vars(RespawnSpawn) /\ WF_vars(RespawnRequeue)
  /\ WF_vars(Reattach \/ SpawnForWeb)
  /\ WF_vars(SubmitHeadless)
  /\ WF_vars(ReapSend) /\ WF_vars(ReapKill) /\ WF_vars(ReapDelete) /\ WF_vars(ReapPop)

FairSpec == Spec /\ Fairness

-----------------------------------------------------------------------------
(* Without crashes, restarts and reaps this is the abstract service.           *)

Service == INSTANCE MessageService WITH
  sent  <- created,
  state <- [m \in Msgs |->
              IF row[m] \in {"answered", "removed"} THEN row[m]
              ELSE IF m > created THEN "unsent"
              ELSE IF m \in ran THEN "started" ELSE "waiting"]

\* Every message sent is started once, in the order sent, and is answered, unless
\* the user deletes it: the whole channel of ARCHITECTURE.md, section 1, from the
\* queue to output.json, and its liveness.
ImplementsService == Service!FairSpec

=============================================================================
