---------------------------- MODULE ToolChannel ----------------------------
(***************************************************************************)
(* The tool channel of one agent: a tool of the worker writes request.json *)
(* and polls response.json, the polling loop of the orchestrator hands the *)
(* request to a background task, and the task executes it on the host,     *)
(* after the user's approval when the command asks for one.                *)
(*                                                                         *)
(* Timeouts are left open: a wait may end at any moment.  A step of a task *)
(* is what its coroutine does between two awaits.                          *)
(***************************************************************************)
EXTENDS Naturals, FiniteSets

CONSTANTS
  Calls,           \* tool calls, each with the request_id it was given
  Gate,            \* what classify says of each command
  MaxOpen,         \* calls the SDK keeps open at once
  MaxTroubles,     \* bound: times the page is left, a polling loop is replaced under a
                   \* live worker, a worker crashes, the orchestrator restarts or a
                   \* statement or frame of an approval fails
  NoCall           \* no file, or no task

ASSUME ToolConstantsOK ==
  /\ Gate \in [Calls -> {"allowed", "approval", "denied"}]
  /\ MaxOpen \in Nat /\ MaxTroubles \in Nat
  /\ NoCall \notin Calls

Outcome == {"result", "denied", "failed"}

VARIABLES
  call,       \* ipc_request of each call, in the worker
  request,    \* request.json
  response,   \* response.json; {} when it does not exist
  busy,       \* pending_request of the polling loop
  task,       \* the background task of each call
  future,     \* _pending: the user's verdict, while it is awaited and after
  reply,      \* the result the task will write
  card,       \* the approval message in messages
  connected,  \* ws_manager.connected
  worker,     \* is the worker process running?
  clicks,     \* history: verdicts the user sent for each call
  stranded,   \* history: calls whose pending card the orchestrator failed to settle
  runs,       \* history: times each call was executed on the host
  troubles    \* see MaxTroubles

files  == <<request, response>>
host   == <<task, future, reply, card, runs, stranded>>
vars == <<call, files, busy, host, connected, worker, clicks, troubles>>

Init ==
  /\ call = [c \in Calls |-> "idle"]
  /\ request = NoCall /\ response = {}
  /\ busy = NoCall
  /\ task = [c \in Calls |-> "none"]
  /\ future = [c \in Calls |-> "none"]
  /\ reply = [c \in Calls |-> "none"]
  /\ card = [c \in Calls |-> "none"]
  /\ connected = TRUE /\ worker = TRUE
  /\ clicks = [c \in Calls |-> {}]
  /\ runs = [c \in Calls |-> 0]
  /\ stranded = {}
  /\ troubles = 0

\* one of the events MaxTroubles counts
Trouble == troubles < MaxTroubles /\ troubles' = troubles + 1

-----------------------------------------------------------------------------
(* The worker *)

Open == {c \in Calls : call[c] = "waiting"}

\* ipc_request: replaces whatever request.json there is
Call(c) ==
  /\ worker
  /\ call[c] = "idle"
  /\ Cardinality(Open) < MaxOpen
  /\ call' = [call EXCEPT ![c] = "waiting"]
  /\ request' = c
  /\ UNCHANGED <<response, busy, host, connected, worker, clicks, troubles>>

\* the response is matched by its request_id
AnyResponse(c) == response

Mine(c) == {r \in response : r.id = c}

Receive(c) ==
  /\ c \in Open
  /\ \E r \in Mine(c) : call' = [call EXCEPT ![c] = r.status]
  /\ response' = {}
  /\ UNCHANGED <<request, busy, host, connected, worker, clicks, troubles>>

\* the request stays where it is
GiveUp(c) ==
  /\ c \in Open
  /\ call' = [call EXCEPT ![c] = "timeout"]
  /\ UNCHANGED <<files, busy, host, connected, worker, clicks, troubles>>

-----------------------------------------------------------------------------
(* The orchestrator *)

\* pending_request is None or done
SlotUnused == busy = NoCall

SlotFree == busy # NoCall => task[busy] = "done"

\* _polling_loop: one stretch from the test to create_task
TakeThen(left) ==
  /\ request # NoCall
  /\ SlotFree
  /\ busy' = request
  /\ task' = [task EXCEPT ![request] = "new"]
  /\ request' = left
  /\ UNCHANGED <<call, response, future, reply, card, runs, stranded, connected, worker, clicks,
                 troubles>>

TakeCopy == TakeThen(request)

Take == TakeThen(NoCall)

\* a task that has its result writes it last
Finish(c, status) ==
  /\ task' = [task EXCEPT ![c] = "reply"]
  /\ reply' = [reply EXCEPT ![c] = status]

\* _handle_tool_request up to its first await; request_approval registers the
\* future before it stores the message
HandleNew(c) ==
  /\ task[c] = "new"
  /\ \/ /\ Gate[c] = "denied" \/ (Gate[c] = "approval" /\ ~connected)
        /\ Finish(c, "denied")
        /\ UNCHANGED future
     \/ /\ Gate[c] = "allowed"
        /\ task' = [task EXCEPT ![c] = "run"]
        /\ UNCHANGED <<future, reply>>
     \/ /\ Gate[c] = "approval" /\ connected
        /\ task' = [task EXCEPT ![c] = "persist"]
        /\ future' = [future EXCEPT ![c] = "open"]
        /\ UNCHANGED reply
  /\ UNCHANGED <<call, files, busy, card, runs, stranded, connected, worker, clicks, troubles>>

\* _persist_approval_message swallows what its INSERT raises: the approval goes on
\* without a card
PersistCard(c) ==
  /\ task[c] = "persist"
  /\ task' = [task EXCEPT ![c] = "send"]
  /\ \/ card' = [card EXCEPT ![c] = "pending"] /\ UNCHANGED troubles
     \/ Trouble /\ UNCHANGED card
  /\ UNCHANGED <<call, files, busy, future, reply, runs, stranded, connected, worker, clicks>>

\* ws_manager.send: a broken connection detaches the page, and what the handler does
\* not catch ends request_approval, and the call with it
FrameEnds ==
  \/ UNCHANGED <<connected, troubles>>
  \/ connected /\ Trouble /\ connected' = FALSE

FrameRaises(c) ==
  /\ connected /\ Trouble
  /\ Finish(c, "failed")
  /\ UNCHANGED connected

\* the frame that makes the page fetch the card; when it raises, the future stays in
\* _pending and the card as it is
SendCard(c) ==
  /\ task[c] = "send"
  /\ \/ /\ FrameEnds
        /\ task' = [task EXCEPT ![c] = "wait"]
        /\ UNCHANGED <<reply, stranded>>
     \/ /\ FrameRaises(c)
        /\ stranded' = stranded \cup {c}
  /\ UNCHANGED <<call, files, busy, future, card, runs, worker, clicks>>

\* asyncio.wait_for ends: with the verdict, or after APPROVAL_TIMEOUT
TimeoutApproves(c) == IF future[c] = "open" THEN "yes" ELSE future[c]

Verdict(c) == IF future[c] = "open" THEN "no" ELSE future[c]

EndWait(c) ==
  /\ task[c] = "wait"
  /\ future' = [future EXCEPT ![c] = Verdict(c)]
  /\ task' = [task EXCEPT ![c] = "settle"]
  /\ UNCHANGED <<call, files, busy, reply, card, runs, stranded, connected, worker, clicks,
                 troubles>>

\* _update_approval_status: no card, nothing to update; a failed UPDATE is swallowed
StatusIfApproved(c) == IF future[c] = "yes" THEN "approved" ELSE card[c]

StatusOf(c) ==
  IF card[c] = "none" THEN "none" ELSE IF future[c] = "yes" THEN "approved" ELSE "denied"

SettleCard(c) ==
  /\ task[c] = "settle"
  /\ task' = [task EXCEPT ![c] = "tell"]
  /\ \/ /\ card' = [card EXCEPT ![c] = StatusOf(c)]
        /\ UNCHANGED <<stranded, troubles>>
     \/ /\ Trouble
        /\ stranded' = stranded \cup {c}
        /\ UNCHANGED card
  /\ UNCHANGED <<call, files, busy, future, reply, runs, connected, worker, clicks>>

\* the page is told to fetch the card again, and the command executed or refused
TellPage(c) ==
  /\ task[c] = "tell"
  /\ \/ /\ FrameEnds
        /\ future[c] = "yes"
        /\ task' = [task EXCEPT ![c] = "run"]
        /\ UNCHANGED reply
     \/ /\ FrameEnds
        /\ future[c] # "yes"
        /\ Finish(c, "denied")
     \/ FrameRaises(c)
  /\ UNCHANGED <<call, files, busy, future, card, runs, stranded, worker, clicks>>

\* call_tool, or the database statements of the other actions; a failure may come
\* before or after the effect
Execute(c) ==
  /\ task[c] \in {"run", "hung"}
  /\ \/ /\ runs' = [runs EXCEPT ![c] = @ + 1]
        /\ Finish(c, "result") \/ Finish(c, "failed")
     \/ /\ Finish(c, "failed")
        /\ UNCHANGED runs
  /\ UNCHANGED <<call, files, busy, future, card, stranded, connected, worker, clicks, troubles>>

\* an MCP server that does not answer: the orchestrator waits for it without a timeout
Hang(c) ==
  /\ task[c] = "run"
  /\ task' = [task EXCEPT ![c] = "hung"]
  /\ UNCHANGED <<call, files, busy, future, reply, card, runs, stranded, connected, worker, clicks,
                 troubles>>

\* _handle_request_background: replaces whatever response.json there is
Respond(c) ==
  /\ task[c] = "reply"
  /\ response' = {[id |-> c, status |-> reply[c]]}
  /\ task' = [task EXCEPT ![c] = "done"]
  /\ UNCHANGED <<call, request, busy, future, reply, card, runs, stranded, connected, worker,
                 clicks, troubles>>

TaskStep(c) ==
  \/ HandleNew(c)
  \/ PersistCard(c) \/ SendCard(c) \/ EndWait(c) \/ SettleCard(c) \/ TellPage(c)
  \/ Execute(c) \/ Respond(c)

-----------------------------------------------------------------------------
(* The user *)

\* a verdict for a card that still looks pending; resolve ignores a late one
Click(c, v) ==
  /\ connected
  /\ card[c] = "pending"
  /\ clicks' = [clicks EXCEPT ![c] = @ \cup {v}]
  /\ future' = IF future[c] = "open" THEN [future EXCEPT ![c] = v] ELSE future
  /\ UNCHANGED <<call, files, busy, task, reply, card, runs, stranded, connected, worker, troubles>>

\* _cleanup_agent: cancel_all_for_agent answers for a user who has gone
LeaveWith(v) ==
  /\ connected
  /\ Trouble
  /\ connected' = FALSE
  /\ future' = [c \in Calls |-> IF future[c] = "open" THEN v ELSE future[c]]
  /\ UNCHANGED <<call, files, busy, task, reply, card, runs, stranded, worker, clicks>>

LeaveApproving == LeaveWith("yes")

Disconnect == LeaveWith("no")

Connect ==
  /\ ~connected
  /\ connected' = TRUE
  /\ UNCHANGED <<call, files, busy, host, worker, clicks, troubles>>

-----------------------------------------------------------------------------
(* Faults *)

\* _ensure_worker replaces the polling loop; the background task lives on, but
\* the new loop does not know it
Reattach ==
  /\ connected /\ worker
  /\ Trouble
  /\ busy' = NoCall
  /\ UNCHANGED <<call, files, host, connected, worker, clicks>>

\* the calls of the dead worker are nobody's; its request.json stays
Crash ==
  /\ worker
  /\ Trouble
  /\ worker' = FALSE
  /\ call' = [c \in Calls |-> IF c \in Open THEN "lost" ELSE call[c]]
  /\ UNCHANGED <<files, busy, host, connected, clicks>>

\* _respawn_worker, or a fresh worker for the next message: a new polling loop
Respawn ==
  /\ ~worker
  /\ worker' = TRUE
  /\ busy' = NoCall
  /\ UNCHANGED <<call, files, host, connected, clicks, troubles>>

\* The orchestrator stops, its tasks and the worker with it; boot_recovery deletes
\* the files and leaves the cards as they are.
Restart ==
  /\ Trouble
  /\ worker' = FALSE
  /\ connected' = FALSE
  /\ call' = [c \in Calls |-> IF c \in Open THEN "lost" ELSE call[c]]
  /\ request' = NoCall /\ response' = {}
  /\ busy' = NoCall
  /\ task' = [c \in Calls |-> IF task[c] \in {"none", "done"} THEN task[c] ELSE "dead"]
  /\ future' = [c \in Calls |-> IF future[c] = "open" THEN "no" ELSE future[c]]
  /\ UNCHANGED <<reply, card, runs, stranded, clicks>>

-----------------------------------------------------------------------------
WorkerStep == \E c \in Calls : Call(c) \/ Receive(c) \/ GiveUp(c)

HostStep == Take \/ \E c \in Calls : TaskStep(c)

UserStep == Disconnect \/ Connect \/ \E c \in Calls, v \in {"yes", "no"} : Click(c, v)

Fault == Reattach \/ Crash \/ Respawn \/ Restart \/ \E c \in Calls : Hang(c)

Next == WorkerStep \/ HostStep \/ UserStep \/ Fault

Spec == Init /\ [][Next]_vars

Hung(c) == task[c] = "hung"

\* The polling loop, its tasks and their timeouts make progress, but for a task whose
\* MCP server does not answer; the user, the agent and the faults need not.
FairSpec ==
  /\ Spec
  /\ WF_vars(Take)
  /\ \A c \in Calls : WF_vars(~Hung(c) /\ TaskStep(c)) /\ WF_vars(Receive(c) \/ GiveUp(c))

-----------------------------------------------------------------------------
(* Properties *)

CallType ==
  /\ call \in [Calls -> {"idle", "waiting", "timeout", "lost"} \cup Outcome]
  /\ request \in Calls \cup {NoCall}
  /\ response \subseteq [id : Calls, status : Outcome]
  /\ worker \in BOOLEAN

HostType ==
  /\ busy \in Calls \cup {NoCall}
  /\ task \in [Calls -> {"none", "new", "persist", "send", "wait", "settle", "tell", "run", "hung",
                       "reply", "done", "dead"}]
  /\ future \in [Calls -> {"none", "open", "yes", "no"}]
  /\ reply \in [Calls -> Outcome \cup {"none"}]
  /\ card \in [Calls -> {"none", "pending", "approved", "denied"}]
  /\ connected \in BOOLEAN
  /\ clicks \in [Calls -> SUBSET {"yes", "no"}]
  /\ runs \in [Calls -> Nat]
  /\ stranded \subseteq Calls

TypeOK == CallType /\ HostType /\ troubles \in 0..MaxTroubles

\* A command that needs approval is executed only if the user accepted that very
\* command: no timeout, disconnect, reconnection, crash or double delivery of a
\* request stands in for the click (request_approval, cancel_all_for_agent).
ExecutedIsAccepted ==
  \A c \in Calls : Gate[c] = "approval" /\ runs[c] > 0 => "yes" \in clicks[c]

\* A request is executed at most once, although request.json outlives the worker,
\* the polling loop that should read it and the call that has given up on it.
ExecutedOnce == \A c \in Calls : runs[c] <= 1

\* What the agent is told is true of its own call: a result means that it was
\* executed, a denial that it was not, although response.json is one file for all
\* calls and outlives them (ipc_request, matched by request_id).
AnswerIsTrue ==
  \A c \in Calls : /\ call[c] = "result" => runs[c] = 1
                   /\ call[c] = "denied" => runs[c] = 0

\* The card in the conversation agrees with what happened: what it shows as denied
\* is never executed, and it shows as approved only what the user accepted.
CardIsTrue ==
  \A c \in Calls : /\ card[c] = "denied" => runs[c] = 0
                   /\ card[c] = "approved" => "yes" \in clicks[c]

\* Inductive form of the four.  Unstarted calls have no request and no task, a task
\* before "reply" has executed nothing, and everything that carries a verdict or a
\* result agrees with the history.
Unstarted(c) == call[c] = "idle" => request # c /\ task[c] = "none"

Untaken(c) == request = c => task[c] = "none"

Unexecuted(c) ==
  task[c] \in {"none", "new", "persist", "send", "wait", "settle", "tell", "run", "hung"} =>
    runs[c] = 0 /\ reply[c] = "none"

\* the wait has an end, and ends with a verdict
Decided(c) ==
  /\ task[c] \in {"persist", "send", "wait"} => future[c] # "none"
  /\ task[c] \in {"settle", "tell"} => future[c] \in {"yes", "no"}

\* a card shows a denial only of what is refused or given up
Refused(c) ==
  card[c] = "denied" =>
    /\ runs[c] = 0
    /\ future[c] = "no"
    /\ task[c] \in {"tell", "reply", "done", "dead"}

Authorised(c) ==
  \/ future[c] = "yes"
  \/ card[c] = "approved"
  \/ Gate[c] = "approval" /\ (task[c] \in {"run", "hung"} \/ runs[c] > 0)

Accepted(c) == Authorised(c) => "yes" \in clicks[c]

Truthful(c, status) ==
  /\ status = "result" => runs[c] = 1
  /\ status = "denied" => runs[c] = 0

Told(c) ==
  /\ task[c] = "reply" => reply[c] \in Outcome
  /\ Truthful(c, reply[c])
  /\ call[c] \in Outcome => call[c] = reply[c] /\ task[c] \in {"done", "dead"}
  /\ \A r \in response : r.id = c => r.status = reply[c] /\ task[c] = "done"

ToolInv ==
  \A c \in Calls :
    /\ Unstarted(c) /\ Untaken(c) /\ Unexecuted(c) /\ Decided(c) /\ Refused(c)
    /\ Accepted(c) /\ Told(c) /\ runs[c] <= 1

\* A request is never stuck behind an approval: it is taken, or replaced by a
\* later one, while the worker that wrote it runs and no MCP server keeps the slot.
RequestIsTaken ==
  \A c \in Calls :
    request = c ~> request # c \/ ~worker \/ (busy # NoCall /\ Hung(busy))

\* A card does not stay pending, whatever ends the wait, unless the orchestrator was
\* restarted under it or failed to update it (request_approval).
CardIsSettled ==
  \A c \in Calls :
    card[c] = "pending" ~> card[c] # "pending" \/ task[c] = "dead" \/ c \in stranded

=============================================================================
