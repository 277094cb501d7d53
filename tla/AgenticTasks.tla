---------------------------- MODULE AgenticTasks ----------------------------
(***************************************************************************)
(* One recurring task of an agent: the scheduler that polls for it, the    *)
(* runs it starts, the checker that looks for changes, the cursor that     *)
(* remembers which were handled, the registration that keeps runs apart,   *)
(* the count of failures that disables the task and the idle backoff of    *)
(* its interval.  The worker is seen from the messages table only: module  *)
(* MessageDelivery is about how a reply gets there.                        *)
(*                                                                         *)
(* A step of a run is what its coroutine does between two awaits.  The     *)
(* watched source (a directory, a repository, a channel) is a counter of   *)
(* the changes made to it, and a cursor is a value that counter had.       *)
(***************************************************************************)
EXTENDS Naturals

CONSTANTS
  Runs,          \* bound: executions alive at once
  Triggers,      \* the trigger types considered
  Base, Ceiling, \* base_interval_seconds and max_interval_seconds of a task with
                 \* an idle backoff
  MaxChanges,    \* bound: changes of the watched source
  MaxEdits,      \* bound: requests of the user or of the agent about the task
  MaxDeaths,     \* bound: deaths of the worker in the middle of a reply
  MaxRestarts,   \* bound: restarts of the orchestrator
  Nobody, NoRow  \* no run is registered; the scheduler holds no row

ASSUME TasksConstantsOK ==
  /\ Triggers \subseteq {"interval", "script", "checker", "webhook"}
  /\ Base \in Nat \ {0} /\ Ceiling \in Nat /\ Base < Ceiling
  /\ MaxChanges \in Nat /\ MaxEdits \in Nat /\ MaxDeaths \in Nat /\ MaxRestarts \in Nat
  /\ Nobody \notin Runs /\ NoRow \notin Nat

MaxFailures == 3   \* consecutive failures that disable a task

VARIABLES
  trigger,     \* trigger_type, or "script" for an interval task with a script
  status,      \* status; "deleted" when the row is gone
  retries,     \* retry_count
  due,         \* is the interval over since last_executed_at or last_checked_at?
  cursor,      \* cursor
  interval,    \* interval_seconds
  row,         \* cursor of the row _poll_agentic_tasks has read
  registered,  \* the task's entry in _running_agentic
  signaled,    \* is it in _activity_signaled?
  run,         \* the locals of each run, see RunState
  source,      \* changes of the watched source so far
  told,        \* history: changes the agent has completed an answer about
  streak,      \* history: failures since the last success or re-enabling
  edits, deaths, restarts

task     == <<trigger, status, retries, due, cursor, interval>>
registry == <<row, registered, signaled>>
world    == <<source, told, streak>>
bounds   == <<edits, deaths, restarts>>
vars == <<task, registry, run, world, bounds>>

Phase == {"idle", "check", "changed", "unchanged", "renewed", "renew", "submit", "wait", "record", "reset",
          "count", "tally", "disable", "advance", "release", "backoff", "double"}

\* Where a run is, who started it, what it read last (a cursor, or at the end the
\* interval) and the reply to its message.  For a script, which has no reply, a
\* finished one stands for its row being gone from message_queue.
RunState ==
  [phase : Phase, kind : {"poll", "manual", "webhook"}, seen : Nat,
   reply : {"none", "streaming", "answer", "error", "partial"}]

Starting(k, p, basis) == [phase |-> p, kind |-> k, seen |-> basis, reply |-> "none"]

Idle == Starting("poll", "idle", 0)

Init ==
  /\ trigger \in Triggers
  /\ status = "enabled" /\ retries = 0 /\ cursor = 0
  /\ due = (trigger # "checker")
  /\ interval = IF trigger = "webhook" THEN 0 ELSE Base
  /\ row = NoRow /\ registered = Nobody /\ signaled = FALSE
  /\ run = [r \in Runs |-> Idle]
  /\ source = 0 /\ told = 0 /\ streak = 0
  /\ edits = 0 /\ deaths = 0 /\ restarts = 0

-----------------------------------------------------------------------------
(* Helpers *)

At(r, p) == run[r].phase = p

Goto(r, p) == run' = [run EXCEPT ![r].phase = p]

End(r) == run' = [run EXCEPT ![r] = Idle]

\* runs that have not given up their registration, if they had one
Active == {r \in Runs : run[r].phase \notin {"idle", "backoff", "double"}}

\* _run_checker_task owns the registration, and has no backoff
CallerManaged(r) == trigger = "checker" /\ run[r].kind = "poll"

\* execute_script_task
IsScript(r) == trigger = "script" /\ run[r].kind = "poll"

\* create_schedule gives a checker no base_interval_seconds
HasBackoff == trigger # "checker"

\* an UPDATE finds no row once the task is deleted
Stored(old, new) == IF status = "deleted" THEN old ELSE new

Edit == edits < MaxEdits /\ edits' = edits + 1

-----------------------------------------------------------------------------
(* Starting a run *)

Start(r, locals) == At(r, "idle") /\ run' = [run EXCEPT ![r] = locals]

\* _poll_agentic_tasks reads the due tasks
PollSelect ==
  /\ row = NoRow
  /\ status = "enabled" /\ due /\ trigger # "webhook"
  /\ row' = cursor
  /\ UNCHANGED <<task, registered, signaled, run, world, bounds>>

\* then starts those that are not running
AlwaysUnregistered == TRUE

Unregistered == registered = Nobody

PollSkip ==
  /\ row # NoRow /\ ~Unregistered
  /\ row' = NoRow
  /\ UNCHANGED <<task, registered, signaled, run, world, bounds>>

PollLaunch(r) ==
  /\ row # NoRow /\ Unregistered
  /\ Start(r, Starting("poll", IF trigger = "checker" THEN "check" ELSE "submit", row))
  /\ registered' = r
  /\ row' = NoRow
  /\ UNCHANGED <<task, signaled, world, bounds>>

\* run_schedule_now, whatever the trigger and the status
RunNow(r) ==
  /\ status # "deleted" /\ Unregistered
  /\ Edit
  /\ Start(r, Starting("manual", "submit", 0))
  /\ registered' = r
  /\ UNCHANGED <<task, row, signaled, world, deaths, restarts>>

\* trigger_webhook neither looks at _running_agentic nor enters it
TriggerWebhook(r) ==
  /\ trigger = "webhook" /\ status = "enabled"
  /\ Edit
  /\ Start(r, Starting("webhook", "submit", 0))
  /\ UNCHANGED <<task, registry, world, deaths, restarts>>

-----------------------------------------------------------------------------
(* A run *)

\* run_checker: what it sees becomes the new cursor, which may differ from the old one
\* without a change ("renewed": a new ETag, messages that are filtered out); a failure
\* or a timeout counts as no change, with the old cursor
SeesWith(r, new) ==
  /\ At(r, "check")
  /\ \E p \in IF source = run[r].seen THEN {"unchanged", "renewed"} ELSE {"changed"} :
       run' = [run EXCEPT ![r].phase = p, ![r].seen = new]
  /\ UNCHANGED <<task, registry, world, bounds>>

SeesWithOldCursor(r) == SeesWith(r, run[r].seen)

CheckSees(r) == SeesWith(r, source)

CheckFails(r) ==
  /\ At(r, "check")
  /\ Goto(r, "unchanged")
  /\ UNCHANGED <<task, registry, world, bounds>>

\* last_checked_at
Stamp(r) ==
  /\ \/ At(r, "changed") /\ Goto(r, "submit")
     \/ At(r, "renewed") /\ Goto(r, "renew")
     \/ At(r, "unchanged") /\ Goto(r, "release")
  /\ due' = FALSE
  /\ UNCHANGED <<trigger, status, retries, cursor, interval, registry, world, bounds>>

\* ensure_worker_headless, then store_scheduled_message; either may raise
Submit(r) ==
  /\ At(r, "submit")
  /\ \/ Goto(r, "wait")
     \/ run' = [run EXCEPT ![r].phase = "record", ![r].reply = "error"]
  /\ UNCHANGED <<task, registry, world, bounds>>

\* _wait_for_completion: any complete reply will do, after 300 seconds none
AnyReply(r) == run[r].reply # "none"

Settled(r) == run[r].reply \in {"answer", "error", "partial"}

WaitEnds(r) ==
  /\ At(r, "wait")
  /\ run' = [run EXCEPT ![r].phase = "record",
                        ![r].reply = IF Settled(r) THEN @ ELSE "error"]
  /\ UNCHANGED <<task, registry, world, bounds>>

Succeeded(r) == run[r].reply # "error"

\* last_executed_at and last_result; nothing else comes after a script
Record(r) ==
  /\ At(r, "record")
  /\ due' = IF trigger = "checker" THEN due ELSE FALSE
  /\ Goto(r, IF IsScript(r) THEN "release" ELSE IF Succeeded(r) THEN "reset" ELSE "count")
  /\ UNCHANGED <<trigger, status, retries, cursor, interval, registry, world, bounds>>

\* _reset_retry_count
Reset(r) ==
  /\ At(r, "reset")
  /\ retries' = Stored(retries, 0)
  /\ streak' = 0
  /\ Goto(r, IF CallerManaged(r) THEN "advance" ELSE "release")
  /\ UNCHANGED <<trigger, status, due, cursor, interval, registry, source, told, bounds>>

\* _increment_retry_count: the UPDATE, then the SELECT
Count(r) ==
  /\ At(r, "count")
  /\ retries' = Stored(retries, retries + 1)
  /\ streak' = Stored(streak, streak + 1)
  /\ Goto(r, "tally")
  /\ UNCHANGED <<trigger, status, due, cursor, interval, registry, source, told, bounds>>

TooManyLate == retries > MaxFailures

TooMany == retries >= MaxFailures

Tally(r) ==
  /\ At(r, "tally")
  /\ Goto(r, IF TooMany THEN "disable" ELSE "release")
  /\ UNCHANGED <<task, registry, world, bounds>>

Disable(r) ==
  /\ At(r, "disable")
  /\ status' = Stored(status, "disabled")
  /\ Goto(r, "release")
  /\ UNCHANGED <<trigger, retries, due, cursor, interval, registry, world, bounds>>

\* _run_checker_task writes the cursor, after a success or without a change
Advance(r) ==
  /\ run[r].phase \in {"advance", "renew"}
  /\ cursor' = Stored(cursor, run[r].seen)
  /\ Goto(r, "release")
  /\ UNCHANGED <<trigger, status, retries, due, interval, registry, world, bounds>>

\* finally: the entry of the task is dropped, whosever it is; a run without a
\* caller looks at _activity_signaled in the same stretch
ReleaseTo(r, left) ==
  /\ At(r, "release")
  /\ registered' = left
  /\ IF CallerManaged(r) \/ IsScript(r)
       THEN End(r) /\ UNCHANGED signaled
       ELSE /\ IF signaled THEN End(r) ELSE Goto(r, "backoff")
            /\ signaled' = FALSE
  /\ UNCHANGED <<task, row, world, bounds>>

ReleaseIfSucceeded(r) == ReleaseTo(r, IF Succeeded(r) THEN Nobody ELSE registered)

Release(r) == ReleaseTo(r, Nobody)

\* _apply_backoff reads the interval
Backoff(r) ==
  /\ At(r, "backoff")
  /\ IF status # "deleted" /\ HasBackoff
       THEN run' = [run EXCEPT ![r].phase = "double", ![r].seen = interval]
       ELSE End(r)
  /\ UNCHANGED <<task, registry, world, bounds>>

\* and writes it
DoubledFreely(i) == 2 * i

Doubled(i) == IF 2 * i < Ceiling THEN 2 * i ELSE Ceiling

Double(r) ==
  /\ At(r, "double")
  /\ interval' = Stored(interval, Doubled(run[r].seen))
  /\ End(r)
  /\ UNCHANGED <<trigger, status, retries, due, cursor, registry, world, bounds>>

RunStep(r) ==
  \/ CheckSees(r) \/ CheckFails(r) \/ Stamp(r) \/ Submit(r) \/ WaitEnds(r) \/ Record(r)
  \/ Reset(r) \/ Count(r) \/ Tally(r) \/ Disable(r) \/ Advance(r) \/ Release(r)
  \/ Backoff(r) \/ Double(r)

-----------------------------------------------------------------------------
(* The worker, as a run sees it.  What it does for a message nobody waits for  *)
(* any more is not the run's business.                                         *)

Awaits(r, reply) == At(r, "wait") /\ run[r].reply = reply

Stream(r) ==
  /\ Awaits(r, "none")
  /\ run' = [run EXCEPT ![r].reply = "streaming"]
  /\ UNCHANGED <<task, registry, world, bounds>>

\* the complete event; its content may be an error
Answer(r) ==
  /\ Awaits(r, "streaming")
  /\ \/ /\ run' = [run EXCEPT ![r].reply = "answer"]
        /\ told' = IF run[r].seen > told THEN run[r].seen ELSE told
     \/ /\ run' = [run EXCEPT ![r].reply = "error"]
        /\ UNCHANGED told
  /\ UNCHANGED <<task, registry, source, streak, bounds>>

\* _monitor_worker and _check_worker_liveness complete the replies of a dead worker
WorkerDies ==
  /\ deaths < MaxDeaths
  /\ \E r \in Runs : Awaits(r, "streaming")
  /\ deaths' = deaths + 1
  /\ run' = [r \in Runs |->
       IF Awaits(r, "streaming") THEN [run[r] EXCEPT !.reply = "partial"] ELSE run[r]]
  /\ UNCHANGED <<task, registry, world, edits, restarts>>

-----------------------------------------------------------------------------
(* The user, the agent, time and the watched source *)

Change ==
  /\ source < MaxChanges
  /\ source' = source + 1
  /\ UNCHANGED <<task, registry, run, told, streak, bounds>>

TimePasses ==
  /\ ~due
  /\ due' = TRUE
  /\ UNCHANGED <<trigger, status, retries, cursor, interval, registry, run, world, bounds>>

\* pause_schedule, of the page or of the agent's tool
Pause ==
  /\ status = "enabled"
  /\ Edit
  /\ status' = "disabled"
  /\ UNCHANGED <<trigger, retries, due, cursor, interval, registry, run, world, deaths,
                 restarts>>

\* resume_schedule of the page; the agent's tool leaves retry_count alone
ResumeWith(count) ==
  /\ Edit
  /\ status' = "enabled"
  /\ retries' = count
  /\ streak' = 0
  /\ UNCHANGED <<trigger, due, cursor, interval, registry, run, source, told, deaths,
                 restarts>>

Resume == status # "deleted" /\ ResumeWith(0)

ResumeByTool == status = "disabled" /\ ResumeWith(retries)

Delete ==
  /\ status # "deleted"
  /\ Edit
  /\ status' = "deleted"
  /\ UNCHANGED <<trigger, retries, due, cursor, interval, registry, run, world, deaths,
                 restarts>>

\* signal_activity, by the agent while it works on this message or on another
SignalActivity ==
  /\ status = "enabled" /\ HasBackoff
  /\ Edit
  /\ interval' = Base
  /\ signaled' = TRUE
  /\ UNCHANGED <<trigger, status, retries, due, cursor, row, registered, run, world,
                 deaths, restarts>>

\* The orchestrator stops: the runs are gone, the row of the task remains.
Restart ==
  /\ restarts < MaxRestarts
  /\ restarts' = restarts + 1
  /\ row' = NoRow /\ registered' = Nobody /\ signaled' = FALSE
  /\ run' = [r \in Runs |-> Idle]
  /\ UNCHANGED <<task, world, edits, deaths>>

-----------------------------------------------------------------------------
Scheduler == PollSelect \/ PollSkip \/ \E r \in Runs : PollLaunch(r)

Requests ==
  \/ Pause \/ Resume \/ ResumeByTool \/ Delete \/ SignalActivity
  \/ \E r \in Runs : RunNow(r) \/ TriggerWebhook(r)

Worker == WorkerDies \/ \E r \in Runs : Stream(r) \/ Answer(r)

Next ==
  \/ Scheduler \/ Requests \/ Worker
  \/ \E r \in Runs : RunStep(r)
  \/ Change \/ TimePasses \/ Restart

Spec == Init /\ [][Next]_vars

\* The scheduler ticks, intervals end, the steps of a run are scheduled (its wait
\* ends after 300 seconds at the latest) and the watched source answers again and
\* again, though not always.
FairSpec ==
  /\ Spec
  /\ WF_vars(Scheduler) /\ WF_vars(TimePasses)
  /\ \A r \in Runs : WF_vars(RunStep(r)) /\ SF_vars(CheckSees(r))

-----------------------------------------------------------------------------
(* Properties *)

TaskType ==
  /\ trigger \in Triggers
  /\ status \in {"enabled", "disabled", "deleted"}
  /\ retries \in Nat /\ due \in BOOLEAN /\ cursor \in Nat
  /\ interval \in {0} \cup Base..Ceiling
  /\ row \in Nat \cup {NoRow}
  /\ registered \in Runs \cup {Nobody}
  /\ signaled \in BOOLEAN

RunType ==
  /\ run \in [Runs -> RunState]
  /\ \A r \in Runs : At(r, "double") => run[r].seen \in {0} \cup Base..Ceiling

CountType ==
  /\ source \in 0..MaxChanges /\ told \in Nat /\ streak \in Nat
  /\ edits \in 0..MaxEdits /\ deaths \in 0..MaxDeaths /\ restarts \in 0..MaxRestarts

\* Every variable keeps its type; in particular the idle backoff stays between
\* base_interval_seconds and max_interval_seconds (_apply_backoff).
TypeOK == TaskType /\ RunType /\ CountType

\* A polled task has at most one execution at a time, although the scheduler
\* decides on a row it read earlier, the user may start a run in between, and a run
\* gives up its registration before its last steps (_running_agentic).
OneRunAtATime == trigger # "webhook" => \A r, s \in Active : r = s

\* The cursor never goes back: a change handled once is not taken for a new one
\* because two runs wrote their cursors in the wrong order (_run_checker_task).
CursorOnlyAdvances == [][cursor' >= cursor]_vars

\* As long as no worker dies in the middle of a reply, the cursor covers only
\* changes the agent has completed an answer about (_run_checker_task).
CursorIsAnsweredIfAlive == deaths = 0 => cursor <= told

\* scheduler.py, _run_checker_task: "Cursor advances only after successful agent
\* completion".
CursorIsAnswered == cursor <= told

Disabling == \E r \in Runs : run[r].phase \in {"tally", "disable"}

\* A polled task does not go on failing: after three failures with neither a success
\* nor a re-enabling in between it is disabled, or the run that noticed is about to
\* do so.  Each restart may cost one failure more (execute_agentic_task).
BreakerTrips ==
  trigger # "webhook" =>
    streak < MaxFailures + restarts \/ status # "enabled" \/ Disabling

\* Inductive forms.  The only run of a polled task is the one registered.
RegistrationInv == trigger # "webhook" => Active \subseteq {registered}

\* A run that will write the cursor read the source after the cursor was written.
ReadsTheSource(r) ==
  /\ run[r].phase \in {"check", "changed", "unchanged", "renewed", "renew", "advance"}
       => CallerManaged(r)
  /\ run[r].phase \in {"backoff", "double"} => ~CallerManaged(r)
  /\ CallerManaged(r) /\ run[r].phase \in {"changed", "renewed", "renew", "submit", "wait",
                                           "record", "reset", "advance"}
       => cursor <= run[r].seen /\ run[r].seen <= source

CursorInv == cursor <= source /\ \A r \in Runs : ReadsTheSource(r)

\* A reply the worker completed is about a change that was told; so is a cursor that is
\* read, or renewed without a change.
RepliedInPhase(r) ==
  /\ run[r].phase \in {"check", "changed", "unchanged", "renewed", "renew", "submit"}
       => run[r].reply = "none"
  /\ run[r].phase \in {"record", "reset", "advance"} => Settled(r)
  /\ run[r].phase \in {"reset", "advance"} => Succeeded(r)

RepliedInTruth(r) ==
  /\ run[r].reply # "partial"
  /\ CallerManaged(r)
       /\ (run[r].reply = "answer" \/ run[r].phase \in {"check", "renewed", "renew"})
       => run[r].seen <= told

AnswerInv ==
  /\ \A r \in Runs : RepliedInPhase(r)
  /\ deaths = 0 => /\ cursor <= told
                   /\ row # NoRow => row <= told
                   /\ \A r \in Runs : RepliedInTruth(r)

\* The failures counted for the task are at least those of the streak.
BreakerInv ==
  /\ streak <= retries
  /\ trigger # "webhook" /\ status = "enabled" =>
       /\ streak <= MaxFailures + restarts
       /\ streak < MaxFailures + restarts \/ Disabling

\* A change of the source is reported until the agent has handled it: the cursor
\* passes it, or the task is disabled, by its failures or by the user.
ChangeIsHandled ==
  \A v \in 1..MaxChanges :
    (trigger = "checker" /\ source >= v) ~> (cursor >= v \/ status # "enabled")

\* An enabled task that is due is executed again, whatever became of the runs
\* before: every path of a run gives its registration back.
DueTaskRuns ==
  (trigger # "webhook" /\ due /\ status = "enabled") ~> (Active # {} \/ status # "enabled")

=============================================================================
