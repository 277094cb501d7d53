------------------------- MODULE AgenticTasks_proofs -------------------------
(***************************************************************************)
(* Theorems about AgenticTasks, for any number of runs, of changes of the  *)
(* source, of requests, of deaths of the worker and of restarts.           *)
(***************************************************************************)
EXTENDS AgenticTasks, TLAPS

(* Type correctness *)

\* The initial state is well typed.
LEMMA InitType == Init => TypeOK
<1> SUFFICES ASSUME Init PROVE TypeOK
  OBVIOUS
<1> USE TasksConstantsOK DEF TasksConstantsOK, Init
<1>1. TaskType
  <2>1. interval \in {0} \cup Base..Ceiling
    OBVIOUS
  <2>2. due \in BOOLEAN
    OBVIOUS
  <2>3. /\ status \in {"enabled", "disabled", "deleted"}
        /\ retries \in Nat /\ cursor \in Nat
        /\ row \in Nat \cup {NoRow}
        /\ registered \in Runs \cup {Nobody}
        /\ signaled \in BOOLEAN
    OBVIOUS
  <2> QED
    BY <2>1, <2>2, <2>3, Zenon DEF TaskType
<1>2. RunType
  BY DEF RunType, RunState, Phase, Idle, Starting, At
<1>3. CountType
  BY DEF CountType
<1> QED
  BY <1>1, <1>2, <1>3 DEF TypeOK

\* A run may take any state that is not about to write an interval.
LEMMA RunMoves ==
  ASSUME RunType, NEW r \in Runs, NEW v \in RunState, v.phase # "double",
         run' = [run EXCEPT ![r] = v]
  PROVE  RunType'
  BY DEF RunType, At

\* The types survive a step of a run.
LEMMA RunStepType ==
  ASSUME TypeOK, NEW r \in Runs, RunStep(r)
  PROVE  TypeOK'
<1> USE TasksConstantsOK DEF TasksConstantsOK, TypeOK, task, registry, world, bounds
<1>1. CASE CheckSees(r)
  <2>1. TaskType'
    BY <1>1 DEF CheckSees, SeesWith, TaskType
  <2>2. RunType'
    <3>1. PICK p \in {"unchanged", "renewed", "changed"} :
            run' = [run EXCEPT ![r].phase = p, ![r].seen = source]
      BY <1>1 DEF CheckSees, SeesWith
    <3>2. run' = [run EXCEPT ![r].phase = p, ![r].seen = source]
      BY <3>1
    <3>3. source \in Nat
      BY DEF CountType
    <3> DEFINE v == [run[r] EXCEPT !.phase = p, !.seen = source]
    <3>4. run' = [run EXCEPT ![r] = v]
      BY <3>2 DEF RunType
    <3>5. v \in RunState /\ v.phase = p
      BY <3>1, <3>3 DEF RunType, RunState, Phase
    <3> HIDE DEF v
    <3> QED
      BY <3>1, <3>4, <3>5, RunMoves
  <2>3. CountType'
    BY <1>1 DEF CheckSees, SeesWith, CountType
  <2> QED
    BY <2>1, <2>2, <2>3
<1>2. CASE CheckFails(r)
  BY <1>2 DEF CheckFails, Goto, TaskType, RunType, CountType, RunState, Phase, At
<1>3. CASE Stamp(r)
  <2>1. TaskType'
    BY <1>3 DEF Stamp, TaskType
  <2>2. RunType'
    BY <1>3 DEF Stamp, Goto, TaskType, RunType, RunState, Phase, At
  <2>3. CountType'
    BY <1>3 DEF Stamp, CountType
  <2> QED
    BY <2>1, <2>2, <2>3
<1>4. CASE Submit(r)
  BY <1>4 DEF Submit, Goto, TaskType, RunType, CountType, RunState, Phase, At
<1>5. CASE WaitEnds(r)
  <2>1. TaskType'
    BY <1>5 DEF WaitEnds, TaskType
  <2>2. RunType'
    <3> DEFINE a == IF Settled(r) THEN run[r].reply ELSE "error"
    <3>1. a \in {"answer", "error", "partial"}
      BY DEF Settled
    <3>2. run' = [run EXCEPT ![r].phase = "record", ![r].reply = a]
      BY <1>5 DEF WaitEnds, RunType, RunState
    <3> HIDE DEF a
    <3> DEFINE v == [run[r] EXCEPT !.phase = "record", !.reply = a]
    <3>3. run' = [run EXCEPT ![r] = v]
      BY <3>2 DEF RunType
    <3>4. v \in RunState /\ v.phase = "record"
      BY <3>1 DEF RunType, RunState, Phase
    <3> HIDE DEF v
    <3> QED
      BY <3>3, <3>4, RunMoves
  <2>3. CountType'
    BY <1>5 DEF WaitEnds, CountType
  <2> QED
    BY <2>1, <2>2, <2>3
<1>6. CASE Record(r)
  <2>1. TaskType'
    BY <1>6 DEF Record, TaskType
  <2>2. RunType'
    BY <1>6 DEF Record, Goto, TaskType, RunType, RunState, Phase, At
  <2>3. CountType'
    BY <1>6 DEF Record, CountType
  <2> QED
    BY <2>1, <2>2, <2>3
<1>7. CASE Reset(r)
  BY <1>7 DEF Reset, Goto, Stored, TaskType, RunType, CountType, RunState, Phase, At
<1>8. CASE Count(r)
  BY <1>8 DEF Count, Goto, Stored, TaskType, RunType, CountType, RunState, Phase, At
<1>9. CASE Tally(r)
  BY <1>9 DEF Tally, Goto, TaskType, RunType, CountType, RunState, Phase, At
<1>10. CASE Disable(r)
  BY <1>10 DEF Disable, Goto, Stored, TaskType, RunType, CountType, RunState, Phase, At
<1>11. CASE Advance(r)
  BY <1>11 DEF Advance, Goto, Stored, TaskType, RunType, CountType, RunState, Phase, At
<1>12. CASE Release(r)
  <2>1. TaskType'
    BY <1>12 DEF Release, ReleaseTo, TaskType
  <2>2. RunType'
    BY <1>12 DEF Release, ReleaseTo, Goto, End, Idle, Starting, RunType, TaskType, RunState, Phase, At
  <2>3. CountType'
    BY <1>12 DEF Release, ReleaseTo, CountType
  <2> QED
    BY <2>1, <2>2, <2>3
<1>13. CASE Backoff(r)
  BY <1>13 DEF Backoff, End, Idle, Starting, TaskType, RunType, CountType, RunState, Phase, At
<1>14. CASE Double(r)
  BY <1>14 DEF Double, Doubled, Stored, End, Idle, Starting, TaskType, RunType, CountType, RunState, Phase, At
<1> QED
  BY <1>1, <1>2, <1>3, <1>4, <1>5, <1>6, <1>7, <1>8, <1>9, <1>10, <1>11, <1>12, <1>13, <1>14 DEF RunStep
\* The types survive a step of the scheduler, of the worker and of everyone else.
LEMMA StartType == TypeOK /\ (Scheduler \/ Requests) => TypeOK'
<1> USE TasksConstantsOK DEF TasksConstantsOK, TypeOK, task, registry, world, bounds, Edit
<1> SUFFICES ASSUME TypeOK, Scheduler \/ Requests PROVE TypeOK'
  OBVIOUS
<1>1. CASE PollSelect \/ PollSkip
  BY <1>1 DEF PollSelect, PollSkip, TaskType, RunType, CountType, At
<1>2. CASE \E r \in Runs : PollLaunch(r)
  <2> PICK r \in Runs : PollLaunch(r)
    BY <1>2
  <2>1. TaskType' /\ CountType'
    BY DEF PollLaunch, TaskType, CountType
  <2> DEFINE p == IF trigger = "checker" THEN "check" ELSE "submit"
  <2>2. p \in Phase /\ p # "double"
    BY DEF Phase
  <2>3. row \in Nat
    BY DEF PollLaunch, TaskType
  <2>4. run' = [run EXCEPT ![r] = Starting("poll", p, row)]
    BY DEF PollLaunch, Start
  <2> HIDE DEF p
  <2>5. Starting("poll", p, row) \in RunState /\ Starting("poll", p, row).phase # "double"
    BY <2>2, <2>3 DEF Starting, RunState
  <2> QED
    BY <2>1, <2>4, <2>5, RunMoves
<1>3. CASE \E r \in Runs : RunNow(r)
  <2> PICK r \in Runs : RunNow(r)
    BY <1>3
  <2>1. TaskType' /\ CountType'
    BY DEF RunNow, TaskType, CountType
  <2> QED
    BY <2>1 DEF RunNow, Start, Starting, RunType, RunState, Phase, At
<1>4. CASE \E r \in Runs : TriggerWebhook(r)
  <2> PICK r \in Runs : TriggerWebhook(r)
    BY <1>4
  <2>1. TaskType' /\ CountType'
    BY DEF TriggerWebhook, TaskType, CountType
  <2> QED
    BY <2>1 DEF TriggerWebhook, Start, Starting, RunType, RunState, Phase, At
<1>5. CASE Pause
  BY <1>5 DEF Pause, TaskType, RunType, CountType, At
<1>6. CASE Resume \/ ResumeByTool
  BY <1>6 DEF Resume, ResumeByTool, ResumeWith, TaskType, RunType, CountType, At
<1>7. CASE Delete
  BY <1>7 DEF Delete, TaskType, RunType, CountType, At
<1>8. CASE SignalActivity
  <2>1. interval' = Base /\ Base \in Base..Ceiling
    BY <1>8 DEF SignalActivity
  <2>2. TaskType'
    BY <1>8, <2>1 DEF SignalActivity, TaskType
  <2>3. RunType' /\ CountType'
    BY <1>8 DEF SignalActivity, RunType, CountType, At
  <2> QED
    BY <2>2, <2>3
<1> QED
  BY <1>1, <1>2, <1>3, <1>4, <1>5, <1>6, <1>7, <1>8 DEF Scheduler, Requests

LEMMA WorldType == TypeOK /\ (Worker \/ Change \/ TimePasses \/ Restart) => TypeOK'
<1> USE TasksConstantsOK DEF TasksConstantsOK, TypeOK, task, registry, world, bounds
<1> SUFFICES ASSUME TypeOK, Worker \/ Change \/ TimePasses \/ Restart PROVE TypeOK'
  OBVIOUS
<1>1. CASE WorkerDies
  <2>1. TaskType' /\ CountType'
    BY <1>1 DEF WorkerDies, TaskType, CountType
  <2>2. RunType'
    BY <1>1 DEF WorkerDies, Awaits, RunType, RunState, At
  <2> QED
    BY <2>1, <2>2
<1>2. CASE \E r \in Runs : Stream(r)
  <2> PICK r \in Runs : Stream(r)
    BY <1>2
  <2>1. TaskType' /\ CountType'
    BY DEF Stream, TaskType, CountType
  <2> QED
    BY <2>1 DEF Stream, Awaits, RunType, RunState, At
<1>3. CASE \E r \in Runs : Answer(r)
  <2> PICK r \in Runs : Answer(r)
    BY <1>3
  <2>1. TaskType'
    BY DEF Answer, TaskType
  <2>2. RunType'
    BY DEF Answer, Awaits, RunType, RunState, At
  <2>3. told' \in Nat
    BY DEF Answer, RunType, RunState, CountType
  <2>4. CountType'
    BY <2>3 DEF Answer, CountType
  <2> QED
    BY <2>1, <2>2, <2>4
<1>4. CASE Change
  BY <1>4 DEF Change, TaskType, RunType, CountType, At
<1>5. CASE TimePasses
  BY <1>5 DEF TimePasses, TaskType, RunType, CountType, At
<1>6. CASE Restart
  <2>1. TaskType'
    <3>1. signaled' \in BOOLEAN /\ registered' = Nobody /\ row' = NoRow
      BY <1>6 DEF Restart
    <3> QED
      BY <1>6, <3>1, Zenon DEF Restart, TaskType
  <2>2. Idle \in RunState /\ Idle.phase = "idle"
    BY DEF Idle, Starting, RunState, Phase
  <2>3. RunType'
    BY <1>6, <2>2 DEF Restart, RunType, At
  <2>4. CountType'
    BY <1>6 DEF Restart, CountType
  <2> QED
    BY <2>1, <2>3, <2>4
<1> QED
  BY <1>1, <1>2, <1>3, <1>4, <1>5, <1>6 DEF Worker

LEMMA StepType == TypeOK /\ [Next]_vars => TypeOK'
<1> SUFFICES ASSUME TypeOK, [Next]_vars PROVE TypeOK'
  OBVIOUS
<1>1. CASE UNCHANGED vars
  BY <1>1 DEF TypeOK, TaskType, RunType, CountType, At, vars, task, registry, world, bounds
<1>2. CASE Next
  BY <1>2, StartType, RunStepType, WorldType DEF Next
<1> QED
  BY <1>1, <1>2

\* Every variable keeps its type; the interval of a task with a backoff stays
\* between its base and its ceiling, whatever becomes of the runs that double it.
THEOREM TasksTypeCorrect == Spec => []TypeOK
  BY InitType, StepType, PTL DEF Spec
(* Registration *)

\* A step of a run leaves the other runs, the kind of task, the row of the scheduler,
\* the source and what was told as they are.
LEMMA RunFrame ==
  ASSUME TypeOK, NEW r \in Runs, RunStep(r)
  PROVE  /\ trigger' = trigger /\ row' = row /\ source' = source /\ told' = told
         /\ deaths' = deaths /\ restarts' = restarts
         /\ \A s \in Runs : s # r => run'[s] = run[s]
<1> USE DEF TypeOK, RunType, Goto, End, world, bounds, task, registry
<1>1. CASE CheckSees(r) \/ CheckFails(r) \/ Stamp(r) \/ Submit(r) \/ WaitEnds(r)
  BY <1>1 DEF CheckSees, SeesWith, CheckFails, Stamp, Submit, WaitEnds
<1>2. CASE Record(r) \/ Reset(r) \/ Count(r) \/ Tally(r) \/ Disable(r) \/ Advance(r)
  BY <1>2 DEF Record, Reset, Count, Tally, Disable, Advance
<1>3. CASE Release(r) \/ Backoff(r) \/ Double(r)
  BY <1>3 DEF Release, ReleaseTo, Backoff, Double
<1> QED
  BY <1>1, <1>2, <1>3 DEF RunStep

\* Only a release unregisters, and no other step of a run makes it active.
LEMMA StaysRegistered ==
  ASSUME TypeOK, NEW r \in Runs, RunStep(r), ~Release(r)
  PROVE  registered' = registered /\ Active' \subseteq Active
<1>1. r \in Active' => r \in Active
  <2> USE DEF TypeOK, RunType, RunState, Active, At, Goto, End, Idle, Starting
  <2>1. CASE CheckSees(r) \/ CheckFails(r) \/ Stamp(r) \/ Submit(r) \/ WaitEnds(r)
    BY <2>1 DEF CheckSees, SeesWith, CheckFails, Stamp, Submit, WaitEnds
  <2>2. CASE Record(r) \/ Reset(r) \/ Count(r) \/ Tally(r) \/ Disable(r) \/ Advance(r)
    BY <2>2 DEF Record, Reset, Count, Tally, Disable, Advance
  <2>3. CASE Backoff(r) \/ Double(r)
    BY <2>3 DEF Backoff, Double
  <2> QED
    BY <2>1, <2>2, <2>3 DEF RunStep
<1>2. registered' = registered
  BY DEF RunStep, CheckSees, SeesWith, CheckFails, Stamp, Submit, WaitEnds, Record, Reset,
         Count, Tally, Disable, Advance, Backoff, Double, registry
<1> QED
  BY <1>1, <1>2, RunFrame DEF Active

\* A step of a run keeps the invariant: a run that gives its registration up is the
\* only active one.
LEMMA RunStepRegistration ==
  ASSUME TypeOK, RegistrationInv, NEW r \in Runs, RunStep(r)
  PROVE  RegistrationInv'
<1>1. CASE Release(r)
  <2>1. r \notin Active'
    BY <1>1 DEF Release, ReleaseTo, Active, Goto, End, Idle, Starting, TypeOK, RunType, RunState
  <2>2. r \in Active
    BY <1>1 DEF Release, ReleaseTo, Active, At
  <2>3. \A s \in Active' : s \in Active /\ s # r
    BY <2>1, RunFrame DEF Active
  <2> QED
    BY <2>2, <2>3, RunFrame DEF RegistrationInv
<1>2. CASE ~Release(r)
  BY <1>2, StaysRegistered, RunFrame DEF RegistrationInv
<1> QED
  BY <1>1, <1>2

\* Nobody registers while a run is active.
LEMMA EnvRegistration ==
  TypeOK /\ RegistrationInv /\ (Scheduler \/ Requests \/ Worker \/ Change \/ TimePasses \/ Restart)
    => RegistrationInv'
<1> SUFFICES ASSUME TypeOK, RegistrationInv,
                    Scheduler \/ Requests \/ Worker \/ Change \/ TimePasses \/ Restart
             PROVE  RegistrationInv'
  OBVIOUS
<1> USE TasksConstantsOK DEF TasksConstantsOK, TypeOK, TaskType, RunType, RegistrationInv,
        task, registry, Edit
<1>1. ASSUME NEW r \in Runs, PollLaunch(r) \/ RunNow(r) PROVE RegistrationInv'
  <2>1. trigger' = trigger /\ registered' = r
    BY <1>1 DEF PollLaunch, RunNow
  <2>2. trigger # "webhook" => Active = {}
    BY <1>1 DEF PollLaunch, RunNow, Unregistered, Active
  <2>3. \A s \in Runs : s # r => run'[s] = run[s]
    BY <1>1 DEF PollLaunch, RunNow, Start
  <2> QED
    BY <2>1, <2>2, <2>3 DEF Active
<1>2. ASSUME NEW r \in Runs, TriggerWebhook(r) PROVE RegistrationInv'
  BY <1>2 DEF TriggerWebhook
<1>3. ASSUME PollSelect \/ PollSkip PROVE RegistrationInv'
  BY <1>3 DEF PollSelect, PollSkip, Active
<1>4. ASSUME Pause \/ Resume \/ ResumeByTool \/ Delete \/ SignalActivity PROVE RegistrationInv'
  BY <1>4 DEF Pause, Resume, ResumeByTool, ResumeWith, Delete, SignalActivity, Active
<1>5. ASSUME NEW r \in Runs, Stream(r) \/ Answer(r) PROVE RegistrationInv'
  BY <1>5 DEF Stream, Answer, Awaits, At, Active, RunState
<1>6. ASSUME WorkerDies PROVE RegistrationInv'
  BY <1>6 DEF WorkerDies, Awaits, At, Active, RunState
<1>7. ASSUME Change \/ TimePasses PROVE RegistrationInv'
  BY <1>7 DEF Change, TimePasses, Active
<1>8. ASSUME Restart PROVE RegistrationInv'
  BY <1>8 DEF Restart, Active, Idle, Starting
<1> QED
  BY <1>1, <1>2, <1>3, <1>4, <1>5, <1>6, <1>7, <1>8 DEF Scheduler, Requests, Worker

LEMMA StepRegistration == TypeOK /\ RegistrationInv /\ [Next]_vars => RegistrationInv'
<1>1. TypeOK /\ RegistrationInv /\ UNCHANGED vars => RegistrationInv'
  BY DEF RegistrationInv, Active, vars, task, registry
<1> QED
  BY <1>1, RunStepRegistration, EnvRegistration DEF Next

\* A polled task has at most one execution at a time.
THEOREM RunsStayApart == Spec => []OneRunAtATime
<1>1. Init => RegistrationInv
  BY DEF Init, RegistrationInv, Active, Idle, Starting
<1>2. RegistrationInv => OneRunAtATime
  BY DEF RegistrationInv, OneRunAtATime
<1> QED
  BY <1>1, <1>2, StepRegistration, TasksTypeCorrect, PTL DEF Spec
(* The cursor *)

\* Two active runs of a checker are one.
LEMMA ActiveAlone ==
  ASSUME RegistrationInv, NEW r \in Active, NEW s \in Active, trigger # "webhook"
  PROVE  r = s
  BY DEF RegistrationInv

\* A step of a run that leaves the cursor leaves what is said of the other runs.
LEMMA OthersRead ==
  ASSUME TypeOK, CursorInv, NEW r \in Runs, RunStep(r), cursor' = cursor, ReadsTheSource(r)'
  PROVE  CursorInv'
<1>1. \A s \in Runs : s # r => ReadsTheSource(s)'
  BY RunFrame DEF CursorInv, ReadsTheSource, CallerManaged
<1> QED
  BY <1>1, RunFrame DEF CursorInv

\* What a step of a run says of that run.
LEMMA RunReads ==
  ASSUME TypeOK, CursorInv, NEW r \in Runs, RunStep(r), ~Advance(r)
  PROVE  cursor' = cursor /\ ReadsTheSource(r)'
<1> USE DEF TypeOK, TaskType, RunType, CountType, RunState, CursorInv, ReadsTheSource,
        CallerManaged, At, Goto, End, Idle, Starting, task, world
<1>1. CASE CheckSees(r)
  BY <1>1 DEF CheckSees, SeesWith
<1>2. CASE CheckFails(r) \/ Stamp(r)
  BY <1>2 DEF CheckFails, Stamp
<1>3. CASE Submit(r)
  BY <1>3 DEF Submit
<1>4. CASE WaitEnds(r)
  BY <1>4 DEF WaitEnds
<1>5. CASE Record(r)
  BY <1>5 DEF Record
<1>6. CASE Reset(r)
  BY <1>6 DEF Reset
<1>7. CASE Count(r) \/ Tally(r) \/ Disable(r)
  BY <1>7 DEF Count, Tally, Disable
<1>8. CASE Release(r)
  BY <1>8 DEF Release, ReleaseTo
<1>9. CASE Backoff(r) \/ Double(r)
  BY <1>9 DEF Backoff, Double
<1> QED
  BY <1>1, <1>2, <1>3, <1>4, <1>5, <1>6, <1>7, <1>8, <1>9 DEF RunStep

\* Only the managed run is there to see the cursor advance, and it advances it.
LEMMA AdvanceReads ==
  ASSUME TypeOK, RegistrationInv, CursorInv, NEW r \in Runs, Advance(r)
  PROVE  cursor' >= cursor /\ CursorInv'
<1> USE DEF TypeOK, TaskType, RunType, CountType, RunState, At
<1>1. r \in Active /\ CallerManaged(r)
  BY DEF Advance, Active, CursorInv, ReadsTheSource
<1>2. cursor <= run[r].seen /\ run[r].seen <= source
  BY <1>1 DEF Advance, CursorInv, ReadsTheSource
<1>3. trigger = "checker" /\ trigger' = "checker" /\ source' = source
  BY <1>1 DEF CallerManaged, Advance, world
<1>4. cursor' >= cursor /\ cursor' <= source
  BY <1>2 DEF Advance, Stored, CursorInv
<1>5. ReadsTheSource(r)'
  BY DEF Advance, Goto, ReadsTheSource
<1>6. ASSUME NEW s \in Runs, s # r PROVE ReadsTheSource(s)'
  <2>1. s \notin Active
    BY <1>1, <1>3, <1>6, ActiveAlone
  <2>2. run'[s] = run[s]
    BY <1>6 DEF Advance, Goto
  <2> QED
    BY <2>1, <2>2, <1>3 DEF Active, CursorInv, ReadsTheSource, CallerManaged
<1> QED
  BY <1>3, <1>4, <1>5, <1>6 DEF CursorInv

\* Nobody else writes the cursor.
LEMMA EnvReads ==
  TypeOK /\ CursorInv /\ (Scheduler \/ Requests \/ Worker \/ Change \/ TimePasses \/ Restart)
    => cursor' = cursor /\ CursorInv'
<1> SUFFICES ASSUME TypeOK, CursorInv,
                    Scheduler \/ Requests \/ Worker \/ Change \/ TimePasses \/ Restart
             PROVE  cursor' = cursor /\ CursorInv'
  OBVIOUS
<1> USE DEF TypeOK, TaskType, RunType, CountType, RunState, CursorInv, ReadsTheSource,
        CallerManaged, At, task, world, Edit
<1>1. ASSUME NEW r \in Runs, PollLaunch(r) PROVE cursor' = cursor /\ CursorInv'
  BY <1>1 DEF PollLaunch, Start, Starting
<1>2. ASSUME NEW r \in Runs, RunNow(r) \/ TriggerWebhook(r) PROVE cursor' = cursor /\ CursorInv'
  BY <1>2 DEF RunNow, TriggerWebhook, Start, Starting
<1>3. ASSUME PollSelect \/ PollSkip PROVE cursor' = cursor /\ CursorInv'
  BY <1>3 DEF PollSelect, PollSkip
<1>4. ASSUME Pause \/ Resume \/ ResumeByTool \/ Delete \/ SignalActivity
      PROVE  cursor' = cursor /\ CursorInv'
  BY <1>4 DEF Pause, Resume, ResumeByTool, ResumeWith, Delete, SignalActivity
<1>5. ASSUME NEW r \in Runs, Stream(r) \/ Answer(r) PROVE cursor' = cursor /\ CursorInv'
  BY <1>5 DEF Stream, Answer, Awaits
<1>6. ASSUME WorkerDies PROVE cursor' = cursor /\ CursorInv'
  BY <1>6 DEF WorkerDies, Awaits
<1>7. ASSUME Change \/ TimePasses PROVE cursor' = cursor /\ CursorInv'
  BY <1>7 DEF Change, TimePasses
<1>8. ASSUME Restart PROVE cursor' = cursor /\ CursorInv'
  BY <1>8 DEF Restart, Idle, Starting
<1> QED
  BY <1>1, <1>2, <1>3, <1>4, <1>5, <1>6, <1>7, <1>8 DEF Scheduler, Requests, Worker

LEMMA StepReads ==
  TypeOK /\ RegistrationInv /\ CursorInv /\ [Next]_vars => cursor' >= cursor /\ CursorInv'
<1> SUFFICES ASSUME TypeOK, RegistrationInv, CursorInv, [Next]_vars
             PROVE  cursor' >= cursor /\ CursorInv'
  OBVIOUS
<1>1. cursor \in Nat
  BY DEF TypeOK, TaskType
<1>2. CASE UNCHANGED vars
  BY <1>1, <1>2 DEF CursorInv, ReadsTheSource, CallerManaged, vars, task, world
<1>3. ASSUME NEW r \in Runs, RunStep(r) PROVE cursor' >= cursor /\ CursorInv'
  BY <1>1, <1>3, RunReads, OthersRead, AdvanceReads
<1> QED
  BY <1>1, <1>2, <1>3, EnvReads DEF Next

LEMMA CursorFollows == Spec => [](TypeOK /\ RegistrationInv /\ CursorInv)
<1>1. Init => RegistrationInv /\ CursorInv
  BY DEF Init, RegistrationInv, Active, CursorInv, ReadsTheSource, Idle, Starting
<1> QED
  BY <1>1, InitType, StepType, StepRegistration, StepReads, PTL DEF Spec

\* The cursor never goes back, in whatever order runs, requests and restarts come.
THEOREM CursorAdvances == Spec => CursorOnlyAdvances
<1>1. TypeOK /\ RegistrationInv /\ CursorInv /\ [Next]_vars => [cursor' >= cursor]_vars
  BY StepReads
<1> QED
  BY <1>1, CursorFollows, PTL DEF Spec, CursorOnlyAdvances
(* What the cursor covers *)

\* A reply is completed, by the worker or for it, before the run looks at it.
LEMMA RunAnswers ==
  ASSUME TypeOK, CursorInv, AnswerInv, NEW r \in Runs, RunStep(r)
  PROVE  RepliedInPhase(r)' /\ (deaths = 0 => RepliedInTruth(r)')
<1> USE DEF TypeOK, TaskType, RunType, CountType, RunState, CursorInv, ReadsTheSource,
        CallerManaged, AnswerInv, RepliedInPhase, RepliedInTruth, Settled, Succeeded,
        At, Goto, End, Idle, Starting, task, world
<1>1. CASE CheckSees(r)
  BY <1>1 DEF CheckSees, SeesWith
<1>2. CASE CheckFails(r) \/ Stamp(r)
  BY <1>2 DEF CheckFails, Stamp
<1>3. CASE Submit(r)
  BY <1>3 DEF Submit
<1>4. CASE WaitEnds(r)
  BY <1>4 DEF WaitEnds
<1>5. CASE Record(r)
  BY <1>5 DEF Record
<1>6. CASE Reset(r) \/ Advance(r)
  BY <1>6 DEF Reset, Advance
<1>7. CASE Count(r) \/ Tally(r) \/ Disable(r)
  BY <1>7 DEF Count, Tally, Disable
<1>8. CASE Release(r)
  BY <1>8 DEF Release, ReleaseTo
<1>9. CASE Backoff(r) \/ Double(r)
  BY <1>9 DEF Backoff, Double
<1> QED
  BY <1>1, <1>2, <1>3, <1>4, <1>5, <1>6, <1>7, <1>8, <1>9 DEF RunStep

\* The cursor a run writes is one the agent has answered about.
LEMMA RunStepAnswers ==
  ASSUME TypeOK, CursorInv, AnswerInv, NEW r \in Runs, RunStep(r)
  PROVE  AnswerInv'
<1>1. \A s \in Runs : s # r => RepliedInPhase(s)' /\ (deaths = 0 => RepliedInTruth(s)')
  BY RunFrame DEF AnswerInv, RepliedInPhase, RepliedInTruth, Settled, Succeeded, CallerManaged
<1>2. deaths = 0 => cursor' <= told'
  <2>1. CASE Advance(r)
    <3>1. CallerManaged(r)
      BY <2>1 DEF Advance, CursorInv, ReadsTheSource
    <3>2. deaths = 0 => run[r].seen <= told
      <4>1. CASE run[r].phase = "advance"
        BY <3>1, <4>1 DEF AnswerInv, RepliedInPhase, RepliedInTruth, Settled, Succeeded
      <4>2. CASE run[r].phase = "renew"
        BY <3>1, <4>2 DEF AnswerInv, RepliedInTruth
      <4> QED
        BY <2>1, <4>1, <4>2 DEF Advance
    <3> QED
      BY <2>1, <3>2 DEF Advance, Stored, AnswerInv, world
  <2>2. CASE ~Advance(r)
    BY <2>2, RunReads, RunFrame DEF AnswerInv
  <2> QED
    BY <2>1, <2>2
<1> QED
  BY <1>1, <1>2, RunAnswers, RunFrame DEF AnswerInv

\* Outside the runs only the worker completes a reply, and it tells what it is about.
LEMMA EnvAnswers ==
  TypeOK /\ AnswerInv /\ (Scheduler \/ Requests \/ Worker \/ Change \/ TimePasses \/ Restart)
    => AnswerInv'
<1> SUFFICES ASSUME TypeOK, AnswerInv,
                    Scheduler \/ Requests \/ Worker \/ Change \/ TimePasses \/ Restart
             PROVE  AnswerInv'
  OBVIOUS
<1> USE DEF TypeOK, TaskType, RunType, CountType, RunState, AnswerInv, RepliedInPhase,
        RepliedInTruth, Settled, Succeeded, CallerManaged, At, task, world, bounds, Edit,
        registry
<1>1. ASSUME NEW r \in Runs, PollLaunch(r) PROVE AnswerInv'
  BY <1>1 DEF PollLaunch, Start, Starting
<1>2. ASSUME NEW r \in Runs, RunNow(r) \/ TriggerWebhook(r) PROVE AnswerInv'
  BY <1>2 DEF RunNow, TriggerWebhook, Start, Starting
<1>3. ASSUME PollSelect \/ PollSkip PROVE AnswerInv'
  BY <1>3 DEF PollSelect, PollSkip
<1>4. ASSUME Pause \/ Resume \/ ResumeByTool \/ Delete \/ SignalActivity PROVE AnswerInv'
  BY <1>4 DEF Pause, Resume, ResumeByTool, ResumeWith, Delete, SignalActivity
<1>5. ASSUME NEW r \in Runs, Stream(r) PROVE AnswerInv'
  BY <1>5 DEF Stream, Awaits
<1>6. ASSUME NEW r \in Runs, Answer(r) PROVE AnswerInv'
  <2>1. told' \in Nat /\ told <= told' /\ deaths' = deaths /\ cursor' = cursor /\ trigger' = trigger
    BY <1>6 DEF Answer
  <2>2. \A s \in Runs : RepliedInPhase(s)'
    BY <1>6 DEF Answer, Awaits
  <2>3. deaths = 0 => RepliedInTruth(r)'
    BY <1>6 DEF Answer, Awaits
  <2>4. \A s \in Runs : s # r => run'[s] = run[s]
    BY <1>6 DEF Answer
  <2>5. \A s \in Runs : s # r /\ deaths = 0 => RepliedInTruth(s)'
    BY <2>1, <2>4
  <2>6. row' = row
    BY <1>6 DEF Answer
  <2>7. \A s \in Runs : deaths = 0 => RepliedInTruth(s)'
    BY <2>3, <2>5
  <2>8. deaths = 0 => cursor' <= told' /\ (row' # NoRow => row' <= told')
    BY <2>1, <2>6
  <2> HIDE DEF RepliedInPhase, RepliedInTruth
  <2> QED
    BY <2>1, <2>2, <2>7, <2>8
<1>7. ASSUME WorkerDies PROVE AnswerInv'
  BY <1>7 DEF WorkerDies, Awaits
<1>8. ASSUME Change \/ TimePasses PROVE AnswerInv'
  BY <1>8 DEF Change, TimePasses
<1>9. ASSUME Restart PROVE AnswerInv'
  BY <1>9 DEF Restart, Idle, Starting
<1> QED
  BY <1>1, <1>2, <1>3, <1>4, <1>5, <1>6, <1>7, <1>8, <1>9 DEF Scheduler, Requests, Worker

LEMMA StepAnswers == TypeOK /\ CursorInv /\ AnswerInv /\ [Next]_vars => AnswerInv'
<1>1. AnswerInv /\ UNCHANGED vars => AnswerInv'
  BY DEF AnswerInv, RepliedInPhase, RepliedInTruth, Settled, Succeeded, CallerManaged,
         vars, task, world, bounds, registry
<1> QED
  BY <1>1, RunStepAnswers, EnvAnswers DEF Next

\* As long as no worker dies in the middle of a reply, the cursor covers only changes
\* the agent has completed an answer about.
THEOREM CursorIsHonest == Spec => []CursorIsAnsweredIfAlive
<1>1. Init => AnswerInv
  BY DEF Init, AnswerInv, RepliedInPhase, RepliedInTruth, Idle, Starting
<1>2. AnswerInv => CursorIsAnsweredIfAlive
  BY DEF AnswerInv, CursorIsAnsweredIfAlive
<1> QED
  BY <1>1, <1>2, CursorFollows, StepAnswers, PTL DEF Spec
(* The count of failures *)

\* A step that counts nothing keeps the invariant if a run about to disable the task
\* stays about to do so.
LEMMA BreakerKept ==
  ASSUME BreakerInv, Disabling => Disabling', trigger' = trigger, status' = status,
         retries' = retries, streak' = streak, restarts' = restarts
  PROVE  BreakerInv'
  BY DEF BreakerInv

\* Only its own last steps end the intention to disable the task.
LEMMA DisablingStays ==
  ASSUME TypeOK, NEW r \in Runs, RunStep(r), run[r].phase \notin {"tally", "disable"}
  PROVE  Disabling => Disabling'
  BY RunFrame DEF Disabling

\* A run counts its failure, and goes on to compare the count with the limit.
LEMMA CountKeepsBreaker ==
  ASSUME TypeOK, RegistrationInv, BreakerInv, NEW r \in Runs, Count(r)
  PROVE  BreakerInv'
<1> USE DEF TypeOK, TaskType, RunType, CountType, RunState, MaxFailures
<1>1. trigger' = trigger /\ status' = status /\ restarts' = restarts
  BY DEF Count, bounds
<1>2. Disabling'
  BY DEF Count, Goto, Disabling
<1>3. trigger # "webhook" => ~Disabling
  <2>1. r \in Active
    BY DEF Count, At, Active
  <2>2. \A s \in Runs : run[s].phase \in {"tally", "disable"} => s \in Active /\ s # r
    BY DEF Active, Count, At
  <2> QED
    BY <2>1, <2>2, ActiveAlone DEF Disabling
<1>4. streak' <= retries'
  BY DEF Count, Stored, BreakerInv
<1>5. trigger # "webhook" /\ status = "enabled" => streak' <= MaxFailures + restarts
  BY <1>3 DEF Count, Stored, BreakerInv
<1> QED
  BY <1>1, <1>2, <1>4, <1>5 DEF BreakerInv

\* A step of a run keeps the invariant.
LEMMA RunStepBreaker ==
  ASSUME TypeOK, RegistrationInv, BreakerInv, NEW r \in Runs, RunStep(r)
  PROVE  BreakerInv'
<1> USE DEF TypeOK, TaskType, RunType, CountType, RunState, MaxFailures
<1>1. CASE Reset(r)
  <2>1. trigger' = trigger /\ status' = status /\ restarts' = restarts /\ streak' = 0
    BY <1>1 DEF Reset, bounds
  <2>2. retries' \in Nat
    BY <1>1 DEF Reset, Stored
  <2> QED
    BY <2>1, <2>2 DEF BreakerInv
<1>2. CASE Count(r)
  BY <1>2, CountKeepsBreaker
<1>3. CASE Tally(r)
  <2>1. UNCHANGED <<trigger, status, retries, streak, restarts>>
    BY <1>3 DEF Tally, task, world, bounds
  <2>2. CASE retries >= MaxFailures
    <3>1. Disabling'
      BY <1>3, <2>2 DEF Tally, TooMany, Goto, Disabling
    <3> QED
      BY <2>1, <3>1 DEF BreakerInv
  <2>3. CASE ~(retries >= MaxFailures)
    BY <2>1, <2>3 DEF BreakerInv
  <2> QED
    BY <2>2, <2>3
<1>4. CASE Disable(r)
  <2>1. status' # "enabled" /\ streak' = streak /\ retries' = retries
    BY <1>4 DEF Disable, Stored, world
  <2> QED
    BY <2>1 DEF BreakerInv
<1>5. CASE CheckSees(r) \/ CheckFails(r) \/ Stamp(r) \/ Submit(r) \/ WaitEnds(r) \/ Record(r)
  <2>1. run[r].phase \notin {"tally", "disable"} /\ UNCHANGED <<trigger, status, retries, streak, restarts>>
    BY <1>5 DEF CheckSees, SeesWith, CheckFails, Stamp, Submit, WaitEnds, Record, At, task, world, bounds
  <2> QED
    BY <2>1, DisablingStays, BreakerKept
<1>6. CASE Advance(r) \/ Release(r) \/ Backoff(r) \/ Double(r)
  <2>1. run[r].phase \notin {"tally", "disable"} /\ UNCHANGED <<trigger, status, retries, streak, restarts>>
    BY <1>6 DEF Advance, Release, ReleaseTo, Backoff, Double, At, task, world, bounds
  <2> QED
    BY <2>1, DisablingStays, BreakerKept
<1> QED
  BY <1>1, <1>2, <1>3, <1>4, <1>5, <1>6 DEF RunStep

\* Outside the runs a streak is only ended, or cut short by a restart.
LEMMA EnvBreaker ==
  TypeOK /\ BreakerInv /\ (Scheduler \/ Requests \/ Worker \/ Change \/ TimePasses \/ Restart)
    => BreakerInv'
<1> SUFFICES ASSUME TypeOK, BreakerInv,
                    Scheduler \/ Requests \/ Worker \/ Change \/ TimePasses \/ Restart
             PROVE  BreakerInv'
  OBVIOUS
<1> USE DEF TypeOK, TaskType, RunType, CountType, RunState, MaxFailures, Disabling, At,
        task, world, bounds, Edit
<1>1. ASSUME NEW r \in Runs, PollLaunch(r) \/ RunNow(r) \/ TriggerWebhook(r) PROVE BreakerInv'
  <2>1. Disabling => Disabling'
    BY <1>1 DEF PollLaunch, RunNow, TriggerWebhook, Start
  <2>2. UNCHANGED <<trigger, status, retries, streak, restarts>>
    BY <1>1 DEF PollLaunch, RunNow, TriggerWebhook
  <2> QED
    BY <2>1, <2>2, BreakerKept
<1>2. ASSUME PollSelect \/ PollSkip \/ SignalActivity \/ Change \/ TimePasses PROVE BreakerInv'
  BY <1>2 DEF PollSelect, PollSkip, SignalActivity, Change, TimePasses, BreakerInv
<1>3. ASSUME Pause \/ Delete PROVE BreakerInv'
  BY <1>3 DEF Pause, Delete, BreakerInv
<1>4. ASSUME Resume \/ ResumeByTool PROVE BreakerInv'
  BY <1>4 DEF Resume, ResumeByTool, ResumeWith, BreakerInv
<1>5. ASSUME NEW r \in Runs, Stream(r) \/ Answer(r) PROVE BreakerInv'
  <2>1. Disabling => Disabling'
    BY <1>5 DEF Stream, Answer, Awaits
  <2>2. UNCHANGED <<trigger, status, retries, streak, restarts>>
    BY <1>5 DEF Stream, Answer
  <2> QED
    BY <2>1, <2>2, BreakerKept
<1>6. ASSUME WorkerDies PROVE BreakerInv'
  <2>1. Disabling => Disabling'
    BY <1>6 DEF WorkerDies, Awaits
  <2>2. UNCHANGED <<trigger, status, retries, streak, restarts>>
    BY <1>6 DEF WorkerDies
  <2> QED
    BY <2>1, <2>2, BreakerKept
<1>7. ASSUME Restart PROVE BreakerInv'
  BY <1>7 DEF Restart, BreakerInv
<1> QED
  BY <1>1, <1>2, <1>3, <1>4, <1>5, <1>6, <1>7 DEF Scheduler, Requests, Worker

LEMMA StepBreaker == TypeOK /\ RegistrationInv /\ BreakerInv /\ [Next]_vars => BreakerInv'
<1>1. BreakerInv /\ UNCHANGED vars => BreakerInv'
  BY DEF BreakerInv, Disabling, vars, task, world, bounds
<1> QED
  BY <1>1, RunStepBreaker, EnvBreaker DEF Next

\* A polled task that fails three times in a row, and once more for each restart, is
\* disabled.
THEOREM BreakerWorks == Spec => []BreakerTrips
<1>1. Init => BreakerInv
  BY TasksConstantsOK DEF TasksConstantsOK, Init, BreakerInv, MaxFailures
<1>2. BreakerInv => BreakerTrips
  BY DEF BreakerInv, BreakerTrips
<1> QED
  BY <1>1, <1>2, CursorFollows, StepBreaker, PTL DEF Spec
=============================================================================
