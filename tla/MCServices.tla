----------------------------- MODULE MCServices -----------------------------
(***************************************************************************)
(* Instances of the services whose models share no variable, for two runs: *)
(* focus, chosen in the initial state among the Services of the run, says  *)
(* which of them a behaviour is about, and the variables of the others     *)
(* keep their initial values.                                              *)
(***************************************************************************)
EXTENDS SlackPoller, Tickets, Memory, Facts, Sessions, ScheduledTasks, Lifecycle, Prompt

CONSTANT Services

VARIABLE focus

serviceVars == <<focus, slackVars, ticketVars, memoryVars, factVars, sessionVars, taskVars,
                 lifeVars, promptVars>>

\* The first task is tried twice, another one once.
MCMaxRetries == LET first == CHOOSE t \in Tasks : TRUE
                IN [t \in Tasks |-> IF t = first THEN 1 ELSE 0]
MCAllocation == <<2, 3, 2>>

ServicesInit ==
  /\ focus \in Services
  /\ SlackInit /\ TicketInit /\ MemoryInit /\ FactInit /\ SessionInit /\ TaskInit /\ LifeInit
  /\ PromptInit
  /\ focus # "slack" => roster = {} /\ channel.status = "gone"
  /\ focus # "prompt" => content = [i \in Section |-> 0]

ServicesNext ==
  \/ focus = "slack" /\ SlackNext
     /\ UNCHANGED <<focus, ticketVars, memoryVars, factVars, sessionVars,
                    taskVars, lifeVars, promptVars>>
  \/ focus = "tickets" /\ TicketNext
     /\ UNCHANGED <<focus, slackVars, memoryVars, factVars, sessionVars,
                    taskVars, lifeVars, promptVars>>
  \/ focus = "memory" /\ MemoryNext
     /\ UNCHANGED <<focus, slackVars, ticketVars, factVars, sessionVars,
                    taskVars, lifeVars, promptVars>>
  \/ focus = "facts" /\ FactNext
     /\ UNCHANGED <<focus, slackVars, ticketVars, memoryVars, sessionVars, taskVars, lifeVars, promptVars>>
  \/ focus = "sessions" /\ SessionNext
     /\ UNCHANGED <<focus, slackVars, ticketVars, memoryVars, factVars, taskVars, lifeVars, promptVars>>
  \/ focus = "tasks" /\ TaskNext
     /\ UNCHANGED <<focus, slackVars, ticketVars, memoryVars, factVars, sessionVars, lifeVars, promptVars>>
  \/ focus = "lifecycle" /\ LifeNext
     /\ UNCHANGED <<focus, slackVars, ticketVars, memoryVars, factVars, sessionVars, taskVars, promptVars>>
  \/ focus = "prompt" /\ PromptNext
     /\ UNCHANGED <<focus, slackVars, ticketVars, memoryVars, factVars, sessionVars, taskVars, lifeVars>>

\* SlackFairness and TaskFairness, for the behaviours that are about them.
ServicesFairness ==
  /\ WF_slackVars(focus = "slack" /\ PollerStep)
  /\ SF_slackVars(focus = "slack" /\ PollChannel)
  /\ \A t \in Ts, a \in Agents :
       SF_slackVars(/\ focus = "slack" /\ PollActiveThreads
                    /\ \E job \in poll'.rest : job.root = t /\ job.agent = a)
  /\ \A t \in Tasks :
       /\ WF_taskVars(focus = "tasks" /\ StartTask(t))
       /\ WF_taskVars(focus = "tasks" /\ RunnerStep(t))

ServicesSafety == ServicesInit /\ [][ServicesNext]_serviceVars

ServicesSpec == ServicesSafety /\ ServicesFairness

\* The type invariants of the services.
ServicesTypeOK ==
  /\ SlackTypeOK /\ TicketTypeOK /\ MemoryTypeOK /\ FactTypeOK /\ SessionTypeOK /\ TaskTypeOK
  /\ LifeTypeOK /\ PromptTypeOK

=============================================================================
