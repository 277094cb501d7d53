------------------------------ MODULE Lifecycle ------------------------------
(***************************************************************************)
(* The container of one agent: who spawns it, who watches it and who stops *)
(* it.  Requests (a message of a page, a headless one, a page that leaves, *)
(* an admin kill, the reaper, the liveness check) run as coroutines beside *)
(* the monitors, and meet at _workers_lock, in the table agent_containers  *)
(* and at podman, where all containers of the agent have one name.  A step *)
(* is what a coroutine does between two awaits.                            *)
(*                                                                         *)
(* A container is known by the number of its spawn, as are its process and *)
(* its row; a WorkerState by the container it was made for.                *)
(***************************************************************************)
EXTENDS Naturals, FiniteSetsExt

CONSTANTS
  Senders,         \* messages handled at the same time
  Others,          \* other requests handled at the same time
  Monitors,        \* monitor tasks at the same time, a set of positive numbers
  MaxCrashes,      \* CIRCUIT_BREAKER_MAX_CRASHES, 3 in the code
  MaxContainers    \* bound: spawns

ASSUME LifecycleConstantsOK ==
  /\ Monitors \subseteq Nat \ {0} /\ IsFiniteSet(Monitors)
  /\ MaxCrashes \in Nat \ {0} /\ MaxContainers \in Nat

VARIABLES
  live,         \* the container podman runs under the agent's name, 0 for none
  spawned,      \* spawns so far
  row,          \* agent_containers.status, by container
  registered,   \* _active_workers[agent_id], 0 for none
  state,        \* WorkerState, by worker
  monitor,      \* the monitor tasks
  handler,      \* the requests
  abandoned,    \* history: a polling loop runs that no WorkerState and nobody knows
  raced         \* history: two requests met where the lock does not keep them apart, or a
                \* spawn failed when podman had run its container

lifeVars == <<live, spawned, row, registered, state, monitor, handler, abandoned,
              raced>>

Handlers  == Senders \cup Others
Container == 1..MaxContainers
Some      == 0..MaxContainers
\* 'starting', 'running' and 'stopping' are one, and so are 'error' and 'stopped'
Rows      == {"none", "in use", "idle", "ended"}
\* process; shutting_down; polling_task and monitor_task, if there is one that has not
\* ended; ws_manager.connected; len(crash_times)
State     == [proc : Some, stop : BOOLEAN, loop : BOOLEAN, mon : Monitors \cup {0},
              page : BOOLEAN, crashes : 0..MaxCrashes]
NoState   == [proc |-> 0, stop |-> FALSE, loop |-> FALSE, mon |-> 0, page |-> FALSE,
              crashes |-> 0]
\* obj and proc: worker and worker.process; new: the container being spawned
Monitor   == [at : {"off", "wait", "crashed", "decide", "remove", "run", "assign"},
              obj : Some, proc : Some, new : Some]
Ended     == [at |-> "off", obj |-> 0, proc |-> 0, new |-> 0]
\* by: who asks; obj, proc: as above; loop, mon: tasks taken from a WorkerState to be
\* cancelled; then what follows
Handler   == [at : {"off", "stale", "detached", "attach", "mark", "remove", "run",
                    "register", "await", "rows", "pop", "cancel", "idle"},
              by : {"page", "headless", "leaver", "kill", "reap", "check"},
              obj : Some, proc : Some, loop : BOOLEAN, mon : Monitors \cup {0}]
NoHandler == [at |-> "off", by |-> "page", obj |-> 0, proc |-> 0, loop |-> FALSE, mon |-> 0]

LifeInit ==
  /\ live = 0 /\ spawned = 0 /\ row = [c \in Container |-> "none"]
  /\ registered = 0 /\ state = [c \in Container |-> NoState]
  /\ monitor = [m \in Monitors |-> Ended] /\ handler = [h \in Handlers |-> NoHandler]
  /\ abandoned = FALSE /\ raced = FALSE

Exited(c) == c # live
FreeMonitors == {m \in Monitors : monitor[m].at = "off"}
At(h, at) == handler[h].at = at
Goes(h, at) == handler' = [handler EXCEPT ![h].at = at]
Finishes(h) == handler' = [handler EXCEPT ![h] = NoHandler]
RowSays(c, s) == row' = [row EXCEPT ![c] = s]

\* A monitor has started a container that is not its worker's yet.
Respawning(m) == m # 0 /\ monitor[m].at = "assign"

\* The task m ends, by itself or cancelled, and every reference to it is a done task.
WithoutMonitor(states, m) == [c \in Container |-> [states[c] EXCEPT !.mon = IF @ = m THEN 0 ELSE @]]

------------------------------------------------------------------------------
\* spawn_container, for a handler or a monitor: a container of the agent's name is
\* removed and the row inserted ...
Removes ==
  /\ spawned < MaxContainers
  /\ spawned' = spawned + 1 /\ live' = 0
  /\ RowSays(spawned + 1, "in use")

\* ... and podman runs the new one, which exits at once if the name is taken again.  It
\* takes longer than a cancelled task to end: no cancellation is pending that long.
Runs(c) ==
  /\ \A h \in Handlers : handler[h].at \notin {"detached", "cancel"}
  /\ live' = IF live = 0 THEN c ELSE live
  /\ RowSays(c, "in use")

\* A container ends by itself: told to shut down, crashed, or out of memory.
ContainerExits ==
  /\ live # 0 /\ live' = 0
  /\ UNCHANGED <<spawned, row, registered, state, monitor, handler, abandoned, raced>>

------------------------------------------------------------------------------
\* _ensure_worker and ensure_worker_headless.

\* Phase 1, under the lock.  A stale worker is taken out of the registry, a live one
\* loses its tasks to a page, and gets a polling loop from a headless request.
EnsureWorker(h, by) ==
  /\ At(h, "off") /\ by \in {"page", "headless"}
  /\ LET w == registered
         s == IF w = 0 THEN NoState ELSE state[w]
     IN \/ /\ w = 0
           /\ handler' = [handler EXCEPT ![h] = [NoHandler EXCEPT !.at = "remove", !.by = by]]
           /\ UNCHANGED <<registered, state>>
        \/ /\ w # 0 /\ Exited(s.proc)
           /\ registered' = 0
           /\ handler' = [handler EXCEPT ![h] =
                [at |-> "stale", by |-> by, obj |-> w, proc |-> s.proc, loop |-> FALSE, mon |-> 0]]
           /\ UNCHANGED state
        \/ /\ w # 0 /\ ~Exited(s.proc) /\ by = "page"
           /\ state' = [state EXCEPT ![w].loop = FALSE, ![w].mon = 0]
           /\ handler' = [handler EXCEPT ![h] =
                [at |-> "detached", by |-> by, obj |-> w, proc |-> s.proc, loop |-> s.loop, mon |-> s.mon]]
           /\ UNCHANGED registered
        \/ /\ w # 0 /\ ~Exited(s.proc) /\ by = "headless" /\ ~s.loop
           /\ state' = [state EXCEPT ![w].loop = TRUE]
           /\ UNCHANGED <<registered, handler>>
  /\ raced' = (raced \/ \E g \in Handlers : ~At(g, "off") /\ handler[g].by \in {"page", "headless"})
  /\ UNCHANGED <<live, spawned, row, monitor, abandoned>>

\* A worker that was taken out: its tasks are cancelled, the container of the agent is
\* killed and the row is marked; _check_worker_liveness does the same and is done.
ClearStale(h) ==
  /\ At(h, "stale")
  /\ LET w == handler[h].obj
         m == state[w].mon
     IN /\ state' = WithoutMonitor([state EXCEPT ![w].loop = FALSE], m)
        /\ monitor' = [n \in Monitors |-> IF n = m THEN Ended ELSE monitor[n]]
        /\ live' = 0
        /\ RowSays(handler[h].proc, "ended")
  /\ IF handler[h].by = "check" THEN Finishes(h) ELSE Goes(h, "remove")
  /\ UNCHANGED <<spawned, registered, abandoned, raced>>

\* Phase 2, and the end of a kill or a reap: the tasks that were taken are cancelled.
CancelTasks(h) ==
  /\ handler[h].at \in {"detached", "cancel"}
  /\ monitor' = [n \in Monitors |-> IF n = handler[h].mon THEN Ended ELSE monitor[n]]
  /\ IF At(h, "detached")
     THEN handler' = [handler EXCEPT ![h] = [@ EXCEPT !.at = "attach", !.loop = FALSE, !.mon = 0]]
     ELSE Finishes(h)
  /\ raced' = (raced \/ (At(h, "cancel") /\ Respawning(handler[h].mon)))
  /\ UNCHANGED <<live, spawned, row, registered, state, abandoned>>

\* Phase 3, under the lock: the worker that is registered now gets new tasks.
Attach(h) ==
  /\ At(h, "attach")
  /\ IF registered = 0
     THEN Goes(h, "remove") /\ UNCHANGED <<state, monitor, abandoned>>
     ELSE \E m \in FreeMonitors :
          /\ m = Min(FreeMonitors)
          /\ state' = [state EXCEPT ![registered].page = TRUE, ![registered].loop = TRUE,
                                    ![registered].mon = m]
          /\ abandoned' = (abandoned \/ state[registered].loop)
          /\ monitor' = [monitor EXCEPT ![m] = [at |-> "wait", obj |-> registered,
                                                proc |-> state[registered].proc, new |-> 0]]
          /\ handler' = [handler EXCEPT ![h].at = "mark", ![h].obj = registered,
                                        ![h].proc = state[registered].proc]
  /\ UNCHANGED <<live, spawned, row, registered, raced>>

MarkRunning(h) ==
  /\ At(h, "mark")
  /\ RowSays(state[handler[h].obj].proc, "in use")
  /\ Finishes(h)
  /\ UNCHANGED <<live, spawned, registered, state, monitor, abandoned, raced>>

SpawnRemoves(h) ==
  /\ At(h, "remove") /\ Removes
  /\ handler' = [handler EXCEPT ![h] = [NoHandler EXCEPT !.at = "run", !.by = handler[h].by,
                                                         !.proc = spawned']]
  /\ UNCHANGED <<registered, state, monitor, abandoned, raced>>

\* An exception, of the database, the skills or podman, goes up to the request.  What was
\* done stays, the container too if it runs already.
SpawnRaises(h) ==
  /\ handler[h].at \in {"remove", "run", "register"} /\ Finishes(h)
  /\ raced' = (raced \/ At(h, "register"))
  /\ UNCHANGED <<live, spawned, row, registered, state, monitor, abandoned>>

SpawnRuns(h) ==
  /\ At(h, "run") /\ Runs(handler[h].proc)
  /\ Goes(h, "register")
  /\ UNCHANGED <<spawned, registered, state, monitor, abandoned, raced>>

\* Under the lock, whoever is registered by now.
Register(h) ==
  /\ At(h, "register")
  /\ LET c == handler[h].proc IN
       \E m \in FreeMonitors :
         /\ m = Min(FreeMonitors)
         /\ state' = [state EXCEPT ![c] = [proc |-> c, stop |-> FALSE, loop |-> TRUE, mon |-> m,
                                           page |-> handler[h].by = "page", crashes |-> 0]]
         /\ monitor' = [monitor EXCEPT ![m] = [at |-> "wait", obj |-> c, proc |-> c, new |-> 0]]
         /\ registered' = c
         /\ abandoned' = (abandoned \/ (registered # 0 /\ state[registered].loop))
  /\ Finishes(h)
  /\ UNCHANGED <<live, spawned, row, raced>>

------------------------------------------------------------------------------
\* The page: websocket_endpoint attaches it, _cleanup_agent detaches whatever is attached
\* and calls the container idle if nothing is queued or in flight.
PageConnects ==
  /\ registered # 0 /\ ~state[registered].page
  /\ state' = [state EXCEPT ![registered].page = TRUE]
  /\ UNCHANGED <<live, spawned, row, registered, monitor, handler, abandoned, raced>>

PageLeaves(h, pending) ==
  /\ At(h, "off") /\ registered # 0
  /\ state' = [state EXCEPT ![registered].page = FALSE]
  /\ IF pending THEN UNCHANGED handler
     ELSE handler' = [handler EXCEPT ![h] = [NoHandler EXCEPT !.at = "idle", !.by = "leaver",
                                                              !.proc = state[registered].proc]]
  /\ UNCHANGED <<live, spawned, row, registered, monitor, abandoned, raced>>

MarkIdle(h) ==
  /\ At(h, "idle")
  /\ RowSays(handler[h].proc, "idle")
  /\ Finishes(h)
  /\ UNCHANGED <<live, spawned, registered, state, monitor, abandoned, raced>>

------------------------------------------------------------------------------
\* kill_agent and _reap_idle_workers.

\* The registered worker is told to shut down, if there is one: an agent is killed when a
\* row is in use, and reaped for an idle row c.
Stop(h, by, c) ==
  /\ At(h, "off")
  /\ row[c] \in IF by = "kill" THEN {"in use", "idle"} ELSE {"idle"}
  /\ by = "reap" => \A g \in Handlers : handler[g].by # "reap"
  /\ LET w == registered
         proc == IF w = 0 THEN 0 ELSE state[w].proc
     IN /\ state' = IF w = 0 THEN state ELSE [state EXCEPT ![w].stop = TRUE]
        \* obj: the row to finish; proc: the process to wait for
        /\ handler' = [handler EXCEPT ![h] =
             [NoHandler EXCEPT !.at = "await", !.by = by, !.proc = proc,
                               !.obj = IF by = "reap" THEN c ELSE 0]]
        /\ row' = IF by = "reap" /\ w # 0 THEN [row EXCEPT ![c] = "in use"] ELSE row
  /\ UNCHANGED <<live, spawned, registered, monitor, abandoned, raced>>

\* The process has exited; or it has not in time, or there is none: the container of the
\* agent is killed.  The page is told and closed.
StopAwaits(h) ==
  /\ At(h, "await")
  /\ \/ handler[h].proc # 0 /\ Exited(handler[h].proc) /\ UNCHANGED live
     \/ handler[h].proc \in {0, live} /\ live' = 0
  /\ Goes(h, "rows")
  /\ UNCHANGED <<spawned, row, registered, state, monitor, abandoned, raced>>

StopRows(h) ==
  /\ At(h, "rows")
  /\ row' = [c \in Container |->
       IF (handler[h].by = "kill" /\ row[c] # "none") \/ (handler[h].by = "reap" /\ c = handler[h].obj)
       THEN "ended" ELSE row[c]]
  /\ Goes(h, "pop")
  /\ UNCHANGED <<live, spawned, registered, state, monitor, abandoned, raced>>

\* Under the lock: whoever is registered by now is taken out.
StopPops(h) ==
  /\ At(h, "pop")
  /\ registered' = 0
  /\ IF registered = 0 THEN Finishes(h) /\ UNCHANGED <<state, raced>>
     ELSE /\ raced' = (raced \/ state[registered].proc # handler[h].proc)
          /\ handler' = [handler EXCEPT ![h].at = "cancel", ![h].loop = state[registered].loop,
                                        ![h].mon = state[registered].mon]
          /\ state' = [state EXCEPT ![registered].loop = FALSE, ![registered].mon = 0]
  /\ UNCHANGED <<live, spawned, row, monitor, abandoned>>

\* _check_worker_liveness: a dead process whose monitor has ended.
CheckLiveness(h) ==
  /\ At(h, "off") /\ registered # 0
  /\ LET s == state[registered] IN
       /\ ~s.stop /\ Exited(s.proc) /\ s.mon = 0
       /\ handler' = [handler EXCEPT ![h] = [NoHandler EXCEPT !.at = "stale", !.by = "check",
                                                              !.obj = registered, !.proc = s.proc]]
  /\ registered' = 0
  /\ UNCHANGED <<live, spawned, row, state, monitor, abandoned, raced>>

------------------------------------------------------------------------------
\* _monitor_worker and _respawn_worker.

\* the registry is not looked at
TakenForIts(m) == TRUE

\* Is the worker that m has respawned still the one that is registered?
IsStillIts(m) == registered = monitor[m].obj


MonitorEnds(m) ==
  /\ monitor' = [monitor EXCEPT ![m] = Ended]
  /\ handler' = [h \in Handlers |-> [handler[h] EXCEPT !.mon = IF @ = m THEN 0 ELSE @]]

\* The process has exited.  Under the lock: another worker's matter, or that of a kill or
\* a reap; or a crash, and the polling loop is cancelled.
MonitorWakes(m) ==
  /\ monitor[m].at = "wait" /\ Exited(monitor[m].proc)
  /\ LET w == monitor[m].obj IN
       \/ /\ registered # w \/ state[w].stop
          /\ row' = IF registered = w THEN [row EXCEPT ![state[w].proc] = "ended"] ELSE row
          /\ state' = WithoutMonitor(state, m)
          /\ MonitorEnds(m)
       \/ /\ registered = w /\ ~state[w].stop
          /\ state' = [state EXCEPT ![w].loop = FALSE]
          /\ monitor' = [monitor EXCEPT ![m].at = "crashed"]
          /\ UNCHANGED <<row, handler>>
  /\ UNCHANGED <<live, spawned, registered, abandoned, raced>>

\* The container of the agent is removed, and the row marked.
MonitorCleansUp(m) ==
  /\ monitor[m].at = "crashed"
  /\ live' = 0
  /\ RowSays(state[monitor[m].obj].proc, "ended")
  /\ monitor' = [monitor EXCEPT ![m].at = "decide"]
  /\ UNCHANGED <<spawned, registered, state, handler, abandoned, raced>>

\* Without a page, or when the circuit breaker trips, the worker is forgotten.
MonitorGivesUp(m) ==
  /\ monitor[m].at = "decide"
  /\ LET w == monitor[m].obj IN
       /\ ~state[w].page \/ state[w].crashes + 1 >= MaxCrashes
       /\ registered' = IF registered = w THEN 0 ELSE registered
  /\ state' = WithoutMonitor(state, m)
  /\ MonitorEnds(m)
  /\ UNCHANGED <<live, spawned, row, abandoned, raced>>

\* Otherwise the crash is counted, with those of the last ten minutes, and whoever is
\* registered is respawned.
MonitorRespawns(m) ==
  /\ monitor[m].at = "decide"
  /\ LET w == monitor[m].obj IN
       /\ state[w].page
       /\ \E crashes \in {1, state[w].crashes + 1} :
            /\ crashes < MaxCrashes
            /\ state' = LET counted == [state EXCEPT ![w].crashes = crashes]
                        IN IF registered = 0 THEN WithoutMonitor(counted, m) ELSE counted
       /\ IF registered = 0 THEN MonitorEnds(m)
          ELSE /\ monitor' = [monitor EXCEPT ![m].at = "remove", ![m].obj = registered]
               /\ UNCHANGED handler
  /\ UNCHANGED <<live, spawned, row, registered, abandoned, raced>>

RespawnRemoves(m) ==
  /\ monitor[m].at = "remove" /\ Removes
  /\ monitor' = [monitor EXCEPT ![m].at = "run", ![m].new = spawned']
  /\ UNCHANGED <<registered, state, handler, abandoned, raced>>

\* An exception: whoever is registered is forgotten, and the container too if it runs
\* already.
RespawnRaises(m) ==
  /\ monitor[m].at \in {"remove", "run", "assign"}
  /\ registered' = 0
  /\ raced' = (raced \/ registered # monitor[m].obj \/ Respawning(m))
  /\ state' = WithoutMonitor(state, m)
  /\ MonitorEnds(m)
  /\ UNCHANGED <<live, spawned, row, abandoned>>

RespawnRuns(m) ==
  /\ monitor[m].at = "run" /\ Runs(monitor[m].new)
  /\ monitor' = [monitor EXCEPT ![m].at = "assign"]
  /\ UNCHANGED <<spawned, registered, state, handler, abandoned, raced>>

\* Under the lock: the worker has gone, and so must the container; or it gets the
\* process, a polling loop and a monitor (this one, that begins anew).
RespawnAssigns(m) ==
  /\ monitor[m].at = "assign"
  /\ LET w == monitor[m].obj
         c == monitor[m].new
     IN IF ~IsStillIts(m)
        THEN /\ live' = 0
             /\ state' = WithoutMonitor(state, m)
             /\ MonitorEnds(m)
             /\ UNCHANGED abandoned
        ELSE /\ state' = [WithoutMonitor(state, m) EXCEPT ![w].proc = c, ![w].loop = TRUE,
                                                          ![w].mon = m]
             /\ monitor' = [monitor EXCEPT ![m] = [at |-> "wait", obj |-> w, proc |-> c, new |-> 0]]
             /\ handler' = [h \in Handlers |-> [handler[h] EXCEPT !.mon = IF @ = m THEN 0 ELSE @]]
             /\ abandoned' = (abandoned \/ state[w].loop)
             /\ UNCHANGED live
  /\ UNCHANGED <<spawned, row, registered, raced>>

------------------------------------------------------------------------------

HandlerStep(h) ==
  \/ ClearStale(h) \/ CancelTasks(h) \/ Attach(h) \/ MarkRunning(h) \/ SpawnRemoves(h)
  \/ SpawnRaises(h) \/ SpawnRuns(h) \/ Register(h) \/ MarkIdle(h) \/ StopAwaits(h)
  \/ StopRows(h) \/ StopPops(h)

MonitorStep(m) ==
  \/ MonitorWakes(m) \/ MonitorCleansUp(m) \/ MonitorGivesUp(m) \/ MonitorRespawns(m)
  \/ RespawnRemoves(m) \/ RespawnRaises(m) \/ RespawnRuns(m) \/ RespawnAssigns(m)

LifeNext ==
  \/ ContainerExits \/ PageConnects
  \/ \E m \in Monitors : MonitorStep(m)
  \/ \E h \in Handlers : HandlerStep(h)
  \/ \E h \in Senders, by \in {"page", "headless"} : EnsureWorker(h, by)
  \/ \E h \in Others :
       \/ CheckLiveness(h)
       \/ \E pending \in BOOLEAN : PageLeaves(h, pending)
       \/ \E by \in {"kill", "reap"}, c \in Container : Stop(h, by, c)

LifeSpec == LifeInit /\ [][LifeNext]_lifeVars

------------------------------------------------------------------------------

LifeTypeOK ==
  /\ {live, spawned, registered} \subseteq Some
  /\ row \in [Container -> Rows] /\ state \in [Container -> State]
  /\ monitor \in [Monitors -> Monitor] /\ handler \in [Handlers -> Handler]
  /\ abandoned \in BOOLEAN /\ raced \in BOOLEAN

\* No request is in progress, and every monitor waits for a process that runs.
AtRest ==
  /\ \A h \in Handlers : At(h, "off")
  /\ \A m \in Monitors :
       monitor[m].at = "off" \/ (monitor[m].at = "wait" /\ ~Exited(monitor[m].proc))

\* However messages, pages that come and go, kills, reaps, liveness checks and crashes
\* interleave, what they leave is consistent: the registered worker's process is the
\* container that runs, with one polling loop and one monitor, and nothing else runs.
\* raced names what the code does not cover: two messages that both find no worker or
\* both take its tasks, a kill or a reap that pops, or cancels the respawn of, a
\* container it has not waited for, and an exception between podman run and the registry.
RestIsConsistent ==
  AtRest /\ ~raced =>
    /\ live = IF registered = 0 THEN 0 ELSE state[registered].proc
    /\ ~abandoned
    /\ registered # 0 => state[registered].loop
    /\ {m \in Monitors : monitor[m].at = "wait"} =
         IF registered = 0 THEN {} ELSE {state[registered].mon}

==============================================================================
