------------------------------ MODULE BotActions ------------------------------
(***************************************************************************)
(* Start, stop and restart of single-node bots (lib/bot-actions.ts and the *)
(* PM2 and Docker adapters of lib/runner), requested by admins, customers  *)
(* and the staggered restart jobs of deployments (app/api/admin/           *)
(* deployments, lib/queue/restart-queue.ts, lib/queue/ai-worker.ts) under  *)
(* maintenance mode (lib/system-state.ts).  Every write of the database    *)
(* and every call of a supervisor is a step of its own.                    *)
(***************************************************************************)
EXTENDS Naturals, FiniteSets

CONSTANTS
  FleetBots,
  ActionCalls,   \* request handlers and job processors
  Releases,      \* deployments
  MaxActions,    \* bound on requests, moves, deaths and switches
  MaxFailures    \* bound on failing supervisor calls, failing writes, crashes

ASSUME BotActionsAssumption == MaxActions \in Nat /\ MaxFailures \in Nat

VARIABLES
  bstat,       \* Bot.status
  hstat,       \* BotHealth.status
  restartCount,\* BotHealth.restartCount
  proc,        \* the bot's process under each supervisor
  mode,        \* mode of the bot's worker
  workerUp,    \* is its worker online?
  maintenance,
  act,         \* progress of each call
  parked,      \* bots whose last action was a sound stop
  jobs,        \* staggered restarts waiting in the queue
  release,     \* Deployment.status and the progress of its request
  actions, failures

botActionVars == <<bstat, hstat, restartCount, proc, mode, workerUp, maintenance, act,
                   parked, jobs, release, actions, failures>>

Modes == {"pm2", "docker"}

(* by: who asked.  on: the adapter chosen.  sound: since the call began no    *)
(* other was in progress for the bot, nothing else touched it and no error    *)
(* was ignored.  early: the call was in progress when maintenance mode was    *)
(* switched on.  dep: a job's deployment.                                     *)
ActIdle == [pc |-> "idle", by |-> "admin", op |-> "stop", bot |-> "", on |-> "pm2",
            sound |-> FALSE, early |-> FALSE, dep |-> ""]

BotActionsInit ==
  /\ proc \in [FleetBots -> {[pm2 |-> "none", docker |-> "none"]}]
  /\ bstat = [b \in FleetBots |-> "offline"] /\ hstat = bstat
  /\ restartCount = [b \in FleetBots |-> 0]
  /\ mode \in [FleetBots -> Modes]
  /\ workerUp = [b \in FleetBots |-> TRUE]
  /\ maintenance = FALSE
  /\ act = [c \in ActionCalls |-> ActIdle]
  /\ parked = {} /\ jobs = {}
  /\ release = [r \in Releases |-> [row |-> "none", pc |-> "idle", online |-> {}]]
  /\ actions = 0 /\ failures = 0

Act == actions < MaxActions /\ actions' = actions + 1
Fail == failures < MaxFailures /\ failures' = failures + 1

(* Calls that have chosen to act on b; a job that still checks has not. *)
InProgress(b) == {c \in ActionCalls : act[c].pc \notin {"idle", "check"} /\ act[c].bot = b}

Disturbed(b) == [c \in ActionCalls |->
  IF c \in InProgress(b) THEN [act[c] EXCEPT !.sound = FALSE] ELSE act[c]]

(* A call for bot b begins; the calls already in progress are disturbed. *)
Begins(c, b, x) ==
  act' = [Disturbed(b) EXCEPT ![c] =
    [x EXCEPT !.bot = b, !.pc = "adapter", !.sound = (InProgress(b) = {})]]

Step(c, pc) == act' = [act EXCEPT ![c].pc = pc]

Stays == UNCHANGED <<mode, workerUp, maintenance, jobs, release>>

-----------------------------------------------------------------------------
(* The routes and the job *)

(* POST bots/[id]/start, stop and restart, without a look at maintenance mode. *)
AdminActs(c, b, op) ==
  /\ Act /\ act[c].pc = "idle"
  /\ Begins(c, b, [ActIdle EXCEPT !.op = op])
  /\ parked' = parked \ {b}
  /\ Stays /\ UNCHANGED <<bstat, hstat, restartCount, proc, failures>>

AdminStarts(c, b) == AdminActs(c, b, "start")
AdminStops(c, b) == AdminActs(c, b, "stop")
AdminRestarts(c, b) == AdminActs(c, b, "restart")

(* The customer's restart: refused in maintenance mode.  A bot of somebody    *)
(* else, or of a plan without restart controls, is refused before any effect. *)
CustomerRestarts(c, b) ==
  /\ Act /\ act[c].pc = "idle" /\ ~maintenance
  /\ Begins(c, b, [ActIdle EXCEPT !.op = "restart", !.by = "customer"])
  /\ parked' = parked \ {b}
  /\ Stays /\ UNCHANGED <<bstat, hstat, restartCount, proc, failures>>

(* Mutant of JobBegins: maintenance mode was checked when the job was queued. *)
JobBeginsAnyway(c, j) ==
  /\ j \in jobs /\ act[c].pc = "idle"
  /\ jobs' = jobs \ {j}
  /\ act' = [act EXCEPT ![c] = [ActIdle EXCEPT !.pc = "check", !.op = "restart",
                                  !.by = "job", !.bot = j.bot, !.dep = j.dep]]
  /\ UNCHANGED <<bstat, hstat, restartCount, proc, mode, workerUp, maintenance, parked,
                 release, actions, failures>>

(* processStaggeredRestart: the first check, of maintenance mode. *)
JobBegins(c, j) ==
  /\ j \in jobs /\ act[c].pc = "idle"
  /\ jobs' = jobs \ {j}
  /\ act' = IF maintenance THEN act
            ELSE [act EXCEPT ![c] = [ActIdle EXCEPT !.pc = "check", !.op = "restart",
                                       !.by = "job", !.bot = j.bot, !.dep = j.dep]]
  /\ UNCHANGED <<bstat, hstat, restartCount, proc, mode, workerUp, maintenance, parked,
                 release, actions, failures>>

(* Mutant of JobChecks: the bot's status is not read again. *)
JobChecksWorkerOnly(c) ==
  /\ act[c].pc = "check"
  /\ IF workerUp[act[c].bot] THEN Begins(c, act[c].bot, act[c])
     ELSE act' = [act EXCEPT ![c] = ActIdle]
  /\ Stays /\ UNCHANGED <<bstat, hstat, restartCount, proc, parked, actions, failures>>

(* The row with its worker: only a bot that is online, on a worker that is. *)
JobChecks(c) ==
  /\ act[c].pc = "check"
  /\ IF bstat[act[c].bot] = "online" /\ workerUp[act[c].bot]
       THEN Begins(c, act[c].bot, act[c])
       ELSE act' = [act EXCEPT ![c] = ActIdle]
  /\ Stays /\ UNCHANGED <<bstat, hstat, restartCount, proc, parked, actions, failures>>

-----------------------------------------------------------------------------
(* performBotAction and the adapters *)

First(op) == IF op = "start" THEN "starting" ELSE "stopping"
Final(op) == IF op = "stop" THEN "offline" ELSE "online"

(* getRunnerAdapter for the mode of the bot's worker at this moment. *)
ChooseAdapter(c) ==
  /\ act[c].pc = "adapter"
  /\ act' = [act EXCEPT ![c].pc = "bot1", ![c].on = mode[act[c].bot]]
  /\ Stays /\ UNCHANGED <<bstat, hstat, restartCount, proc, parked, actions, failures>>

(* setStatus, its first write: Bot.status. *)
SetBotStatus(c) ==
  /\ act[c].pc \in {"bot1", "bot2"}
  /\ LET first == act[c].pc = "bot1" IN
       /\ bstat' = [bstat EXCEPT ![act[c].bot] =
                      IF first THEN First(act[c].op) ELSE Final(act[c].op)]
       /\ Step(c, IF first THEN "health1" ELSE "health2")
  /\ Stays /\ UNCHANGED <<hstat, restartCount, proc, parked, actions, failures>>

(* Mutant of SetHealthStatus: only the first status reaches BotHealth. *)
SetHealthOnce(c) ==
  /\ act[c].pc \in {"health1", "health2"}
  /\ LET first == act[c].pc = "health1" IN
       /\ hstat' = [hstat EXCEPT ![act[c].bot] = IF first THEN First(act[c].op) ELSE @]
       /\ Step(c, IF first THEN "run" ELSE "finished")
  /\ Stays /\ UNCHANGED <<bstat, restartCount, proc, parked, actions, failures>>

(* setStatus, its second write: the BotHealth row. *)
SetHealthStatus(c) ==
  /\ act[c].pc \in {"health1", "health2"}
  /\ LET first == act[c].pc = "health1" IN
       /\ hstat' = [hstat EXCEPT ![act[c].bot] =
                      IF first THEN First(act[c].op) ELSE Final(act[c].op)]
       /\ Step(c, IF first THEN "run" ELSE "finished")
  /\ Stays /\ UNCHANGED <<bstat, restartCount, proc, parked, actions, failures>>

SetProc(c, state) == proc' = [proc EXCEPT ![act[c].bot][act[c].on] = state]
Running(c) == proc[act[c].bot][act[c].on]
Untouched == UNCHANGED <<bstat, hstat, restartCount, parked, actions>>

(* The throw leaves the status the call had set before. *)
Throws(c) == act' = [act EXCEPT ![c] = ActIdle] /\ UNCHANGED proc

(* pm2.start, which restarts a process of that name. *)
Pm2Start(c) ==
  /\ act[c].on = "pm2"
  /\ act[c].pc = "fresh" \/ (act[c].pc = "run" /\ act[c].op = "start")
  /\ \/ SetProc(c, "running") /\ Step(c, "bot2") /\ UNCHANGED failures
     \/ Fail /\ Throws(c)
  /\ Stays /\ Untouched

(* dockerStartBotContainer finds a container of that name, or throws, and *)
(* removes it, errors ignored.                                            *)
RemoveContainer(c) ==
  /\ act[c].on = "docker"
  /\ act[c].pc = "fresh" \/ (act[c].pc = "run" /\ act[c].op = "start")
  /\ \/ SetProc(c, "none") /\ Step(c, "create") /\ UNCHANGED failures
     \/ Running(c) # "none" /\ Fail /\ Step(c, "create") /\ UNCHANGED proc
     \/ Fail /\ Throws(c)
  /\ Stays /\ Untouched

(* createContainer and start: an error when a container of that name exists; *)
(* a container that cannot be started stays.                                 *)
CreateContainer(c) ==
  /\ act[c].pc = "create"
  /\ \/ /\ Running(c) = "none"
        /\ SetProc(c, "running") /\ Step(c, "bot2") /\ UNCHANGED failures
     \/ Running(c) # "none" /\ Throws(c) /\ UNCHANGED failures
     \/ Fail /\ Throws(c)
     \/ /\ Running(c) = "none" /\ Fail
        /\ SetProc(c, "stopped") /\ act' = [act EXCEPT ![c] = ActIdle]
  /\ Stays /\ Untouched

(* dockerStopBotContainer: nothing to do without a container; an error of   *)
(* container.stop is ignored, one of findContainer is not.                  *)
DockerStop(c) ==
  /\ act[c].on = "docker" /\ act[c].pc = "run" /\ act[c].op = "stop"
  /\ \/ Running(c) = "none" /\ Step(c, "bot2") /\ UNCHANGED <<proc, failures>>
     \/ /\ Running(c) # "none"
        /\ SetProc(c, "stopped") /\ Step(c, "delete") /\ UNCHANGED failures
     \/ Running(c) # "none" /\ Fail /\ Step(c, "delete") /\ UNCHANGED proc
     \/ Fail /\ Throws(c)
  /\ Stays /\ Untouched

(* pm2.stop fails when there is no such process. *)
Pm2Stop(c) ==
  /\ act[c].on = "pm2" /\ act[c].pc = "run" /\ act[c].op = "stop"
  /\ \/ Running(c) = "none" /\ Throws(c) /\ UNCHANGED failures
     \/ /\ Running(c) # "none"
        /\ SetProc(c, "stopped") /\ Step(c, "delete") /\ UNCHANGED failures
     \/ Fail /\ Throws(c)
  /\ Stays /\ Untouched

(* The end of a stop: pm2DeleteProcess and the removal of a container go on *)
(* whether or not they succeeded.                                           *)
DeleteProcess(c) ==
  /\ act[c].pc = "delete"
  /\ \/ SetProc(c, "none") /\ Step(c, "bot2") /\ UNCHANGED failures
     \/ /\ Running(c) # "none" /\ Fail /\ UNCHANGED proc
        /\ act' = [act EXCEPT ![c].pc = "bot2", ![c].sound = FALSE]
  /\ Stays /\ Untouched

(* A restart that fails, for want of a process or otherwise, falls back to a *)
(* fresh start.                                                              *)
RestartProcess(c) ==
  /\ act[c].pc = "run" /\ act[c].op = "restart"
  /\ \/ /\ Running(c) # "none"
        /\ SetProc(c, "running") /\ Step(c, "bot2") /\ UNCHANGED failures
     \/ Running(c) = "none" /\ Step(c, "fresh") /\ UNCHANGED <<proc, failures>>
     \/ /\ Running(c) # "none" /\ Fail /\ Step(c, "fresh")
        /\ UNCHANGED proc \/ SetProc(c, "stopped")
  /\ Stays /\ Untouched

Pm2Delete(c) == act[c].on = "pm2" /\ DeleteProcess(c)
DockerRemove(c) == act[c].on = "docker" /\ DeleteProcess(c)

Pm2Restart(c) == act[c].on = "pm2" /\ RestartProcess(c)
DockerRestart(c) == act[c].on = "docker" /\ RestartProcess(c)

(* The end of performBotAction; a sound stop leaves the bot parked. *)
FinishAction(c) ==
  /\ act[c].pc = "finished"
  /\ LET b == act[c].bot IN
       /\ restartCount' = IF act[c].op = "restart" THEN [restartCount EXCEPT ![b] = @ + 1]
                          ELSE restartCount
       /\ parked' = IF act[c].op = "stop" /\ act[c].sound THEN parked \cup {b} ELSE parked
  /\ act' = [act EXCEPT ![c] = ActIdle]
  /\ Stays /\ UNCHANGED <<bstat, hstat, proc, actions, failures>>

(* The process that runs the call dies.  BullMQ runs a stalled job again. *)
CallCrash(c) ==
  /\ act[c].pc # "idle" /\ Fail
  /\ jobs' = IF act[c].by = "job" THEN jobs \cup {[bot |-> act[c].bot, dep |-> act[c].dep]}
             ELSE jobs
  /\ act' = [act EXCEPT ![c] = ActIdle]
  /\ UNCHANGED <<bstat, hstat, restartCount, proc, mode, workerUp, maintenance, parked,
                 release, actions>>

CallStep(c) ==
  \/ \E j \in jobs : JobBegins(c, j)
  \/ JobChecks(c) \/ ChooseAdapter(c) \/ SetBotStatus(c) \/ SetHealthStatus(c)
  \/ Pm2Start(c) \/ Pm2Stop(c) \/ Pm2Delete(c) \/ Pm2Restart(c)
  \/ RemoveContainer(c) \/ CreateContainer(c)
  \/ DockerStop(c) \/ DockerRemove(c) \/ DockerRestart(c)
  \/ FinishAction(c)

-----------------------------------------------------------------------------
(* POST deployments *)

DeployBegins(r) ==
  /\ Act /\ release[r].pc = "idle" /\ release[r].row = "none"
  /\ release' = [release EXCEPT ![r].row = "in_progress", ![r].pc = "hooks"]
  /\ UNCHANGED <<bstat, hstat, restartCount, proc, mode, workerUp, maintenance, act, parked,
                 jobs, failures>>

(* beforeDeploy and afterDeploy of every plugin, then the row. *)
DeployHooks(r) ==
  /\ release[r].pc = "hooks"
  /\ \/ /\ release' = [release EXCEPT ![r].row = "success", ![r].pc = "read"]
        /\ UNCHANGED failures
     \/ Fail /\ release' = [release EXCEPT ![r].row = "failed", ![r].pc = "done"]
  /\ UNCHANGED <<bstat, hstat, restartCount, proc, mode, workerUp, maintenance, act, parked,
                 jobs, actions>>

(* In maintenance mode no restarts are queued. *)
DeployReads(r) ==
  /\ release[r].pc = "read"
  /\ release' = [release EXCEPT ![r].pc = IF maintenance THEN "done" ELSE "queue",
                   ![r].online = {b \in FleetBots : ~maintenance /\ bstat[b] = "online"}]
  /\ UNCHANGED <<bstat, hstat, restartCount, proc, mode, workerUp, maintenance, act, parked,
                 jobs, actions, failures>>

(* The job's id makes the job of a deployment for a bot unique. *)
EnqueueStaggeredRestarts(bots, r) == jobs \cup {[bot |-> b, dep |-> r] : b \in bots}

(* The jobs are added in parallel; if one add fails the deployment is stored  *)
(* as failed with the others queued.                                          *)
DeployQueues(r, queued) ==
  /\ release[r].pc = "queue" /\ queued \subseteq release[r].online
  /\ jobs' = EnqueueStaggeredRestarts(queued, r)
  /\ \/ /\ queued = release[r].online
        /\ release' = [release EXCEPT ![r].pc = "done"] /\ UNCHANGED failures
     \/ Fail /\ release' = [release EXCEPT ![r].pc = "done", ![r].row = "failed"]
  /\ UNCHANGED <<bstat, hstat, restartCount, proc, mode, workerUp, maintenance, act, parked,
                 actions>>

-----------------------------------------------------------------------------
(* The surroundings *)

SetMaintenanceMode(on) ==
  /\ Act /\ maintenance # on
  /\ maintenance' = on
  /\ act' = [c \in ActionCalls |->
       IF on /\ act[c].pc # "idle" THEN [act[c] EXCEPT !.early = TRUE] ELSE act[c]]
  /\ UNCHANGED <<bstat, hstat, restartCount, proc, mode, workerUp, parked, jobs, release,
                 failures>>

(* setBotWorker moves the bot to a worker of another mode, or the worker's *)
(* status changes; neither touches a process.                              *)
MoveBot(b) ==
  /\ Act
  /\ mode' = [mode EXCEPT ![b] = IF @ = "pm2" THEN "docker" ELSE "pm2"]
  /\ workerUp' \in {[workerUp EXCEPT ![b] = up] : up \in BOOLEAN}
  /\ act' = Disturbed(b) /\ parked' = parked \ {b}
  /\ UNCHANGED <<bstat, hstat, restartCount, proc, maintenance, jobs, release, failures>>

(* PATCH bots/[id] with a status. *)
PatchStatus(b, s) ==
  /\ Act
  /\ bstat' = [bstat EXCEPT ![b] = s]
  /\ act' = Disturbed(b) /\ parked' = parked \ {b}
  /\ Stays /\ UNCHANGED <<hstat, restartCount, proc, failures>>

(* A process that has used up its supervisor's restarts; nobody is told. *)
ProcessDies(b, m) ==
  /\ Act /\ proc[b][m] = "running"
  /\ proc' = [proc EXCEPT ![b][m] = "stopped"]
  /\ act' = Disturbed(b)
  /\ Stays /\ UNCHANGED <<bstat, hstat, restartCount, parked, failures>>

BotActionsNext ==
  \/ \E c \in ActionCalls :
       \/ CallStep(c) \/ CallCrash(c)
       \/ \E b \in FleetBots : CustomerRestarts(c, b)
       \/ \E b \in FleetBots : AdminStarts(c, b) \/ AdminStops(c, b) \/ AdminRestarts(c, b)
  \/ \E r \in Releases :
       \/ DeployBegins(r) \/ DeployHooks(r) \/ DeployReads(r)
       \/ \E q \in SUBSET FleetBots : DeployQueues(r, q)
  \/ \E on \in BOOLEAN : SetMaintenanceMode(on)
  \/ \E b \in FleetBots : MoveBot(b) \/ PatchStatus(b, "online")
  \/ \E b \in FleetBots, m \in Modes : ProcessDies(b, m)

BotActionsSpec == BotActionsInit /\ [][BotActionsNext]_botActionVars

-----------------------------------------------------------------------------

BotStatuses == {"offline", "starting", "online", "stopping"}

BotActionsTypeOK ==
  /\ bstat \in [FleetBots -> BotStatuses] /\ hstat \in [FleetBots -> BotStatuses]
  /\ proc \in [FleetBots -> [Modes -> {"none", "stopped", "running"}]]
  /\ mode \in [FleetBots -> Modes] /\ workerUp \in [FleetBots -> BOOLEAN]
  /\ maintenance \in BOOLEAN /\ parked \subseteq FleetBots
  /\ \A c \in ActionCalls : act[c].bot \in FleetBots \cup {""} /\ act[c].on \in Modes
  /\ \A j \in jobs : j.bot \in FleetBots /\ j.dep \in Releases

(* Whatever mess failures, deaths and overlapping calls have left, an action  *)
(* that nothing disturbs ends with Bot.status, BotHealth.status and the       *)
(* process under the chosen supervisor in agreement (pm2-adapter.ts:35-66).   *)
SoundActionAgrees ==
  \A c \in ActionCalls : act[c].pc = "finished" /\ act[c].sound =>
    LET b == act[c].bot IN
    /\ bstat[b] = Final(act[c].op) /\ hstat[b] = Final(act[c].op)
    /\ proc[b][act[c].on] = IF act[c].op = "stop" THEN "none" ELSE "running"

(* A bot that was stopped stays down until somebody asks for it or edits it:  *)
(* no restart job still in the queue brings it back (ai-worker.ts:112-128).   *)
ParkedStaysDown ==
  \A b \in parked :
    /\ bstat[b] = "offline" /\ proc[b][mode[b]] = "none"
    /\ InProgress(b) = {}

(* In maintenance mode no job and no customer restarts a bot, except those    *)
(* already past their check when it was switched on (restart-queue.ts:36-38). *)
MaintenanceHolds ==
  maintenance =>
    \A c \in ActionCalls : act[c].pc # "idle" /\ act[c].by # "admin" => act[c].early

=============================================================================
