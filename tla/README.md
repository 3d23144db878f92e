# TLA+ specifications of BotFleet

BotFleet runs Discord bots on a fleet of machines. A control plane (a Next.js
application, queue workers and a WebSocket gateway that share PostgreSQL and
Redis) decides what should run where; an agent on every machine runs the bots as
child processes, and an SDK in each bot reports to its agent. These specifications
model the distributed core (the agent's process runner, workloads and commands,
agent connections and enrollment, placement and drains), the admission and relaying
of messages, and the single-node operations of the control plane (workers, bot
actions, deployments, roles, plan limits, alerts, crash explanations).

Paths below are relative to the repository's root. `PROJECT.json` holds the
map from every definition to the lines it models, the runs, the mutants (plausible
bugs each property must catch), the findings, the hazards and the theorems.

## 1. Inventory

### Components

| Component | State | Operations | Module |
|---|---|---|---|
| Workload runner, `apps/agent/src/workload-runner.ts` | map of cached specs, child processes, suspended handlers | cache spec, start, stop, restart, force kill, exit and error events | `AgentRunner` |
| Workload control, `apps/control-plane/lib/workloads.ts`, `reconciliation.ts`, `agent-gateway/command-outcomes.ts`, `queue/agent-command-queue.ts` | `Workload` and `AgentCommand` rows, queue, advisory lock | assign, start/stop/restart, fence, clear failure, reconciliation tick, dispatch, ack, result | `WorkloadControl` |
| Agent gateway, `lib/agent-gateway/server.ts`, `lib/agents/enrollment.ts`, `credential.ts`, `apps/agent/src/index.ts`, `state.ts` | `Agent`, `EnrollmentToken`, `AgentCredential` rows, `liveConnections`, state file | connect, upgrade, close, heartbeat, heartbeat timeout, enroll | `AgentGateway` |
| Placement, `packages/scheduler`, `lib/scheduling.ts`, `lib/agents/drain.ts` | assignments, generations, agent status, a drain's snapshot | score, recommend, drain | `Placement` |
| Legacy workers, `lib/worker-assignment.ts`, `rebalance.ts`, `workers/drain.ts` | `Worker.currentBots`, `WorkerAssignment`, `Bot.workerGroupId` | set worker, recommend, drain, restart | `Workers` |
| Single-node bots, `lib/bot-actions.ts`, `lib/runner/*` | `Bot.status`, `BotHealth`, PM2 or Docker processes | start, stop, restart | `BotActions` |
| Deployments, restart queue, maintenance mode | `Deployment`, delayed jobs, `SystemState` | deploy, staggered restart, toggle | `BotActions` |
| Bots, customers, plans, `lib/plans.ts`, `app/api/admin/bots` | `Customer`, `Bot`, `BotHealth` rows | create customer, create bot, change plan and limits | `Plans` |
| Users, roles and guards, `auth.ts`, `lib/require-admin.ts`, `app/api/admin/users` | `User.role` | promote, guard, change role | `Roles` |
| Alerts, `lib/alerts`, `lib/plugins/builtin/alert-rules.ts` | open `Alert` rows | evaluate rules, by schedule and by hand | `Alerts` |
| Protocol, `packages/protocol` | replay guard | create, parse, check and apply a message | `Protocol` |
| Runtime SDK, adapters, local IPC, `packages/runtime-sdk`, `adapter-*`, `apps/agent/src/local-ipc.ts` | client queue and socket, adapter listeners, limiter window | ready, events, send, reconnect, close, relay | `Sdk` (implements `LossyChannel`), `RateLimiter` |
| Crash explanations, `lib/queue/ai-queue.ts`, `ai-worker.ts`, `crash-analysis.ts`, `components/ExplainCrashButton.tsx` | jobs kept for an hour, the page's polling | ask, process, expire, poll | `CrashJobs` |
| Plugins, secrets, security checks, configuration, resource sampling, the rest of the web interface, seed and demo scripts | none that the fleet depends on | | not modelled (section 6) |

### How they interact

* API routes and the reconciliation tick write an `AgentCommand` row and then put
  its message on a BullMQ queue. The gateway process takes it off the queue and
  sends it on the agent's WebSocket, looked up in `liveConnections`.
* The agent handles commands of one connection concurrently
  (`void handleWorkloadCommand`), acknowledges each, runs it on the workload runner
  and reports a result, which updates the command's and the workload's row.
* Heartbeats carry an inventory; a reported workload the agent does not own is
  fenced with a stop command. The generation, bumped by every assignment, is the
  fencing token.
* `drainAgent` moves workloads one by one with the same assign and send calls; the
  scheduler it asks sees agents, workloads and recent failures as rows.
* Bots send lines to their agent's local socket; the agent relays them to the gateway,
  which admits a message after the parser's and the replay guard's checks.
* A deployment queues delayed restart jobs, which a worker process runs with the same
  `performBotAction` the routes use; the same worker evaluates alert rules and explains
  crashes. Maintenance mode is one row that deployments, their jobs and customers' restarts read.
* The scheduled tick runs in every control-plane instance. A PostgreSQL advisory
  lock, held by an interactive transaction, lets one of them act.

### What is hard

Handlers are suspended at awaits while others of the same workload run; rows are
read before an await and written after it; acks and results are handled out of
order; a command or a result is lost with its connection and nothing times out;
ticks of several instances overlap, expire and crash half-way; a queue job whose gateway died is run again; close events of
old connections arrive after the reconnect; tokens are redeemed concurrently;
retry counters and suspension meet late results; drains act on snapshots while admins move
the same workloads; transactions under read-committed isolation overlap; limits, owners and
open alerts are counted before the write that depends on the count; a supervisor call or
a write fails between two status writes; queues overflow and sockets break half-way. `PROJECT.json` lists each hazard
at its line, with the properties aimed at it.

### What makes each component correct

* Runner: no child runs that the map does not know, a reported stop is a dead child,
  a signalled child has exactly one waiting handler and dies.
* Control: the generation identifies the owner, a command that ended stays ended, reconcilers do not
  send twice, retries end in suspension, disagreement heals.
* Gateway: a token gives one credential, commands go to the connection in use, nothing
  interrupted leaves a credential or a connection without its row.
* Placement: a drain ends, loses no workload, its stops are older than the placement they may meet, and
  the recommended place is one the scheduler stays with.
* Workers: counter, assignment rows and `workerGroupId` agree; a bot is stranded only
  when every worker is full; a drain fills no worker beyond its limit.
* Bot actions: an undisturbed action ends with status and process in agreement, a stopped bot
  stays down, maintenance mode holds.
* Admin: an owner remains, limits are exceeded by overlapping creations only and by a
  bounded number, duplicate alerts are bounded and restarts are reported.
* Messages: no early replay, the client queue keeps the newest, reports arrive in
  order, clients recover, `bot.stopped` is a bot's last message, bursts are bounded, an explanation fits the
  error that was asked about.

## 2. Modules

### AgentRunner

One agent process. `process`, `spec` are the map's entry per workload; `child` is what
each `ChildProcess` does, `waits` the handlers suspended in `stopWorkload`. The agent is
one event loop and its only await on this path is the child's exit, so code up to that
await is one action (`StartWorkload`, `StopWorkload`, `RestartWorkload`,
`CacheWorkloadSpec`), and an exit with the listeners and continuations it releases is
another (`ProcessExit`). `attached` records which children's exit listener captured the
entry that is in the map now, because `bot.update` replaces the entry. `AgentRestart`
loses the map and leaves live children as orphans. Unreferenced `ChildProcess` objects
are reused, so behaviours are unbounded while the state space is finite.

`Overlap = TRUE` is what the agent permits; `Overlap = FALSE` is a control plane that has
one command of a workload in flight, what the reconciler's in-flight check aims at.

### WorkloadControl

The rows, the queue and the calls between awaits. `call` is an assign, send or fence call
(`ReadWorkload`, `RecordCommand`, `EnqueueCommand`, `WriteDesired`), `outcome` a
`markCommandOutcome` call, which marks the command, reads the workload and writes it back
(`MarkCommandOutcome`, `OutcomeReads`, `OutcomeWrites`). `tick`, `todo` and `lock` are the
reconciliation tick with its snapshot and advisory lock; `TickExpires` is Prisma's
transaction timeout, after which the lock is free while the tick goes on. `told` is what an
agent may report in an inventory. Agents are abstract: they answer with success or failure.
The audit log, message bodies and times are left out; a retry time is a flag that
`BackoffPasses` clears.

The command queue is at least once. `JobRuns` are the runs of a job, a second one when the
gateway dies before BullMQ has recorded the first as completed (`GatewayCrash`, which also breaks every
connection and stops the handlers where they are). A command may so be sent, executed and answered
twice; `docs/protocol-reference.md:72-74` expects the re-delivery. The acks and results of both runs meet
one row in any order, and `markCommandOutcome` does not look at the row's status: what holds is
`EndedStaysEnded`, that none of them reopens a command that ended.

### AgentGateway

`conn` is a connection as the gateway sees it, `ws` the one a host uses: either end notices
a broken connection in its own time. The upgrade handler is two actions, since it awaits
the credential check (`Upgrade`) before the connection event (`Establish`); `handleEnroll` is
one per database write that another actor can see (`EnrollCreate`, `ConsumeEnrollmentToken`,
`EnrollRefuse`, `IssueCredential`, `EnrollAccept`), and goes on when its connection is
gone. Status writes of the close event and of a heartbeat are one step with the event, not
a later one: a write that lands later is covered by the event happening later, except that
the entry in `liveConnections` would be removed before it. The heartbeat monitor fires only
for a connection nothing arrives on any more. `DrainBegin` and `DrainEnd` are what a drain
does to the agent's status; drains of one agent may overlap. The gateway sends no pings, so nothing ensures that it
ever notices a dead connection: the module has no fairness and no liveness property (section 5).

`Ordered` says whether the upgrade of a host's connection ends before the host opens the
next one. The code does not enforce it: `server.ts:87` awaits the database while the host may
already have given up and reconnected. See section 5.

In `AgentRunner`, `Specifications` holds a member that fails the schema
(`ParseWorkloadSpec`), which a `bot.update` refuses before it touches the map. In
`WorkloadControl`, an inventory (`ReportedInventory`) is tracked (`TrackGeneration`) for the
owner and fenced (`FenceStaleAgent`) for anybody else.

### Placement

`Eligible`, `Score` and `ScheduleWorkload` are `packages/scheduler` as operators, in integer
arithmetic with the rounding of `Math.round`; ties go to the lowest id (`SortsFirst`). What an agent
hosts is a set of workloads, and the average load is taken over the union of these sets, since no
workload is on two agents: a sum would need an induction to be reasoned about.
`BuildSchedulerContext` is `lib/scheduling.ts`. A `drainAgent` call is a sequence of one action per await:
`MarkDraining`, `WorkloadsToMove` (the snapshot), then per workload `ChooseTarget`, `Relocate`,
`StartNew`, `HealthCheck` up to five times, `StopOld`, and at last `CountLeft` and `FinishDrain`.
Around it admins assign and command workloads, agents connect and disconnect (which overwrites
`draining`), results change the observed state, and a second drain runs, of the same agent
or of the target. `HealthCheck` reads the observed state and nothing else, as `drain.ts:98` does: an assignment does
not reset it, so it may still be the old owner's. What becomes of the commands is `WorkloadControl`'s matter.

### Workers

A `setBotWorker` transaction reads (`TxRead`) and commits (`TxCommit`, relative updates of
the counter, absolute writes of the rest) or aborts at either; others commit in between. A PATCH may
name a worker that does not exist (`Stranger`): its transaction can only abort.
`ComputeRebalanceRecommendations` is the code's loops over the bots and the workers in the database's order.
A plan is the `load` map and a target for each bot: a bot gets at most one recommendation, and it is
from the worker it is on, so a target tells the whole recommendation. `drainWorker` plans once and applies its recommendations one transaction at a time.
The flag `drifted` is history: a move was committed although another had moved the bot since
it was read. `WorkersInSync` does not look at it; the theorem about what else can go wrong does.

### BotActions

A call of `performBotAction` is `ChooseAdapter`, two status writes before and two after the
supervisor's calls, each a step. PM2 and Docker are external, modelled from how the adapters use
them: a name has at most one process per supervisor, operations fail for want of one or
for no reason (`MaxFailures`). Docker's stop and removal are two steps (`DockerStop`, `DockerRemove`), and
the look for the container fails the stop when it throws. Jobs of a deployment check maintenance mode (`JobBegins`), then the
row (`JobChecks`), then act. A crash of the process loses a request and repeats a job. `sound`,
`early` and `parked` are history the properties use: nothing disturbed the call, it began before
maintenance mode, the bot was stopped soundly and not asked for since.

### Roles and Plans

Requests that read, count and write in separate statements. `Roles` has the session callback's
promotion (`Promote`), the owner guard, and the role change; `raced` records that an owner was
demoted on a reading another write had overtaken. `Plans` has `PLAN_LIMITS`, the count before the
insert, the health row after it, and the PATCH that checks what it was given against the plan
it read; `loose` are bots whose limits were checked against another plan than they have now.

### Alerts

Evaluations, one rule after the other, each a query of the health rows, a look for an open alert of
that title and an insert. The titles of restart alerts contain the count. Nothing closes an alert.

### Protocol

Messages with what the checks tell apart (envelope, version, type, payload), at
most one of them wrong; the order of the checks; `CheckAndRecord` with its eviction; the
connection's authentication; redelivery at any time and on any connection; a gateway restart, which
forgets the guard. The agent has no guard: a repeated command is handed over again.

### Sdk, LossyChannel, RateLimiter

`client` is the `AgentSocketClient`, `sock` the socket it created last with what is on its way,
`adapter` the listeners and heartbeat intervals of discord.js or Eris. `end` on an open socket
still delivers; a socket that breaks loses what it carries. The agent and its link to the gateway fail
at any time. `LossyChannel` is the abstract specification: two counters, messages may be lost, none is
invented, repeated or overtaken. `ReportsInOrder` is its specification under the mapping
`submitted <- sent, last <- relayed`; TLC checks it and TLAPS proves it. `RateLimiter` is the
fixed window on its own.

### CrashJobs

Jobs are found by bot and hash of the error, so two errors with one hash share one. A page's
click asks, then polls; a job may complete, fail or expire meanwhile and the bot may report
another error. Which of the four patterns matches an error is a constant.

### The compositions that TLC runs

Components that share no row a property speaks of are checked in one run: a variable
says which component a behaviour exercises, the others rest. `MCOperations` has `Workers`,
`BotActions`, `Roles` and `Plans`; `MCMessaging` has `Placement`, `Alerts`, `Protocol`, `Sdk`, `RateLimiter` and
`CrashJobs`. `MCSafety` adds to the former the gateway and a runner whose commands do not overlap,
`MCLiveness` to the latter a runner whose commands do. The state spaces add up rather than
multiply, and every component's properties are checked in all its behaviours.

## 3. Runs

| Run | Instance | What it shows |
|---|---|---|
| `control_safety` | 1 workload, 2 agents, 2 commands, 1 request, 1 reconciler, all faults | `TypeOK`, `TokenNamesOwner`, `ExhaustedIsSuspended`, `EndedStaysEnded` |
| `control_live` | the same with 2 reconcilers and no faults | `Converges` under fairness |
| `safety`, operations | 3 workers and 3 bots, 2 requests; 1 bot, 2 calls, 1 deployment; 3 users, 2 requests; 1 customer, 3 bots, 2 requests | `OperationsTypeOK`; `StrandedMeansFull`, `DrainFits`; `SoundActionAgrees`, `ParkedStaysDown`, `MaintenanceHolds`; `ExcessBounded`, `CapsHold` |
| `safety`, gateway | 2 hosts, 1 token, 2 connections, 2 drains, 2 faults | `GatewayTypeOK`, `TokenRedeemedOnce`, `ServedConnection`, `NoDanglingAgent` |
| `safety`, runner | 2 workloads, 3 children, no overlap | `RunnerTypeOK`, `NoUntrackedChild`, `StoppedMeansDead` across updates, restarts, exits, spawn failures and agent restarts |
| `liveness`, messaging | 3 agents, 2 workloads, 2 drains; 2 bots, 2 evaluators; 2 messages; 5 reports, queue of 2; 10 ticks of the limiter; 3 errors, 2 pages | `MessagingTypeOK`; `RecommendationSettles`, `StopIsFenced`, `DrainLeavesNothing`, `DrainEnds`; `RestartsReported`; `NoEarlyReplay`; `NewestKept`, `ReportsInOrder`, `Recovers`, `DiscordStoppedIsLast`; `BurstBounded`; `AnswerFits` |
| `liveness`, runner | 1 workload, 3 children, overlapping commands | `SignalledHasOneStopper`; `SignalledDies` under fairness |
| `runner_duplicate` | 1 workload, 3 children, overlapping commands | violated: `NoSecondCopy` |
| `runner_stuck` | 1 workload, 2 children, no overlap | violated: `HandlerReports` |
| `control_suspension` | 1 agent, no faults | violated: `SuspensionIsTerminal` |
| `control_lost` | 1 agent, disconnects | violated: `Converges` |
| `control_timeout` | 1 agent, 2 reconcilers, transaction timeouts | violated: `OneReconcilerCommand` |
| `gateway_drain` | 1 host, no faults | violated: `DrainingStays` |
| `workers_drift` | the operations of `safety` | violated: `WorkersInSync` |
| `owner_race` | the operations of `safety` | violated: `AnOwnerRemains` |

### Bounds

* Runner: three children are one running, one being stopped and one just spawned, the most
  one workload has before slots are reused; two workloads show that they do not interfere. All
  other behaviour is unbounded.
* Control: `Commands` are slots that are used again once nothing refers to the row
  (`Archive`), so two means two commands at a time, enough for a reconciler's and an admin's or
  an old and a new owner's. `MaxOps` bounds admin operations, inventory reports and faults
  (two to four), `MaxGeneration` the assignments, `MaxAttempts = 2` stands for the code's 5:
  one failure below the limit and one at it. `MaxStalled = 1`: a crash of the gateway leaves one job to
  be run again, its second run beside the other command's first. One workload: rows of different workloads share
  only the lock and the tick's list. The proofs need none of these bounds.
* Gateway: two connections are a host's old and new one, or one per host in the race for the
  token; closed ones are reused. Two drains overlap. Two faults are a break during the recovery from another.
  `Rows` is large enough that ids do not run out. `Misfits = {h2}`: TLC starts both with
  an `h2` whose labels fit and one whose labels do not.

* Workers: capacities 2, 1, 2 make ties, a full worker and one with room; every initial
  assignment of the bots, the overfull ones included, and two overlapping requests (a drain and a
  move, two moves of one bot, two drains).
* Bot actions: one bot, since calls for different bots share only maintenance mode and the queue;
  two calls overlap, three requests or changes of the surroundings and one failure are a stop, a
  restart and a failure between them.
* Roles: three users from every combination of roles with an owner; two requests suffice for the race.
  Plans: two tiers whose limits the two guild limits separate, three bots and two requests exceed
  the smaller one.
* Placement: fleets and demands are such that memory, failures, spreading and labels each decide
  some choice, that some workload fits nowhere, and that one is unassigned. Two events
  are what a drain can be surprised by between two of its steps and again later. `HealthChecks = 2`
  stands for 5: one look that may fail and the last.
* Alerts: one bot may restart twice past the threshold, the other once: the maximum changes hands.
* Protocol: a time to live of 2 on a clock to 4 has deliveries before, at and after it. Sdk: a queue of 2
  and five reports overflow it; two outages are one during the recovery from another. Limiter: three windows.
  Crash jobs: two of three errors share a hash; two polls stand for 15.

Deadlock is checked in every run but `safety`, `liveness`, `workers_drift` and `owner_race`, in which requests and
events are bounded, so that behaviours end.

### Fairness

* Runner: the force-kill timer fires and the kernel ends a process that got SIGKILL.
  Nothing makes a child end that was merely asked to.
* Control: calls, handlers and queue jobs that can go on do; the tick is scheduled every
  30 s; an agent executes what it received and reconnects (bounded backoff,
  `index.ts:48`); retry times pass. Admins and faults owe nothing.
* Placement: a drain awaits queries and one-second timers only, so its next step is taken.
  Alerts: the repeatable job fires every five minutes and its worker runs it to the end. Sdk: Node
  delivers the socket's connect and close events and the reconnect timer fires (bounded backoff).
  Nothing is assumed of admins, bots, agents' uptime or the network; `Recovers` assumes in its
  statement that the agent stays up.

## 4. Proofs

Eight modules are checked by TLAPS, for any number of agents, workloads, commands, requests,
connections, bots, customers, messages and calls and any value of the bounds. A theorem about a component
rests on the named assumption of its module (`RunnerAssumption`, `ControlAssumption`,
`GatewayAssumption`, `RolesAssumption`, `SdkAssumption`, `ProtocolAssumption`, `PlacementAssumption`,
`AlertsAssumption`, `RateLimiterAssumption`, `CrashJobsAssumption`, `WorkersAssumption`, `PlansAssumption`): types and
finiteness of the constants, which every run evaluates on its own. `MessagingProofs` and `OperationsProofs`
hold the theorems of the components of `MCMessaging` and `MCOperations`; each
is about the component's own specification (`PlacementSpec`, `WorkersSpec`, ...), which is how its part
of the composed run behaves.

### Distributed core

* `RunnerSafe`: types and `SignalledHasOneStopper`. The invariant `RunnerInv` adds that an
  entry's child belongs to its workload (`OwnChildren`) and that nobody waits for a running
  child (`WaitedNotRunning`): otherwise a spawn could hand out a child someone still waits for.
  `RunnerTypes` states the types on their own.
* `SerialCommandsKeepTrack`: with `Overlap = FALSE`, `NoUntrackedChild` and
  `StoppedMeansDead`, which need each other: an entry without a running child has no live
  child anywhere (`QuietWhenNotRunning`), which is what makes a spawn safe.
  `StoppedWorkloadsAreDead` states the second on its own.
* `ControlTypes`: `TypeInv` adds that a call past its first step names a workload and a recorded
  one its row.
* `EndedForGood`, an action property: of the steps that write a command's status, the dispatcher and the outcome
  write a terminal one, a record takes a free row, and the ack handler updates pending rows only.
  Without that condition the ack of a repeated job would reopen its command, and the proof fails there as the
  mutant's run does. It rests on `Delivery`: jobs and calls about to queue one are of rows that exist.
* `GenerationFences`: `TokenNamesOwner` is inductive together with the above; it speaks of
  rows, of calls that have read the row and not yet recorded a command, and of what agents
  were told, since a fence carries what an agent reported.
* `RetriesEndSuspended`: `ExhaustedIsSuspended`; every write of the counter writes the
  suspension and retry time with it.
* `ReconcilersExclude`: if ticks do not time out, `OneReconcilerCommand`; crashes are allowed at every step. The run
  `control_timeout` shows that the condition is needed. `LockInv` adds that
  a reconciler in a call holds the lock (`LockHeld`) and that what it checked, no command
  in flight from a reconciler, still holds when it records its own (`CheckHolds`).
* `EnrollmentSafe`: types, `TokenRedeemedOnce` and `NoDanglingAgent`, for upgrades in any
  order. `GatewayInv` adds `JobInv`: an enrollment owns a row that exists, that no other
  enrollment works on and no host has a credential of, and that has a credential only after
  the token was redeemed for it. Without it a second handler could delete the row of an
  issued credential, or two hosts could save the same one. Steps that touch no token, row or
  credential are `Quiet` and are dealt with by one lemma.
  `NoAgentDangles` and `GatewayTypes` state the last and the first part on their own.
* `ServedConnectionTheorem`, with `Ordered`: commands go out on the connection the host uses. `ServiceInv`
  adds `Wired` (a host uses a connection of its own, and while one of its connections is being
  upgraded it uses no other: this is where the order of upgrades enters) and `Named` (the connections that
  stand for a row are of one host, the one that has its credential; nothing but the enrolling
  connection stands for the row of an enrollment in progress). Without `Named`, registering a
  connection could displace the one another host uses; without `Wired`, the one its own host uses.
* `RecommendationSettlesTheorem`: `RecommendationStays` is a lemma about the scheduler, for any
  placement. The context leaves the workload itself out, so applying the recommendation changes only the
  bonus of ten for the agent that has it. The winner gains it, or had it and keeps it, nobody else does; so it still
  sorts first, and only one agent does (`FirstUnique`). That there is one at all is `FirstExists`,
  from the well-foundedness of the naturals.
* `StopIsFencedTheorem` and `DrainLeavesNothingTheorem`: `PlacementInv` says of every drain in progress
  that generations only grow since its snapshot and that a workload still on the agent is to be moved,
  stranded or newly assigned (`SnapshotHolds`), that the workload it is moving goes elsewhere and has a
  higher generation once moved, higher by two if it is back (`MoveHolds`), and what was true when it
  counted (`CountHolds`). Steps of others only raise generations, which is one lemma (`OthersKeep`).

### Messages

* `NewestKeptTheorem` and `ReportsInOrderTheorem`: `SdkInv` is types, `Lifecycle` (which states of
  the client and of its socket go together: connected means nothing is queued, a queued message means
  nothing is on the wire) and `Reports` (what is relayed, on the wire and queued is increasing, in
  this order, up to `sent`). The refinement needs all of it: a relayed message is newer than the
  last one because the wire is ordered after `relayed`, and stays so when the queue is flushed.
* `NoEarlyReplayTheorem`: `GuardInv` says that a message applied by this process within the time to live is
  still in the guard's memory with that time, which eviction preserves since the clock does not
  go back.
* `DiscordStoppedIsLastTheorem`, an action property: `Quietened` says that a client that sent `bot.stopped` is
  closed, and that a detached adapter with at most one `ready` has no interval left. It rests on the
  number of intervals never exceeding that of `ready` events, and on discord.js firing `ready` once
  (`ReadyOnce`); for Eris, which may fire it again, the proof fails where the code does, at the handle that is
  overwritten.
* `BurstBoundedTheorem`: the limiter's calls are ordered and split at the start of the window
  (`PassesOrdered`); a call that a budget of others followed before the window began is a whole window older
  than its start, and so are two calls two budgets apart (`BudgetsApart`). The calls in a period of a
  window's length are therefore at most two budgets of consecutive positions.
* `AnswerFitsTheorem`: `CrashInv` says that a job is about an error with the hash in its id and a polling
  page waits for a job with the hash it asked about: the two meet through the id only.
* `DuplicatesBoundedTheorem`: at most as many open alerts with one title as evaluations can overlap. `CreationsBounded` counts the open alerts of a title and the
  evaluations about to create one together. An evaluation gets there only when it found none open, when
  only the evaluations themselves can be about to create; a creation moves one from one side to the other.

### Single-node operations

* `OwnerUnlessRacedTheorem`: the race of `owner_race` is the only way to lose the last owner. `RolesInv` adds `CountIsGood`, that a demotion about to be written on an
  up-to-date count leaves another owner, and `CountsForOwner`, that a request only gets to count when
  it read an owner. Without them the write cannot be seen to leave anybody. The count enters through
  the cardinality of a set with more than one member, whence a second owner.
* `InSyncUnlessDriftedTheorem`, `StrandedMeansFullTheorem` and `DrainFitsTheorem`: `WorkersInv` is types,
  `InSyncUnlessDrifted` and `DrainsFit`; the first says that the race of `workers_drift` is the only way to lose the
  counters. A transaction about to write moves a bot to another worker than it read it
  on. If that is where the bot still is, the counters, which are cardinalities, change by one on each
  side; if not, the move has drifted and the statement's condition is gone.
  The other two are about `ComputeRebalanceRecommendations`, two nested loops written as recursive functions. What
  such a loop returns is an induction, done without an operator as parameter: the set of indices
  up to which a claim holds, if it misses one, misses a least one (`UpTo`), a loop is a run of its steps
  (`LoopRuns`), and `BotLoop` and `WorkerLoop` say so for a set of plans that is given and that
  every step stays in. With them: a worker that is full for others stays full until the end
  (`FullStays`), so a bot of a draining worker has a target or there is no room for it anywhere
  (`DrainingPlaced`, from `OwnDrained` and `PlacedStays`: the slots of a draining worker's own bots are as many as
  its excess, since the counters agree, which is where `InSyncUnlessDrifted` enters); and the load of a worker
  counts every bot recommended for it unless the worker is full anyway, so that what it has and what was
  recommended for it fit (`FitsIn`, `RecommendationsFit`). `DrainsFit` carries this
  through the drain: for every undisturbed drain what each worker has and what is still to come fits.
* `SoundActionAgreesTheorem`, `ParkedStaysDownTheorem`, `MaintenanceHoldsTheorem`: `ActionsInv` has
  the last two and, for every call, what it has achieved where it stands if nothing disturbed it (`Achieved`)
  and that no other call acts on its bot (`Alone`). All are needed together: a bot is parked by a sound stop, so its
  process is down because of `Achieved`, and stays down because a job's check finds it
  offline.
* `CapsHoldTheorem`: `CapsInv` adds to a request past its checks what it has checked (`Checked`), which the
  write relies on.
* `ExcessBoundedTheorem`: a count can go stale by every other creation in progress, so the
  bound itself is not inductive. `ExcessInv` says that whichever of the pending creations were inserted
  now, some plan among those of the bots and of the pending ones would allow the result (`Room`).

### The compositions

* `OperationsCompose` and `MessagingCompose`: a behaviour of the composed runs is, for each component, one of its
  behaviours (for `Placement`, `Alerts` and `Sdk` without their fairness, which the composition gives only to the
  component it exercises). So the invariants proved of a component hold in the specification TLC runs.
* `OperationsTypes` and `MessagingTypes`: the types of all components. The inductive invariants hold
  most of them; added are the bounds of the counters, that a drain that polls has a health check left
  (`ChecksBounded`), that the answer to a crash is the least rule that matches (`AnswerType`), that
  what waits in the client's queue or on the wire was sent (`SdkTypesHold`), and that the replay guard records no time but
  the clock's (`DeliveryTypes`).

### Only model-checked

Every invariant and every safety property of a step that a passing run checks is proved. What remains:

* Liveness (`SignalledDies`, `Converges`, `DrainEnds`, `RestartsReported`, `Recovers`): fairness is
  beyond the prover.
* The violations of section 5.

## 5. Findings

Each is a run that TLC refutes, with the sentence of the repository it contradicts
quoted in `PROJECT.json`.

* `runner_duplicate`: the "already running" check reads `ChildProcess.killed`, true as soon
  as SIGTERM was sent. A start during the graceful shutdown of a restart, and the restart's
  own start, leave two children.
* `runner_stuck`: `bot.update` replaces the map entry, the exit listener clears the old one, and
  the next stop waits for an exit that has already happened.
* `control_suspension`: a result that arrives after the suspension lifts it without an admin.
* `control_lost`: a command or result lost with its connection stays in flight forever, and
  the reconciler skips its workload forever.
* `gateway_drain`: the next heartbeat, or a reconnect, sets a draining or disabled agent online.

* `control_timeout`: `docs/reconciliation.md:195-196` says the lock makes concurrent instances "_safe_ (no duplicate
  commands)", and 25-31 that an overlapping tick does nothing. Prisma ends the interactive transaction, and
  with it the lock, after five seconds, while the tick goes on; another instance's tick then sends too.
* `workers_drift`: two overlapping moves of one bot both take it off the same worker, against
  `worker-assignment.ts:5-8` and `docs/architecture.md:33-34` and `57-58`.
* `owner_race`: two owners demoted by two requests that both counted two leave none, against
  `app/api/admin/users/[id]/route.ts:26`, `README.md:97-98`, `docs/security.md:45-47` and `docs/architecture.md:243`.

Other promises of the repository that the models show the code does not keep. No run is about them; the property
named states what the code does give, and the hazard at the line says so:

* `evaluate-rules.ts:13-16` calls the evaluation of alerts "Idempotent". Two overlapping ones both find no open alert
  and both create it; `DuplicatesBoundedTheorem` says how many there can be.
* `drain.ts:36-38` and `docs/reconciliation.md:114-116` say that the new agent confirms before the old copy is
  stopped. The check at `drain.ts:98` reads `observedState`, which `assignWorkloadToAgent` (`workloads.ts:109-112`) leaves as
  the old owner reported it. `StopIsFenced` says what the stop does guarantee: it names an older generation than the
  workload has, and goes to the owner only if somebody moved the workload back.
* `adapter-eris/src/index.ts:20-21` says `detach` stops the heartbeat interval. Eris may fire `ready` again, which
  overwrites the handle of the first interval (`:37`), so that it outlives `detach`. `DiscordStoppedIsLast` is about the other
  adapter.
* `docs/architecture.md:178-180` says that a maintenance window or worker drain is "honored rather than raced against" by
  restart jobs. A job past its check when the mode is switched on goes on; `MaintenanceHolds` exempts these (`early`) and no others.
* `docs/protocol-reference.md:72-74` says that delivering a command again "must be a no-op on the agent, not a duplicate
  action". The gateway has a replay guard; the agent has none and executes a repeated command again.

Other behaviour of the code, of which the documents say nothing, or that the conditions of a property exclude:

* `ServedConnection` needs `Ordered = TRUE`. With one host, `Ordered = FALSE` and two broken connections TLC
  refutes it: the late upgrade of a dead connection replaces the live one in `liveConnections`, its close
  deletes the entry, and the host stays connected, sends heartbeats, is shown online and gets no command.
* The gateway pings nobody. A half-open old connection may never close, and its heartbeat monitor then writes
  `disconnected` every 15 s over an agent that is connected again (`server.ts:106-133`), until its next heartbeat. So
  nothing is claimed about the status an agent ends up with.
* `ExcessBounded` gives the most that overlapping counts can do; it does not exclude an excess. `CapsHold` exempts
  limits checked against a plan that another request changed (`loose`), and `SoundActionAgrees` actions that overlapped.
* An allow-listed user who was made a member is promoted again by the next session (`auth.ts:24`).
* `Customer.plan` is read by no limit; a bot's limits follow the plan of the bot.
* Moving a bot to a worker of another mode leaves its process with the former supervisor.
* A drain of a worker reserves slots for unassigned bots, which it does not place.
* A drain of an agent that an admin disturbs by moving the workload back sends the stop to the agent that
  owns it now, with an old generation the agent does not check.

## 6. Not modelled

* Configuration and resource sampling of the agent: environment variables and the operating
  system's counters, pure I/O.
* The plugin registry: filled once per process with built-in plugins; what its users do with them is in
  `BotActions` (deployment hooks) and `Alerts` (rules).
* Secrets, encryption, security checks, serialization: stateless functions of their input. The
  audit log: append-only, read back by a page only. `rotate-token` replaces an encrypted text that
  nothing in the models reads. Webhooks are rows that are created and deleted.
* The web interface, except the crash button: it shows rows and calls the routes.
* Seed and demo scripts: development data and a scripted demonstration.

Within the modelled components the audit log, log output, message encoding, times other than the ones
that decide something, and the contents of specifications that no code acts on are left out;
`agentCredentialProvider.revoke` is never called.

## 7. What is left

1. `AgentRunner` as the agent of `WorkloadControl`: which of the answers of the abstract agent the
   runner gives, and which commands it never answers (`runner_stuck`).
2. What an admin's stop is worth against a tick that decided before it: the hazard at `reconciliation.ts:53`,
   for which the model has the steps and no document a promise.
3. Runs for the promises of section 5 that have none, on instances of `Alerts`, `Placement`, `Sdk` and `BotActions`
   of their own.
