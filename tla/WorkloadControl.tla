--------------------------- MODULE WorkloadControl ---------------------------
(***************************************************************************)
(* The control plane's handling of workloads: the Workload and             *)
(* AgentCommand rows, the API calls that assign and command a workload     *)
(* (lib/workloads.ts), the reconciliation tick (lib/reconciliation.ts), the *)
(* command queue and its dispatcher, and the handling of acks and results  *)
(* (lib/agent-gateway/server.ts, command-outcomes.ts).                     *)
(*                                                                         *)
(* These run in several OS processes that share only the database and the  *)
(* queue, so every await is a point where the others may run: one action   *)
(* is the code from one await that matters to the next.  Agents are        *)
(* abstract here: they answer what reaches them with success or failure.   *)
(***************************************************************************)
EXTENDS Naturals, FiniteSets

CONSTANTS
  Workloads, Agents,
  Commands,       \* slots for AgentCommand rows
  Requests,       \* concurrent API requests and inventory handlers
  Reconcilers,    \* control-plane instances that run the scheduled tick
  None,
  MaxAttempts,    \* MAX_RECONCILE_ATTEMPTS (5 in the code)
  MaxGeneration,  \* bound on generation
  MaxOps,         \* bound on admin operations, inventory reports and faults
  MaxStalled,     \* bound on the jobs one crash of the gateway leaves to run again
  Faults          \* which faults may happen

ASSUME ControlAssumption ==
  /\ None \notin Agents \cup Workloads \cup Commands \cup Reconcilers
  /\ Requests \cap Reconcilers = {}
  /\ MaxAttempts \in Nat \ {0}
  /\ MaxGeneration \in Nat /\ MaxOps \in Nat /\ MaxStalled \in Nat
  /\ Faults \subseteq {"disconnect", "crash", "timeout", "gateway"}

VARIABLES
  workload,   \* the Workload rows
  command,    \* the AgentCommand rows
  transit,    \* of each run of a command's job: where its message, or the
              \* agent's result, is
  acks,       \* commands whose agent.command_ack is on its way
  connected,  \* agents with an open connection in liveConnections
  told,       \* the generations of a workload that reached an agent: an
              \* inventory report of it carries one of them
  outcome,    \* markCommandOutcome calls that are between two awaits
  call,       \* assign, send and fence calls that are between two awaits
  tick,       \* "off", "on", or "expired": the tick's transaction timed out
  todo,       \* what the tick still has to look at, from its snapshot
  lock,       \* holder of the advisory transaction lock
  ops         \* operations and faults so far, bounded by MaxOps

vars == <<workload, command, transit, acks, connected, told, outcome, call,
          tick, todo, lock, ops>>

Callers == Requests \cup Reconcilers

(* BullMQ runs a job again when the worker that took it dies before the job *)
(* is recorded as completed, once (its maxStalledCount): run d[2] of the    *)
(* job of command d[1].                                                     *)
JobRuns == Commands \X {1, 2}

(* "none": not run; "done": the answer was handled, or is lost. *)
Stages == {"none", "queued", "sent", "executing", "ok", "error", "done"}

InFlightStatus == {"pending", "accepted"}
Terminal == {"succeeded", "failed"}

(* The control plane treats bot.restart as it treats bot.start: "start" is both. *)
Types == {"update", "start", "stop"}

WorkloadRows ==
  [assigned : Agents \cup {None}, generation : Nat, desired : {"running", "stopped"},
   observed : {"unknown", "running", "stopped", "failed"}, observedGeneration : Nat,
   attempts : Nat, backoff : BOOLEAN, suspended : BOOLEAN]

(* "free" is a slot with no row.  by: who issued the command. *)
CommandRows ==
  [status : {"free"} \cup InFlightStatus \cup Terminal, agent : Agents \cup {None},
   w : Workloads \cup {None}, type : Types, gen : Nat,
   by : {"admin", "assign", "fence", "reconcile"}]

FreeRow == [status |-> "free", agent |-> None, w |-> None, type |-> "stop",
            gen |-> 0, by |-> "admin"]

Calls ==
  [pc : {"idle", "read", "record", "enqueue", "desired"}, w : Workloads \cup {None},
   type : Types, agent : Agents \cup {None}, gen : Nat,
   by : {"admin", "assign", "fence", "reconcile"}, cmd : Commands \cup {None}]

Idle == [pc |-> "idle", w |-> None, type |-> "stop", agent |-> None, gen |-> 0,
         by |-> "admin", cmd |-> None]

Outcomes ==
  [pc : {"idle", "read", "write"}, ok : BOOLEAN, gen : Nat, attempts : Nat]

NoOutcome == [pc |-> "idle", ok |-> FALSE, gen |-> 0, attempts |-> 0]

(* The defaults of prisma/schema.prisma, which createWorkload relies on. *)
Init ==
  /\ workload = [w \in Workloads |->
       [assigned |-> None, generation |-> 1, desired |-> "stopped",
        observed |-> "unknown", observedGeneration |-> 0, attempts |-> 0,
        backoff |-> FALSE, suspended |-> FALSE]]
  /\ command = [c \in Commands |-> FreeRow]
  /\ transit = [d \in JobRuns |-> "none"]
  /\ acks = {}
  /\ connected = [a \in Agents |-> TRUE]
  /\ told = {}
  /\ outcome = [d \in JobRuns |-> NoOutcome]
  /\ call = [t \in Callers |-> Idle]
  /\ tick = [r \in Reconcilers |-> "off"]
  /\ todo = [r \in Reconcilers |-> {}]
  /\ lock = None
  /\ ops = 0

InFlight(w) == \E c \in Commands : command[c].w = w /\ command[c].status \in InFlightStatus

Spend == ops < MaxOps /\ ops' = ops + 1

-----------------------------------------------------------------------------
(* API calls: lib/workloads.ts and the routes that call it *)

(* Mutant of AssignWorkloadToAgent: the generation is bumped for the first *)
(* assignment only.                                                        *)
AssignWithoutBump(t, w, a) ==
  /\ call[t].pc = "idle" /\ Spend
  /\ LET g == IF workload[w].assigned = None THEN 2 ELSE workload[w].generation IN
       /\ workload' = [workload EXCEPT ![w].assigned = a, ![w].generation = g]
       /\ call' = [call EXCEPT ![t] =
            [pc |-> "record", w |-> w, type |-> "update", agent |-> a, gen |-> g,
             by |-> "assign", cmd |-> None]]
  /\ UNCHANGED <<command, transit, acks, connected, told, outcome, tick, todo, lock>>

(* assignWorkloadToAgent up to the row update.  What it read before is only *)
(* used for immutable fields and the audit log.                             *)
AssignWorkloadToAgent(t, w, a) ==
  /\ call[t].pc = "idle" /\ Spend
  /\ workload[w].generation < MaxGeneration
  /\ LET g == workload[w].generation + 1 IN
       /\ workload' = [workload EXCEPT ![w].assigned = a, ![w].generation = g]
       /\ call' = [call EXCEPT ![t] =
            [pc |-> "record", w |-> w, type |-> "update", agent |-> a, gen |-> g,
             by |-> "assign", cmd |-> None]]
  /\ UNCHANGED <<command, transit, acks, connected, told, outcome, tick, todo, lock>>

SendCall(w, type, by) ==
  [pc |-> "read", w |-> w, type |-> type, agent |-> None, gen |-> 0, by |-> by,
   cmd |-> None]

(* POST start, stop or restart: the route calls sendWorkloadCommand. *)
RequestCommand(t, w, type) ==
  /\ call[t].pc = "idle" /\ Spend
  /\ call' = [call EXCEPT ![t] = SendCall(w, type, "admin")]
  /\ UNCHANGED <<workload, command, transit, acks, connected, told, outcome, tick, todo, lock>>

(* What connected agents report after each heartbeat: entry x says that agent *)
(* x.a runs x.w, which it was told at generation x.gen.  Whether the child of  *)
(* an entry runs is not in this module, so any entry may be reported.          *)
ReportedInventory == {x \in told : connected[x.a]}

(* fenceStaleAgent: a stop for an agent that does not own the workload *)
FenceStaleAgent(x) ==
  [pc |-> "record", w |-> x.w, type |-> "stop", agent |-> x.a, gen |-> x.gen,
   by |-> "fence", cmd |-> None]

(* handleInventory for one entry: one of the current owner is ignored. *)
HandleInventory(t, x) ==
  /\ call[t].pc = "idle" /\ Spend
  /\ workload[x.w].assigned # x.a
  /\ call' = [call EXCEPT ![t] = FenceStaleAgent(x)]
  /\ UNCHANGED <<workload, command, transit, acks, connected, told, outcome, tick, todo, lock>>

ClearReconciliationFailure(w) ==
  /\ Spend
  /\ workload' = [workload EXCEPT ![w].attempts = 0, ![w].backoff = FALSE,
                                  ![w].suspended = FALSE]
  /\ UNCHANGED <<command, transit, acks, connected, told, outcome, call, tick, todo, lock>>

(* sendWorkloadCommand reads the row; without an assigned agent it returns. *)
ReadWorkload(t) ==
  /\ call[t].pc = "read"
  /\ LET row == workload[call[t].w] IN
       call' = [call EXCEPT ![t] =
         IF row.assigned = None THEN Idle
         ELSE [@ EXCEPT !.pc = "record", !.agent = row.assigned, !.gen = row.generation]]
  /\ UNCHANGED <<workload, command, transit, acks, connected, told, outcome, tick, todo, lock, ops>>

(* recordAndEnqueueCommand: first the row ... *)
RecordCommand(t, c) ==
  /\ call[t].pc = "record" /\ command[c].status = "free"
  /\ command' = [command EXCEPT ![c] =
       [status |-> "pending", agent |-> call[t].agent, w |-> call[t].w,
        type |-> call[t].type, gen |-> call[t].gen, by |-> call[t].by]]
  /\ call' = [call EXCEPT ![t].pc = "enqueue", ![t].cmd = c]
  /\ UNCHANGED <<workload, transit, acks, connected, told, outcome, tick, todo, lock, ops>>

(* ... then the job; sendWorkloadCommand still has to write desiredState. *)
EnqueueCommand(t) ==
  /\ call[t].pc = "enqueue"
  /\ transit' = [transit EXCEPT ![<<call[t].cmd, 1>>] = "queued"]
  /\ call' = [call EXCEPT ![t] =
       IF call[t].by \in {"admin", "reconcile"} THEN [@ EXCEPT !.pc = "desired"] ELSE Idle]
  /\ UNCHANGED <<workload, command, acks, connected, told, outcome, tick, todo, lock, ops>>

(* Mutant of WriteDesired: the command type is stored as the desired state. *)
WriteDesiredType(t) ==
  /\ call[t].pc = "desired"
  /\ workload' = [workload EXCEPT ![call[t].w].desired = call[t].type]
  /\ call' = [call EXCEPT ![t] = Idle]
  /\ UNCHANGED <<command, transit, acks, connected, told, outcome, tick, todo, lock, ops>>

WriteDesired(t) ==
  /\ call[t].pc = "desired"
  /\ workload' = [workload EXCEPT ![call[t].w].desired =
                    IF call[t].type = "stop" THEN "stopped" ELSE "running"]
  /\ call' = [call EXCEPT ![t] = Idle]
  /\ UNCHANGED <<command, transit, acks, connected, told, outcome, tick, todo, lock, ops>>

-----------------------------------------------------------------------------
(* The reconciliation tick: lib/reconciliation.ts *)

(* A row the tick goes on with after looking at its snapshot alone *)
NeedsCommand(row) ==
  /\ row.assigned # None /\ ~row.suspended /\ ~row.backoff
  /\ (row.desired = "running") # (row.observed = "running")

(* The lock is tried once: a tick that does not get it does nothing. *)
TickBegin(r) ==
  /\ tick[r] = "off" /\ call[r].pc = "idle" /\ lock = None
  /\ lock' = r
  /\ tick' = [tick EXCEPT ![r] = "on"]
  /\ todo' = [todo EXCEPT ![r] =
       {[w |-> w, type |-> IF workload[w].desired = "running" THEN "start" ELSE "stop"] :
          w \in {v \in Workloads : NeedsCommand(workload[v])}}]
  /\ UNCHANGED <<workload, command, transit, acks, connected, told, outcome, call, ops>>

(* The next workload of the snapshot: skipped when a command is in flight, *)
(* otherwise sendWorkloadCommand is called, outside of the transaction.    *)
TickCheck(r, x) ==
  /\ tick[r] = "on" /\ call[r].pc = "idle" /\ x \in todo[r]
  /\ todo' = [todo EXCEPT ![r] = @ \ {x}]
  /\ \/ InFlight(x.w) /\ UNCHANGED call
     \/ ~InFlight(x.w) /\ call' = [call EXCEPT ![r] = SendCall(x.w, x.type, "reconcile")]
  /\ UNCHANGED <<workload, command, transit, acks, connected, told, outcome, tick, lock, ops>>

(* The transaction ends; so does a tick whose transaction expired, as its *)
(* next query throws.                                                     *)
TickEnd(r) ==
  /\ call[r].pc = "idle"
  /\ \/ tick[r] = "on" /\ todo[r] = {} /\ lock' = None
     \/ tick[r] = "expired" /\ UNCHANGED lock
  /\ tick' = [tick EXCEPT ![r] = "off"]
  /\ todo' = [todo EXCEPT ![r] = {}]
  /\ UNCHANGED <<workload, command, transit, acks, connected, told, outcome, call, ops>>

(* Prisma ends an interactive transaction after 5 seconds, and with it the *)
(* lock; a sendWorkloadCommand in progress does not notice.                *)
TickExpires(r) ==
  /\ "timeout" \in Faults /\ tick[r] = "on" /\ Spend
  /\ lock' = None
  /\ tick' = [tick EXCEPT ![r] = "expired"]
  /\ UNCHANGED <<workload, command, transit, acks, connected, told, outcome, call, todo>>

(* The process of t dies, or the database or queue call it awaits throws. *)
Crash(t) ==
  /\ "crash" \in Faults /\ Spend
  /\ call[t].pc # "idle"
  /\ call' = [call EXCEPT ![t] = Idle]
  /\ IF t \in Reconcilers
       THEN /\ tick' = [tick EXCEPT ![t] = "off"]
            /\ todo' = [todo EXCEPT ![t] = {}]
            /\ lock' = IF lock = t THEN None ELSE lock
       ELSE UNCHANGED <<tick, todo, lock>>
  /\ UNCHANGED <<workload, command, transit, acks, connected, told, outcome>>

(* nextReconcileAttemptAt passes. *)
BackoffPasses(w) ==
  /\ workload[w].backoff
  /\ workload' = [workload EXCEPT ![w].backoff = FALSE]
  /\ UNCHANGED <<command, transit, acks, connected, told, outcome, call, tick, todo, lock, ops>>

-----------------------------------------------------------------------------
(* Gateway: the dispatcher and the ack and result handlers of server.ts *)

(* Mutant of MarkCommandOutcome: the row of a failed command stays in flight. *)
MarkSuccessOnly(d, ok) ==
  /\ command' = IF ok THEN [command EXCEPT ![d[1]].status = "succeeded"] ELSE command
  /\ outcome' = [outcome EXCEPT ![d] =
       IF command[d[1]].type = "update" THEN NoOutcome
       ELSE [NoOutcome EXCEPT !.pc = "read", !.ok = ok]]

(* markCommandOutcome up to the update of the AgentCommand row, whatever its *)
(* status is.  It then returns for a bot.update, which says nothing about    *)
(* the observed state.                                                       *)
MarkCommandOutcome(d, ok) ==
  /\ command' = [command EXCEPT ![d[1]].status = IF ok THEN "succeeded" ELSE "failed"]
  /\ outcome' = [outcome EXCEPT ![d] =
       IF command[d[1]].type = "update" THEN NoOutcome
       ELSE [NoOutcome EXCEPT !.pc = "read", !.ok = ok]]

(* The commandWorker takes jobs five at a time, so in any order.  *)
DispatchCommand(d) ==
  /\ transit[d] = "queued"
  /\ \/ /\ connected[command[d[1]].agent]
        /\ transit' = [transit EXCEPT ![d] = "sent"]
        /\ UNCHANGED <<command, outcome>>
     \/ /\ ~connected[command[d[1]].agent]
        /\ transit' = [transit EXCEPT ![d] = "done"]
        /\ MarkCommandOutcome(d, FALSE)
  /\ UNCHANGED <<workload, acks, connected, told, call, tick, todo, lock, ops>>

(* An update, and any command about a workload the agent has an entry of, *)
(* sets the entry's generation.                                           *)
TrackGeneration(row) ==
  IF row.type = "update" \/ \E x \in told : x.a = row.agent /\ x.w = row.w
  THEN told \cup {[a |-> row.agent, w |-> row.w, gen |-> row.gen]} ELSE told

(* handleWorkloadCommand: the agent acks a command before it executes it, *)
(* and does not know whether it has executed it before.                   *)
AgentReceives(d) ==
  /\ transit[d] = "sent"
  /\ transit' = [transit EXCEPT ![d] = "executing"]
  /\ acks' = acks \cup {d[1]}
  /\ told' = TrackGeneration(command[d[1]])
  /\ UNCHANGED <<workload, command, connected, outcome, call, tick, todo, lock, ops>>

(* forwardBotMessage drops the result when the agent is not connected. *)
AgentFinishes(d, ok) ==
  /\ transit[d] = "executing"
  /\ transit' = [transit EXCEPT ![d] =
       IF ~connected[command[d[1]].agent] THEN "done" ELSE IF ok THEN "ok" ELSE "error"]
  /\ UNCHANGED <<workload, command, acks, connected, told, outcome, call, tick, todo, lock, ops>>

(* Mutant of HandleAck: the update is not restricted to pending rows. *)
HandleAckAlways(c) ==
  /\ c \in acks
  /\ acks' = acks \ {c}
  /\ command' = [command EXCEPT ![c].status = "accepted"]
  /\ UNCHANGED <<workload, transit, connected, told, outcome, call, tick, todo, lock, ops>>

(* Messages are handled concurrently, so an ack may be handled after the *)
(* result of the same command.                                           *)
HandleAck(c) ==
  /\ c \in acks
  /\ acks' = acks \ {c}
  /\ command' = IF command[c].status = "pending"
                  THEN [command EXCEPT ![c].status = "accepted"] ELSE command
  /\ UNCHANGED <<workload, transit, connected, told, outcome, call, tick, todo, lock, ops>>

HandleCommandResult(d) ==
  /\ transit[d] \in {"ok", "error"}
  /\ MarkCommandOutcome(d, transit[d] = "ok")
  /\ transit' = [transit EXCEPT ![d] = "done"]
  /\ UNCHANGED <<workload, acks, connected, told, call, tick, todo, lock, ops>>

(* markCommandOutcome reads the workload; only its owner's result counts. *)
OutcomeReads(d) ==
  /\ outcome[d].pc = "read"
  /\ LET row == workload[command[d[1]].w] IN
       outcome' = [outcome EXCEPT ![d] =
         IF row.assigned # command[d[1]].agent THEN NoOutcome
         ELSE [@ EXCEPT !.pc = "write", !.gen = row.generation, !.attempts = row.attempts]]
  /\ UNCHANGED <<workload, command, transit, acks, connected, told, call, tick, todo, lock, ops>>

ObservedStateFor(type, ok) ==
  IF ~ok THEN "failed" ELSE IF type = "stop" THEN "stopped" ELSE "running"

(* Mutant of OutcomeRow: one attempt too many before the suspension. *)
OutcomeRowLate(row, type, o) ==
  IF o.ok
    THEN [row EXCEPT !.observed = ObservedStateFor(type, TRUE),
                     !.observedGeneration = o.gen,
                     !.attempts = 0, !.backoff = FALSE]
    ELSE LET n == o.attempts + 1 IN
         [row EXCEPT !.observed = ObservedStateFor(type, FALSE),
                     !.attempts = n,
                     !.backoff = (n <= MaxAttempts),
                     !.suspended = (n > MaxAttempts)]

(* The Workload update, computed from the row that was read before it *)
OutcomeRow(row, type, o) ==
  IF o.ok
    THEN [row EXCEPT !.observed = ObservedStateFor(type, TRUE),
                     !.observedGeneration = o.gen,
                     !.attempts = 0, !.backoff = FALSE]
    ELSE LET n == o.attempts + 1 IN
         [row EXCEPT !.observed = ObservedStateFor(type, FALSE),
                     !.attempts = n,
                     !.backoff = (n < MaxAttempts),
                     !.suspended = (n >= MaxAttempts)]

OutcomeWrites(d) ==
  /\ outcome[d].pc = "write"
  /\ workload' = [workload EXCEPT ![command[d[1]].w] =
       OutcomeRow(@, command[d[1]].type, outcome[d])]
  /\ outcome' = [outcome EXCEPT ![d] = NoOutcome]
  /\ UNCHANGED <<command, transit, acks, connected, told, call, tick, todo, lock, ops>>

OnWire == {"sent", "ok", "error"}

(* The connection of a breaks: everything on the wire is lost.  *)
Disconnect(a) ==
  /\ "disconnect" \in Faults /\ connected[a] /\ Spend
  /\ connected' = [connected EXCEPT ![a] = FALSE]
  /\ transit' = [d \in JobRuns |->
       IF command[d[1]].agent = a /\ transit[d] \in OnWire THEN "done" ELSE transit[d]]
  /\ acks' = {c \in acks : command[c].agent # a}
  /\ UNCHANGED <<workload, command, told, outcome, call, tick, todo, lock>>

(* The gateway process dies: every connection breaks, and the handlers that *)
(* wait for the database stop where they are.  The jobs its worker took and *)
(* that are not recorded as completed, any of those it dispatched, are in   *)
(* the queue again, for the process that replaces it.                       *)
GatewayCrash ==
  /\ "gateway" \in Faults /\ Spend
  /\ connected' = [a \in Agents |-> FALSE]
  /\ \E again \in SUBSET {c \in Commands : transit[<<c, 1>>] \notin {"none", "queued"}
                                           /\ transit[<<c, 2>>] = "none"} :
       /\ Cardinality(again) <= MaxStalled
       /\ transit' = [d \in JobRuns |->
            IF d[2] = 2 /\ d[1] \in again THEN "queued"
            ELSE IF transit[d] \in OnWire THEN "done" ELSE transit[d]]
  /\ acks' = {}
  /\ outcome' = [d \in JobRuns |-> NoOutcome]
  /\ call' = [t \in Callers |-> IF call[t].by = "fence" THEN Idle ELSE call[t]]
  /\ UNCHANGED <<workload, command, told, tick, todo, lock>>

Reconnect(a) ==
  /\ ~connected[a]
  /\ connected' = [connected EXCEPT ![a] = TRUE]
  /\ UNCHANGED <<workload, command, transit, acks, told, outcome, call, tick, todo, lock, ops>>

(* Bookkeeping of the model: the row of a finished command that nothing     *)
(* refers to any more has no further effect, and its slot is used again.    *)
Archive(c) ==
  /\ command[c].status \in Terminal /\ c \notin acks
  /\ \A d \in JobRuns : d[1] = c => transit[d] \in {"none", "done"} /\ outcome[d].pc = "idle"
  /\ \A t \in Callers : call[t].cmd # c
  /\ command' = [command EXCEPT ![c] = FreeRow]
  /\ transit' = [d \in JobRuns |-> IF d[1] = c THEN "none" ELSE transit[d]]
  /\ UNCHANGED <<workload, acks, connected, told, outcome, call, tick, todo, lock, ops>>

-----------------------------------------------------------------------------

Admin ==
  \/ \E t \in Requests, w \in Workloads :
       \/ \E a \in Agents : AssignWorkloadToAgent(t, w, a)
       \/ \E type \in Types \ {"update"} : RequestCommand(t, w, type)
  \/ \E t \in Requests, x \in ReportedInventory : HandleInventory(t, x)
  \/ \E w \in Workloads : ClearReconciliationFailure(w)

CallStep(t) ==
  \/ ReadWorkload(t)
  \/ \E c \in Commands : RecordCommand(t, c)
  \/ EnqueueCommand(t)
  \/ WriteDesired(t)

TickStep(r) == TickBegin(r) \/ (\E x \in todo[r] : TickCheck(r, x)) \/ TickEnd(r)

GatewayStep(d) ==
  \/ DispatchCommand(d)
  \/ HandleCommandResult(d)
  \/ OutcomeReads(d)
  \/ OutcomeWrites(d)

AgentStep(d) == AgentReceives(d) \/ \E ok \in BOOLEAN : AgentFinishes(d, ok)

Next ==
  \/ Admin
  \/ \E t \in Callers : CallStep(t) \/ Crash(t)
  \/ \E r \in Reconcilers : TickStep(r) \/ TickExpires(r)
  \/ \E d \in JobRuns : GatewayStep(d) \/ AgentStep(d)
  \/ \E c \in Commands : HandleAck(c) \/ Archive(c)
  \/ \E a \in Agents : Disconnect(a) \/ Reconnect(a)
  \/ GatewayCrash
  \/ \E w \in Workloads : BackoffPasses(w)

Spec == Init /\ [][Next]_vars

(* A call, a job and a handler that can go on do; the tick is scheduled    *)
(* every 30 seconds; an agent executes what it got and reconnects with     *)
(* bounded backoff; time passes.  Admins and faults owe nothing.           *)
Fairness ==
  /\ \A t \in Callers : WF_vars(CallStep(t))
  /\ \A r \in Reconcilers : WF_vars(TickStep(r))
  /\ \A d \in JobRuns : WF_vars(GatewayStep(d)) /\ WF_vars(AgentStep(d))
  /\ \A c \in Commands : WF_vars(HandleAck(c)) /\ WF_vars(Archive(c))
  /\ \A a \in Agents : WF_vars(Reconnect(a))
  /\ \A w \in Workloads : WF_vars(BackoffPasses(w))

FairSpec == Spec /\ Fairness

-----------------------------------------------------------------------------

(* Every variable has its type. *)
TypeOK ==
  /\ workload \in [Workloads -> WorkloadRows]
  /\ command \in [Commands -> CommandRows]
  /\ transit \in [JobRuns -> Stages]
  /\ acks \subseteq Commands
  /\ connected \in [Agents -> BOOLEAN]
  /\ told \subseteq [a : Agents, w : Workloads, gen : Nat]
  /\ outcome \in [JobRuns -> Outcomes]
  /\ call \in [Callers -> Calls]
  /\ tick \in [Reconcilers -> {"off", "on", "expired"}]
  /\ todo \in [Reconcilers -> SUBSET [w : Workloads, type : {"start", "stop"}]]
  /\ lock \in Reconcilers \cup {None}
  /\ ops \in 0..MaxOps

(* The generation is a fencing token: no command of a workload, recorded or *)
(* about to be, and no agent holds a generation above the workload's, and   *)
(* one with the current generation is the current owner's, so a command to, *)
(* or an inventory entry of, a former owner can be told from the ones that  *)
(* count (assignWorkloadToAgent bumps it in the statement that moves the    *)
(* owner; a fence carries what the stale agent reported).                   *)
TokenOf(row, gen, agent) ==
  gen <= row.generation /\ (gen = row.generation => agent = row.assigned)

TokenNamesOwner ==
  /\ \A c \in Commands : command[c].status # "free" =>
       TokenOf(workload[command[c].w], command[c].gen, command[c].agent)
  /\ \A t \in Callers : call[t].pc \in {"record", "enqueue"} =>
       TokenOf(workload[call[t].w], call[t].gen, call[t].agent)
  /\ \A x \in told : TokenOf(workload[x.w], x.gen, x.a)

(* A command that ended stays ended: a late ack, or the ack of a job that   *)
(* was run again, reopens no row (the ack handler updates pending rows      *)
(* only), so the in-flight check of the reconciler never counts a command   *)
(* nobody will answer again.                                                *)
EndedStaysEnded ==
  [][\A c \in Commands : command[c].status \in Terminal =>
       command'[c].status \in Terminal \cup {"free"}]_vars

(* A workload that used up its attempts is suspended and has no retry time, *)
(* whichever of several concurrent outcomes and clears was written last.    *)
ExhaustedIsSuspended ==
  \A w \in Workloads :
    workload[w].attempts >= MaxAttempts => workload[w].suspended /\ ~workload[w].backoff

(* Self-healing: an assigned workload whose desired and observed state      *)
(* disagree comes to agree, or is suspended after repeated failures.        *)
Converges ==
  \A w \in Workloads :
    (workload[w].assigned # None /\
       (workload[w].desired = "running") # (workload[w].observed = "running"))
    ~> (\/ (workload[w].desired = "running") = (workload[w].observed = "running")
        \/ workload[w].suspended)

-----------------------------------------------------------------------------

(* docs/reconciliation.md:25-31, 195-196: overlapping ticks are "safe"      *)
(* because of the lock and the in-flight check, "no duplicate commands":    *)
(* reconcilers never have two commands in flight for one workload.  True,   *)
(* with crashes anywhere in a tick, as long as no tick outlives Prisma's    *)
(* transaction timeout (theorem ReconcilersExclude); TickExpires breaks it. *)
OneReconcilerCommand ==
  \A c, d \in Commands :
    /\ command[c].by = "reconcile" /\ command[d].by = "reconcile"
    /\ command[c].status \in InFlightStatus /\ command[d].status \in InFlightStatus
    /\ command[c].w = command[d].w
    => c = d

(* docs/reconciliation.md:151-157: a suspended workload is not touched      *)
(* "until an admin calls clearReconciliationFailure()", "deliberately never *)
(* automatic".                                                              *)
SuspensionIsTerminal ==
  [][\A w \in Workloads : workload[w].suspended /\ ~workload'[w].suspended =>
       ClearReconciliationFailure(w)]_vars

=============================================================================
