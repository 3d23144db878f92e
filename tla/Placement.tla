------------------------------- MODULE Placement -------------------------------
(***************************************************************************)
(* Where workloads are placed: the scoring of packages/scheduler, the      *)
(* context lib/scheduling.ts gives it, and drainAgent (lib/agents/drain.ts) *)
(* with one step per await, next to admins who assign and command          *)
(* workloads, agents that come and go, and a second drain.                 *)
(* WorkloadControl has what becomes of the commands sent here.             *)
(***************************************************************************)
EXTENDS Integers, FiniteSets

CONSTANTS
  Agents,        \* agent ids: numbers, for localeCompare's order
  Workloads,
  Fleets,        \* what the agents may offer: functions from Agents
  Demands,       \* what the workloads may ask for: functions from Workloads
  Homes,         \* initial assignments
  DrainCalls,    \* requests that run drainAgent, perhaps for the same agent
  HealthChecks,  \* HEALTH_CHECK_ATTEMPTS
  MaxEvents      \* bound on requests, changes of status and results

NoAgent == 0
Unknown == -1    \* a number that is null in the database

(* What the scheduler knows of an agent besides its status and the number of *)
(* its workloads: total and avail are its memory, cap is maxWorkloads; and   *)
(* of a workload besides the agent it is on.                                 *)
OfferFields == {"caps", "labels", "region", "env", "total", "avail", "cap", "failures"}
NeedFields == {"customer", "capability", "memory", "required", "preferred"}

ASSUME PlacementAssumption ==
  /\ \A f \in Fleets, a \in Agents :
       /\ DOMAIN f[a] = OfferFields
       /\ f[a].total \in Int /\ f[a].avail \in Int /\ f[a].failures \in Nat
  /\ \A n \in Demands, w \in Workloads :
       DOMAIN n[w] = NeedFields /\ IsFiniteSet(n[w].preferred)
  /\ Agents \subseteq Nat \ {NoAgent} /\ IsFiniteSet(Agents)
  /\ IsFiniteSet(Workloads) /\ IsFiniteSet(DrainCalls)
  /\ HealthChecks \in Nat \ {0} /\ MaxEvents \in Nat
  /\ Homes \subseteq [Workloads -> Agents \cup {NoAgent}]

VARIABLES
  offer,     \* resources, labels and recent failures of each agent
  need,      \* specification and customer of each workload
  agStatus,  \* Agent.status
  place,     \* Workload.assignedAgentId
  wlGen,     \* Workload.generation
  wants,     \* Workload.desiredState is running
  runs,      \* Workload.observedState is running
  drain,     \* progress of each drainAgent call
  events

placementVars == <<offer, need, agStatus, place, wlGen, wants, runs, drain, events>>

-----------------------------------------------------------------------------
(* packages/scheduler.  w is what toSchedulerWorkload makes of a row, hosted *)
(* the other workloads on each agent; the scheduler is given their number.   *)

(* Math.round of n/d for n >= 0, d > 0, in exact arithmetic. *)
Rounded(n, d) == (2 * n + d) \div (2 * d)

Eligible(a, w, hosted) ==
  /\ agStatus[a] = "online"
  /\ w.capability = "" \/ w.capability \in offer[a].caps
  /\ w.required \subseteq offer[a].labels
  /\ w.environment = "" \/ w.environment = offer[a].env
  /\ ~ (w.memory # Unknown /\ offer[a].avail # Unknown /\ offer[a].avail < w.memory)
  /\ ~ (offer[a].cap # Unknown /\ Cardinality(hosted[a]) >= offer[a].cap)

(* total and agents: the sum and the number the average is taken from *)
Score(a, w, hosted, neighbours, total, agents) ==
  LET count == Cardinality(hosted[a])
      region == IF w.region # "" /\ offer[a].region = w.region THEN 30 ELSE 0
      labels == 10 * Cardinality(w.preferred \cap offer[a].labels)
      memory == IF offer[a].total > 0 /\ offer[a].avail # Unknown
                  THEN Rounded(offer[a].avail * 20, offer[a].total) ELSE 0
      spread == IF total > 0 /\ total > count * agents
                  THEN Rounded((total - count * agents) * 10, total) ELSE 0
      apart  == IF a \in neighbours THEN 0 ELSE 10
      stays  == IF w.current = a THEN 10 ELSE 0
  IN region + labels + memory + spread + apart + stays - 5 * offer[a].failures

(* a comes before all others of S in the sort: highest score, then lowest id. *)
SortsFirst(S, score, a) ==
  a \in S /\ \A b \in S \ {a} : score[a] > score[b] \/ (score[a] = score[b] /\ a < b)

(* No workload is on two agents: the sum of the counts is the size of the union. *)
ScheduleWorkload(w, pool, hosted, neighbours) ==
  LET total == Cardinality(UNION {hosted[a] : a \in pool})
      score == [a \in pool |-> Score(a, w, hosted, neighbours, total, Cardinality(pool))]
      eligible == {a \in pool : Eligible(a, w, hosted)}
  IN IF eligible = {} THEN NoAgent ELSE CHOOSE a \in eligible : SortsFirst(eligible, score, a)

-----------------------------------------------------------------------------
(* lib/scheduling.ts *)

(* Mutant of BuildSchedulerContext: the workload itself is counted. *)
BuildFullContext(p, w) ==
  [hosted |-> [a \in Agents |-> {x \in Workloads : p[x] = a}],
   neighbours |-> {p[x] : x \in {y \in Workloads : need[y].customer = need[w].customer}}]

(* For the assignments p: the workloads on each agent, and the agents with a *)
(* workload of w's customer.                                                *)
BuildSchedulerContext(p, w) ==
  LET others == Workloads \ {w} IN
  [hosted |-> [a \in Agents |-> {x \in others : p[x] = a}],
   neighbours |-> {p[x] : x \in {y \in others : need[y].customer = need[w].customer}}]

(* A specification has neither an environment nor a region. *)
ToSchedulerWorkload(w, current) ==
  [capability |-> need[w].capability, memory |-> need[w].memory,
   required |-> need[w].required, preferred |-> need[w].preferred,
   environment |-> "", region |-> "", current |-> current]

(* The dry run; the row that records its decision is read by nothing. *)
ComputeSchedulingRecommendation(p, w) ==
  LET context == BuildSchedulerContext(p, w) IN
  ScheduleWorkload(ToSchedulerWorkload(w, p[w]), Agents, context.hosted, context.neighbours)

-----------------------------------------------------------------------------
(* drainAgent.  todo: the snapshot's workloads still to be moved, with the   *)
(* snapshot's generation and desired state; w, target: the one being moved.  *)

DrainIdle ==
  [pc |-> "idle", agent |-> NoAgent, todo |-> {},
   snap |-> [w \in Workloads |-> [gen |-> 0, wants |-> FALSE]],
   w |-> NoAgent, target |-> NoAgent, polls |-> 0,
   stranded |-> {}, seen |-> [w \in Workloads |-> 0], full |-> FALSE]

PlacementInit ==
  /\ offer \in Fleets /\ need \in Demands
  /\ agStatus = [a \in Agents |-> "online"]
  /\ place \in Homes
  /\ wlGen = [w \in Workloads |-> IF place[w] = NoAgent THEN 1 ELSE 2]
  /\ wants \in [Workloads -> BOOLEAN] /\ runs = wants
  /\ \A w \in Workloads : place[w] = NoAgent => ~wants[w]
  /\ drain = [d \in DrainCalls |-> DrainIdle]
  /\ events = 0

Occurs == events < MaxEvents /\ events' = events + 1
Fixed == UNCHANGED <<offer, need>>

Goto(d, pc) == drain' = [drain EXCEPT ![d].pc = pc]

MarkDraining(d, a) ==
  /\ drain[d].pc = "idle" /\ Occurs
  /\ agStatus' = [agStatus EXCEPT ![a] = "draining"]
  /\ drain' = [drain EXCEPT ![d].pc = "snapshot", ![d].agent = a]
  /\ Fixed /\ UNCHANGED <<place, wlGen, wants, runs>>

WorkloadsToMove(d) ==
  /\ drain[d].pc = "snapshot"
  /\ drain' = [drain EXCEPT ![d].pc = "loop",
                 ![d].todo = {w \in Workloads : place[w] = drain[d].agent},
                 ![d].snap = [w \in Workloads |-> [gen |-> wlGen[w], wants |-> wants[w]]]]
  /\ Fixed /\ UNCHANGED <<agStatus, place, wlGen, wants, runs, events>>

(* The context is read anew for each workload.  findMany has no order. *)
ChooseTarget(d, w) ==
  /\ drain[d].pc = "loop" /\ w \in drain[d].todo
  /\ LET a == drain[d].agent
         context == BuildSchedulerContext(place, w)
         x == ScheduleWorkload(ToSchedulerWorkload(w, a), Agents \ {a},
                               context.hosted, context.neighbours)
     IN drain' = [drain EXCEPT ![d].todo = @ \ {w}, ![d].w = w, ![d].target = x,
                    ![d].pc = IF x = NoAgent THEN "loop" ELSE "assign",
                    ![d].stranded = IF x = NoAgent THEN @ \cup {w} ELSE @]
  /\ Fixed /\ UNCHANGED <<agStatus, place, wlGen, wants, runs, events>>

(* Mutant of Relocate: the old agent is stopped before the new one starts. *)
RelocateLate(d) ==
  /\ drain[d].pc = "assign"
  /\ Goto(d, "stop")
  /\ Fixed /\ UNCHANGED <<agStatus, place, wlGen, wants, runs, events>>

(* assignWorkloadToAgent, which looks at nobody's status. *)
Relocate(d) ==
  /\ drain[d].pc = "assign"
  /\ LET w == drain[d].w IN
       /\ place' = [place EXCEPT ![w] = drain[d].target]
       /\ wlGen' = [wlGen EXCEPT ![w] = @ + 1]
       /\ Goto(d, IF drain[d].snap[w].wants THEN "start" ELSE "stop")
  /\ Fixed /\ UNCHANGED <<agStatus, wants, runs, events>>

(* sendWorkloadCommand with "start": to the owner, whoever that is now. *)
StartNew(d) ==
  /\ drain[d].pc = "start"
  /\ wants' = [wants EXCEPT ![drain[d].w] = TRUE]
  /\ drain' = [drain EXCEPT ![d].pc = "poll", ![d].polls = 0]
  /\ Fixed /\ UNCHANGED <<agStatus, place, wlGen, runs, events>>

(* Mutant of HealthCheck: waits for the confirmation. *)
HealthCheckForever(d) ==
  /\ drain[d].pc = "poll"
  /\ runs[drain[d].w] /\ place[drain[d].w] = drain[d].target
  /\ drain' = [drain EXCEPT ![d].pc = "stop"]
  /\ Fixed /\ UNCHANGED <<agStatus, place, wlGen, wants, runs, events>>

(* Mutant of HealthCheck: one look too many. *)
HealthCheckOnceMore(d) ==
  /\ drain[d].pc = "poll"
  /\ LET ok == runs[drain[d].w] /\ place[drain[d].w] = drain[d].target IN
       drain' = [drain EXCEPT ![d].polls = @ + 1,
                   ![d].pc = IF ok \/ drain[d].polls = HealthChecks THEN "stop" ELSE "poll"]
  /\ Fixed /\ UNCHANGED <<agStatus, place, wlGen, wants, runs, events>>

(* One look at the row, a second after the last: observedState may still be *)
(* what the old owner reported, which assignWorkloadToAgent leaves as it is. *)
HealthCheck(d) ==
  /\ drain[d].pc = "poll"
  /\ LET ok == runs[drain[d].w] /\ place[drain[d].w] = drain[d].target IN
       drain' = [drain EXCEPT ![d].polls = @ + 1,
                   ![d].pc = IF ok \/ drain[d].polls + 1 = HealthChecks THEN "stop" ELSE "poll"]
  /\ Fixed /\ UNCHANGED <<agStatus, place, wlGen, wants, runs, events>>

(* bot.stop to the drained agent with the snapshot's generation; the agent *)
(* acts on it whatever the generation.                                     *)
StopOld(d) ==
  /\ drain[d].pc = "stop"
  /\ drain' = [drain EXCEPT ![d].pc = "loop", ![d].w = NoAgent, ![d].target = NoAgent]
  /\ Fixed /\ UNCHANGED <<agStatus, place, wlGen, wants, runs, events>>

(* Mutant of CountLeft: counts what is left of the snapshot. *)
CountLeftOfSnapshot(d) ==
  /\ drain[d].pc = "loop" /\ drain[d].todo = {}
  /\ drain' = [drain EXCEPT ![d].pc = "finish", ![d].seen = wlGen,
                 ![d].full = (drain[d].stranded = {})]
  /\ Fixed /\ UNCHANGED <<agStatus, place, wlGen, wants, runs, events>>

CountLeft(d) ==
  /\ drain[d].pc = "loop" /\ drain[d].todo = {}
  /\ drain' = [drain EXCEPT ![d].pc = "finish", ![d].seen = wlGen,
                 ![d].full = \A w \in Workloads : place[w] # drain[d].agent]
  /\ Fixed /\ UNCHANGED <<agStatus, place, wlGen, wants, runs, events>>

FinishDrain(d) ==
  /\ drain[d].pc = "finish"
  /\ agStatus' = IF drain[d].full THEN [agStatus EXCEPT ![drain[d].agent] = "disabled"] ELSE agStatus
  /\ drain' = [drain EXCEPT ![d] = DrainIdle]
  /\ Fixed /\ UNCHANGED <<place, wlGen, wants, runs, events>>

DrainStep(d) ==
  \/ WorkloadsToMove(d)
  \/ \E w \in drain[d].todo : ChooseTarget(d, w)
  \/ Relocate(d) \/ StartNew(d) \/ HealthCheck(d) \/ StopOld(d)
  \/ CountLeft(d) \/ FinishDrain(d)

-----------------------------------------------------------------------------
(* The others *)

(* POST workloads/[id]/assign *)
AdminAssigns(w, a) ==
  /\ Occurs
  /\ place' = [place EXCEPT ![w] = a]
  /\ wlGen' = [wlGen EXCEPT ![w] = @ + 1]
  /\ Fixed /\ UNCHANGED <<agStatus, wants, runs, drain>>

(* A heartbeat or a new connection sets the agent online whatever it was; *)
(* a lost one sets it disconnected.                                       *)
AgentSeen(a, s) ==
  /\ Occurs /\ agStatus[a] # s
  /\ agStatus' = [agStatus EXCEPT ![a] = s]
  /\ Fixed /\ UNCHANGED <<place, wlGen, wants, runs, drain>>

(* POST workloads/[id]/command: sendWorkloadCommand. *)
AdminCommands(w, running) ==
  /\ Occurs /\ place[w] # NoAgent
  /\ wants' = [wants EXCEPT ![w] = running]
  /\ Fixed /\ UNCHANGED <<agStatus, place, wlGen, runs, drain>>

(* markCommandOutcome sets observedState for the result of any command of *)
(* the workload's owner.                                                  *)
OutcomeSeen(w, running) ==
  /\ Occurs /\ place[w] # NoAgent /\ runs[w] # running
  /\ runs' = [runs EXCEPT ![w] = running]
  /\ Fixed /\ UNCHANGED <<agStatus, place, wlGen, wants, drain>>

PlacementNext ==
  \/ \E d \in DrainCalls : DrainStep(d) \/ \E a \in Agents : MarkDraining(d, a)
  \/ \E w \in Workloads, a \in Agents : AdminAssigns(w, a)
  \/ \E a \in Agents, s \in {"online", "disconnected"} : AgentSeen(a, s)
  \/ \E w \in Workloads, r \in BOOLEAN : AdminCommands(w, r) \/ OutcomeSeen(w, r)

(* A drainAgent call awaits queries and timers only. *)
PlacementFairness == \A d \in DrainCalls : WF_placementVars(DrainStep(d))

PlacementSpec == PlacementInit /\ [][PlacementNext]_placementVars /\ PlacementFairness

-----------------------------------------------------------------------------

PlacementTypeOK ==
  /\ offer \in Fleets /\ need \in Demands
  /\ agStatus \in [Agents -> {"online", "disconnected", "draining", "disabled"}]
  /\ place \in [Workloads -> Agents \cup {NoAgent}]
  /\ wlGen \in [Workloads -> Nat]
  /\ wants \in [Workloads -> BOOLEAN] /\ runs \in [Workloads -> BOOLEAN]
  /\ \A d \in DrainCalls :
       drain[d].polls \in 0 .. HealthChecks /\ drain[d].agent \in Agents \cup {NoAgent}
  /\ events \in 0 .. MaxEvents

(* scheduleWorkload "avoids an unnecessary move" (schedule.ts:109): once the   *)
(* recommendation for a workload is applied, it is recommended to stay there, *)
(* whatever the scores.                                                       *)
RecommendationSettles ==
  \A w \in Workloads :
    LET r == ComputeSchedulingRecommendation(place, w) IN
    r # NoAgent => ComputeSchedulingRecommendation([place EXCEPT ![w] = r], w) = r

(* drain.ts:110-117: the stop for the old agent's copy is fenced: the        *)
(* workload has a newer generation than the copy by then, and it reaches the *)
(* workload's owner only if somebody moved the workload back meanwhile.      *)
StopIsFenced ==
  \A d \in DrainCalls : drain[d].pc = "stop" =>
    LET w == drain[d].w
        old == drain[d].snap[w]
    IN /\ wlGen[w] > old.gen
       /\ place[w] = drain[d].agent => wlGen[w] > old.gen + 1

(* A drain loses no workload (drain.ts:44-47): at its end a workload of the   *)
(* agent is reported as stranded or was assigned to it after the snapshot;    *)
(* and a drain that is about to disable the agent leaves only workloads       *)
(* assigned after it had counted them.                                        *)
DrainLeavesNothing ==
  \A d \in DrainCalls : drain[d].pc = "finish" =>
    \A w \in Workloads : place[w] = drain[d].agent =>
      /\ w \in drain[d].stranded \/ wlGen[w] > drain[d].snap[w].gen
      /\ drain[d].full => wlGen[w] > drain[d].seen[w]

(* A drain ends, whether or not the new owners ever confirm (drain.ts:103).   *)
DrainEnds ==
  \A d \in DrainCalls : drain[d].pc # "idle" ~> drain[d].pc = "idle"

=============================================================================
