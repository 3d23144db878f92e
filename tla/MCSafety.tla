------------------------------- MODULE MCSafety -------------------------------
(***************************************************************************)
(* Three systems that share no row a property speaks of, one per behaviour: *)
(* the single-node operations of the control plane (MCOperations), the     *)
(* enrollment and the connections of agents (AgentGateway), and the        *)
(* workload runner of an agent, whose commands of one workload do not      *)
(* overlap (AgentRunner).  system says which one a behaviour exercises;    *)
(* the others rest in their initial states.                                *)
(***************************************************************************)
EXTENDS MCOperations, AgentGateway, AgentRunner

VARIABLE system

operationsVars == <<part, workersVars, botActionVars, rolesVars, plansVars>>

SafetyInit ==
  /\ system \in {"operations", "gateway", "runner"}
  /\ IF system = "operations" THEN TRUE ELSE part = "plans"
  /\ IF system = "gateway" THEN TRUE
     ELSE tokenOf = [h \in Hosts |-> CHOOSE t \in Tokens : TRUE] /\ misfits = {}
  /\ IF system = "runner" THEN TRUE ELSE home = [p \in Children |-> CHOOSE w \in Workloads : TRUE]
  /\ MCInit /\ GatewayInit /\ RunnerInit

SafetyNext ==
  \/ /\ system = "operations" /\ MCNext
     /\ UNCHANGED <<system, gatewayVars, runnerVars>>
  \/ /\ system = "gateway" /\ GatewayNext
     /\ UNCHANGED <<system, operationsVars, runnerVars>>
  \/ /\ system = "runner" /\ RunnerNext
     /\ UNCHANGED <<system, operationsVars, gatewayVars>>

SafetySpec == SafetyInit /\ [][SafetyNext]_<<system, operationsVars, gatewayVars, runnerVars>>

=============================================================================
