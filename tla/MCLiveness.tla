------------------------------ MODULE MCLiveness ------------------------------
(***************************************************************************)
(* The components of MCMessaging, or the workload runner of an agent whose *)
(* commands of one workload overlap (AgentRunner): system says which one a *)
(* behaviour exercises, the other rests in one initial state.              *)
(***************************************************************************)
EXTENDS MCMessaging

CONSTANTS
  Hosted,  \* the workloads of the runner
  Children, NoChild, Overlap

VARIABLES system, spec, process, child, home, attached, waits, claim

Runner == INSTANCE AgentRunner WITH Workloads <- Hosted

runnerVars == <<spec, process, child, home, attached, waits, claim>>

LivenessInit ==
  /\ system \in {"messaging", "runner"}
  /\ IF system = "messaging" THEN home = [p \in Children |-> CHOOSE w \in Hosted : TRUE]
     ELSE part = "limiter"
  /\ MCInit /\ Runner!RunnerInit

LivenessNext ==
  \/ system = "messaging" /\ MCNext /\ UNCHANGED <<system, runnerVars>>
  \/ system = "runner" /\ Runner!RunnerNext /\ UNCHANGED <<system, vars>>

(* The components' own fairness, for the one that is exercised. *)
InPart(p) == system = "messaging" /\ part = p

LivenessFairness ==
  /\ \A d \in DrainCalls : WF_placementVars(InPart("placement") /\ DrainStep(d))
  /\ WF_alertsVars(InPart("alerts") /\ ScheduledStep)
  /\ WF_sdkVars(InPart("sdk") /\ OnConnect) /\ WF_sdkVars(InPart("sdk") /\ OnClose)
  /\ WF_sdkVars(InPart("sdk") /\ TimerFires)
  /\ \A p \in Children :
       /\ WF_runnerVars(system = "runner" /\ Runner!ForceKill(p))
       /\ WF_runnerVars(system = "runner" /\ child[p] = "forced" /\ Runner!ProcessExit(p))

LivenessSpec ==
  LivenessInit /\ [][LivenessNext]_<<system, vars, runnerVars>> /\ LivenessFairness

(* AgentRunner's: a child that was sent SIGTERM has exactly one waiting      *)
(* handler, hence one force-kill timer (workload-runner.ts:134-150).         *)
SignalledHasOneStopper == Runner!SignalledHasOneStopper

(* AgentRunner's: a child that was sent SIGTERM dies (workload-runner.ts:142). *)
SignalledDies == Runner!SignalledDies

=============================================================================
