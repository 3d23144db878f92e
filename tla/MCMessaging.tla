------------------------------ MODULE MCMessaging ------------------------------
(***************************************************************************)
(* Placement of workloads, alerts, the reports of bots and the admission   *)
(* of messages, one component at a time: part says which one a behaviour   *)
(* exercises, the others rest in one initial state.                        *)
(***************************************************************************)
EXTENDS Placement, Alerts, Protocol, Sdk, RateLimiter, CrashJobs, TLC

CONSTANTS w1, w2, e1, e2, e3

VARIABLE part

Parts == {"placement", "alerts", "protocol", "sdk", "limiter", "crash"}

(* Three agents that differ in memory and recent failures; w1 prefers what *)
(* all of them have and needs memory, w2 needs none; or no agent offers    *)
(* what they need.                                                         *)
Offer(avail, failed) ==
  [caps |-> {"docker"}, labels |-> {"ssd"}, region |-> "eu", env |-> "", total |-> 8,
   avail |-> avail, cap |-> Unknown, failures |-> failed]

Need(capability, memory, preferred) ==
  [capability |-> capability, required |-> {}, preferred |-> preferred, memory |-> memory,
   customer |-> "c"]

MCFleets ==
  {1 :> Offer(8, 0) @@ 2 :> Offer(4, 0) @@ 3 :> Offer(Unknown, 1),
   1 :> Offer(8, 0) @@ 2 :> Offer(6, 0) @@ 3 :> Offer(2, 0)}
Placeable == w1 :> Need("docker", 4, {"ssd"}) @@ w2 :> Need("docker", Unknown, {})
Unplaceable == w1 :> Need("java", Unknown, {}) @@ w2 :> Need("java", Unknown, {})
MCDemands == {Placeable, Unplaceable}
MCHomes == {w1 :> 1 @@ w2 :> 1, w1 :> 2 @@ w2 :> 1, w1 :> 1 @@ w2 :> NoAgent}

MCMaxRestarts == <<4, 3>>

(* e1 and e2 have the same hash. *)
MCHashError == e1 :> 1 @@ e2 :> 1 @@ e3 :> 2
MCMatches == e1 :> {1, 3} @@ e2 :> {} @@ e3 :> {2}

MCInit ==
  /\ part \in Parts
  /\ IF part = "placement" THEN TRUE
     ELSE /\ offer = CHOOSE f \in MCFleets : TRUE
          /\ need = Unplaceable
          /\ place = CHOOSE h \in MCHomes : TRUE
          /\ wants = [w \in Workloads |-> FALSE] /\ runs = wants
  /\ IF part = "sdk" THEN TRUE
     ELSE /\ up = TRUE /\ linked = TRUE
          /\ adapter = [lib |-> "eris", attached |-> TRUE, readies |-> 0, beats |-> 0]
  /\ PlacementInit /\ AlertsInit /\ ProtocolInit /\ SdkInit /\ LimiterInit /\ CrashInit

vars == <<part, placementVars, alertsVars, protocolVars, sdkVars, limiterVars, crashVars>>

MCNext ==
  \/ /\ part = "placement" /\ PlacementNext
     /\ UNCHANGED <<part, alertsVars, protocolVars, sdkVars, limiterVars, crashVars>>
  \/ /\ part = "alerts" /\ AlertsNext
     /\ UNCHANGED <<part, placementVars, protocolVars, sdkVars, limiterVars, crashVars>>
  \/ /\ part = "protocol" /\ ProtocolNext
     /\ UNCHANGED <<part, placementVars, alertsVars, sdkVars, limiterVars, crashVars>>
  \/ /\ part = "sdk" /\ SdkNext
     /\ UNCHANGED <<part, placementVars, alertsVars, protocolVars, limiterVars, crashVars>>
  \/ /\ part = "limiter" /\ LimiterNext
     /\ UNCHANGED <<part, placementVars, alertsVars, protocolVars, sdkVars, crashVars>>
  \/ /\ part = "crash" /\ CrashNext
     /\ UNCHANGED <<part, placementVars, alertsVars, protocolVars, sdkVars, limiterVars>>

(* The components' own fairness, for the one that is exercised. *)
MCFairness ==
  /\ \A d \in DrainCalls : WF_placementVars(part = "placement" /\ DrainStep(d))
  /\ WF_alertsVars(part = "alerts" /\ ScheduledStep)
  /\ WF_sdkVars(part = "sdk" /\ OnConnect) /\ WF_sdkVars(part = "sdk" /\ OnClose)
  /\ WF_sdkVars(part = "sdk" /\ TimerFires)

MCSpec == MCInit /\ [][MCNext]_vars /\ MCFairness

(* The types of the six components. *)
MessagingTypeOK ==
  /\ part \in Parts
  /\ PlacementTypeOK /\ AlertsTypeOK /\ ProtocolTypeOK /\ SdkTypeOK /\ LimiterTypeOK
  /\ CrashTypeOK

=============================================================================
