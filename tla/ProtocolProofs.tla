----------------------------- MODULE ProtocolProofs -----------------------------
(***************************************************************************)
(* The replay guard keeps a message from being applied twice within its    *)
(* time to live, for any set of messages, any clock and any time to live.  *)
(***************************************************************************)
EXTENDS Protocol, TLAPS

(* What a step of the guard needs of the state: the guard remembers every     *)
(* message that was applied within the time to live, since it was applied.    *)
ClockOK == clock \in Nat
TableOK(f) == f \in [MessageIds -> Nat \cup {Never}]

Remembered(m) ==
  appliedAt[m] # Never =>
    /\ appliedAt[m] <= clock
    /\ \/ clock - appliedAt[m] > TtlMs
       \/ seenAt[m] # Never /\ appliedAt[m] <= seenAt[m]

GuardInv ==
  /\ ClockOK /\ TableOK(seenAt) /\ TableOK(appliedAt)
  /\ \A m \in MessageIds : Remembered(m)

(* One delivery: the guard's answer and what becomes of the two tables. *)
LEMMA DeliveryLemma ==
  ASSUME GuardInv, NEW m \in MessageIds, HandleMessage(m)
  PROVE  /\ GuardInv'
         /\ \A k \in MessageIds : appliedAt[k] # Never /\ appliedAt'[k] # appliedAt[k]
              => clock - appliedAt[k] > TtlMs
<1> DEFINE kept == EvictExpired
           applied == /\ ~CheckAndRecord(m).replay
                      /\ \/ auth = "authenticated"
                         \/ auth # "authenticated" /\ made[m].type = "agent.enroll"
<1>1. /\ clock' = clock /\ seenAt' = CheckAndRecord(m).seenAt
      /\ appliedAt' = IF applied THEN [appliedAt EXCEPT ![m] = clock] ELSE appliedAt
  BY DEF HandleMessage
<1>2. /\ clock \in Nat /\ TtlMs \in Nat /\ Never = -1
      /\ seenAt \in [MessageIds -> Nat \cup {Never}]
      /\ appliedAt \in [MessageIds -> Nat \cup {Never}]
  BY ProtocolAssumption DEF GuardInv, ClockOK, TableOK, Never
<1>3. /\ kept \in [MessageIds -> Nat \cup {Never}]
      /\ \A k \in MessageIds : kept[k] = IF clock - seenAt[k] > TtlMs THEN Never ELSE seenAt[k]
  BY <1>2 DEF EvictExpired
<1>4. CASE kept[m] = Never
  <2>1. /\ ~CheckAndRecord(m).replay
        /\ CheckAndRecord(m).seenAt = [kept EXCEPT ![m] = clock]
    BY <1>4 DEF CheckAndRecord
  <2> HIDE DEF kept, applied
  <2>2. seenAt' = [kept EXCEPT ![m] = clock]
    BY <1>1, <2>1
  <2>3. TableOK(seenAt') /\ TableOK(appliedAt') /\ ClockOK'
    BY <1>1, <1>2, <1>3, <2>2 DEF TableOK, ClockOK
  <2>4. appliedAt[m] # Never => clock - appliedAt[m] > TtlMs
    BY <1>2, <1>3, <1>4 DEF GuardInv, Remembered
  <2>5. ASSUME NEW k \in MessageIds PROVE Remembered(k)'
    <3>1. CASE k = m
      BY <1>1, <1>2, <1>3, <2>2, <2>4, <3>1 DEF GuardInv, Remembered
    <3>2. CASE k # m
      <4>1. seenAt'[k] = kept[k] /\ appliedAt'[k] = appliedAt[k]
        BY <1>1, <1>2, <1>3, <2>2, <3>2
      <4> QED
        BY <1>1, <1>2, <1>3, <4>1 DEF GuardInv, Remembered
    <3> QED BY <3>1, <3>2
  <2> QED
    BY <1>1, <1>2, <2>3, <2>4, <2>5 DEF GuardInv, TableOK
<1>5. CASE kept[m] # Never
  <2>1. CheckAndRecord(m).replay /\ CheckAndRecord(m).seenAt = kept
    BY <1>5 DEF CheckAndRecord
  <2>2. appliedAt' = appliedAt /\ seenAt' = kept
    BY <1>1, <2>1
  <2> HIDE DEF kept, applied
  <2>3. ASSUME NEW k \in MessageIds PROVE Remembered(k)'
    BY <1>1, <1>2, <1>3, <2>2 DEF GuardInv, Remembered
  <2> QED
    BY <1>1, <1>2, <1>3, <2>2, <2>3 DEF GuardInv, TableOK, ClockOK
<1> QED BY <1>4, <1>5

(* Every step keeps what the guard remembers. *)
LEMMA GuardStep ==
  ASSUME GuardInv, [ProtocolNext]_protocolVars
  PROVE  GuardInv'
<1> USE ProtocolAssumption DEF GuardInv, ClockOK, TableOK, Remembered, Never
<1>1. ASSUME NEW m \in MessageIds, HandleMessage(m) PROVE GuardInv'
  BY <1>1, DeliveryLemma
<1>2. ASSUME UNCHANGED <<clock, seenAt, appliedAt>> PROVE GuardInv'
  BY <1>2
<1>3. CASE GatewayRestarts
  BY <1>3 DEF GatewayRestarts
<1>4. CASE ClockAdvances
  BY <1>4 DEF ClockAdvances
<1>5. ASSUME NEW m \in MessageIds, NEW msg \in Messages,
             \/ CreateAgentToControlPlaneMessage(m, msg)
             \/ CreateControlPlaneToAgentMessage(m, msg)
      PROVE UNCHANGED <<clock, seenAt, appliedAt>>
  BY <1>5 DEF CreateAgentToControlPlaneMessage, CreateControlPlaneToAgentMessage, Creates
<1>6. ASSUME NEW m \in MessageIds, AgentHandles(m) \/ RejectMessage(m)
      PROVE UNCHANGED <<clock, seenAt, appliedAt>>
  BY <1>6 DEF AgentHandles, RejectMessage, protocolVars
<1>7. ASSUME Authenticated \/ Reconnect \/ UNCHANGED protocolVars
      PROVE UNCHANGED <<clock, seenAt, appliedAt>>
  BY <1>7 DEF Authenticated, Reconnect, protocolVars
<1> QED
  BY <1>1, <1>2, <1>3, <1>4, <1>5, <1>6, <1>7 DEF ProtocolNext

(* The tables change under handleMessage alone, or are cleared by a restart. *)
LEMMA ReplayStep ==
  ASSUME GuardInv, [ProtocolNext]_protocolVars
  PROVE  \A m \in MessageIds :
           appliedAt[m] # Never /\ appliedAt'[m] \notin {appliedAt[m], Never}
           => clock - appliedAt[m] > TtlMs
<1>1. ASSUME NEW m \in MessageIds, HandleMessage(m)
      PROVE  \A k \in MessageIds : appliedAt[k] # Never /\ appliedAt'[k] # appliedAt[k]
               => clock - appliedAt[k] > TtlMs
  BY <1>1, DeliveryLemma
<1>2. CASE GatewayRestarts
  BY <1>2 DEF GatewayRestarts
<1>3. CASE ClockAdvances \/ Authenticated \/ Reconnect \/ UNCHANGED protocolVars
  BY <1>3 DEF ClockAdvances, Authenticated, Reconnect, protocolVars
<1>4. ASSUME NEW m \in MessageIds, NEW msg \in Messages,
             \/ CreateAgentToControlPlaneMessage(m, msg)
             \/ CreateControlPlaneToAgentMessage(m, msg)
      PROVE UNCHANGED appliedAt
  BY <1>4 DEF CreateAgentToControlPlaneMessage, CreateControlPlaneToAgentMessage, Creates
<1>5. ASSUME NEW m \in MessageIds, AgentHandles(m) \/ RejectMessage(m)
      PROVE UNCHANGED appliedAt
  BY <1>5 DEF AgentHandles, RejectMessage, protocolVars
<1> QED
  BY <1>1, <1>2, <1>3, <1>4, <1>5 DEF ProtocolNext

(* So it holds throughout. *)
LEMMA GuardInvariant == ProtocolSpec => []GuardInv
<1>1. ProtocolInit => GuardInv
  BY DEF ProtocolInit, GuardInv, ClockOK, TableOK, Remembered, Never
<1> QED
  BY <1>1, GuardStep, PTL DEF ProtocolSpec

(* replay-guard.ts: as long as the gateway runs, a message that was applied   *)
(* is applied again only when more than ttlMs has passed, whatever messages   *)
(* and connections come in between.                                           *)
THEOREM NoEarlyReplayTheorem == ProtocolSpec => NoEarlyReplay
<1>1. GuardInv /\ [ProtocolNext]_protocolVars =>
        [\A m \in MessageIds :
           appliedAt[m] # Never /\ appliedAt'[m] \notin {appliedAt[m], Never}
           => clock - appliedAt[m] > TtlMs]_protocolVars
  BY ReplayStep
<1> QED
  BY <1>1, GuardInvariant, PTL DEF ProtocolSpec, NoEarlyReplay

-----------------------------------------------------------------------------
(* The types *)

(* replay-guard.ts: the guard records the time of the question, or none. *)
LEMMA DeliveryTypes ==
  ASSUME ProtocolTypeOK, NEW m \in MessageIds, HandleMessage(m)
  PROVE  ProtocolTypeOK'
<1>1. /\ clock \in Times /\ seenAt \in [MessageIds -> Times \cup {Never}]
      /\ appliedAt \in [MessageIds -> Times \cup {Never}]
      /\ auth \in {"none", "enrolling", "authenticated"}
  BY DEF ProtocolTypeOK
<1>2. EvictExpired \in [MessageIds -> Times \cup {Never}]
  BY <1>1 DEF EvictExpired
<1>3. CheckAndRecord(m).seenAt \in [MessageIds -> Times \cup {Never}]
  <2> DEFINE kept == EvictExpired
  <2>1. CheckAndRecord(m).seenAt \in {kept, [kept EXCEPT ![m] = clock]}
    BY DEF CheckAndRecord
  <2> HIDE DEF kept
  <2>2. kept \in [MessageIds -> Times \cup {Never}]
    BY <1>2 DEF kept
  <2> QED BY <1>1, <2>1, <2>2
<1>4. /\ seenAt' = CheckAndRecord(m).seenAt
      /\ appliedAt' \in {appliedAt, [appliedAt EXCEPT ![m] = clock]}
      /\ auth' \in {auth, "enrolling"} /\ UNCHANGED <<clock, made, handed, lives>>
  BY DEF HandleMessage
<1>5. appliedAt' \in [MessageIds -> Times \cup {Never}]
  BY <1>1, <1>4
<1> QED BY <1>1, <1>3, <1>4, <1>5 DEF ProtocolTypeOK

(* A message is made by its sender only, and for good. *)
LEMMA CreationTypes ==
  ASSUME ProtocolTypeOK, NEW m \in MessageIds, NEW msg \in Messages, Creates(m, msg)
  PROVE  ProtocolTypeOK'
<1>1. made' \in [MessageIds -> Messages \cup {Unmade}]
  BY DEF ProtocolTypeOK, Creates
<1> QED BY <1>1 DEF ProtocolTypeOK, Creates

(* The types are an invariant of the safety part of the specification. *)
LEMMA ProtocolTypesStep == ProtocolTypeOK /\ [ProtocolNext]_protocolVars => ProtocolTypeOK'
<1> SUFFICES ASSUME ProtocolTypeOK, [ProtocolNext]_protocolVars PROVE ProtocolTypeOK'
  OBVIOUS
<1>1. ASSUME NEW m \in MessageIds, HandleMessage(m) PROVE ProtocolTypeOK'
  BY <1>1, DeliveryTypes
<1>2. ASSUME NEW m \in MessageIds, NEW msg \in Messages,
             \/ CreateAgentToControlPlaneMessage(m, msg)
             \/ CreateControlPlaneToAgentMessage(m, msg)
      PROVE  ProtocolTypeOK'
  BY <1>2, CreationTypes
  DEF CreateAgentToControlPlaneMessage, CreateControlPlaneToAgentMessage
<1>3. ASSUME NEW m \in MessageIds, AgentHandles(m) PROVE ProtocolTypeOK'
  BY <1>3 DEF AgentHandles, ProtocolTypeOK
<1>4. CASE Authenticated \/ Reconnect
  BY <1>4 DEF Authenticated, Reconnect, ProtocolTypeOK
<1>5. CASE GatewayRestarts
  <2>1. lives' \in 0 .. MaxLives
    BY <1>5, ProtocolAssumption DEF GatewayRestarts, ProtocolTypeOK
  <2>2. [m \in MessageIds |-> Never] \in [MessageIds -> Times \cup {Never}]
    OBVIOUS
  <2> QED BY <1>5, <2>1, <2>2 DEF GatewayRestarts, ProtocolTypeOK
<1>6. CASE ClockAdvances
  <2>1. clock' \in Times
    BY <1>6, ProtocolAssumption DEF ClockAdvances, ProtocolTypeOK, Times
  <2> QED BY <1>6, <2>1 DEF ClockAdvances, ProtocolTypeOK
<1>7. CASE UNCHANGED protocolVars
  BY <1>7 DEF protocolVars, ProtocolTypeOK
<1> QED
  BY <1>1, <1>2, <1>3, <1>4, <1>5, <1>6, <1>7 DEF ProtocolNext, RejectMessage

(* And of the initial states. *)
LEMMA ProtocolTypesInit == ProtocolInit => ProtocolTypeOK
BY ProtocolAssumption DEF ProtocolInit, ProtocolTypeOK, Times

=============================================================================
