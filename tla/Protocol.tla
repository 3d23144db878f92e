-------------------------------- MODULE Protocol --------------------------------
(***************************************************************************)
(* How a message is admitted (packages/protocol: parse.ts, replay-guard.ts *)
(* and create-message.ts): by the gateway (lib/agent-gateway/server.ts,    *)
(* handleMessage) and by the agent (apps/agent/src/index.ts).  The network *)
(* may deliver a message again, at any later time and on another           *)
(* connection.  What an admitted message does is in AgentGateway,          *)
(* WorkloadControl and AgentRunner.                                        *)
(***************************************************************************)
EXTENDS Integers, FiniteSets

CONSTANTS
  MessageIds,    \* the UUIDs randomUUID makes, all different
  TtlMs,         \* 5 * 60 * 1000 in the code
  MaxClock,      \* bound on the clock
  MaxLives       \* bound on restarts of the gateway

ASSUME ProtocolAssumption ==
  IsFiniteSet(MessageIds) /\ TtlMs \in Nat /\ MaxClock \in Nat /\ MaxLives \in Nat

Never == -1
Times == 0 .. MaxClock

SUPPORTED_PROTOCOL_VERSIONS == {1}
AgentToControlPlaneTypes ==
  {"agent.enroll", "agent.heartbeat", "agent.inventory", "agent.metrics", "agent.command_ack",
   "agent.command_result", "bot.status", "bot.heartbeat", "bot.ready", "bot.stopped",
   "bot.crashed", "bot.metrics", "bot.log", "shard.status", "deployment.progress",
   "deployment.result"}
ControlPlaneToAgentTypes ==
  {"agent.accepted", "agent.rotate_certificate", "bot.start", "bot.stop", "bot.restart",
   "bot.move", "bot.update", "worker.drain", "deployment.prepare", "deployment.execute",
   "deployment.rollback", "configuration.refresh"}

VARIABLES
  clock,
  made,      \* messages created so far, by their ids
  seenAt,    \* InMemoryReplayGuard.seenAt
  auth,      \* the connection: "none", "enrolling" or "authenticated"
  appliedAt, \* when this process last applied each message
  handed,    \* commands the agent has given to its runner
  lives

protocolVars == <<clock, made, seenAt, auth, appliedAt, handed, lives>>

(* What the checks tell apart: an envelope that fits the schema, the version,  *)
(* the type, and a payload that fits the type's schema; at most one is wrong.  *)
Messages ==
  {msg \in [to : {"gateway", "agent"}, envelope : BOOLEAN, version : {1, 2},
            type : {"agent.enroll", "agent.heartbeat", "bot.start", "bot.move"},
            payload : BOOLEAN] :
     \/ msg.envelope /\ msg.version = 1
     \/ msg.envelope /\ msg.payload
     \/ msg.version = 1 /\ msg.payload}

Unmade == [to |-> "", envelope |-> FALSE, version |-> 0, type |-> "", payload |-> FALSE]

ProtocolInit ==
  /\ clock = 0
  /\ made = [m \in MessageIds |-> Unmade]
  /\ seenAt = [m \in MessageIds |-> Never] /\ appliedAt = seenAt
  /\ auth = "none" /\ handed = {} /\ lives = 0

(* Every field of the payload is of the kind and the size its type asks for. *)
PayloadFits(msg) == msg.payload

(* parseEnvelope and the discriminated union: the first check that fails. *)
Parse(msg, types) ==
  IF ~msg.envelope THEN "malformed_envelope"
  ELSE IF msg.version \notin SUPPORTED_PROTOCOL_VERSIONS THEN "unsupported_protocol_version"
  ELSE IF msg.type \notin types THEN "unknown_message_type"
  ELSE IF ~PayloadFits(msg) THEN "malformed_payload"
  ELSE "ok"

ParseAgentToControlPlaneMessage(msg) == Parse(msg, AgentToControlPlaneTypes)
ParseControlPlaneToAgentMessage(msg) == Parse(msg, ControlPlaneToAgentTypes)

(* Mutant of EvictExpired: an entry of exactly the time to live goes, too. *)
EvictEarly == [m \in MessageIds |-> IF clock - seenAt[m] >= TtlMs THEN Never ELSE seenAt[m]]

EvictExpired == [m \in MessageIds |-> IF clock - seenAt[m] > TtlMs THEN Never ELSE seenAt[m]]

(* Has m been seen?  And the guard's memory after the question. *)
CheckAndRecord(m) ==
  LET kept == EvictExpired IN
  IF kept[m] = Never THEN [replay |-> FALSE, seenAt |-> [kept EXCEPT ![m] = clock]]
  ELSE [replay |-> TRUE, seenAt |-> kept]

(* A message by either side, or by a peer of another version: its id is fresh. *)
Creates(m, msg) ==
  /\ made[m] = Unmade
  /\ made' = [made EXCEPT ![m] = msg]
  /\ UNCHANGED <<clock, seenAt, auth, appliedAt, handed, lives>>

CreateAgentToControlPlaneMessage(m, msg) == msg.to = "gateway" /\ Creates(m, msg)
CreateControlPlaneToAgentMessage(m, msg) == msg.to = "agent" /\ Creates(m, msg)

(* handleMessage for a delivery, the first or another, of m *)
HandleMessage(m) ==
  /\ made[m].to = "gateway" /\ ParseAgentToControlPlaneMessage(made[m]) = "ok"
  /\ LET guard == CheckAndRecord(m)
         enrolls == auth # "authenticated" /\ made[m].type = "agent.enroll"
         applied == ~guard.replay /\ (auth = "authenticated" \/ enrolls)
     IN /\ seenAt' = guard.seenAt
        /\ appliedAt' = IF applied THEN [appliedAt EXCEPT ![m] = clock] ELSE appliedAt
        /\ auth' = IF applied /\ enrolls THEN "enrolling" ELSE auth
  /\ UNCHANGED <<clock, made, handed, lives>>

(* The agent's message handler: no guard, so a command that is delivered again *)
(* is handed over again (module AgentRunner has what becomes of it).           *)
AgentHandles(m) ==
  /\ made[m].to = "agent" /\ ParseControlPlaneToAgentMessage(made[m]) = "ok"
  /\ handed' = IF made[m].type \in {"bot.update", "bot.start", "bot.stop", "bot.restart"}
               THEN handed \cup {m} ELSE handed
  /\ UNCHANGED <<clock, made, seenAt, auth, appliedAt, lives>>

(* A message that does not parse leaves no trace at either side. *)
RejectMessage(m) ==
  /\ \/ made[m].to = "gateway" /\ ParseAgentToControlPlaneMessage(made[m]) # "ok"
     \/ made[m].to = "agent" /\ ParseControlPlaneToAgentMessage(made[m]) # "ok"
  /\ UNCHANGED protocolVars

(* handleEnroll ends, or the agent connects with its credential. *)
Authenticated ==
  /\ auth # "authenticated" /\ auth' = "authenticated"
  /\ UNCHANGED <<clock, made, seenAt, appliedAt, handed, lives>>

Reconnect ==
  /\ auth' = "none"
  /\ UNCHANGED <<clock, made, seenAt, appliedAt, handed, lives>>

(* The guard is in the memory of the process. *)
GatewayRestarts ==
  /\ lives < MaxLives /\ lives' = lives + 1
  /\ seenAt' = [m \in MessageIds |-> Never] /\ appliedAt' = seenAt' /\ auth' = "none"
  /\ UNCHANGED <<clock, made, handed>>

ClockAdvances ==
  /\ clock < MaxClock /\ clock' = clock + 1
  /\ UNCHANGED <<made, seenAt, auth, appliedAt, handed, lives>>

ProtocolNext ==
  \/ \E m \in MessageIds :
       \/ \E msg \in Messages : CreateAgentToControlPlaneMessage(m, msg)
       \/ \E msg \in Messages : CreateControlPlaneToAgentMessage(m, msg)
       \/ HandleMessage(m) \/ AgentHandles(m) \/ RejectMessage(m)
  \/ Authenticated \/ Reconnect \/ GatewayRestarts \/ ClockAdvances

ProtocolSpec == ProtocolInit /\ [][ProtocolNext]_protocolVars

-----------------------------------------------------------------------------

ProtocolTypeOK ==
  /\ clock \in Times /\ lives \in 0 .. MaxLives
  /\ made \in [MessageIds -> Messages \cup {Unmade}]
  /\ seenAt \in [MessageIds -> Times \cup {Never}]
  /\ appliedAt \in [MessageIds -> Times \cup {Never}]
  /\ auth \in {"none", "enrolling", "authenticated"} /\ handed \subseteq MessageIds

(* replay-guard.ts:2-4: "a second delivery of the same ID is rejected rather  *)
(* than re-applied".  As long as the gateway runs, a message is applied again *)
(* only when more than the time to live has passed since it was applied, on   *)
(* whatever connection it comes and whatever other messages come in between.  *)
NoEarlyReplay ==
  [][\A m \in MessageIds :
       appliedAt[m] # Never /\ appliedAt'[m] \notin {appliedAt[m], Never}
       => clock - appliedAt[m] > TtlMs]_protocolVars

=============================================================================
