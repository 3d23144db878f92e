----------------------------- MODULE AgentGateway -----------------------------
(***************************************************************************)
(* How an agent becomes known to the control plane and stays reachable:    *)
(* enrollment with a single-use token, credentials, the WebSocket          *)
(* connections of lib/agent-gateway/server.ts and its liveConnections map, *)
(* heartbeats, and what happens to Agent.status                            *)
(* (lib/agents, apps/agent/src/index.ts).                                  *)
(*                                                                         *)
(* The two ends of a connection notice its end independently, and a        *)
(* handler is split at every await, so a handler may go on after the       *)
(* connection it serves is gone.                                           *)
(***************************************************************************)
EXTENDS Naturals, FiniteSets

CONSTANTS
  Hosts,       \* agent processes with their state file
  Tokens,      \* enrollment tokens
  Rows,        \* ids of Agent rows
  Conns,       \* WebSocket connections; a forgotten one is used again
  None,
  Misfits,     \* hosts whose labels may not satisfy their token's restrictions
  Ordered,     \* does the upgrade of a host's connection end before the host
               \* opens the next one?
  MaxDrains,   \* bound on drains
  MaxFaults    \* bound on broken connections, crashes and expired tokens

ASSUME GatewayAssumption ==
  /\ None \notin Rows \cup Conns \cup Hosts \cup Tokens
  /\ {"fresh", "expired"} \cap Rows = {}
  /\ Misfits \subseteq Hosts /\ Ordered \in BOOLEAN
  /\ MaxDrains \in Nat /\ MaxFaults \in Nat

VARIABLES
  tokenOf,  \* BOTFLEET_AGENT_ENROLLMENT_TOKEN of each host
  misfits,  \* hosts whose labels do not satisfy their token's restrictions
  token,    \* "fresh", "expired", or the row the token was used by
  status,   \* Agent.status, "none" when there is no row
  cred,     \* rows with an active AgentCredential
  saved,    \* the row whose credential is in a host's state file
  ws,       \* the connection a host uses
  conn,     \* connections as the gateway sees them
  live,     \* liveConnections
  draining, \* drainAgent calls in progress
  drains, faults

env == <<tokenOf, misfits>>

gatewayVars == <<env, token, status, cred, saved, ws, conn, live, draining,
          drains, faults>>

Statuses == {"none", "enrolling", "online", "disconnected", "draining", "disabled"}

(* pc: progress of the connection.  up: bytes still get through.  claim: the  *)
(* row whose credential it presented.  auth: state.agentId.  job and row: the *)
(* enrollment on it - "accepted" is a message on the wire.                    *)
Connections ==
  [host : Hosts \cup {None}, pc : {"free", "verify", "upgraded", "open", "closed"},
   up : BOOLEAN, claim : Rows \cup {None}, auth : Rows \cup {None},
   job : {"none", "created", "refused", "consumed", "issued", "accepted"},
   row : Rows \cup {None}]

DrainCallsOn(rows) == [row : rows, call : Nat]

FreeConn == [host |-> None, pc |-> "free", up |-> FALSE, claim |-> None,
             auth |-> None, job |-> "none", row |-> None]

GatewayInit ==
  /\ tokenOf \in [Hosts -> Tokens]
  /\ misfits \in SUBSET Misfits
  /\ token = [t \in Tokens |-> "fresh"]
  /\ status = [r \in Rows |-> "none"]
  /\ cred = {}
  /\ saved = [h \in Hosts |-> None]
  /\ ws = [h \in Hosts |-> None]
  /\ conn = [c \in Conns |-> FreeConn]
  /\ live = [r \in Rows |-> None]
  /\ draining = {}
  /\ drains = 0 /\ faults = 0

Fault == faults < MaxFaults /\ faults' = faults + 1

-----------------------------------------------------------------------------
(* Connections *)

(* connect(), at the start or when the reconnect timer fires *)
Connect(h, c) ==
  /\ ws[h] = None /\ conn[c].pc = "free"
  /\ Ordered => \A d \in Conns : conn[d].host = h => conn[d].pc \notin {"verify", "upgraded"}
  /\ ws' = [ws EXCEPT ![h] = c]
  /\ conn' = [conn EXCEPT ![c] = [FreeConn EXCEPT !.host = h, !.pc = "verify",
                                                  !.up = TRUE, !.claim = saved[h]]]
  /\ UNCHANGED <<env, token, status, cred, saved, live, draining, drains, faults>>

(* credentialProvider.verify: an active credential of that agent *)
Verify(r) == r \in cred

(* The upgrade handler: a valid credential authenticates the connection and *)
(* sets the agent online before the upgrade is complete.                    *)
Upgrade(c) ==
  /\ conn[c].pc = "verify"
  /\ LET r == conn[c].claim IN
       IF Verify(r)
         THEN /\ conn' = [conn EXCEPT ![c].pc = "upgraded", ![c].auth = r]
              /\ status' = [status EXCEPT ![r] = "online"]
         ELSE /\ conn' = [conn EXCEPT ![c].pc = "upgraded"]
              /\ UNCHANGED status
  /\ UNCHANGED <<env, token, cred, saved, ws, live, draining, drains, faults>>

(* The "connection" event; handleUpgrade gives up on a socket known dead. *)
Establish(c) ==
  /\ conn[c].pc = "upgraded"
  /\ \/ /\ conn' = [conn EXCEPT ![c].pc = "open"]
        /\ live' = IF conn[c].auth = None THEN live ELSE [live EXCEPT ![conn[c].auth] = c]
     \/ /\ ~conn[c].up
        /\ conn' = [conn EXCEPT ![c].pc = "closed"]
        /\ UNCHANGED live
  /\ UNCHANGED <<env, token, status, cred, saved, ws, draining, drains, faults>>

(* Mutant of ServerClose: the entry is deleted whichever connection it names. *)
ServerCloseAny(c) ==
  /\ conn[c].pc = "open" /\ ~conn[c].up
  /\ conn' = [conn EXCEPT ![c].pc = "closed"]
  /\ LET r == conn[c].auth IN
       IF r = None THEN UNCHANGED <<live, status>>
       ELSE /\ live' = [live EXCEPT ![r] = None]
            /\ status' = [status EXCEPT ![r] = "disconnected"]
  /\ UNCHANGED <<env, token, cred, saved, ws, draining, drains, faults>>

(* The gateway's "close" event *)
ServerClose(c) ==
  /\ conn[c].pc = "open" /\ ~conn[c].up
  /\ conn' = [conn EXCEPT ![c].pc = "closed"]
  /\ LET r == conn[c].auth IN
       IF r = None THEN UNCHANGED <<live, status>>
       ELSE /\ live' = IF live[r] = c THEN [live EXCEPT ![r] = None] ELSE live
            /\ status' = [status EXCEPT ![r] = "disconnected"]
  /\ UNCHANGED <<env, token, cred, saved, ws, draining, drains, faults>>

(* The host's "close" event; connect runs again after a delay. *)
ClientClose(h) ==
  /\ ws[h] # None /\ ~conn[ws[h]].up
  /\ ws' = [ws EXCEPT ![h] = None]
  /\ UNCHANGED <<env, token, status, cred, saved, conn, live, draining, drains, faults>>

(* The monitor of a connection nothing arrives on any more: the agent is    *)
(* marked disconnected, the connection stays.                               *)
CheckHeartbeatTimeout(c) ==
  /\ conn[c].pc = "open" /\ ~conn[c].up /\ conn[c].auth # None
  /\ status[conn[c].auth] # "disconnected"
  /\ status' = [status EXCEPT ![conn[c].auth] = "disconnected"]
  /\ UNCHANGED <<env, token, cred, saved, ws, conn, live, draining, drains, faults>>

(* startHeartbeatLoop: a host that knows its id reports on an open connection. *)
SendsHeartbeat(c) ==
  /\ conn[c].pc = "open" /\ conn[c].up
  /\ conn[c].auth # None /\ saved[conn[c].host] = conn[c].auth

(* A heartbeat is sent and handled; handleHeartbeat sets the agent online. *)
HandleHeartbeat(c) ==
  /\ SendsHeartbeat(c)
  /\ status' = [status EXCEPT ![conn[c].auth] = "online"]
  /\ UNCHANGED <<env, token, cred, saved, ws, conn, live, draining, drains, faults>>

(* Bookkeeping of the model: a connection both ends have forgotten *)
Forget(c) ==
  /\ conn[c].pc = "closed" /\ conn[c].job = "none"
  /\ \A h \in Hosts : ws[h] # c
  /\ \A r \in Rows : live[r] # c
  /\ conn' = [conn EXCEPT ![c] = FreeConn]
  /\ UNCHANGED <<env, token, status, cred, saved, ws, live, draining, drains, faults>>

-----------------------------------------------------------------------------
(* Enrollment: the "open" handler of a host without a state file, and handleEnroll *)

EnrollStays == UNCHANGED <<env, saved, ws, draining, drains, faults>>

(* Ids are never used twice; which one a row gets does not matter.  One that *)
(* nothing mentions any more is as good as a new one.                        *)
Unused == {r \in Rows : status[r] = "none" /\ \A t \in Tokens : token[t] # r}

(* The host's "open" handler: without a state file it sends agent.enroll. *)
SendsEnroll(c) ==
  /\ conn[c].pc = "open" /\ conn[c].up
  /\ conn[c].claim = None /\ conn[c].auth = None

(* The first thing handleEnroll does is to create the row. *)
EnrollCreate(c) ==
  /\ SendsEnroll(c) /\ conn[c].job = "none"
  /\ Unused # {}
  /\ LET r == CHOOSE u \in Unused : TRUE IN
       /\ status' = [status EXCEPT ![r] = "enrolling"]
       /\ conn' = [conn EXCEPT ![c].job = "created", ![c].row = r]
  /\ EnrollStays /\ UNCHANGED <<token, cred, live>>

(* Mutant of ConsumeEnrollmentToken: the claim does not require usedAt to be null. *)
ConsumeUsedToken(c) ==
  /\ conn[c].job = "created"
  /\ LET t == tokenOf[conn[c].host] IN
       /\ token' = [token EXCEPT ![t] = IF @ # "expired" THEN conn[c].row ELSE @]
       /\ conn' = [conn EXCEPT ![c].job =
            IF token[t] # "expired" /\ conn[c].host \notin misfits THEN "consumed" ELSE "refused"]
  /\ EnrollStays /\ UNCHANGED <<status, cred, live>>

(* Mutant of ConsumeEnrollmentToken: usedByAgentId gets the wrong id. *)
ConsumeForHost(c) ==
  /\ conn[c].job = "created"
  /\ LET t == tokenOf[conn[c].host] IN
       /\ token' = [token EXCEPT ![t] = IF @ = "fresh" THEN conn[c].host ELSE @]
       /\ conn' = [conn EXCEPT ![c].job = IF token[t] = "fresh" THEN "consumed" ELSE "refused"]
  /\ EnrollStays /\ UNCHANGED <<status, cred, live>>

(* consumeEnrollmentToken and restrictionsSatisfied: a host whose labels do *)
(* not fit burns the token.                                                 *)
ConsumeEnrollmentToken(c) ==
  /\ conn[c].job = "created"
  /\ LET t == tokenOf[conn[c].host] IN
       /\ token' = [token EXCEPT ![t] = IF @ = "fresh" THEN conn[c].row ELSE @]
       /\ conn' = [conn EXCEPT ![c].job =
            IF token[t] = "fresh" /\ conn[c].host \notin misfits THEN "consumed" ELSE "refused"]
  /\ EnrollStays /\ UNCHANGED <<status, cred, live>>

(* The row is deleted and the gateway closes the connection. *)
EnrollRefuse(c) ==
  /\ conn[c].job = "refused"
  /\ status' = [status EXCEPT ![conn[c].row] = "none"]
  /\ conn' = [conn EXCEPT ![c].job = "none", ![c].row = None, ![c].up = FALSE]
  /\ EnrollStays /\ UNCHANGED <<token, cred, live>>

(* The credential and the status are written one after the other; nothing *)
(* looks at the row in between.                                           *)
IssueCredential(c) ==
  /\ conn[c].job = "consumed"
  /\ cred' = cred \cup {conn[c].row}
  /\ status' = [status EXCEPT ![conn[c].row] = "online"]
  /\ conn' = [conn EXCEPT ![c].job = "issued"]
  /\ EnrollStays /\ UNCHANGED <<token, live>>

(* Mutant of EnrollAccept: the connection is registered before the token is redeemed. *)
EnrollAcceptEarly(c) ==
  /\ conn[c].job \in {"created", "issued"}
  /\ live' = [live EXCEPT ![conn[c].row] = c]
  /\ conn' = [conn EXCEPT ![c].auth = conn[c].row,
                          ![c].job = IF @ = "issued" /\ conn[c].up THEN "accepted" ELSE "none"]
  /\ EnrollStays /\ UNCHANGED <<token, status, cred>>

(* The connection is registered without a look at whether it is still open, *)
(* and agent.accepted is sent if it is.                                     *)
EnrollAccept(c) ==
  /\ conn[c].job = "issued"
  /\ live' = [live EXCEPT ![conn[c].row] = c]
  /\ conn' = [conn EXCEPT ![c].auth = conn[c].row,
                          ![c].job = IF conn[c].up THEN "accepted" ELSE "none"]
  /\ EnrollStays /\ UNCHANGED <<token, status, cred>>

(* The host saves the credential. *)
ReceiveAccepted(c) ==
  /\ conn[c].job = "accepted"
  /\ saved' = [saved EXCEPT ![conn[c].host] = conn[c].row]
  /\ conn' = [conn EXCEPT ![c].job = "none"]
  /\ UNCHANGED <<env, token, status, cred, ws, live, draining, drains, faults>>

-----------------------------------------------------------------------------
(* What lib/agents/drain.ts does to the status; Placement has the moves. *)

(* Admins drain agents that have enrolled; a row in the middle of handleEnroll *)
(* is set online by it whatever its status.                                    *)
DrainBegin(r) ==
  /\ drains < MaxDrains /\ drains' = drains + 1
  /\ r \in cred
  /\ status' = [status EXCEPT ![r] = "draining"]
  /\ draining' = draining \cup {[row |-> r, call |-> drains']}
  /\ UNCHANGED <<env, token, cred, saved, ws, conn, live, faults>>

(* All workloads were moved, or some are stranded. *)
DrainEnd(d) ==
  /\ draining' = draining \ {d}
  /\ \/ UNCHANGED status
     \/ status' = [status EXCEPT ![d.row] = "disabled"]
  /\ UNCHANGED <<env, token, cred, saved, ws, conn, live, drains, faults>>

-----------------------------------------------------------------------------
(* Faults *)

(* The network drops a connection, with the messages on it. *)
Break(c) ==
  /\ conn[c].pc \in {"verify", "upgraded", "open"} /\ conn[c].up /\ Fault
  /\ conn' = [conn EXCEPT ![c].up = FALSE,
                          ![c].job = IF @ = "accepted" THEN "none" ELSE @]
  /\ UNCHANGED <<env, token, status, cred, saved, ws, live, draining, drains>>

(* The gateway process dies and is started again. *)
GatewayCrash ==
  /\ Fault /\ \E c \in Conns : conn[c].pc # "free"
  /\ conn' = [c \in Conns |->
       IF conn[c].pc = "free" THEN conn[c]
       ELSE [conn[c] EXCEPT !.pc = "closed", !.up = FALSE, !.job = "none"]]
  /\ live' = [r \in Rows |-> None]
  /\ UNCHANGED <<env, token, status, cred, saved, ws, draining, drains>>

Expire(t) ==
  /\ token[t] = "fresh" /\ Fault
  /\ token' = [token EXCEPT ![t] = "expired"]
  /\ UNCHANGED <<env, status, cred, saved, ws, conn, live, draining, drains>>

-----------------------------------------------------------------------------

ConnStep(c) ==
  \/ Upgrade(c) \/ Establish(c) \/ ServerClose(c) \/ Forget(c)
  \/ EnrollCreate(c) \/ ConsumeEnrollmentToken(c)
  \/ EnrollRefuse(c) \/ IssueCredential(c) \/ EnrollAccept(c)
  \/ ReceiveAccepted(c)

HostStep(h) == ClientClose(h) \/ \E c \in Conns : Connect(h, c)

GatewayNext ==
  \/ \E c \in Conns : ConnStep(c) \/ HandleHeartbeat(c) \/ CheckHeartbeatTimeout(c) \/ Break(c)
  \/ \E h \in Hosts : HostStep(h)
  \/ \E r \in Rows : DrainBegin(r)
  \/ \E d \in draining : DrainEnd(d)
  \/ GatewayCrash
  \/ \E t \in Tokens : Expire(t)

GatewaySpec == GatewayInit /\ [][GatewayNext]_gatewayVars

-----------------------------------------------------------------------------

(* Every variable has its type. *)
GatewayTypeOK ==
  /\ tokenOf \in [Hosts -> Tokens] /\ misfits \in SUBSET Misfits
  /\ token \in [Tokens -> {"fresh", "expired"} \cup Rows]
  /\ status \in [Rows -> Statuses]
  /\ cred \subseteq Rows
  /\ saved \in [Hosts -> Rows \cup {None}]
  /\ ws \in [Hosts -> Conns \cup {None}]
  /\ conn \in [Conns -> Connections]
  /\ live \in [Rows -> Conns \cup {None}]
  /\ draining \subseteq DrainCallsOn(Rows)
  /\ drains \in 0..MaxDrains /\ faults \in 0..MaxFaults

(* A credential is issued for one redeemed token only: whatever connections *)
(* race to redeem it, every row with a credential has a token of its own,   *)
(* and no two hosts hold the credential of the same row.                    *)
TokenRedeemedOnce ==
  /\ \A r \in cred : \E t \in Tokens : token[t] = r
  /\ \A g, h \in Hosts : saved[g] = saved[h] /\ saved[g] # None => g = h

(* A command for an agent is sent on the connection its host uses: once     *)
(* that one is open at the gateway, no late close of an older connection    *)
(* takes it out of liveConnections.  Needs upgrades to end in order.        *)
ServedConnection ==
  \A h \in Hosts :
    LET c == ws[h] IN
    c # None /\ conn[c].pc = "open" /\ conn[c].auth # None => live[conn[c].auth] = c

(* A refused or interrupted enrollment leaves nothing usable behind: a      *)
(* credential, saved or not, belongs to a row that exists, and so does a    *)
(* registered connection.                                                   *)
NoDanglingAgent ==
  /\ \A r \in cred : status[r] # "none"
  /\ \A h \in Hosts : saved[h] # None => saved[h] \in cred
  /\ \A r \in Rows : live[r] # None => r \in cred

-----------------------------------------------------------------------------

(* docs/reconciliation.md:109: a stranded workload is left in place and "the *)
(* agent stays `draining`, not fully drained, until an admin adds capacity   *)
(* and drains again"; a fully drained one is "administratively taken out of  *)
(* rotation" (line 127).                                                     *)
DrainingStays ==
  [][\A r \in Rows : status[r] \in {"draining", "disabled"} => status'[r] # "online"]_status
=============================================================================
