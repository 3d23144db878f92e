-------------------------- MODULE AgentGatewayProofs --------------------------
(***************************************************************************)
(* Proofs about AgentGateway for any number of hosts, tokens, rows,        *)
(* connections and faults, with upgrades in any order.                     *)
(***************************************************************************)
EXTENDS AgentGateway, TLAPS

USE GatewayAssumption

(* The calls on more rows are more calls. *)
LEMMA DrainCallsGrow == \A R, S : R \subseteq S => DrainCallsOn(R) \subseteq DrainCallsOn(S)
  BY DEF DrainCallsOn

(* A connection that is used, or that an enrollment still runs for, has a host. *)
HasHost(k) == k.pc # "free" \/ k.job # "none" => k.host \in Hosts

(* What an enrollment on a connection owns: a row that exists, that no other *)
(* enrollment works on and no host has a credential of, and that has a       *)
(* credential only when the token was redeemed for it.                       *)
JobInv ==
  /\ draining \subseteq DrainCallsOn(cred)
  /\ \A c \in Conns : HasHost(conn[c])
  /\ \A c \in Conns : conn[c].auth \in cred \cup {None}
  /\ \A c \in Conns : conn[c].job # "none" =>
       /\ conn[c].row \in Rows /\ status[conn[c].row] # "none"
       /\ conn[c].row \in cred <=> conn[c].job \in {"issued", "accepted"}
       /\ conn[c].job = "consumed" => \E t \in Tokens : token[t] = conn[c].row
       /\ \A h \in Hosts : saved[h] # conn[c].row
       /\ \A d \in Conns : conn[d].job # "none" /\ conn[d].row = conn[c].row => d = c

EnrollInv == JobInv /\ TokenRedeemedOnce /\ NoDanglingAgent

GatewayInv == GatewayTypeOK /\ EnrollInv

(* Nobody is enrolled or connected to begin with. *)
LEMMA EnrollInitially == GatewayInit => GatewayInv
  BY DEF GatewayInit, GatewayInv, EnrollInv, GatewayTypeOK, JobInv, TokenRedeemedOnce, NoDanglingAgent,
         HasHost, FreeConn, Connections, Statuses

(* A step that replaces one connection record by a well-formed one *)
LEMMA ConnUpdate ==
  ASSUME GatewayTypeOK, NEW c \in Conns, NEW k \in Connections, conn' = [conn EXCEPT ![c] = k]
  PROVE  /\ conn' \in [Conns -> Connections]
         /\ conn'[c] = k
         /\ \A d \in Conns : d # c => conn'[d] = conn[d]
  BY DEF GatewayTypeOK

(* Steps that redeem no token, issue and save no credential, create and delete *)
(* no row and begin no enrollment.                                             *)
Quiet ==
  /\ \A t \in Tokens : token[t] \in Rows => token'[t] = token[t]
  /\ \A r \in Rows : status'[r] = "none" <=> status[r] = "none"
  /\ cred' = cred /\ saved' = saved /\ draining' \subseteq DrainCallsOn(cred)
  /\ \A c \in Conns : HasHost(conn'[c]) /\ conn'[c].auth \in cred \cup {None}
  /\ \A c \in Conns : conn'[c].job # "none" =>
       /\ conn[c].job # "none" /\ conn'[c].row = conn[c].row
       /\ conn'[c].job = conn[c].job \/ {conn[c].job, conn'[c].job} \subseteq {"issued", "accepted"}
  /\ \A r \in Rows : live'[r] # None => r \in cred

(* Quiet steps keep what enrollment promises. *)
LEMMA QuietKeeps == ASSUME GatewayInv, Quiet PROVE EnrollInv'
<1> USE DEF GatewayInv, EnrollInv
<1>1. cred \subseteq Rows /\ saved \in [Hosts -> Rows \cup {None}]
  BY DEF GatewayTypeOK
<1>2. JobInv'
  <2>1. /\ draining' \subseteq DrainCallsOn(cred')
        /\ \A c \in Conns : HasHost(conn'[c]) /\ conn'[c].auth \in cred' \cup {None}
    BY DEF Quiet
  <2>2. ASSUME NEW c \in Conns, conn'[c].job # "none"
        PROVE  /\ conn'[c].row \in Rows /\ status'[conn'[c].row] # "none"
               /\ conn'[c].row \in cred' <=> conn'[c].job \in {"issued", "accepted"}
               /\ conn'[c].job = "consumed" => \E t \in Tokens : token'[t] = conn'[c].row
               /\ \A h \in Hosts : saved'[h] # conn'[c].row
               /\ \A d \in Conns : conn'[d].job # "none" /\ conn'[d].row = conn'[c].row => d = c
    <3>1. conn[c].job # "none" /\ conn'[c].row = conn[c].row
      BY <2>2 DEF Quiet
    <3>2. conn'[c].job = conn[c].job \/ {conn[c].job, conn'[c].job} \subseteq {"issued", "accepted"}
      BY <2>2 DEF Quiet
    <3>3. conn'[c].job = "consumed" => \E t \in Tokens : token'[t] = conn'[c].row
      BY <3>1, <3>2 DEF Quiet, JobInv
    <3>4. \A d \in Conns : conn'[d].job # "none" /\ conn'[d].row = conn'[c].row => d = c
      BY <3>1 DEF Quiet, JobInv
    <3> QED BY <3>1, <3>2, <3>3, <3>4 DEF Quiet, JobInv
  <2> QED BY <2>1, <2>2 DEF JobInv
<1>3. TokenRedeemedOnce'
  BY <1>1 DEF Quiet, TokenRedeemedOnce
<1>4. NoDanglingAgent'
  BY <1>1 DEF Quiet, NoDanglingAgent
<1> QED BY <1>2, <1>3, <1>4

-----------------------------------------------------------------------------
(* Connections and faults are quiet steps. *)

QuietStep == GatewayTypeOK' /\ Quiet

(* index.ts: a host opens a connection. *)
LEMMA ConnectQuiet ==
  ASSUME GatewayInv, NEW h \in Hosts, NEW c \in Conns, Connect(h, c) PROVE QuietStep
<1> DEFINE k == [FreeConn EXCEPT !.host = h, !.pc = "verify", !.up = TRUE, !.claim = saved[h]]
<1>1. k \in Connections /\ k.job = "none" /\ k.auth = None /\ HasHost(k)
  BY DEF FreeConn, Connections, HasHost, GatewayInv, GatewayTypeOK
<1>2. conn' = [conn EXCEPT ![c] = k]
  BY DEF Connect
<1> HIDE DEF k
<1>3. /\ conn' \in [Conns -> Connections]
      /\ \A d \in Conns : \/ conn'[d] = conn[d]
                          \/ conn'[d].job = "none" /\ conn'[d].auth = None /\ HasHost(conn'[d])
  BY <1>1, <1>2, ConnUpdate DEF GatewayInv
<1>4. GatewayTypeOK'
  BY <1>3 DEF Connect, env, GatewayInv, GatewayTypeOK
<1>5. Quiet
  BY <1>3 DEF Connect, Quiet, GatewayInv, EnrollInv, JobInv, NoDanglingAgent
<1> QED BY <1>4, <1>5 DEF QuietStep

(* server.ts:77-94: the credential of an upgrade is verified. *)
LEMMA UpgradeQuiet ==
  ASSUME GatewayInv, NEW c \in Conns, Upgrade(c) PROVE QuietStep
<1> DEFINE r == conn[c].claim
           k == IF r \in cred THEN [conn[c] EXCEPT !.pc = "upgraded", !.auth = r]
                              ELSE [conn[c] EXCEPT !.pc = "upgraded"]
<1>0. HasHost(conn[c]) /\ conn[c].pc = "verify"
  BY DEF Upgrade, Verify, GatewayInv, EnrollInv, JobInv
<1>1. conn[c] \in Connections /\ r \in Rows \cup {None} /\ (r \in cred => status[r] # "none")
  BY DEF Connections, GatewayInv, EnrollInv, GatewayTypeOK, NoDanglingAgent
<1>2. /\ k \in Connections /\ k.job = conn[c].job /\ k.row = conn[c].row
      /\ k.auth \in {r, conn[c].auth} /\ (r \notin cred => k.auth = conn[c].auth)
      /\ HasHost(k)
  BY <1>1, <1>0 DEF Connections, HasHost
<1>3. conn' = [conn EXCEPT ![c] = k]
  BY DEF Upgrade, Verify, GatewayInv, GatewayTypeOK
<1>4. status' \in [Rows -> Statuses] /\ \A q \in Rows : status'[q] = "none" <=> status[q] = "none"
  BY <1>1 DEF Upgrade, Verify, GatewayInv, GatewayTypeOK, Statuses
<1> HIDE DEF k, r
<1> QED BY <1>1, <1>2, <1>3, <1>4, ConnUpdate
        DEF Upgrade, Verify, env, QuietStep, Quiet, GatewayInv, EnrollInv, JobInv, NoDanglingAgent, GatewayTypeOK

(* server.ts:96-112: the connection is registered. *)
LEMMA EstablishQuiet ==
  ASSUME GatewayInv, NEW c \in Conns, Establish(c) PROVE QuietStep
<1>1. PICK p \in {"open", "closed"} : conn' = [conn EXCEPT ![c].pc = p]
  BY DEF Establish
<1> DEFINE k == [conn[c] EXCEPT !.pc = p]
<1>0. HasHost(conn[c]) /\ conn[c].pc = "upgraded" /\ conn[c] \in Connections
  BY DEF Establish, GatewayInv, EnrollInv, JobInv, GatewayTypeOK
<1>2. /\ k \in Connections /\ k.job = conn[c].job /\ k.row = conn[c].row /\ k.auth = conn[c].auth
      /\ HasHost(k)
  BY <1>0 DEF Connections, HasHost
<1>3. conn' = [conn EXCEPT ![c] = k]
  BY <1>1 DEF GatewayInv, GatewayTypeOK
<1>4. /\ live' \in [Rows -> Conns \cup {None}]
      /\ \A q \in Rows : live'[q] # None => q \in cred
  BY DEF Establish, GatewayInv, EnrollInv, JobInv, NoDanglingAgent, GatewayTypeOK
<1> HIDE DEF k
<1> QED BY <1>2, <1>3, <1>4, ConnUpdate
        DEF Establish, env, QuietStep, Quiet, GatewayInv, EnrollInv, JobInv, NoDanglingAgent, GatewayTypeOK

(* server.ts:114-125: the gateway's close event. *)
LEMMA ServerCloseQuiet ==
  ASSUME GatewayInv, NEW c \in Conns, ServerClose(c) PROVE QuietStep
<1> DEFINE k == [conn[c] EXCEPT !.pc = "closed"]
<1>0. HasHost(conn[c]) /\ conn[c].pc = "open" /\ conn[c] \in Connections
  BY DEF ServerClose, GatewayInv, EnrollInv, JobInv, GatewayTypeOK
<1>1. /\ k \in Connections /\ k.job = conn[c].job /\ k.row = conn[c].row /\ k.auth = conn[c].auth
      /\ HasHost(k)
  BY <1>0 DEF Connections, HasHost
<1>2. conn' = [conn EXCEPT ![c] = k]
  BY DEF ServerClose, GatewayInv, GatewayTypeOK
<1>3. /\ live' \in [Rows -> Conns \cup {None}]
      /\ \A q \in Rows : live'[q] # None => live[q] # None
      /\ status' \in [Rows -> Statuses]
      /\ \A q \in Rows : status'[q] = "none" <=> status[q] = "none"
  BY DEF ServerClose, GatewayInv, EnrollInv, JobInv, NoDanglingAgent, GatewayTypeOK, Statuses
<1> HIDE DEF k
<1> QED BY <1>1, <1>2, <1>3, ConnUpdate
        DEF ServerClose, env, QuietStep, Quiet, GatewayInv, EnrollInv, JobInv, NoDanglingAgent, GatewayTypeOK

(* Steps that change the status of an agent with a credential and nothing else *)
LEMMA StatusQuiet ==
  ASSUME GatewayInv, NEW r \in cred, NEW s \in Statuses \ {"none"},
         status' = [status EXCEPT ![r] = s] \/ status' = status,
         UNCHANGED <<env, token, cred, saved, ws, conn, live>>,
         draining' \subseteq DrainCallsOn(cred), drains' \in 0..MaxDrains, faults' = faults
  PROVE  QuietStep
<1>1. draining' \subseteq DrainCallsOn(Rows)
  BY DrainCallsGrow DEF GatewayInv, GatewayTypeOK
<1> QED BY <1>1 DEF QuietStep, Quiet, env, GatewayInv, EnrollInv, JobInv, NoDanglingAgent, GatewayTypeOK

(* A connection both ends have forgotten. *)
LEMMA ForgetQuiet ==
  ASSUME GatewayInv, NEW c \in Conns, Forget(c) PROVE QuietStep
<1>1. FreeConn \in Connections /\ FreeConn.job = "none" /\ FreeConn.auth = None /\ HasHost(FreeConn)
  BY DEF FreeConn, Connections, HasHost
<1>2. conn' = [conn EXCEPT ![c] = FreeConn]
  BY DEF Forget
<1> QED BY <1>1, <1>2, ConnUpdate
        DEF Forget, env, QuietStep, Quiet, GatewayInv, EnrollInv, JobInv, NoDanglingAgent, GatewayTypeOK

(* server.ts:249-268: the end of handleEnroll registers a row that has its *)
(* credential.                                                             *)
LEMMA EnrollAcceptQuiet ==
  ASSUME GatewayInv, NEW c \in Conns, EnrollAccept(c) PROVE QuietStep
<1> DEFINE j == IF conn[c].up THEN "accepted" ELSE "none"
           k == [conn[c] EXCEPT !.auth = conn[c].row, !.job = j]
<1>1. /\ conn[c] \in Connections /\ HasHost(conn[c])
      /\ conn[c].row \in Rows /\ conn[c].row \in cred /\ conn[c].job = "issued"
  BY DEF EnrollAccept, GatewayInv, EnrollInv, JobInv, GatewayTypeOK
<1>2. /\ k \in Connections /\ k.auth = conn[c].row /\ k.row = conn[c].row
      /\ k.job \in {"accepted", "none"} /\ HasHost(k)
  BY <1>1 DEF Connections, HasHost
<1>3. conn' = [conn EXCEPT ![c] = k]
  BY DEF EnrollAccept, GatewayInv, GatewayTypeOK
<1> HIDE DEF k, j
<1> QED BY <1>1, <1>2, <1>3, ConnUpdate
        DEF EnrollAccept, EnrollStays, env, QuietStep, Quiet, GatewayInv, EnrollInv, JobInv, NoDanglingAgent, GatewayTypeOK

(* A connection breaks. *)
LEMMA BreakQuiet ==
  ASSUME GatewayInv, NEW c \in Conns, Break(c) PROVE QuietStep
<1> DEFINE j == IF conn[c].job = "accepted" THEN "none" ELSE conn[c].job
           k == [conn[c] EXCEPT !.up = FALSE, !.job = j]
<1>0. conn[c] \in Connections /\ HasHost(conn[c])
  BY DEF GatewayInv, EnrollInv, JobInv, GatewayTypeOK
<1>1. /\ k \in Connections /\ k.auth = conn[c].auth /\ k.row = conn[c].row
      /\ k.job \in {conn[c].job, "none"} /\ HasHost(k)
  BY <1>0 DEF Connections, HasHost
<1>2. conn' = [conn EXCEPT ![c] = k]
  BY DEF Break, GatewayInv, GatewayTypeOK
<1>3. faults' \in 0..MaxFaults
  BY DEF Break, Fault, GatewayInv, GatewayTypeOK
<1> HIDE DEF k, j
<1>4. GatewayTypeOK'
  BY <1>1, <1>2, <1>3, ConnUpdate DEF Break, env, GatewayInv, GatewayTypeOK
<1>5. \A d \in Conns : /\ conn'[d].auth = conn[d].auth /\ conn'[d].row = conn[d].row
                       /\ conn'[d].job \in {conn[d].job, "none"} /\ HasHost(conn'[d])
  BY <1>1, <1>2, ConnUpdate DEF GatewayInv, EnrollInv, JobInv
<1>6. Quiet
  BY <1>5 DEF Break, Quiet, GatewayInv, EnrollInv, JobInv, NoDanglingAgent
<1> QED BY <1>4, <1>6 DEF QuietStep

(* The gateway crashes. *)
LEMMA CrashQuiet == ASSUME GatewayInv, GatewayCrash PROVE QuietStep
<1> DEFINE k(c) == [conn[c] EXCEPT !.pc = "closed", !.up = FALSE, !.job = "none"]
<1>1. /\ conn' = [c \in Conns |-> IF conn[c].pc = "free" THEN conn[c] ELSE k(c)]
      /\ live' = [r \in Rows |-> None] /\ Fault
      /\ UNCHANGED <<env, token, status, cred, saved, ws, draining, drains>>
  BY DEF GatewayCrash
<1>2. ASSUME NEW c \in Conns
      PROVE  /\ k(c) \in Connections /\ k(c).job = "none" /\ k(c).auth = conn[c].auth
             /\ conn[c].pc # "free" => HasHost(k(c))
  <2>1. conn[c] \in Connections /\ HasHost(conn[c])
    BY DEF GatewayInv, EnrollInv, JobInv, GatewayTypeOK
  <2> QED BY <2>1 DEF Connections, HasHost
<1> HIDE DEF k
<1>3. \A c \in Conns : /\ conn'[c] \in Connections /\ HasHost(conn'[c])
                       /\ conn'[c] = conn[c] \/ (conn'[c].job = "none" /\ conn'[c].auth = conn[c].auth)
  BY <1>1, <1>2 DEF GatewayInv, EnrollInv, JobInv, GatewayTypeOK
<1>4. faults' \in 0..MaxFaults
  <2>1. Fault /\ faults \in 0..MaxFaults
    BY <1>1 DEF GatewayInv, GatewayTypeOK
  <2> QED BY <2>1 DEF Fault
<1>5. GatewayTypeOK'
  <2>1. conn' \in [Conns -> Connections]
    BY <1>1, <1>3
  <2> QED BY <1>1, <2>1, <1>4 DEF env, GatewayInv, GatewayTypeOK
<1>6. Quiet
  BY <1>1, <1>3 DEF Quiet, GatewayInv, EnrollInv, JobInv, NoDanglingAgent
<1> QED BY <1>5, <1>6 DEF QuietStep

(* A token expires. *)
LEMMA ExpireQuiet == ASSUME GatewayInv, NEW t \in Tokens, Expire(t) PROVE QuietStep
<1>1. faults' \in 0..MaxFaults
  BY DEF Expire, Fault, GatewayInv, GatewayTypeOK
<1> QED BY <1>1 DEF Expire, env, QuietStep, Quiet, GatewayInv, EnrollInv, JobInv, NoDanglingAgent, GatewayTypeOK

-----------------------------------------------------------------------------
(* The steps of an enrollment that are not quiet *)

(* server.ts:196-215: handleEnroll begins with a row of its own. *)
LEMMA CreateKeeps ==
  ASSUME GatewayInv, NEW c \in Conns, EnrollCreate(c) PROVE GatewayInv'
<1> DEFINE r == CHOOSE u \in Unused : TRUE
           k == [conn[c] EXCEPT !.job = "created", !.row = r]
<1>1. r \in Unused
  BY DEF EnrollCreate, SendsEnroll
<1>2. conn' = [conn EXCEPT ![c] = k] /\ status' = [status EXCEPT ![r] = "enrolling"]
  BY DEF EnrollCreate, SendsEnroll, GatewayInv, GatewayTypeOK
<1> HIDE DEF r
<1>3. /\ r \in Rows /\ r \notin cred /\ \A h \in Hosts : saved[h] # r
      /\ \A d \in Conns : conn[d].job # "none" => conn[d].row # r
  BY <1>1 DEF Unused, GatewayInv, EnrollInv, JobInv, NoDanglingAgent
<1>4. conn[c] \in Connections /\ HasHost(conn[c]) /\ conn[c].pc = "open"
  BY DEF EnrollCreate, SendsEnroll, GatewayInv, EnrollInv, JobInv, GatewayTypeOK
<1>5. /\ k \in Connections /\ k.job = "created" /\ k.row = r /\ k.auth = conn[c].auth
      /\ HasHost(k)
  BY <1>3, <1>4 DEF Connections, HasHost
<1> HIDE DEF k
<1>6. /\ conn' \in [Conns -> Connections]
      /\ conn'[c] = k /\ \A d \in Conns : d # c => conn'[d] = conn[d]
  BY <1>2, <1>5, ConnUpdate DEF GatewayInv
<1>7. /\ status' \in [Rows -> Statuses]
      /\ \A q \in Rows : status'[q] # "none" <=> (q = r \/ status[q] # "none")
  BY <1>2, <1>3 DEF GatewayInv, GatewayTypeOK, Statuses
<1>8. GatewayTypeOK'
  BY <1>6, <1>7 DEF EnrollCreate, SendsEnroll, EnrollStays, env, GatewayInv, GatewayTypeOK
<1>9. UNCHANGED <<token, cred, live, saved, draining>>
  BY DEF EnrollCreate, SendsEnroll, EnrollStays
<1>10. JobInv'
  BY <1>3, <1>5, <1>6, <1>7, <1>9 DEF GatewayInv, EnrollInv, JobInv
<1>11. TokenRedeemedOnce' /\ NoDanglingAgent'
  BY <1>7, <1>9 DEF GatewayInv, EnrollInv, TokenRedeemedOnce, NoDanglingAgent, GatewayTypeOK
<1> QED BY <1>8, <1>10, <1>11 DEF GatewayInv, EnrollInv

(* enrollment.ts:56-117: a token is consumed once. *)
LEMMA ConsumeKeeps ==
  ASSUME GatewayInv, NEW c \in Conns, ConsumeEnrollmentToken(c) PROVE GatewayInv'
<1> DEFINE t == tokenOf[conn[c].host]
           j == IF token[t] = "fresh" /\ conn[c].host \notin misfits THEN "consumed" ELSE "refused"
           k == [conn[c] EXCEPT !.job = j]
<1>1. /\ conn[c] \in Connections /\ conn[c].job = "created" /\ conn[c].row \in Rows
      /\ conn[c].row \notin cred /\ conn[c].host \in Hosts /\ t \in Tokens
  BY DEF ConsumeEnrollmentToken, GatewayInv, EnrollInv, JobInv, HasHost, GatewayTypeOK
<1>2. /\ conn' = [conn EXCEPT ![c] = k]
      /\ token' = [token EXCEPT ![t] = IF token[t] = "fresh" THEN conn[c].row ELSE token[t]]
  BY DEF ConsumeEnrollmentToken, GatewayInv, GatewayTypeOK
<1>3. /\ k \in Connections /\ k.job \in {"consumed", "refused"} /\ k.row = conn[c].row
      /\ k.auth = conn[c].auth /\ HasHost(k)
      /\ k.job = "consumed" => token[t] = "fresh"
  BY <1>1 DEF Connections, HasHost
<1> HIDE DEF k, j, t
<1>4. /\ conn' \in [Conns -> Connections]
      /\ conn'[c] = k /\ \A d \in Conns : d # c => conn'[d] = conn[d]
  BY <1>2, <1>3, ConnUpdate DEF GatewayInv
<1>5. /\ token' \in [Tokens -> {"fresh", "expired"} \cup Rows]
      /\ \A u \in Tokens : token[u] \in Rows => token'[u] = token[u]
      /\ token[t] = "fresh" => token'[t] = conn[c].row
  BY <1>1, <1>2 DEF GatewayInv, GatewayTypeOK
<1>6. GatewayTypeOK'
  BY <1>4, <1>5 DEF ConsumeEnrollmentToken, EnrollStays, env, GatewayInv, GatewayTypeOK
<1>7. UNCHANGED <<status, cred, live, saved, draining>>
  BY DEF ConsumeEnrollmentToken, EnrollStays
<1>8. JobInv'
  BY <1>1, <1>3, <1>4, <1>5, <1>7 DEF GatewayInv, EnrollInv, JobInv
<1>9. TokenRedeemedOnce' /\ NoDanglingAgent'
  BY <1>5, <1>7 DEF GatewayInv, EnrollInv, TokenRedeemedOnce, NoDanglingAgent, GatewayTypeOK
<1> QED BY <1>6, <1>8, <1>9 DEF GatewayInv, EnrollInv

(* server.ts:217-233: a refused enrollment deletes its row. *)
LEMMA RefuseKeeps ==
  ASSUME GatewayInv, NEW c \in Conns, EnrollRefuse(c) PROVE GatewayInv'
<1> DEFINE r == conn[c].row
           k == [conn[c] EXCEPT !.job = "none", !.row = None, !.up = FALSE]
<1>1. /\ conn[c] \in Connections /\ conn[c].job = "refused" /\ r \in Rows /\ r \notin cred
      /\ HasHost(conn[c]) /\ \A h \in Hosts : saved[h] # r
      /\ \A d \in Conns : conn[d].job # "none" /\ conn[d].row = r => d = c
  BY DEF EnrollRefuse, GatewayInv, EnrollInv, JobInv, GatewayTypeOK
<1>2. conn' = [conn EXCEPT ![c] = k] /\ status' = [status EXCEPT ![r] = "none"]
  BY DEF EnrollRefuse, GatewayInv, GatewayTypeOK
<1>3. k \in Connections /\ k.job = "none" /\ k.auth = conn[c].auth /\ HasHost(k)
  BY <1>1 DEF Connections, HasHost
<1> HIDE DEF k, r
<1>4. /\ conn' \in [Conns -> Connections]
      /\ conn'[c] = k /\ \A d \in Conns : d # c => conn'[d] = conn[d]
  BY <1>2, <1>3, ConnUpdate DEF GatewayInv
<1>5. /\ status' \in [Rows -> Statuses]
      /\ \A q \in Rows : q # r => status'[q] = status[q]
  BY <1>1, <1>2 DEF GatewayInv, GatewayTypeOK, Statuses
<1>6. GatewayTypeOK'
  BY <1>4, <1>5 DEF EnrollRefuse, EnrollStays, env, GatewayInv, GatewayTypeOK
<1>7. UNCHANGED <<token, cred, live, saved, draining>>
  BY DEF EnrollRefuse, EnrollStays
<1>8. JobInv'
  BY <1>1, <1>3, <1>4, <1>5, <1>7 DEF GatewayInv, EnrollInv, JobInv
<1>9. TokenRedeemedOnce' /\ NoDanglingAgent'
  BY <1>1, <1>5, <1>7 DEF GatewayInv, EnrollInv, TokenRedeemedOnce, NoDanglingAgent, GatewayTypeOK
<1> QED BY <1>6, <1>8, <1>9 DEF GatewayInv, EnrollInv

(* server.ts:235-247: the row of a consumed token gets its credential. *)
LEMMA IssueKeeps ==
  ASSUME GatewayInv, NEW c \in Conns, IssueCredential(c) PROVE GatewayInv'
<1> DEFINE r == conn[c].row
           k == [conn[c] EXCEPT !.job = "issued"]
<1>1. /\ conn[c] \in Connections /\ conn[c].job = "consumed" /\ r \in Rows
      /\ HasHost(conn[c]) /\ \E t \in Tokens : token[t] = r
      /\ \A d \in Conns : conn[d].job # "none" /\ conn[d].row = r => d = c
  BY DEF IssueCredential, GatewayInv, EnrollInv, JobInv, GatewayTypeOK
<1>2. /\ conn' = [conn EXCEPT ![c] = k] /\ status' = [status EXCEPT ![r] = "online"]
      /\ cred' = cred \cup {r}
  BY DEF IssueCredential, GatewayInv, GatewayTypeOK
<1>3. k \in Connections /\ k.job = "issued" /\ k.row = r /\ k.auth = conn[c].auth /\ HasHost(k)
  BY <1>1 DEF Connections, HasHost
<1> HIDE DEF k, r
<1>4. /\ conn' \in [Conns -> Connections]
      /\ conn'[c] = k /\ \A d \in Conns : d # c => conn'[d] = conn[d]
  BY <1>2, <1>3, ConnUpdate DEF GatewayInv
<1>5. /\ status' \in [Rows -> Statuses]
      /\ \A q \in Rows : status[q] # "none" \/ q = r => status'[q] # "none"
  BY <1>1, <1>2 DEF GatewayInv, GatewayTypeOK, Statuses
<1>6. GatewayTypeOK'
  BY <1>1, <1>2, <1>4, <1>5 DEF IssueCredential, EnrollStays, env, GatewayInv, GatewayTypeOK
<1>7. UNCHANGED <<token, live, saved, draining>>
  BY DEF IssueCredential, EnrollStays
<1>a. draining' \subseteq DrainCallsOn(cred')
  <2>1. DrainCallsOn(cred) \subseteq DrainCallsOn(cred')
    BY <1>2, DrainCallsGrow
  <2> QED BY <1>7, <2>1 DEF GatewayInv, EnrollInv, JobInv
<1>8. JobInv'
  <2>1. \A d \in Conns : HasHost(conn'[d]) /\ conn'[d].auth \in cred' \cup {None}
    BY <1>2, <1>3, <1>4 DEF GatewayInv, EnrollInv, JobInv
  <2>2. ASSUME NEW d \in Conns, conn'[d].job # "none"
        PROVE  /\ conn'[d].row \in Rows /\ status'[conn'[d].row] # "none"
               /\ conn'[d].row \in cred' <=> conn'[d].job \in {"issued", "accepted"}
               /\ conn'[d].job = "consumed" => \E t \in Tokens : token'[t] = conn'[d].row
               /\ \A h \in Hosts : saved'[h] # conn'[d].row
               /\ \A e \in Conns : conn'[e].job # "none" /\ conn'[e].row = conn'[d].row => e = d
    BY <1>1, <1>2, <1>3, <1>4, <1>5, <1>7, <2>2 DEF GatewayInv, EnrollInv, JobInv, r
  <2> QED BY <1>a, <2>1, <2>2 DEF JobInv
<1>9. TokenRedeemedOnce' /\ NoDanglingAgent'
  BY <1>1, <1>2, <1>5, <1>7 DEF GatewayInv, EnrollInv, TokenRedeemedOnce, NoDanglingAgent, GatewayTypeOK
<1> QED BY <1>6, <1>8, <1>9 DEF GatewayInv, EnrollInv

(* index.ts:112-123: the host saves its credential. *)
LEMMA ReceiveKeeps ==
  ASSUME GatewayInv, NEW c \in Conns, ReceiveAccepted(c) PROVE GatewayInv'
<1> DEFINE r == conn[c].row
           g == conn[c].host
           k == [conn[c] EXCEPT !.job = "none"]
<1>1. /\ conn[c] \in Connections /\ conn[c].job = "accepted" /\ r \in cred /\ r \in Rows /\ g \in Hosts
      /\ HasHost(conn[c]) /\ \A h \in Hosts : saved[h] # r
      /\ \A d \in Conns : conn[d].job # "none" /\ conn[d].row = r => d = c
  BY DEF ReceiveAccepted, GatewayInv, EnrollInv, JobInv, HasHost, GatewayTypeOK
<1>2. conn' = [conn EXCEPT ![c] = k] /\ saved' = [saved EXCEPT ![g] = r]
  BY DEF ReceiveAccepted, GatewayInv, GatewayTypeOK
<1>3. k \in Connections /\ k.job = "none" /\ k.auth = conn[c].auth /\ HasHost(k)
  BY <1>1 DEF Connections, HasHost
<1> HIDE DEF k, r, g
<1>4. /\ conn' \in [Conns -> Connections]
      /\ conn'[c] = k /\ \A d \in Conns : d # c => conn'[d] = conn[d]
  BY <1>2, <1>3, ConnUpdate DEF GatewayInv
<1>5. /\ saved' \in [Hosts -> Rows \cup {None}]
      /\ saved'[g] = r /\ \A h \in Hosts : h # g => saved'[h] = saved[h]
  BY <1>1, <1>2 DEF GatewayInv, GatewayTypeOK
<1>6. GatewayTypeOK'
  BY <1>4, <1>5 DEF ReceiveAccepted, env, GatewayInv, GatewayTypeOK
<1>7. UNCHANGED <<token, status, cred, live, draining>>
  BY DEF ReceiveAccepted
<1>8. JobInv'
  BY <1>1, <1>3, <1>4, <1>5, <1>7 DEF GatewayInv, EnrollInv, JobInv
<1>9. TokenRedeemedOnce' /\ NoDanglingAgent'
  BY <1>1, <1>5, <1>7 DEF GatewayInv, EnrollInv, TokenRedeemedOnce, NoDanglingAgent, GatewayTypeOK
<1> QED BY <1>6, <1>8, <1>9 DEF GatewayInv, EnrollInv

-----------------------------------------------------------------------------

(* Quiet steps keep the invariant. *)
LEMMA QuietInv == ASSUME GatewayInv, QuietStep PROVE GatewayInv'
  BY QuietKeeps DEF QuietStep, GatewayInv

(* Every step keeps the invariant. *)
LEMMA EnrollAlways == GatewayInv /\ [GatewayNext]_gatewayVars => GatewayInv'
<1> SUFFICES ASSUME GatewayInv, [GatewayNext]_gatewayVars PROVE GatewayInv'
  OBVIOUS
<1>1. ASSUME NEW c \in Conns, ConnStep(c) PROVE GatewayInv'
  BY <1>1, UpgradeQuiet, EstablishQuiet, ServerCloseQuiet, ForgetQuiet, EnrollAcceptQuiet, QuietInv,
     CreateKeeps, ConsumeKeeps, RefuseKeeps, IssueKeeps, ReceiveKeeps DEF ConnStep
<1>2. ASSUME NEW c \in Conns, HandleHeartbeat(c) \/ CheckHeartbeatTimeout(c) PROVE GatewayInv'
  <2>1. conn[c].auth \in cred
    BY <1>2 DEF HandleHeartbeat, SendsHeartbeat, CheckHeartbeatTimeout, GatewayInv, EnrollInv, JobInv
  <2>2. draining' \subseteq DrainCallsOn(cred) /\ drains' \in 0..MaxDrains
    BY <1>2 DEF HandleHeartbeat, SendsHeartbeat, CheckHeartbeatTimeout, GatewayInv, EnrollInv, JobInv, GatewayTypeOK
  <2>3. {"online", "disconnected"} \subseteq Statuses \ {"none"}
    BY DEF Statuses
  <2>4. QuietStep
    BY <1>2, <2>1, <2>2, <2>3, StatusQuiet DEF HandleHeartbeat, SendsHeartbeat, CheckHeartbeatTimeout
  <2> QED BY <2>4, QuietInv
<1>3. ASSUME NEW c \in Conns, Break(c) PROVE GatewayInv'
  BY <1>3, BreakQuiet, QuietInv
<1>4. ASSUME NEW h \in Hosts, HostStep(h) PROVE GatewayInv'
  <2>1. CASE ClientClose(h)
    <3>1. QuietStep
      BY <2>1 DEF ClientClose, env, QuietStep, Quiet, GatewayInv, EnrollInv, JobInv, NoDanglingAgent, GatewayTypeOK
    <3> QED BY <3>1, QuietInv
  <2>2. CASE \E c \in Conns : Connect(h, c)
    BY <2>2, ConnectQuiet, QuietInv
  <2> QED BY <1>4, <2>1, <2>2 DEF HostStep
<1>5. ASSUME NEW r \in Rows, DrainBegin(r) PROVE GatewayInv'
  <2>1. r \in cred /\ draining' \subseteq DrainCallsOn(cred) /\ drains' \in 0..MaxDrains
    BY <1>5 DEF DrainBegin, DrainCallsOn, GatewayInv, EnrollInv, JobInv, GatewayTypeOK
  <2>2. "draining" \in Statuses \ {"none"}
    BY DEF Statuses
  <2>3. QuietStep
    BY <1>5, <2>1, <2>2, StatusQuiet DEF DrainBegin
  <2> QED BY <2>3, QuietInv
<1>6. ASSUME NEW d \in draining, DrainEnd(d) PROVE GatewayInv'
  <2>1. QuietStep
    <3>1. d.row \in cred /\ draining' \subseteq DrainCallsOn(cred) /\ drains' \in 0..MaxDrains
      BY <1>6 DEF DrainEnd, DrainCallsOn, GatewayInv, EnrollInv, JobInv, GatewayTypeOK
    <3>2. "disabled" \in Statuses \ {"none"}
      BY DEF Statuses
    <3> QED BY <1>6, <3>1, <3>2, StatusQuiet DEF DrainEnd
  <2> QED BY <2>1, QuietInv
<1>7. CASE GatewayCrash
  BY <1>7, CrashQuiet, QuietInv
<1>8. ASSUME NEW t \in Tokens, Expire(t) PROVE GatewayInv'
  BY <1>8, ExpireQuiet, QuietInv
<1>9. CASE UNCHANGED gatewayVars
  <2>1. QuietStep
    BY <1>9 DEF gatewayVars, env, QuietStep, Quiet, GatewayInv, EnrollInv, JobInv, NoDanglingAgent, GatewayTypeOK
  <2> QED BY <2>1, QuietInv
<1> QED BY <1>1, <1>2, <1>3, <1>4, <1>5, <1>6, <1>7, <1>8, <1>9 DEF GatewayNext

(* A redeemed token gives one credential to one host, and whatever is      *)
(* interrupted leaves no credential, state file or registered connection   *)
(* without its row: for any number of hosts racing on any connections, any *)
(* faults, and upgrades that end in any order (handleEnroll,               *)
(* consumeEnrollmentToken).                                                *)
THEOREM EnrollmentSafe == GatewaySpec => [](GatewayTypeOK /\ TokenRedeemedOnce /\ NoDanglingAgent)
<1>1. GatewayInv => GatewayTypeOK /\ TokenRedeemedOnce /\ NoDanglingAgent
  BY DEF GatewayInv, EnrollInv
<1> QED BY <1>1, EnrollInitially, EnrollAlways, PTL DEF GatewaySpec

(* In particular a refusal, a crash of the gateway or a lost connection in   *)
(* the middle of handleEnroll leaves no credential, state file or registered *)
(* connection that belongs to no row.                                        *)
THEOREM NoAgentDangles == GatewaySpec => []NoDanglingAgent
BY EnrollmentSafe, PTL

(* Every variable keeps its type, whatever handlers interleave. *)
THEOREM GatewayTypes == GatewaySpec => []GatewayTypeOK
BY EnrollmentSafe, PTL

-----------------------------------------------------------------------------
(* The connection a host uses is the one its agent is reached on *)

(* The rows a connection stands for, now or when its upgrade has ended. *)
Names(k, r) == k.claim = r \/ k.auth = r

(* A host uses a connection of its own, and opens no other one before the     *)
(* upgrade of the last has ended.                                             *)
Wired ==
  /\ \A h \in Hosts : ws[h] # None => conn[ws[h]].host = h /\ conn[ws[h]].pc # "free"
  /\ \A c \in Conns : conn[c].pc \in {"verify", "upgraded"} => ws[conn[c].host] \in {c, None}

(* No connection stands for the row of an enrollment in progress but its own, *)
(* and all that stand for a row are of the host that has its credential.      *)
Named ==
  /\ \A c \in Conns : conn[c].claim \in cred \cup {None}
  /\ \A c \in Conns : conn[c].job # "none" =>
       \A d \in Conns \ {c} : ~Names(conn[d], conn[c].row)
  /\ \A c, d \in Conns, r \in Rows :
       Names(conn[c], r) /\ Names(conn[d], r) => conn[c].host = conn[d].host
  /\ \A c \in Conns, h \in Hosts :
       saved[h] # None /\ Names(conn[c], saved[h]) => conn[c].host = h

ServiceInv == GatewayInv /\ Wired /\ Named /\ ServedConnection

(* No connection and no row to begin with. *)
LEMMA ServiceInit == GatewayInit => ServiceInv
<1> SUFFICES ASSUME GatewayInit PROVE ServiceInv
  OBVIOUS
<1>1. GatewayInv
  BY EnrollInitially
<1>2. /\ \A c \in Conns : /\ conn[c].pc = "free" /\ conn[c].job = "none"
                          /\ conn[c].claim = None /\ conn[c].auth = None
      /\ \A h \in Hosts : ws[h] = None /\ saved[h] = None
  BY DEF GatewayInit, FreeConn
<1> QED BY <1>1, <1>2 DEF ServiceInv, Wired, Named, Names, ServedConnection

(* Steps in which no host opens a connection *)
LEMMA WiredKept ==
  ASSUME ServiceInv, \A h \in Hosts : ws'[h] \in {ws[h], None},
         \A c \in Conns : conn'[c].host = conn[c].host \/ (conn'[c].pc = "free" /\ \A h \in Hosts : ws'[h] # c),
         \A c \in Conns : conn'[c].pc = "free" => conn[c].pc = "free" \/ \A h \in Hosts : ws'[h] # c,
         \A c \in Conns : conn'[c].pc \in {"verify", "upgraded"} => conn[c].pc \in {"verify", "upgraded"}
  PROVE  Wired'
<1>1. \A h \in Hosts : ws[h] \in Conns \cup {None}
  BY DEF ServiceInv, GatewayInv, GatewayTypeOK
<1>2. \A c \in Conns : conn[c].pc \in {"verify", "upgraded"} => conn[c].host \in Hosts
  BY DEF ServiceInv, GatewayInv, EnrollInv, JobInv, HasHost
<1>3. ASSUME NEW h \in Hosts, ws'[h] # None PROVE conn'[ws'[h]].host = h /\ conn'[ws'[h]].pc # "free"
  <2>1. ws'[h] = ws[h] /\ ws[h] \in Conns /\ conn[ws[h]].host = h /\ conn[ws[h]].pc # "free"
    BY <1>1, <1>3 DEF ServiceInv, Wired
  <2> QED BY <2>1
<1>4. ASSUME NEW c \in Conns, conn'[c].pc \in {"verify", "upgraded"}
      PROVE  ws'[conn'[c].host] \in {c, None}
  <2>1. conn[c].pc \in {"verify", "upgraded"} /\ conn'[c].host = conn[c].host
    BY <1>4
  <2>2. conn[c].host \in Hosts /\ ws[conn[c].host] \in {c, None}
    BY <1>2, <2>1 DEF ServiceInv, Wired
  <2> QED BY <2>1, <2>2
<1> QED BY <1>3, <1>4 DEF Wired

(* Steps in which no connection comes to stand for another row *)
LEMMA NamedKept ==
  ASSUME ServiceInv, saved' = saved, cred \subseteq cred',
         \A c \in Conns, r \in Rows :
           Names(conn'[c], r) => Names(conn[c], r) /\ conn'[c].host = conn[c].host,
         \A c \in Conns : conn'[c].claim \in {conn[c].claim, None},
         \A c \in Conns : conn'[c].job # "none" => conn[c].job # "none" /\ conn'[c].row = conn[c].row
  PROVE  Named'
<1>1. /\ \A h \in Hosts : saved[h] \in Rows \cup {None}
      /\ \A c \in Conns : conn[c].job # "none" => conn[c].row \in Rows
  BY DEF ServiceInv, GatewayInv, GatewayTypeOK, EnrollInv, JobInv
<1>2. \A c \in Conns : conn'[c].claim \in cred' \cup {None}
  BY DEF ServiceInv, Named
<1>3. \A c \in Conns : conn'[c].job # "none" =>
        \A d \in Conns \ {c} : ~Names(conn'[d], conn'[c].row)
  BY <1>1 DEF ServiceInv, Named
<1>4. \A c, d \in Conns, r \in Rows :
        Names(conn'[c], r) /\ Names(conn'[d], r) => conn'[c].host = conn'[d].host
  BY DEF ServiceInv, Named
<1>5. \A c \in Conns, h \in Hosts :
        saved'[h] # None /\ Names(conn'[c], saved'[h]) => conn'[c].host = h
  BY <1>1 DEF ServiceInv, Named
<1> QED BY <1>2, <1>3, <1>4, <1>5 DEF Named, Names

(* Steps after which a connection is registered that was before *)
LEMMA ServedKept ==
  ASSUME ServiceInv, \A h \in Hosts : ws'[h] \in {ws[h], None},
         \A c \in Conns : conn'[c].pc = "open" /\ conn'[c].auth # None =>
           /\ conn[c].pc = "open" /\ conn'[c].auth = conn[c].auth
           /\ live[conn[c].auth] = c => live'[conn[c].auth] = c
  PROVE  ServedConnection'
<1>1. \A h \in Hosts : ws[h] \in Conns \cup {None}
  BY DEF ServiceInv, GatewayInv, GatewayTypeOK
<1> SUFFICES ASSUME NEW h \in Hosts, ws'[h] # None, conn'[ws'[h]].pc = "open",
                    conn'[ws'[h]].auth # None
             PROVE  live'[conn'[ws'[h]].auth] = ws'[h]
  BY DEF ServedConnection
<1>2. ws'[h] = ws[h] /\ ws[h] \in Conns
  BY <1>1
<1> QED BY <1>2 DEF ServiceInv, ServedConnection

(* Steps that leave alone what connections stand for and which ones are used *)
LEMMA ServiceKept ==
  ASSUME ServiceInv, GatewayInv', ws' = ws, saved' = saved, cred \subseteq cred',
         \A c \in Conns :
           /\ conn'[c].host = conn[c].host /\ conn'[c].claim = conn[c].claim
           /\ conn'[c].auth = conn[c].auth
           /\ conn'[c].job # "none" => conn[c].job # "none" /\ conn'[c].row = conn[c].row
           /\ conn'[c].pc = conn[c].pc \/ (conn'[c].pc = "closed" /\ conn[c].pc # "free"),
         \A c \in Conns : conn'[c].pc = "open" /\ conn[c].auth # None =>
           (live[conn[c].auth] = c => live'[conn[c].auth] = c)
  PROVE  ServiceInv'
<1>1. Wired'
  BY WiredKept
<1>2. Named'
  BY NamedKept DEF Names
<1>3. ServedConnection'
  BY ServedKept
<1> QED BY <1>1, <1>2, <1>3 DEF ServiceInv

(* index.ts:54-66: the new connection becomes the one its host uses; in *)
(* order, the one before has ended its upgrade.                         *)
LEMMA ConnectServes ==
  ASSUME ServiceInv, GatewayInv', Ordered, NEW h \in Hosts, NEW c \in Conns, Connect(h, c)
  PROVE  ServiceInv'
<1> DEFINE k == [FreeConn EXCEPT !.host = h, !.pc = "verify", !.up = TRUE, !.claim = saved[h]]
<1>1. /\ k \in Connections /\ k.host = h /\ k.pc = "verify" /\ k.claim = saved[h]
      /\ k.auth = None /\ k.job = "none"
  BY DEF FreeConn, Connections, ServiceInv, GatewayInv, GatewayTypeOK
<1>2. conn' = [conn EXCEPT ![c] = k] /\ ws' = [ws EXCEPT ![h] = c]
  BY DEF Connect
<1> HIDE DEF k
<1>3. conn'[c] = k /\ \A d \in Conns \ {c} : conn'[d] = conn[d]
  BY <1>1, <1>2, ConnUpdate DEF ServiceInv, GatewayInv
<1>4. /\ ws'[h] = c /\ \A g \in Hosts \ {h} : ws'[g] = ws[g]
      /\ \A g \in Hosts : ws[g] \in Conns \cup {None} /\ ws[g] # c
  BY <1>2 DEF Connect, ServiceInv, GatewayInv, GatewayTypeOK, Wired
<1>5. \A d \in Conns : conn[d].host = h => conn[d].pc \notin {"verify", "upgraded"}
  BY DEF Connect
<1>6. UNCHANGED <<saved, cred, live>>
  BY DEF Connect
<1>7. Wired'
  <2>1. \A g \in Hosts : ws'[g] # None => conn'[ws'[g]].host = g /\ conn'[ws'[g]].pc # "free"
    BY <1>1, <1>3, <1>4 DEF ServiceInv, Wired
  <2>2. ASSUME NEW d \in Conns, conn'[d].pc \in {"verify", "upgraded"}
        PROVE  ws'[conn'[d].host] \in {d, None}
    <3>1. CASE d = c
      BY <1>1, <1>3, <1>4, <3>1
    <3>2. CASE d # c
      <4>1. conn'[d] = conn[d] /\ conn[d].host # h /\ conn[d].host \in Hosts
        BY <1>3, <1>5, <2>2, <3>2 DEF ServiceInv, GatewayInv, EnrollInv, JobInv, HasHost
      <4>2. ws[conn[d].host] \in {d, None}
        BY <2>2, <4>1 DEF ServiceInv, Wired
      <4> QED BY <1>4, <4>1, <4>2
    <3> QED BY <3>1, <3>2
  <2> QED BY <2>1, <2>2 DEF Wired
<1>8. Named'
  <2>1. saved[h] \in cred \cup {None} /\ \A g \in Hosts : saved[g] \in Rows \cup {None}
    BY DEF ServiceInv, GatewayInv, EnrollInv, NoDanglingAgent, GatewayTypeOK
  <2>2. \A d \in Conns : conn'[d].claim \in cred' \cup {None}
    BY <1>1, <1>3, <1>6, <2>1 DEF ServiceInv, Named
  <2>3. ASSUME NEW d \in Conns, conn'[d].job # "none"
        PROVE  \A e \in Conns \ {d} : ~Names(conn'[e], conn'[d].row)
    <3>1. d # c /\ conn'[d] = conn[d]
      BY <1>1, <1>3, <2>3
    <3>2. conn[d].row \in Rows /\ saved[h] # conn[d].row
      BY <2>3, <3>1 DEF ServiceInv, GatewayInv, EnrollInv, JobInv
    <3> QED BY <1>1, <1>3, <2>3, <3>1, <3>2 DEF ServiceInv, Named, Names
  <2>4. ASSUME NEW r \in Rows, NEW d \in Conns \ {c}, Names(k, r), Names(conn[d], r)
        PROVE  conn[d].host = h
    <3>1. saved[h] = r
      BY <1>1, <2>4 DEF Names
    <3> QED BY <2>4, <3>1 DEF ServiceInv, Named
  <2>5. \A d, e \in Conns, r \in Rows :
          Names(conn'[d], r) /\ Names(conn'[e], r) => conn'[d].host = conn'[e].host
    BY <1>1, <1>3, <2>4 DEF ServiceInv, Named
  <2>6. ASSUME NEW d \in Conns, NEW g \in Hosts, saved[g] # None, Names(conn'[d], saved[g])
        PROVE  conn'[d].host = g
    <3>1. CASE d = c
      <4>1. saved[h] = saved[g]
        BY <1>1, <1>3, <2>1, <2>6, <3>1 DEF Names
      <4> QED BY <1>1, <1>3, <2>6, <3>1, <4>1
            DEF ServiceInv, GatewayInv, EnrollInv, TokenRedeemedOnce
    <3>2. CASE d # c
      BY <1>3, <2>6, <3>2 DEF ServiceInv, Named
    <3> QED BY <3>1, <3>2
  <2> QED BY <1>6, <2>2, <2>3, <2>5, <2>6 DEF Named, Names
<1>9. ServedConnection'
  BY <1>1, <1>3, <1>4, <1>6 DEF ServiceInv, ServedConnection
<1> QED BY <1>7, <1>8, <1>9 DEF ServiceInv

(* server.ts, the upgrade handler: authenticates for the row it was asked for *)
LEMMA UpgradeServes ==
  ASSUME ServiceInv, GatewayInv', NEW c \in Conns, Upgrade(c) PROVE ServiceInv'
<1> DEFINE r == conn[c].claim
           a == IF r \in cred THEN r ELSE conn[c].auth
           k == [conn[c] EXCEPT !.pc = "upgraded", !.auth = a]
<1>1. conn[c] \in Connections /\ a \in {conn[c].auth, r} /\ conn[c].pc = "verify"
      /\ conn[c].auth \in Rows \cup {None} /\ r \in Rows \cup {None}
  BY DEF ServiceInv, GatewayInv, GatewayTypeOK, Connections, Upgrade
<1>2. conn' = [conn EXCEPT ![c] = k]
  <2>1. conn' = [conn EXCEPT ![c] = IF r \in cred THEN [conn[c] EXCEPT !.pc = "upgraded", !.auth = r]
                                    ELSE [conn[c] EXCEPT !.pc = "upgraded"]]
    BY DEF Upgrade, Verify, ServiceInv, GatewayInv, GatewayTypeOK
  <2>2. r \notin cred => [conn[c] EXCEPT !.pc = "upgraded"] = k
    BY <1>1 DEF Connections
  <2> QED BY <2>1, <2>2
<1>3. /\ k \in Connections /\ k.host = conn[c].host /\ k.pc = "upgraded" /\ k.claim = r /\ k.auth = a
      /\ k.job = conn[c].job /\ k.row = conn[c].row
  <2> HIDE DEF a
  <2> QED BY <1>1 DEF Connections
<1> HIDE DEF k, a
<1>4. conn'[c] = k /\ \A d \in Conns \ {c} : conn'[d] = conn[d]
  BY <1>2, <1>3, ConnUpdate DEF ServiceInv, GatewayInv
<1>5. UNCHANGED <<saved, cred, ws, live>>
  BY DEF Upgrade
<1>6. Wired'
  BY <1>1, <1>3, <1>4, <1>5, WiredKept
<1>7. Named'
  BY <1>1, <1>3, <1>4, <1>5, NamedKept DEF Names
<1>8. ServedConnection'
  BY <1>3, <1>4, <1>5, ServedKept
<1> QED BY <1>6, <1>7, <1>8 DEF ServiceInv

(* server.ts, the "connection" event: the connection registered last for a    *)
(* row is the one its host uses, as no older one is still being upgraded.     *)
LEMMA EstablishServes ==
  ASSUME ServiceInv, GatewayInv', NEW c \in Conns, Establish(c) PROVE ServiceInv'
<1>1. PICK p \in {"open", "closed"} :
        /\ conn' = [conn EXCEPT ![c].pc = p]
        /\ p = "open" => live' = IF conn[c].auth = None THEN live ELSE [live EXCEPT ![conn[c].auth] = c]
        /\ p = "closed" => live' = live
  BY DEF Establish
<1> DEFINE k == [conn[c] EXCEPT !.pc = p]
<1>2. /\ conn[c] \in Connections /\ conn[c].pc = "upgraded" /\ conn[c].host \in Hosts
      /\ conn[c].auth \in Rows \cup {None} /\ live \in [Rows -> Conns \cup {None}]
  BY DEF Establish, ServiceInv, GatewayInv, EnrollInv, JobInv, HasHost, GatewayTypeOK, Connections
<1>3. /\ k \in Connections /\ k.host = conn[c].host /\ k.pc = p /\ k.claim = conn[c].claim
      /\ k.auth = conn[c].auth /\ k.job = conn[c].job /\ k.row = conn[c].row
  BY <1>2 DEF Connections
<1>4. conn' = [conn EXCEPT ![c] = k]
  BY <1>1 DEF ServiceInv, GatewayInv, GatewayTypeOK
<1> HIDE DEF k
<1>5. conn'[c] = k /\ \A d \in Conns \ {c} : conn'[d] = conn[d]
  BY <1>3, <1>4, ConnUpdate DEF ServiceInv, GatewayInv
<1>6. UNCHANGED <<saved, cred, ws>>
  BY DEF Establish
<1>7. Wired'
  BY <1>2, <1>3, <1>5, <1>6, WiredKept
<1>8. Named'
  BY <1>3, <1>5, <1>6, NamedKept DEF Names
<1>9. ServedConnection'
  <2> SUFFICES ASSUME NEW h \in Hosts, ws[h] # None, conn'[ws[h]].pc = "open",
                      conn'[ws[h]].auth # None
               PROVE  live'[conn'[ws[h]].auth] = ws[h]
    BY <1>6 DEF ServedConnection
  <2>1. ws[h] \in Conns /\ conn[ws[h]].host = h
    BY DEF ServiceInv, GatewayInv, GatewayTypeOK, Wired
  <2>2. CASE ws[h] = c
    BY <1>1, <1>2, <1>3, <1>5, <2>2
  <2>3. CASE ws[h] # c
    <3>1. conn'[ws[h]] = conn[ws[h]] /\ live[conn[ws[h]].auth] = ws[h]
      BY <1>5, <2>1, <2>3 DEF ServiceInv, ServedConnection
    <3>2. conn[ws[h]].auth \in Rows
      BY <2>1, <3>1 DEF ServiceInv, GatewayInv, GatewayTypeOK, Connections
    <3>3. conn[c].auth # conn[ws[h]].auth
      <4> SUFFICES ASSUME conn[c].auth = conn[ws[h]].auth PROVE FALSE
        OBVIOUS
      <4>1. conn[c].host = h
        BY <2>1, <3>2 DEF ServiceInv, Named, Names
      <4> QED BY <1>2, <2>3, <4>1 DEF ServiceInv, Wired
    <3> QED BY <1>1, <1>2, <3>1, <3>2, <3>3
  <2> QED BY <2>2, <2>3
<1> QED BY <1>7, <1>8, <1>9 DEF ServiceInv

(* index.ts:135-148: the host's close event; it uses no connection now. *)
LEMMA ClientCloseServes ==
  ASSUME ServiceInv, GatewayInv', NEW h \in Hosts, ClientClose(h) PROVE ServiceInv'
<1>1. UNCHANGED <<saved, cred, conn, live>> /\ \A g \in Hosts : ws'[g] \in {ws[g], None}
  BY DEF ClientClose, ServiceInv, GatewayInv, GatewayTypeOK
<1>2. Wired' /\ Named' /\ ServedConnection'
  BY <1>1, WiredKept, NamedKept, ServedKept
<1> QED BY <1>2 DEF ServiceInv

(* A connection both ends have forgotten serves no row. *)
LEMMA ForgetServes ==
  ASSUME ServiceInv, GatewayInv', NEW c \in Conns, Forget(c) PROVE ServiceInv'
<1>1. /\ FreeConn \in Connections /\ FreeConn.pc = "free" /\ FreeConn.claim = None
      /\ FreeConn.auth = None /\ FreeConn.job = "none"
  BY DEF FreeConn, Connections
<1>2. conn'[c] = FreeConn /\ \A d \in Conns \ {c} : conn'[d] = conn[d]
  BY <1>1, ConnUpdate DEF Forget, ServiceInv, GatewayInv
<1>3. UNCHANGED <<saved, cred, ws, live>> /\ \A h \in Hosts : ws'[h] # c
  BY DEF Forget
<1>4. Wired' /\ Named' /\ ServedConnection'
  BY <1>1, <1>2, <1>3, WiredKept, NamedKept, ServedKept DEF Names
<1> QED BY <1>4 DEF ServiceInv

(* server.ts, handleEnroll: nothing stands for a row that was just created *)
LEMMA CreateServes ==
  ASSUME ServiceInv, GatewayInv', NEW c \in Conns, EnrollCreate(c) PROVE ServiceInv'
<1> DEFINE r == CHOOSE u \in Unused : TRUE
           k == [conn[c] EXCEPT !.job = "created", !.row = r]
<1>1. r \in Unused
  BY DEF EnrollCreate, SendsEnroll
<1>2. conn' = [conn EXCEPT ![c] = k]
  BY DEF EnrollCreate, SendsEnroll, ServiceInv, GatewayInv, GatewayTypeOK
<1> HIDE DEF r
<1>3. r \in Rows /\ \A d \in Conns : ~Names(conn[d], r)
  <2>1. r \in Rows /\ r \notin cred
    BY <1>1 DEF Unused, ServiceInv, GatewayInv, EnrollInv, NoDanglingAgent
  <2>2. \A d \in Conns : conn[d].claim \in cred \cup {None} /\ conn[d].auth \in cred \cup {None}
    BY DEF ServiceInv, Named, GatewayInv, EnrollInv, JobInv
  <2> QED BY <2>1, <2>2 DEF Names
<1>4. /\ k \in Connections /\ k.host = conn[c].host /\ k.pc = conn[c].pc /\ k.claim = conn[c].claim
      /\ k.auth = conn[c].auth /\ k.row = r
  <2>1. conn[c] \in Connections
    BY DEF ServiceInv, GatewayInv, GatewayTypeOK
  <2> QED BY <1>3, <2>1 DEF Connections
<1> HIDE DEF k
<1>5. conn'[c] = k /\ \A d \in Conns \ {c} : conn'[d] = conn[d]
  BY <1>2, <1>4, ConnUpdate DEF ServiceInv, GatewayInv
<1>6. UNCHANGED <<saved, cred, ws, live>>
  BY DEF EnrollCreate, EnrollStays
<1>7. \A d \in Conns : /\ conn'[d].host = conn[d].host /\ conn'[d].claim = conn[d].claim
                       /\ conn'[d].auth = conn[d].auth /\ conn'[d].pc = conn[d].pc
  BY <1>4, <1>5
<1>8. Wired' /\ ServedConnection'
  BY <1>6, <1>7, WiredKept, ServedKept
<1>9. Named'
  <2>1. ASSUME NEW d \in Conns, conn'[d].job # "none", NEW e \in Conns \ {d}
        PROVE  ~Names(conn'[e], conn'[d].row)
    BY <1>3, <1>4, <1>5, <1>7, <2>1 DEF ServiceInv, Named, Names
  <2>2. \A d \in Conns : conn'[d].claim \in cred' \cup {None}
    BY <1>6, <1>7 DEF ServiceInv, Named
  <2>3. \A d \in Conns : \A q : Names(conn'[d], q) <=> Names(conn[d], q)
    BY <1>7 DEF Names
  <2>4. \A d, e \in Conns, q \in Rows :
          Names(conn'[d], q) /\ Names(conn'[e], q) => conn'[d].host = conn'[e].host
    BY <1>7, <2>3 DEF ServiceInv, Named
  <2>5. \A d \in Conns, h \in Hosts :
          saved'[h] # None /\ Names(conn'[d], saved'[h]) => conn'[d].host = h
    BY <1>6, <1>7, <2>3 DEF ServiceInv, Named
  <2> QED BY <2>1, <2>2, <2>4, <2>5 DEF Named, Names
<1> QED BY <1>8, <1>9 DEF ServiceInv

(* server.ts, the end of handleEnroll: the row's first connection *)
LEMMA AcceptServes ==
  ASSUME ServiceInv, GatewayInv', NEW c \in Conns, EnrollAccept(c) PROVE ServiceInv'
<1> DEFINE r == conn[c].row
           j == IF conn[c].up THEN "accepted" ELSE "none"
           k == [conn[c] EXCEPT !.auth = r, !.job = j]
<1>1. /\ conn[c] \in Connections /\ r \in Rows /\ conn[c].job = "issued"
      /\ j \in {"accepted", "none"} /\ \A h \in Hosts : saved[h] # r
      /\ \A d \in Conns \ {c} : ~Names(conn[d], r)
  BY DEF EnrollAccept, ServiceInv, Named, GatewayInv, EnrollInv, JobInv, GatewayTypeOK
<1>2. conn' = [conn EXCEPT ![c] = k] /\ live' = [live EXCEPT ![r] = c]
  BY DEF EnrollAccept, ServiceInv, GatewayInv, GatewayTypeOK
<1>3. /\ k \in Connections /\ k.host = conn[c].host /\ k.pc = conn[c].pc /\ k.claim = conn[c].claim
      /\ k.auth = r /\ k.row = r
  <2> HIDE DEF j
  <2> QED BY <1>1 DEF Connections
<1> HIDE DEF k, j
<1>4. conn'[c] = k /\ \A d \in Conns \ {c} : conn'[d] = conn[d]
  BY <1>2, <1>3, ConnUpdate DEF ServiceInv, GatewayInv
<1>5. UNCHANGED <<saved, cred, ws>>
  BY DEF EnrollAccept, EnrollStays
<1>6. \A d \in Conns : conn'[d].host = conn[d].host /\ conn'[d].pc = conn[d].pc
                       /\ conn'[d].claim = conn[d].claim
  BY <1>3, <1>4
<1>7. Wired'
  BY <1>5, <1>6, WiredKept
<1> HIDE DEF r
<1>8. Named'
  <2>1. \A d \in Conns : conn'[d].claim \in cred' \cup {None}
    BY <1>5, <1>6 DEF ServiceInv, Named
  <2>2. ASSUME NEW d \in Conns, NEW q, Names(conn'[d], q), ~Names(conn[d], q) PROVE d = c /\ q = r
    BY <1>3, <1>4, <2>2 DEF Names
  <2>3. ASSUME NEW d \in Conns, conn'[d].job # "none", NEW e \in Conns \ {d}
        PROVE  ~Names(conn'[e], conn'[d].row)
    <3>1. conn[d].job # "none" /\ conn'[d].row = conn[d].row
      BY <1>1, <1>3, <1>4, <2>3 DEF r
    <3>2. ~Names(conn[e], conn[d].row)
      BY <3>1 DEF ServiceInv, Named
    <3>3. e = c => conn[d].row # r
      BY <1>1, <3>1 DEF ServiceInv, GatewayInv, EnrollInv, JobInv, r
    <3> QED BY <2>2, <3>1, <3>2, <3>3
  <2>4. ASSUME NEW d \in Conns, NEW e \in Conns, NEW q \in Rows, Names(conn'[d], q), Names(conn'[e], q)
        PROVE  conn'[d].host = conn'[e].host
    <3>1. CASE q = r
      BY <1>1, <1>4, <2>4, <3>1
    <3>2. CASE q # r
      <4>1. Names(conn[d], q) /\ Names(conn[e], q)
        BY <2>2, <2>4, <3>2
      <4> QED BY <1>6, <4>1 DEF ServiceInv, Named
    <3> QED BY <3>1, <3>2
  <2>5. ASSUME NEW d \in Conns, NEW h \in Hosts, saved[h] # None, Names(conn'[d], saved[h])
        PROVE  conn'[d].host = h
    BY <1>1, <1>6, <2>2, <2>5 DEF ServiceInv, Named
  <2> QED BY <1>5, <2>1, <2>3, <2>4, <2>5 DEF Named, Names
<1>9. ServedConnection'
  <2> SUFFICES ASSUME NEW h \in Hosts, ws[h] # None, conn'[ws[h]].pc = "open",
                      conn'[ws[h]].auth # None
               PROVE  live'[conn'[ws[h]].auth] = ws[h]
    BY <1>5 DEF ServedConnection
  <2>1. ws[h] \in Conns /\ live \in [Rows -> Conns \cup {None}]
    BY DEF ServiceInv, GatewayInv, GatewayTypeOK
  <2>2. CASE ws[h] = c
    BY <1>1, <1>2, <1>3, <1>4, <2>1, <2>2
  <2>3. CASE ws[h] # c
    <3>1. conn'[ws[h]] = conn[ws[h]] /\ live[conn[ws[h]].auth] = ws[h]
      BY <1>4, <2>1, <2>3 DEF ServiceInv, ServedConnection
    <3>2. conn[ws[h]].auth # r
      BY <1>1, <2>1, <2>3 DEF Names
    <3> QED BY <1>2, <2>1, <3>1, <3>2
  <2> QED BY <2>2, <2>3
<1> QED BY <1>7, <1>8, <1>9 DEF ServiceInv

(* index.ts: the host saves the credential of a row only its own connection *)
(* stands for                                                               *)
LEMMA ReceiveServes ==
  ASSUME ServiceInv, GatewayInv', NEW c \in Conns, ReceiveAccepted(c) PROVE ServiceInv'
<1> DEFINE r == conn[c].row
           g == conn[c].host
           k == [conn[c] EXCEPT !.job = "none"]
<1>1. /\ conn[c] \in Connections /\ r \in Rows /\ g \in Hosts /\ conn[c].job # "none"
      /\ \A d \in Conns \ {c} : ~Names(conn[d], r)
      /\ saved \in [Hosts -> Rows \cup {None}]
  BY DEF ReceiveAccepted, ServiceInv, Named, GatewayInv, EnrollInv, JobInv, HasHost, GatewayTypeOK
<1>2. conn' = [conn EXCEPT ![c] = k] /\ saved' = [saved EXCEPT ![g] = r]
  BY DEF ReceiveAccepted, ServiceInv, GatewayInv, GatewayTypeOK
<1>3. /\ k \in Connections /\ k.host = g /\ k.pc = conn[c].pc /\ k.claim = conn[c].claim
      /\ k.auth = conn[c].auth /\ k.job = "none"
  BY <1>1 DEF Connections
<1> HIDE DEF k
<1>4. conn'[c] = k /\ \A d \in Conns \ {c} : conn'[d] = conn[d]
  BY <1>2, <1>3, ConnUpdate DEF ServiceInv, GatewayInv
<1>5. UNCHANGED <<cred, ws, live>>
  BY DEF ReceiveAccepted
<1>6. \A d \in Conns : /\ conn'[d].host = conn[d].host /\ conn'[d].claim = conn[d].claim
                       /\ conn'[d].auth = conn[d].auth /\ conn'[d].pc = conn[d].pc
                       /\ conn'[d].job # "none" => conn'[d] = conn[d]
  BY <1>3, <1>4
<1>7. Wired' /\ ServedConnection'
  BY <1>5, <1>6, WiredKept, ServedKept
<1>8. Named'
  <2>1. \A d \in Conns : \A q : Names(conn'[d], q) <=> Names(conn[d], q)
    BY <1>6 DEF Names
  <2>2. \A d \in Conns : conn'[d].claim \in cred' \cup {None}
    BY <1>5, <1>6 DEF ServiceInv, Named
  <2>3. \A d \in Conns : conn'[d].job # "none" =>
          \A e \in Conns \ {d} : ~Names(conn'[e], conn'[d].row)
    BY <1>6, <2>1 DEF ServiceInv, Named
  <2>4. \A d, e \in Conns, q \in Rows :
          Names(conn'[d], q) /\ Names(conn'[e], q) => conn'[d].host = conn'[e].host
    BY <1>6, <2>1 DEF ServiceInv, Named
  <2>5. ASSUME NEW d \in Conns, NEW h \in Hosts, saved'[h] # None, Names(conn'[d], saved'[h])
        PROVE  conn'[d].host = h
    <3>1. CASE h = g
      BY <1>1, <1>2, <1>6, <2>1, <2>5, <3>1
    <3>2. CASE h # g
      <4>1. saved'[h] = saved[h]
        BY <1>1, <1>2, <3>2
      <4> QED BY <1>6, <2>1, <2>5, <4>1 DEF ServiceInv, Named
    <3> QED BY <3>1, <3>2
  <2> QED BY <2>2, <2>3, <2>4, <2>5 DEF Named, Names
<1> QED BY <1>7, <1>8 DEF ServiceInv

(* The steps that replace one record and none of what it stands for *)
LEMMA RecordServes ==
  ASSUME ServiceInv, GatewayInv', NEW c \in Conns,
         \/ ConsumeEnrollmentToken(c) \/ EnrollRefuse(c) \/ IssueCredential(c) \/ Break(c)
  PROVE  ServiceInv'
<1> DEFINE x == conn[c]
<1>1. x \in Connections /\ conn \in [Conns -> Connections]
  BY DEF ServiceInv, GatewayInv, GatewayTypeOK
<1>2. ws' = ws /\ saved' = saved /\ cred \subseteq cred' /\ live' = live
  BY DEF ConsumeEnrollmentToken, EnrollRefuse, IssueCredential, Break, EnrollStays
<1>3. /\ \A d \in Conns \ {c} : conn'[d] = conn[d]
      /\ conn'[c].host = x.host /\ conn'[c].claim = x.claim /\ conn'[c].auth = x.auth
      /\ conn'[c].pc = x.pc
      /\ conn'[c].job # "none" => x.job # "none" /\ conn'[c].row = x.row
  <2> HIDE DEF x
  <2>1. CASE ConsumeEnrollmentToken(c)
    <3>1. PICK j \in {"consumed", "refused"} : conn' = [conn EXCEPT ![c] = [x EXCEPT !.job = j]]
      BY <2>1 DEF ConsumeEnrollmentToken, x
    <3>2. x.job # "none"
      BY <2>1 DEF ConsumeEnrollmentToken, x
    <3> QED BY <1>1, <3>1, <3>2 DEF Connections
  <2>2. CASE EnrollRefuse(c)
    <3>1. conn' = [conn EXCEPT ![c] = [x EXCEPT !.job = "none", !.row = None, !.up = FALSE]]
      BY <1>1, <2>2 DEF EnrollRefuse, x
    <3> QED BY <1>1, <3>1 DEF Connections
  <2>3. CASE IssueCredential(c)
    <3>1. conn' = [conn EXCEPT ![c] = [x EXCEPT !.job = "issued"]] /\ x.job # "none"
      BY <2>3 DEF IssueCredential, x
    <3> QED BY <1>1, <3>1 DEF Connections
  <2>4. CASE Break(c)
    <3> DEFINE j == IF x.job = "accepted" THEN "none" ELSE x.job
    <3>1. conn' = [conn EXCEPT ![c] = [x EXCEPT !.up = FALSE, !.job = j]] /\ j \in {"none", x.job}
      BY <1>1, <2>4 DEF Break, x
    <3> HIDE DEF j
    <3> QED BY <1>1, <3>1 DEF Connections
  <2> QED BY <2>1, <2>2, <2>3, <2>4
<1> QED BY <1>2, <1>3, ServiceKept

(* server.ts:114-125: an entry is deleted only by the connection it names. *)
LEMMA ServerCloseServes ==
  ASSUME ServiceInv, GatewayInv', NEW c \in Conns, ServerClose(c) PROVE ServiceInv'
<1>1. /\ conn[c] \in Connections /\ conn \in [Conns -> Connections]
      /\ live \in [Rows -> Conns \cup {None}]
  BY DEF ServiceInv, GatewayInv, GatewayTypeOK
<1>2. UNCHANGED <<ws, saved, cred>>
  BY DEF ServerClose
<1>3. /\ \A d \in Conns \ {c} : conn'[d] = conn[d]
      /\ conn'[c].host = conn[c].host /\ conn'[c].claim = conn[c].claim
      /\ conn'[c].auth = conn[c].auth /\ conn'[c].pc = "closed" /\ conn[c].pc = "open"
      /\ conn'[c].job = conn[c].job /\ conn'[c].row = conn[c].row
  BY <1>1 DEF ServerClose, Connections
<1>4. \A d \in Conns \ {c}, r \in Rows : live[r] = d => live'[r] = d
  BY <1>1 DEF ServerClose
<1>5. \A d \in Conns : conn[d].auth \in Rows \cup {None}
  BY <1>1 DEF Connections
<1> QED BY <1>2, <1>3, <1>4, <1>5, ServiceKept

(* A crash takes the connections and their registrations with it. *)
LEMMA CrashServes ==
  ASSUME ServiceInv, GatewayInv', GatewayCrash PROVE ServiceInv'
<1>1. UNCHANGED <<ws, saved, cred>>
  BY DEF GatewayCrash
<1>2. ASSUME NEW c \in Conns
      PROVE  /\ conn'[c].host = conn[c].host /\ conn'[c].claim = conn[c].claim
             /\ conn'[c].auth = conn[c].auth
             /\ conn'[c].job # "none" => conn[c].job # "none" /\ conn'[c].row = conn[c].row
             /\ conn'[c].pc = conn[c].pc \/ (conn'[c].pc = "closed" /\ conn[c].pc # "free")
             /\ conn'[c].pc # "open"
  <2>1. conn[c] \in Connections
    BY DEF ServiceInv, GatewayInv, GatewayTypeOK
  <2> QED BY <2>1 DEF GatewayCrash, Connections
<1> QED BY <1>1, <1>2, ServiceKept

(* Every step keeps the rows served by the connections of their hosts. *)
LEMMA ServiceNext ==
  ASSUME Ordered, ServiceInv, [GatewayNext]_gatewayVars
  PROVE  ServiceInv'
<1>1. GatewayInv'
  BY EnrollAlways DEF ServiceInv
<1>2. ASSUME NEW c \in Conns, ConnStep(c) \/ Break(c) PROVE ServiceInv'
  BY <1>1, <1>2, UpgradeServes, EstablishServes, ServerCloseServes, ForgetServes, CreateServes,
     RecordServes, AcceptServes, ReceiveServes DEF ConnStep
<1>3. ASSUME NEW h \in Hosts, HostStep(h) PROVE ServiceInv'
  BY <1>1, <1>3, ClientCloseServes, ConnectServes DEF HostStep
<1>4. CASE GatewayCrash
  BY <1>1, <1>4, CrashServes
<1>5. CASE \/ \E c \in Conns : HandleHeartbeat(c) \/ CheckHeartbeatTimeout(c)
           \/ (\E r \in Rows : DrainBegin(r)) \/ \E d \in draining : DrainEnd(d)
           \/ \E t \in Tokens : Expire(t)
           \/ UNCHANGED gatewayVars
  <2>1. UNCHANGED <<ws, saved, cred, conn, live>>
    BY <1>5 DEF HandleHeartbeat, CheckHeartbeatTimeout, DrainBegin, DrainEnd, Expire, gatewayVars
  <2> QED BY <1>1, <2>1, ServiceKept
<1> QED BY <1>2, <1>3, <1>4, <1>5 DEF GatewayNext

(* server.ts: when upgrades of a host's connections end in order, commands for *)
(* an agent go out on the connection its host uses: no late close event and no *)
(* enrollment takes it out of liveConnections, for any number of hosts,        *)
(* connections and faults.                                                     *)
THEOREM ServedConnectionTheorem ==
  ASSUME Ordered
  PROVE  GatewaySpec => []ServedConnection
<1>1. ServiceInv => ServedConnection
  BY DEF ServiceInv
<1>2. ServiceInv /\ [GatewayNext]_gatewayVars => ServiceInv'
  BY ServiceNext
<1> QED BY <1>1, <1>2, ServiceInit, PTL DEF GatewaySpec

=============================================================================
