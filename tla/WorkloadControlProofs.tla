------------------------ MODULE WorkloadControlProofs ------------------------
(***************************************************************************)
(* Proofs about WorkloadControl for any number of workloads, agents, rows, *)
(* concurrent requests and reconcilers.                                    *)
(***************************************************************************)
EXTENDS WorkloadControl, TLAPS

(* A run of a job is one of a command. *)
LEMMA JobCommand == \A d \in JobRuns : d[1] \in Commands
  BY DEF JobRuns

(* The first run of a command's job. *)
LEMMA FirstRun == \A c \in Commands : <<c, 1>> \in JobRuns /\ <<c, 1>>[1] = c
  BY DEF JobRuns

USE ControlAssumption, JobCommand

(* Calls, rows and outcomes in use refer to real workloads, agents and rows. *)
CallRefs ==
  \A t \in Callers :
    /\ call[t].pc # "idle" => call[t].w \in Workloads
    /\ call[t].pc = "record" => call[t].agent \in Agents
    /\ call[t].pc = "enqueue" => call[t].cmd \in Commands

RowRefs ==
  /\ \A c \in Commands : command[c].status # "free" =>
       command[c].w \in Workloads /\ command[c].agent \in Agents
  /\ \A d \in JobRuns : outcome[d].pc # "idle" => command[d[1]].status # "free"

TypeInv == TypeOK /\ CallRefs /\ RowRefs

(* A job, and a call that is about to queue one, is of a row that exists. *)
Delivery ==
  /\ \A d \in JobRuns : transit[d] # "none" => command[d[1]].status # "free"
  /\ \A t \in Callers : call[t].pc = "enqueue" => command[call[t].cmd].status # "free"

(* The initial rows have their types. *)
LEMMA TypeInit == Init => TypeInv /\ Delivery
  BY DEF Init, TypeInv, Delivery, TypeOK, CallRefs, RowRefs, WorkloadRows, CommandRows, FreeRow, Calls,
         Idle, Outcomes, NoOutcome, Types, InFlightStatus, Terminal, Stages

(* A step that replaces one call record by a well-formed one *)
LEMMA CallUpdate ==
  ASSUME TypeOK, CallRefs, NEW t \in Callers, NEW k \in Calls,
         call' = [call EXCEPT ![t] = k],
         k.pc # "idle" => k.w \in Workloads,
         k.pc = "record" => k.agent \in Agents,
         k.pc = "enqueue" => k.cmd \in Commands
  PROVE  call' \in [Callers -> Calls] /\ CallRefs'
  BY DEF TypeOK, CallRefs

(* A call that has not begun. *)
LEMMA IdleCall == Idle \in Calls /\ Idle.pc = "idle"
  BY DEF Idle, Calls, Types

(* A step that replaces one command row by a well-formed one *)
LEMMA RowUpdate ==
  ASSUME TypeOK, RowRefs, NEW c \in Commands, NEW k \in CommandRows,
         command' = [command EXCEPT ![c] = k], UNCHANGED outcome,
         k.status # "free" => k.w \in Workloads /\ k.agent \in Agents,
         k.status = "free" => \A d \in JobRuns : d[1] = c => outcome[d].pc = "idle"
  PROVE  command' \in [Commands -> CommandRows] /\ RowRefs'
  BY DEF TypeOK, RowRefs

(* Changing one status of a row that is in use *)
LEMMA StatusUpdate ==
  ASSUME TypeOK, RowRefs, NEW c \in Commands, NEW s \in InFlightStatus \cup Terminal,
         command' = [command EXCEPT ![c].status = s],
         command[c].status # "free"
  PROVE  /\ command' \in [Commands -> CommandRows]
         /\ \A d \in Commands : command'[d].w = command[d].w /\ command'[d].agent = command[d].agent
         /\ \A d \in Commands : command'[d].status = IF d = c THEN s ELSE command[d].status
<1>1. command[c] \in CommandRows
  BY DEF TypeOK
<1>2. [command[c] EXCEPT !.status = s] \in CommandRows
  BY <1>1 DEF CommandRows
<1> QED BY <1>2 DEF TypeOK, CommandRows

(* A step that replaces one workload row by a well-formed one *)
LEMMA WorkloadUpdate ==
  ASSUME TypeOK, NEW w \in Workloads, NEW k \in WorkloadRows,
         workload' = [workload EXCEPT ![w] = k]
  PROVE  workload' \in [Workloads -> WorkloadRows]
  BY DEF TypeOK

(* command-outcomes.ts: the row after an outcome is a row. *)
LEMMA OutcomeRowType ==
  ASSUME NEW row \in WorkloadRows, NEW type, NEW o \in Outcomes
  PROVE  OutcomeRow(row, type, o) \in WorkloadRows
<1> DEFINE n == o.attempts + 1
           late == n >= MaxAttempts
           early == n < MaxAttempts
           obs == ObservedStateFor(type, o.ok)
<1>1. /\ obs \in {"unknown", "running", "stopped", "failed"}
      /\ n \in Nat /\ o.gen \in Nat
      /\ late \in BOOLEAN /\ early \in BOOLEAN
  BY DEF ObservedStateFor, Outcomes
<1>2. CASE o.ok
  <2>1. OutcomeRow(row, type, o) = [row EXCEPT !.observed = obs, !.observedGeneration = o.gen,
                                               !.attempts = 0, !.backoff = FALSE]
    BY <1>2 DEF OutcomeRow, ObservedStateFor
  <2> HIDE DEF obs, n, late, early
  <2>2. [row EXCEPT !.observed = obs, !.observedGeneration = o.gen] \in WorkloadRows
    BY <1>1 DEF WorkloadRows
  <2>3. \A r \in WorkloadRows : [r EXCEPT !.attempts = 0, !.backoff = FALSE] \in WorkloadRows
    BY DEF WorkloadRows
  <2> QED BY <2>1, <2>2, <2>3
<1>3. CASE ~o.ok
  <2>1. OutcomeRow(row, type, o) = [row EXCEPT !.observed = obs, !.attempts = n,
                                               !.backoff = early, !.suspended = late]
    BY <1>3 DEF OutcomeRow, ObservedStateFor
  <2> HIDE DEF obs, n, late, early
  <2> QED BY <1>1, <2>1 DEF WorkloadRows
<1> QED BY <1>2, <1>3

(* Every step keeps the types. *)
LEMMA TypeNext == TypeInv /\ Delivery /\ [Next]_vars => TypeInv'
<1> SUFFICES ASSUME TypeInv, Delivery, [Next]_vars PROVE TypeInv'
  OBVIOUS
<1> USE DEF TypeInv
<1>1. ASSUME NEW t \in Requests, NEW w \in Workloads, NEW a \in Agents, AssignWorkloadToAgent(t, w, a)
      PROVE  TypeInv'
  <2> DEFINE g == workload[w].generation + 1
             k == [workload[w] EXCEPT !.assigned = a, !.generation = g]
             q == [pc |-> "record", w |-> w, type |-> "update", agent |-> a, gen |-> g,
                   by |-> "assign", cmd |-> None]
  <2>1. workload[w] \in WorkloadRows /\ t \in Callers
    BY DEF TypeOK, Callers
  <2>a. g \in Nat
    BY <2>1 DEF WorkloadRows
  <2>2. k \in WorkloadRows /\ q \in Calls /\ q.pc = "record" /\ q.w \in Workloads /\ q.agent \in Agents
    <3> HIDE DEF g
    <3>1. k \in WorkloadRows
      BY <2>1, <2>a DEF WorkloadRows
    <3>2. q \in Calls
      BY <2>a DEF Calls, Types
    <3> QED BY <3>1, <3>2
  <2>3. workload' = [workload EXCEPT ![w] = k] /\ call' = [call EXCEPT ![t] = q]
    BY <1>1 DEF AssignWorkloadToAgent, TypeOK
  <2> HIDE DEF k, q
  <2>4. workload' \in [Workloads -> WorkloadRows] /\ call' \in [Callers -> Calls] /\ CallRefs'
    BY <2>1, <2>2, <2>3, WorkloadUpdate, CallUpdate
  <2> QED BY <1>1, <2>4 DEF AssignWorkloadToAgent, Spend, TypeOK, RowRefs
<1>2. ASSUME NEW t \in Requests, NEW w \in Workloads, NEW type \in Types \ {"update"}, RequestCommand(t, w, type)
      PROVE  TypeInv'
  BY <1>2 DEF RequestCommand, SendCall, Spend, Calls, Callers, TypeOK, CallRefs, RowRefs
<1>3. ASSUME NEW t \in Requests, NEW x \in told, HandleInventory(t, x) PROVE TypeInv'
  BY <1>3 DEF HandleInventory, FenceStaleAgent, Spend, Calls, Callers, Types, TypeOK, CallRefs, RowRefs
<1>4. ASSUME NEW w \in Workloads, ClearReconciliationFailure(w) PROVE TypeInv'
  <2> DEFINE k == [workload[w] EXCEPT !.attempts = 0, !.backoff = FALSE, !.suspended = FALSE]
  <2>1. workload[w] \in WorkloadRows
    BY DEF TypeOK
  <2>2. k \in WorkloadRows
    BY <2>1 DEF WorkloadRows
  <2>3. workload' = [workload EXCEPT ![w] = k]
    BY <1>4 DEF ClearReconciliationFailure, TypeOK
  <2> HIDE DEF k
  <2> QED BY <1>4, <2>2, <2>3, WorkloadUpdate DEF ClearReconciliationFailure, Spend, TypeOK, CallRefs, RowRefs
<1>5. ASSUME NEW t \in Callers, ReadWorkload(t) PROVE TypeInv'
  <2> DEFINE row == workload[call[t].w]
             k == [call[t] EXCEPT !.pc = "record", !.agent = row.assigned, !.gen = row.generation]
  <2>1. row \in WorkloadRows /\ call[t] \in Calls /\ call[t].w \in Workloads
    BY <1>5 DEF ReadWorkload, TypeOK, CallRefs
  <2>2. k \in Calls /\ k.pc = "record" /\ k.w \in Workloads /\ k.agent = row.assigned
    BY <2>1 DEF WorkloadRows, Calls
  <2>3. \/ call' = [call EXCEPT ![t] = Idle]
        \/ call' = [call EXCEPT ![t] = k] /\ row.assigned \in Agents
    BY <1>5, <2>1 DEF ReadWorkload, WorkloadRows
  <2>4. call' \in [Callers -> Calls] /\ CallRefs'
    <3> HIDE DEF k, row
    <3> QED BY <2>2, <2>3, IdleCall, CallUpdate
  <2> QED BY <1>5, <2>4 DEF ReadWorkload, TypeOK, RowRefs
<1>6. ASSUME NEW t \in Callers, NEW c \in Commands, RecordCommand(t, c) PROVE TypeInv'
  <2> DEFINE k == [call[t] EXCEPT !.pc = "enqueue", !.cmd = c]
             row == [status |-> "pending", agent |-> call[t].agent, w |-> call[t].w,
                     type |-> call[t].type, gen |-> call[t].gen, by |-> call[t].by]
  <2>1. call[t] \in Calls /\ call[t].w \in Workloads /\ call[t].agent \in Agents
    BY <1>6 DEF RecordCommand, TypeOK, CallRefs
  <2>2. /\ k \in Calls /\ k.w \in Workloads /\ k.cmd \in Commands /\ k.pc = "enqueue"
        /\ row \in CommandRows /\ row.w \in Workloads /\ row.status # "free"
        /\ row.agent \in Agents
    BY <2>1 DEF Calls, CommandRows, InFlightStatus
  <2>3. call' = [call EXCEPT ![t] = k] /\ command' = [command EXCEPT ![c] = row]
    BY <1>6 DEF RecordCommand, TypeOK
  <2>4. /\ call' \in [Callers -> Calls] /\ CallRefs'
        /\ command' \in [Commands -> CommandRows] /\ RowRefs'
    <3> HIDE DEF k, row
    <3> QED BY <1>6, <2>2, <2>3, CallUpdate, RowUpdate DEF RecordCommand
  <2> QED BY <1>6, <2>4 DEF RecordCommand, TypeOK
<1>7. ASSUME NEW t \in Callers, EnqueueCommand(t) PROVE TypeInv'
  <2> DEFINE k == [call[t] EXCEPT !.pc = "desired"]
  <2>a. call[t] \in Calls /\ call[t].w \in Workloads
    BY <1>7 DEF EnqueueCommand, TypeOK, CallRefs
  <2>1. k \in Calls /\ k.pc = "desired" /\ k.w \in Workloads
    BY <2>a DEF Calls
  <2>2. call' = [call EXCEPT ![t] = Idle] \/ call' = [call EXCEPT ![t] = k]
    BY <1>7 DEF EnqueueCommand
  <2>3. call' \in [Callers -> Calls] /\ CallRefs'
    <3> HIDE DEF k
    <3> QED BY <2>1, <2>2, IdleCall, CallUpdate
  <2>4. transit' \in [JobRuns -> Stages]
    BY <1>7 DEF EnqueueCommand, TypeOK, Stages
  <2> QED BY <1>7, <2>3, <2>4 DEF EnqueueCommand, TypeOK, RowRefs
<1>8. ASSUME NEW t \in Callers, WriteDesired(t) PROVE TypeInv'
  <2> DEFINE w == call[t].w
             k == [workload[w] EXCEPT !.desired = IF call[t].type = "stop" THEN "stopped" ELSE "running"]
  <2>1. w \in Workloads
    BY <1>8 DEF WriteDesired, CallRefs
  <2>a. workload[w] \in WorkloadRows
    BY <2>1 DEF TypeOK
  <2>b. k \in WorkloadRows
    BY <2>a DEF WorkloadRows
  <2>2. k \in WorkloadRows /\ workload' = [workload EXCEPT ![w] = k]
    BY <1>8, <2>1, <2>b DEF WriteDesired, TypeOK
  <2>3. workload' \in [Workloads -> WorkloadRows]
    <3> HIDE DEF k, w
    <3> QED BY <2>1, <2>2, WorkloadUpdate
  <2>4. call' \in [Callers -> Calls] /\ CallRefs'
    BY <1>8, IdleCall, CallUpdate DEF WriteDesired
  <2> QED BY <1>8, <2>3, <2>4 DEF WriteDesired, TypeOK, RowRefs
<1>9. ASSUME NEW t \in Callers, Crash(t) PROVE TypeInv'
  <2>1. call' \in [Callers -> Calls] /\ CallRefs'
    BY <1>9, IdleCall, CallUpdate DEF Crash
  <2> QED BY <1>9, <2>1 DEF Crash, Spend, TypeOK, RowRefs
<1>10. ASSUME NEW r \in Reconcilers, TickBegin(r) PROVE TypeInv'
  BY <1>10 DEF TickBegin, TypeOK, CallRefs, RowRefs
<1>11. ASSUME NEW r \in Reconcilers, NEW x \in todo[r], TickCheck(r, x) PROVE TypeInv'
  <2>1. x \in [w : Workloads, type : {"start", "stop"}] /\ r \in Callers
    BY DEF Callers, TypeOK
  <2>2. /\ SendCall(x.w, x.type, "reconcile") \in Calls
        /\ SendCall(x.w, x.type, "reconcile").pc = "read"
        /\ SendCall(x.w, x.type, "reconcile").w \in Workloads
    BY <2>1 DEF SendCall, Calls, Types
  <2>3. call' \in [Callers -> Calls] /\ CallRefs'
    <3>1. CASE UNCHANGED call
      BY <3>1 DEF TypeOK, CallRefs
    <3>2. CASE call' = [call EXCEPT ![r] = SendCall(x.w, x.type, "reconcile")]
      BY <2>1, <2>2, <3>2, CallUpdate
    <3> QED BY <1>11, <3>1, <3>2 DEF TickCheck
  <2> QED BY <1>11, <2>3 DEF TickCheck, TypeOK, RowRefs
<1>12. ASSUME NEW r \in Reconcilers, TickEnd(r) \/ TickExpires(r) PROVE TypeInv'
  BY <1>12 DEF TickEnd, TickExpires, Spend, TypeOK, CallRefs, RowRefs
<1>13. ASSUME NEW w \in Workloads, BackoffPasses(w) PROVE TypeInv'
  <2> DEFINE k == [workload[w] EXCEPT !.backoff = FALSE]
  <2>1. workload[w] \in WorkloadRows
    BY DEF TypeOK
  <2>2. k \in WorkloadRows
    BY <2>1 DEF WorkloadRows
  <2>3. workload' = [workload EXCEPT ![w] = k]
    BY <1>13 DEF BackoffPasses, TypeOK
  <2> HIDE DEF k
  <2> QED BY <1>13, <2>2, <2>3, WorkloadUpdate DEF BackoffPasses, TypeOK, CallRefs, RowRefs
<1>14. ASSUME NEW d \in JobRuns, NEW ok \in BOOLEAN, MarkCommandOutcome(d, ok),
              command[d[1]].status # "free",
              transit' \in [JobRuns -> Stages],
              UNCHANGED <<workload, acks, connected, told, call, tick, todo, lock, ops>>
       PROVE  TypeInv'
  <2> DEFINE s == IF ok THEN "succeeded" ELSE "failed"
             o == IF command[d[1]].type = "update" THEN NoOutcome
                  ELSE [NoOutcome EXCEPT !.pc = "read", !.ok = ok]
  <2>1. s \in InFlightStatus \cup Terminal /\ s # "free" /\ o \in Outcomes
    BY DEF Terminal, NoOutcome, Outcomes
  <2>2. command' = [command EXCEPT ![d[1]].status = s] /\ outcome' = [outcome EXCEPT ![d] = o]
    BY <1>14 DEF MarkCommandOutcome
  <2> HIDE DEF s, o
  <2>3. /\ command' \in [Commands -> CommandRows]
        /\ \A c \in Commands : command'[c].w = command[c].w /\ command'[c].agent = command[c].agent
        /\ \A c \in Commands : command'[c].status = IF c = d[1] THEN s ELSE command[c].status
    BY <1>14, <2>1, <2>2, StatusUpdate
  <2>4. RowRefs'
    BY <1>14, <2>1, <2>2, <2>3 DEF TypeOK, RowRefs
  <2> QED BY <1>14, <2>1, <2>2, <2>3, <2>4 DEF TypeOK, CallRefs
<1>15. ASSUME NEW d \in JobRuns, DispatchCommand(d) PROVE TypeInv'
  <2>1. command[d[1]].status # "free"
    BY <1>15 DEF DispatchCommand, Delivery
  <2>2. transit' \in [JobRuns -> Stages]
    BY <1>15 DEF DispatchCommand, TypeOK, Stages
  <2>3. CASE UNCHANGED <<command, outcome>>
    BY <1>15, <2>2, <2>3 DEF DispatchCommand, TypeOK, CallRefs, RowRefs
  <2>4. CASE MarkCommandOutcome(d, FALSE)
    BY <1>14, <1>15, <2>1, <2>2, <2>4 DEF DispatchCommand
  <2> QED BY <1>15, <2>3, <2>4 DEF DispatchCommand
<1>16. ASSUME NEW d \in JobRuns, HandleCommandResult(d) PROVE TypeInv'
  <2>1. command[d[1]].status # "free" /\ (transit[d] = "ok") \in BOOLEAN
    BY <1>16 DEF HandleCommandResult, Delivery
  <2>2. transit' \in [JobRuns -> Stages]
    BY <1>16 DEF HandleCommandResult, TypeOK, Stages
  <2>3. MarkCommandOutcome(d, transit[d] = "ok")
    BY <1>16 DEF HandleCommandResult
  <2> QED BY <1>14, <1>16, <2>1, <2>2, <2>3 DEF HandleCommandResult
<1>17. ASSUME NEW d \in JobRuns, NEW ok \in BOOLEAN, AgentFinishes(d, ok) PROVE TypeInv'
  BY <1>17 DEF AgentFinishes, TypeOK, CallRefs, RowRefs, Stages
<1>24. ASSUME NEW d \in JobRuns, AgentReceives(d) PROVE TypeInv'
  <2>1. command[d[1]].status # "free" /\ command[d[1]].w \in Workloads
    BY <1>24 DEF AgentReceives, Delivery, RowRefs
  <2>2. command[d[1]].agent \in Agents /\ command[d[1]].gen \in Nat
    BY <2>1 DEF TypeOK, CommandRows, RowRefs
  <2>3. told' \subseteq [a : Agents, w : Workloads, gen : Nat]
    BY <1>24, <2>1, <2>2 DEF AgentReceives, TrackGeneration, TypeOK
  <2>4. transit' \in [JobRuns -> Stages]
    BY <1>24 DEF AgentReceives, TypeOK, Stages
  <2> QED BY <1>24, <2>3, <2>4 DEF AgentReceives, TypeOK, CallRefs, RowRefs
<1>18. ASSUME NEW c \in Commands, HandleAck(c) PROVE TypeInv'
  <2>1. CASE UNCHANGED command
    BY <1>18, <2>1 DEF HandleAck, TypeOK, CallRefs, RowRefs
  <2>2. CASE command[c].status = "pending" /\ command' = [command EXCEPT ![c].status = "accepted"]
    <3>1. /\ command' \in [Commands -> CommandRows]
          /\ \A d \in Commands : command'[d].w = command[d].w /\ command'[d].agent = command[d].agent
          /\ \A d \in Commands : command'[d].status = IF d = c THEN "accepted" ELSE command[d].status
      BY <2>2, StatusUpdate DEF InFlightStatus
    <3> QED BY <1>18, <2>2, <3>1 DEF HandleAck, TypeOK, CallRefs, RowRefs
  <2> QED BY <1>18, <2>1, <2>2 DEF HandleAck
<1>19. ASSUME NEW d \in JobRuns, OutcomeReads(d) PROVE TypeInv'
  <2> DEFINE row == workload[command[d[1]].w]
             k == [outcome[d] EXCEPT !.pc = "write", !.gen = row.generation, !.attempts = row.attempts]
  <2>1. row \in WorkloadRows /\ outcome[d] \in Outcomes /\ command[d[1]].status # "free"
    BY <1>19 DEF OutcomeReads, TypeOK, RowRefs
  <2>2. k \in Outcomes /\ NoOutcome \in Outcomes /\ NoOutcome.pc = "idle"
    BY <2>1 DEF WorkloadRows, Outcomes, NoOutcome
  <2>3. outcome' = [outcome EXCEPT ![d] = NoOutcome] \/ outcome' = [outcome EXCEPT ![d] = k]
    BY <1>19 DEF OutcomeReads
  <2> HIDE DEF k, row
  <2> QED BY <1>19, <2>1, <2>2, <2>3 DEF OutcomeReads, TypeOK, CallRefs, RowRefs
<1>20. ASSUME NEW d \in JobRuns, OutcomeWrites(d) PROVE TypeInv'
  <2> DEFINE w == command[d[1]].w
             k == OutcomeRow(workload[w], command[d[1]].type, outcome[d])
  <2>1. w \in Workloads /\ workload[w] \in WorkloadRows /\ outcome[d] \in Outcomes
    BY <1>20 DEF OutcomeWrites, TypeOK, RowRefs
  <2>2. k \in WorkloadRows
    BY <2>1, OutcomeRowType
  <2>3. workload' = [workload EXCEPT ![w] = k]
    BY <1>20, <2>1 DEF OutcomeWrites, TypeOK
  <2>4. workload' \in [Workloads -> WorkloadRows]
    <3> HIDE DEF k, w
    <3> QED BY <2>1, <2>2, <2>3, WorkloadUpdate
  <2>5. NoOutcome \in Outcomes /\ NoOutcome.pc = "idle"
    BY DEF NoOutcome, Outcomes
  <2> QED BY <1>20, <2>4, <2>5 DEF OutcomeWrites, TypeOK, CallRefs, RowRefs
<1>21. ASSUME NEW a \in Agents, Disconnect(a) \/ Reconnect(a) PROVE TypeInv'
  <2>1. connected' \in [Agents -> BOOLEAN]
    BY <1>21 DEF Disconnect, Reconnect, TypeOK
  <2>2. transit' \in [JobRuns -> Stages]
    BY <1>21 DEF Disconnect, Reconnect, TypeOK, Stages
  <2> QED BY <1>21, <2>1, <2>2 DEF Disconnect, Reconnect, Spend, TypeOK, CallRefs, RowRefs
<1>22. ASSUME NEW c \in Commands, Archive(c) PROVE TypeInv'
  <2>1. FreeRow \in CommandRows /\ FreeRow.status = "free"
    BY DEF FreeRow, CommandRows, Types
  <2>2. command' \in [Commands -> CommandRows] /\ RowRefs'
    BY <1>22, <2>1, RowUpdate DEF Archive
  <2>3. transit' \in [JobRuns -> Stages]
    BY <1>22 DEF Archive, TypeOK, Stages
  <2> QED BY <1>22, <2>2, <2>3 DEF Archive, TypeOK, CallRefs
<1>25. ASSUME GatewayCrash PROVE TypeInv'
  <2>1. transit' \in [JobRuns -> Stages]
    BY <1>25 DEF GatewayCrash, TypeOK, Stages
  <2>2. outcome' \in [JobRuns -> Outcomes] /\ RowRefs'
    BY <1>25 DEF GatewayCrash, NoOutcome, Outcomes, RowRefs
  <2>3. call' \in [Callers -> Calls] /\ CallRefs'
    BY <1>25, IdleCall DEF GatewayCrash, TypeOK, CallRefs
  <2> QED BY <1>25, <2>1, <2>2, <2>3 DEF GatewayCrash, Spend, TypeOK
<1>23. ASSUME UNCHANGED vars PROVE TypeInv'
  BY <1>23 DEF vars, TypeOK, CallRefs, RowRefs
<1> QED
  BY <1>1, <1>2, <1>3, <1>4, <1>5, <1>6, <1>7, <1>8, <1>9, <1>10, <1>11, <1>12, <1>13, <1>15,
     <1>16, <1>17, <1>18, <1>19, <1>20, <1>21, <1>22, <1>23, <1>24, <1>25
  DEF Next, Admin, ReportedInventory, CallStep, TickStep, GatewayStep, AgentStep

-----------------------------------------------------------------------------
(* Delivery *)

(* Steps that leave the rows and the queue alone and put no call at the *)
(* point between recording and enqueueing                               *)
LEMMA DeliveryCalls ==
  ASSUME TypeInv, Delivery, NEW t \in Callers, NEW k \in Calls, k.pc # "enqueue",
         UNCHANGED call \/ call' = [call EXCEPT ![t] = k],
         UNCHANGED <<command, transit>>
  PROVE  Delivery'
  BY DEF TypeInv, TypeOK, Delivery

(* A step that changes the status of a row, and keeps it in use *)
LEMMA DeliveryStatus ==
  ASSUME TypeInv, Delivery, NEW c \in Commands, NEW s, s # "free",
         command' = [command EXCEPT ![c].status = s],
         \A d \in JobRuns : transit'[d] # "none" => transit[d] # "none",
         UNCHANGED call
  PROVE  Delivery'
<1>1. \A e \in Commands : command'[e].status = IF e = c THEN s ELSE command[e].status
  BY DEF TypeInv, TypeOK, CommandRows
<1> QED BY <1>1 DEF TypeInv, CallRefs, Delivery

(* Every step keeps the rows of the jobs. *)
LEMMA DeliveryNext == TypeInv /\ Delivery /\ [Next]_vars => Delivery'
<1> SUFFICES ASSUME TypeInv, Delivery, [Next]_vars PROVE Delivery'
  OBVIOUS
<1>1. ASSUME UNCHANGED <<command, transit, call>> PROVE Delivery'
  BY <1>1 DEF Delivery
<1>2. ASSUME NEW t \in Requests, NEW w \in Workloads, NEW a \in Agents, AssignWorkloadToAgent(t, w, a)
      PROVE  Delivery'
  BY <1>2 DEF AssignWorkloadToAgent, TypeInv, TypeOK, Delivery, Callers
<1>3. ASSUME NEW t \in Requests, NEW w \in Workloads, NEW type, RequestCommand(t, w, type)
      PROVE  Delivery'
  BY <1>3 DEF RequestCommand, SendCall, TypeInv, TypeOK, Delivery, Callers
<1>4. ASSUME NEW t \in Requests, NEW x \in told, HandleInventory(t, x) PROVE Delivery'
  BY <1>4 DEF HandleInventory, FenceStaleAgent, TypeInv, TypeOK, Delivery, Callers
<1>5. ASSUME NEW t \in Callers, ReadWorkload(t) PROVE Delivery'
  <2>1. /\ \A u \in Callers : u # t => call'[u] = call[u]
        /\ call'[t].pc \in {"idle", "record"}
        /\ UNCHANGED <<command, transit>>
    BY <1>5 DEF ReadWorkload, TypeInv, TypeOK, Idle, Calls
  <2> QED BY <2>1 DEF Delivery
<1>6. ASSUME NEW t \in Callers, NEW c \in Commands, RecordCommand(t, c) PROVE Delivery'
  <2>1. /\ \A u \in Callers : u # t => call'[u] = call[u]
        /\ call'[t].cmd = c
        /\ \A d \in Commands : command'[d].status = IF d = c THEN "pending" ELSE command[d].status
        /\ UNCHANGED transit
    BY <1>6 DEF RecordCommand, TypeInv, TypeOK, Calls
  <2>2. \A u \in Callers : call[u].pc = "enqueue" => call[u].cmd \in Commands
    BY DEF TypeInv, CallRefs
  <2> QED BY <2>1, <2>2 DEF Delivery
<1>7. ASSUME NEW t \in Callers, EnqueueCommand(t) PROVE Delivery'
  <2>1. /\ \A u \in Callers : u # t => call'[u] = call[u]
        /\ call'[t].pc \in {"idle", "desired"}
        /\ transit' = [transit EXCEPT ![<<call[t].cmd, 1>>] = "queued"]
        /\ UNCHANGED command
    BY <1>7 DEF EnqueueCommand, TypeInv, TypeOK, Idle, Calls
  <2>2. call[t].pc = "enqueue" /\ call[t].cmd \in Commands
    BY <1>7 DEF EnqueueCommand, TypeInv, CallRefs
  <2>3. PICK e \in JobRuns : e = <<call[t].cmd, 1>> /\ e[1] = call[t].cmd
    BY <2>2, FirstRun
  <2>4. \A d \in JobRuns : transit'[d] # "none" => d = e \/ transit[d] # "none"
    BY <2>1, <2>3 DEF TypeInv, TypeOK
  <2> QED BY <2>1, <2>2, <2>3, <2>4 DEF Delivery
<1>8. ASSUME NEW t \in Callers, WriteDesired(t) \/ Crash(t) PROVE Delivery'
  BY <1>8, IdleCall, DeliveryCalls DEF WriteDesired, Crash
<1>9. ASSUME NEW r \in Reconcilers, NEW x \in todo[r], TickCheck(r, x) PROVE Delivery'
  <2>1. /\ \A u \in Callers : u # r => call'[u] = call[u]
        /\ call'[r].pc \in {"idle", "read"}
        /\ UNCHANGED <<command, transit>>
    BY <1>9 DEF TickCheck, SendCall, TypeInv, TypeOK, Callers
  <2> QED BY <2>1 DEF Delivery
<1>10. ASSUME NEW d \in JobRuns, DispatchCommand(d) \/ HandleCommandResult(d) PROVE Delivery'
  <2>1. \A e \in JobRuns : transit'[e] # "none" => transit[e] # "none"
    BY <1>10 DEF DispatchCommand, HandleCommandResult, TypeInv, TypeOK
  <2>2. UNCHANGED call /\ (UNCHANGED command \/ \E ok \in BOOLEAN : MarkCommandOutcome(d, ok))
    BY <1>10 DEF DispatchCommand, HandleCommandResult
  <2>3. CASE UNCHANGED command
    BY <2>1, <2>2, <2>3 DEF Delivery
  <2>4. ASSUME NEW ok \in BOOLEAN, MarkCommandOutcome(d, ok) PROVE Delivery'
    BY <2>1, <2>2, <2>4, DeliveryStatus DEF MarkCommandOutcome
  <2> QED BY <2>2, <2>3, <2>4
<1>11. ASSUME UNCHANGED <<command, call>>, \A e \in JobRuns : transit'[e] # "none" => transit[e] # "none"
       PROVE  Delivery'
  BY <1>11 DEF Delivery
<1>12. ASSUME NEW d \in JobRuns, NEW ok \in BOOLEAN, AgentReceives(d) \/ AgentFinishes(d, ok)
       PROVE  Delivery'
  BY <1>11, <1>12 DEF AgentReceives, AgentFinishes, TypeInv, TypeOK
<1>13. ASSUME NEW c \in Commands, HandleAck(c) PROVE Delivery'
  BY <1>1, <1>13, DeliveryStatus DEF HandleAck
<1>14. ASSUME NEW a \in Agents, Disconnect(a) PROVE Delivery'
  BY <1>11, <1>14 DEF Disconnect, OnWire
<1>15. ASSUME NEW c \in Commands, Archive(c) PROVE Delivery'
  <2>1. /\ \A e \in Commands : e # c => command'[e] = command[e]
        /\ \A d \in JobRuns : d[1] = c => transit'[d] = "none"
        /\ \A d \in JobRuns : d[1] # c => transit'[d] = transit[d]
        /\ \A t \in Callers : call[t].cmd # c
        /\ UNCHANGED call
    BY <1>15 DEF Archive, TypeInv, TypeOK
  <2> QED BY <2>1 DEF TypeInv, CallRefs, Delivery
<1>16. ASSUME GatewayCrash PROVE Delivery'
  <2>1. \A t \in Callers : call'[t].pc = "enqueue" => call'[t] = call[t]
    BY <1>16, IdleCall DEF GatewayCrash
  <2>2. \A d \in JobRuns : transit'[d] # "none" => command[d[1]].status # "free"
    <3>1. PICK again \in SUBSET {c \in Commands : transit[<<c, 1>>] \notin {"none", "queued"}
                                                  /\ transit[<<c, 2>>] = "none"} :
            transit' = [d \in JobRuns |->
              IF d[2] = 2 /\ d[1] \in again THEN "queued"
              ELSE IF transit[d] \in OnWire THEN "done" ELSE transit[d]]
      BY <1>16 DEF GatewayCrash
    <3>2. ASSUME NEW c \in again PROVE c \in Commands /\ command[c].status # "free"
      BY <3>2, FirstRun DEF Delivery
    <3> QED BY <3>1, <3>2 DEF Delivery, OnWire
  <2> QED BY <1>16, <2>1, <2>2 DEF Delivery, GatewayCrash
<1> QED
  BY <1>1, <1>2, <1>3, <1>4, <1>5, <1>6, <1>7, <1>8, <1>9, <1>10, <1>11, <1>12, <1>13, <1>14, <1>15, <1>16
  DEF Next, Admin, ReportedInventory, CallStep, TickStep, GatewayStep, AgentStep, vars, ClearReconciliationFailure,
      TickBegin, TickEnd, TickExpires, BackoffPasses, OutcomeReads, OutcomeWrites, Reconnect

ControlInv == TypeInv /\ Delivery

(* Both hold throughout. *)
LEMMA ControlInvariant == Spec => []ControlInv
<1>1. Init => ControlInv
  BY TypeInit DEF ControlInv
<1>2. ControlInv /\ [Next]_vars => ControlInv'
  BY TypeNext, DeliveryNext DEF ControlInv
<1> QED BY <1>1, <1>2, PTL DEF Spec

(* Every variable of the control plane keeps its type. *)
THEOREM ControlTypes == Spec => []TypeOK
<1>1. ControlInv => TypeOK
  BY DEF ControlInv, TypeInv
<1> QED BY ControlInvariant, <1>1, PTL

-----------------------------------------------------------------------------
(* The generation as a fencing token *)

(* Steps that move no owner and no generation leave the tokens of the rows  *)
(* and calls they do not touch valid.                                       *)
SameOwners ==
  \A w \in Workloads : /\ workload'[w].assigned = workload[w].assigned
                        /\ workload'[w].generation = workload[w].generation

SameTokens ==
  \A c \in Commands : command'[c].status # "free" =>
    /\ command[c].status # "free"
    /\ command'[c].w = command[c].w /\ command'[c].gen = command[c].gen
    /\ command'[c].agent = command[c].agent

(* One call may have changed: to one that carries no token, or a valid one. *)
OneCall(t) ==
  /\ \A u \in Callers : u # t => call'[u] = call[u]
  /\ call'[t].pc \in {"record", "enqueue"} =>
       TokenOf(workload'[call'[t].w], call'[t].gen, call'[t].agent)

(* A step that changes no owner and no token, and tells no agent, keeps the *)
(* tokens.                                                                  *)
LEMMA TokenKept ==
  ASSUME TypeInv, TokenNamesOwner, SameOwners, SameTokens, UNCHANGED told, NEW t, OneCall(t)
  PROVE  TokenNamesOwner'
<1>1. ASSUME NEW c \in Commands, command'[c].status # "free"
      PROVE  TokenOf(workload'[command'[c].w], command'[c].gen, command'[c].agent)
  BY <1>1 DEF TypeInv, RowRefs, SameOwners, SameTokens, TokenNamesOwner, TokenOf
<1>2. ASSUME NEW u \in Callers, call'[u].pc \in {"record", "enqueue"}
      PROVE  TokenOf(workload'[call'[u].w], call'[u].gen, call'[u].agent)
  BY <1>2 DEF TypeInv, CallRefs, SameOwners, OneCall, TokenNamesOwner, TokenOf
<1>3. ASSUME NEW x \in told PROVE TokenOf(workload'[x.w], x.gen, x.a)
  BY DEF TypeInv, TypeOK, SameOwners, TokenNamesOwner, TokenOf
<1> QED BY <1>1, <1>2, <1>3 DEF TokenNamesOwner

(* The status of a command is no part of its token. *)
LEMMA StatusTokens ==
  ASSUME TypeInv, NEW c \in Commands, NEW s, command[c].status # "free",
         command' = [command EXCEPT ![c].status = s]
  PROVE  SameTokens
  BY DEF SameTokens, TypeInv, TypeOK, CommandRows

(* An update of one row that keeps owner and generation *)
LEMMA RowOwners ==
  ASSUME TypeInv, NEW w \in Workloads, NEW k, workload' = [workload EXCEPT ![w] = k],
         k.assigned = workload[w].assigned, k.generation = workload[w].generation
  PROVE  SameOwners
  BY DEF SameOwners, TypeInv, TypeOK

(* Every step keeps generations and owners together. *)
LEMMA TokenNext == ControlInv /\ TokenNamesOwner /\ [Next]_vars => TokenNamesOwner'
<1> SUFFICES ASSUME TypeInv, Delivery, TokenNamesOwner, [Next]_vars PROVE TokenNamesOwner'
  BY DEF ControlInv
<1>0. ASSUME UNCHANGED <<command, call, told>>, SameOwners PROVE TokenNamesOwner'
  BY <1>0 DEF TokenNamesOwner, TokenOf, TypeInv, TypeOK, CallRefs, RowRefs, SameOwners
<1>1. ASSUME NEW t \in Requests, NEW w \in Workloads, NEW a \in Agents, AssignWorkloadToAgent(t, w, a)
      PROVE  TokenNamesOwner'
  <2>1. /\ UNCHANGED <<command, told>> /\ t \in Callers
        /\ workload'[w].generation = workload[w].generation + 1
        /\ workload'[w].assigned = a /\ workload[w].generation \in Nat
        /\ \A v \in Workloads : v # w => workload'[v] = workload[v]
        /\ call'[t].w = w /\ call'[t].gen = workload'[w].generation /\ call'[t].agent = a
        /\ \A u \in Callers : u # t => call'[u] = call[u]
    BY <1>1 DEF AssignWorkloadToAgent, TypeInv, TypeOK, WorkloadRows, Callers
  <2>2. ASSUME NEW v \in Workloads, NEW gen \in Nat, NEW b, TokenOf(workload[v], gen, b)
        PROVE  TokenOf(workload'[v], gen, b)
    BY <2>1, <2>2 DEF TokenOf
  <2>3. \A c \in Commands : command[c].gen \in Nat
    BY DEF TypeInv, TypeOK, CommandRows
  <2>4. \A u \in Callers : call[u].gen \in Nat
    BY DEF TypeInv, TypeOK, Calls
  <2>5. \A c \in Commands : command[c].status # "free" =>
          TokenOf(workload'[command[c].w], command[c].gen, command[c].agent)
    BY <2>2, <2>3 DEF TypeInv, RowRefs, TokenNamesOwner
  <2>6. \A u \in Callers \ {t} : call[u].pc \in {"record", "enqueue"} =>
          TokenOf(workload'[call[u].w], call[u].gen, call[u].agent)
    <3> SUFFICES ASSUME NEW u \in Callers, call[u].pc \in {"record", "enqueue"}
                 PROVE  TokenOf(workload'[call[u].w], call[u].gen, call[u].agent)
      OBVIOUS
    <3>1. call[u].w \in Workloads /\ call[u].gen \in Nat
      BY <2>4 DEF TypeInv, CallRefs
    <3>2. TokenOf(workload[call[u].w], call[u].gen, call[u].agent)
      BY DEF TokenNamesOwner
    <3> QED BY <2>2, <3>1, <3>2
  <2>7. TokenOf(workload'[w], call'[t].gen, call'[t].agent)
    BY <2>1 DEF TokenOf
  <2>8. \A x \in told : TokenOf(workload'[x.w], x.gen, x.a)
    BY <2>2 DEF TypeInv, TypeOK, TokenNamesOwner
  <2> QED BY <2>1, <2>5, <2>6, <2>7, <2>8 DEF TokenNamesOwner
<1>2. ASSUME NEW t \in Callers, OneCall(t), SameOwners, UNCHANGED <<command, told>>
      PROVE  TokenNamesOwner'
  BY <1>2, TokenKept DEF SameTokens
<1>3. ASSUME UNCHANGED workload PROVE SameOwners
  BY <1>3 DEF SameOwners
<1>4. ASSUME NEW t \in Requests, NEW w \in Workloads, NEW type, RequestCommand(t, w, type)
      PROVE  TokenNamesOwner'
  <2>1. OneCall(t) /\ t \in Callers
    BY <1>4 DEF RequestCommand, SendCall, OneCall, TypeInv, TypeOK, Callers
  <2> QED BY <1>2, <1>3, <1>4, <2>1 DEF RequestCommand
<1>5. ASSUME NEW t \in Requests, NEW x \in told, HandleInventory(t, x) PROVE TokenNamesOwner'
  <2>1. TokenOf(workload[x.w], x.gen, x.a)
    BY DEF TokenNamesOwner
  <2>2. OneCall(t) /\ t \in Callers
    BY <1>5, <2>1 DEF HandleInventory, FenceStaleAgent, OneCall, TypeInv, TypeOK, Callers
  <2> QED BY <1>2, <1>3, <1>5, <2>2 DEF HandleInventory
<1>6. ASSUME NEW t \in Callers, ReadWorkload(t) PROVE TokenNamesOwner'
  <2>1. /\ call[t] \in Calls /\ call[t].w \in Workloads
        /\ workload[call[t].w].generation \in Nat
    BY <1>6 DEF ReadWorkload, TypeInv, TypeOK, CallRefs, WorkloadRows
  <2>2. \/ call'[t].pc = "idle"
        \/ /\ call'[t].w = call[t].w /\ call'[t].gen = workload[call[t].w].generation
           /\ call'[t].agent = workload[call[t].w].assigned
    BY <1>6, <2>1 DEF ReadWorkload, TypeInv, TypeOK, Calls, Idle
  <2>3. OneCall(t)
    BY <1>6, <2>1, <2>2 DEF ReadWorkload, OneCall, TokenOf, TypeInv, TypeOK
  <2> QED BY <1>2, <1>3, <1>6, <2>3 DEF ReadWorkload
<1>7. ASSUME NEW t \in Callers, NEW c \in Commands, RecordCommand(t, c) PROVE TokenNamesOwner'
  <2>1. /\ call[t] \in Calls /\ call[t].pc = "record" /\ UNCHANGED workload
        /\ \A u \in Callers : u # t => call'[u] = call[u]
        /\ call'[t].w = call[t].w /\ call'[t].gen = call[t].gen /\ call'[t].agent = call[t].agent
        /\ command'[c].w = call[t].w /\ command'[c].gen = call[t].gen
        /\ command'[c].agent = call[t].agent
        /\ \A d \in Commands : d # c => command'[d] = command[d]
        /\ UNCHANGED told
    BY <1>7 DEF RecordCommand, TypeInv, TypeOK, Calls
  <2> QED BY <2>1 DEF TokenNamesOwner
<1>8. ASSUME NEW t \in Callers, EnqueueCommand(t) PROVE TokenNamesOwner'
  <2>1. OneCall(t)
    BY <1>8 DEF EnqueueCommand, OneCall, TypeInv, TypeOK, Calls, Idle
  <2> QED BY <1>2, <1>3, <1>8, <2>1 DEF EnqueueCommand
<1>9. ASSUME NEW t \in Callers, WriteDesired(t) PROVE TokenNamesOwner'
  <2> DEFINE w == call[t].w
             k == [workload[w] EXCEPT !.desired = IF call[t].type = "stop" THEN "stopped" ELSE "running"]
  <2>1. w \in Workloads /\ workload[w] \in WorkloadRows
    BY <1>9 DEF WriteDesired, TypeInv, TypeOK, CallRefs
  <2>2. k.assigned = workload[w].assigned /\ k.generation = workload[w].generation
    BY <2>1 DEF WorkloadRows
  <2>3. workload' = [workload EXCEPT ![w] = k]
    BY <1>9, <2>1 DEF WriteDesired, TypeInv, TypeOK
  <2>4. SameOwners
    <3> HIDE DEF k, w
    <3> QED BY <2>1, <2>2, <2>3, RowOwners
  <2>5. OneCall(t)
    BY <1>9 DEF WriteDesired, OneCall, Idle, TypeInv, TypeOK
  <2> QED BY <1>2, <1>9, <2>4, <2>5 DEF WriteDesired
<1>10. ASSUME NEW t \in Callers, Crash(t) PROVE TokenNamesOwner'
  <2>1. OneCall(t)
    BY <1>10 DEF Crash, OneCall, Idle, TypeInv, TypeOK
  <2> QED BY <1>2, <1>3, <1>10, <2>1 DEF Crash
<1>11. ASSUME NEW r \in Reconcilers, NEW x \in todo[r], TickCheck(r, x) PROVE TokenNamesOwner'
  <2>1. r \in Callers /\ UNCHANGED <<workload, command, told>>
    BY <1>11 DEF TickCheck, Callers
  <2>2. CASE UNCHANGED call
    BY <1>0, <1>3, <2>1, <2>2
  <2>3. CASE call' = [call EXCEPT ![r] = SendCall(x.w, x.type, "reconcile")]
    <3>1. OneCall(r)
      BY <2>1, <2>3 DEF SendCall, OneCall, TypeInv, TypeOK
    <3> QED BY <1>2, <1>3, <2>1, <3>1
  <2> QED BY <1>11, <2>2, <2>3 DEF TickCheck
<1>12. ASSUME NEW w \in Workloads, ClearReconciliationFailure(w) \/ BackoffPasses(w)
       PROVE  TokenNamesOwner'
  <2>1. workload[w] \in WorkloadRows
    BY DEF TypeInv, TypeOK
  <2>2. SameOwners
    BY <1>12, <2>1 DEF ClearReconciliationFailure, BackoffPasses, SameOwners, TypeInv, TypeOK, WorkloadRows
  <2> QED BY <1>0, <1>12, <2>2 DEF ClearReconciliationFailure, BackoffPasses
<1>13. ASSUME SameTokens, UNCHANGED <<workload, call, told>> PROVE TokenNamesOwner'
  BY <1>13 DEF SameTokens, TokenNamesOwner, TypeInv, RowRefs
<1>14. ASSUME NEW d \in JobRuns, DispatchCommand(d) \/ HandleCommandResult(d) PROVE TokenNamesOwner'
  <2>1. command[d[1]].status # "free"
    BY <1>14 DEF DispatchCommand, HandleCommandResult, Delivery
  <2>2. UNCHANGED <<workload, call, told>> /\ (UNCHANGED command \/ \E ok : MarkCommandOutcome(d, ok))
    BY <1>14 DEF DispatchCommand, HandleCommandResult
  <2>3. SameTokens
    BY <2>1, <2>2, StatusTokens DEF MarkCommandOutcome, SameTokens
  <2> QED BY <1>13, <2>2, <2>3
<1>15. ASSUME NEW c \in Commands, HandleAck(c) PROVE TokenNamesOwner'
  BY <1>13, <1>15, StatusTokens DEF HandleAck, SameTokens
<1>16. ASSUME NEW d \in JobRuns, OutcomeWrites(d) PROVE TokenNamesOwner'
  <2> DEFINE w == command[d[1]].w
             k == OutcomeRow(workload[w], command[d[1]].type, outcome[d])
  <2>1. w \in Workloads /\ workload[w] \in WorkloadRows
    BY <1>16 DEF OutcomeWrites, TypeInv, TypeOK, RowRefs
  <2>2. k.assigned = workload[w].assigned /\ k.generation = workload[w].generation
    BY <2>1 DEF OutcomeRow, WorkloadRows
  <2>3. workload' = [workload EXCEPT ![w] = k] /\ UNCHANGED <<command, call, told>>
    BY <1>16, <2>1 DEF OutcomeWrites, TypeInv, TypeOK
  <2>4. SameOwners
    <3> HIDE DEF k, w
    <3> QED BY <2>1, <2>2, <2>3, RowOwners
  <2> QED BY <1>0, <2>3, <2>4
<1>17. ASSUME NEW c \in Commands, Archive(c) PROVE TokenNamesOwner'
  <2>1. SameTokens
    BY <1>17 DEF Archive, FreeRow, SameTokens, TypeInv, TypeOK
  <2> QED BY <1>13, <1>17, <2>1 DEF Archive
<1>18. ASSUME UNCHANGED <<workload, command, call, told>> PROVE TokenNamesOwner'
  BY <1>0, <1>3, <1>18
<1>19. ASSUME NEW d \in JobRuns, AgentReceives(d) PROVE TokenNamesOwner'
  <2>1. TokenOf(workload[command[d[1]].w], command[d[1]].gen, command[d[1]].agent)
    BY <1>19 DEF AgentReceives, Delivery, TokenNamesOwner
  <2>2. UNCHANGED <<workload, command, call>>
    BY <1>19 DEF AgentReceives
  <2>3. \A x \in told' : TokenOf(workload[x.w], x.gen, x.a)
    BY <1>19, <2>1 DEF AgentReceives, TrackGeneration, TokenNamesOwner
  <2> QED BY <2>2, <2>3 DEF TokenNamesOwner
<1>20. ASSUME GatewayCrash PROVE TokenNamesOwner'
  <2>1. \A t \in Callers : call'[t].pc \in {"record", "enqueue"} => call'[t] = call[t]
    BY <1>20, IdleCall DEF GatewayCrash
  <2> QED BY <1>20, <2>1 DEF GatewayCrash, TokenNamesOwner
<1> QED
  BY <1>1, <1>4, <1>5, <1>6, <1>7, <1>8, <1>9, <1>10, <1>11, <1>12, <1>14, <1>15, <1>16, <1>17, <1>18, <1>19, <1>20
  DEF Next, Admin, ReportedInventory, CallStep, TickStep, GatewayStep, AgentStep, vars, TickBegin, TickEnd, TickExpires,
      AgentFinishes, OutcomeReads, Disconnect, Reconnect

(* A command with a workload's current generation is addressed to its       *)
(* current owner, for any interleaving of reassignments, fences and sends.  *)
THEOREM GenerationFences == Spec => []TokenNamesOwner
<1>1. Init => TokenNamesOwner
  BY DEF Init, TokenNamesOwner, FreeRow, Idle
<1> QED BY <1>1, ControlInvariant, TokenNext, PTL DEF Spec

-----------------------------------------------------------------------------
(* Retries end in suspension *)

(* command-outcomes.ts: the row after an outcome is suspended if its attempts *)
(* are used up.                                                               *)
LEMMA OutcomeRowGood ==
  ASSUME NEW row \in WorkloadRows, NEW type, NEW o \in Outcomes
  PROVE  LET k == OutcomeRow(row, type, o)
         IN  k.attempts >= MaxAttempts => k.suspended /\ ~k.backoff
<1> DEFINE n == o.attempts + 1
           late == n >= MaxAttempts
           early == n < MaxAttempts
           obs == ObservedStateFor(type, o.ok)
<1>1. n \in Nat /\ late = ~early /\ late \in BOOLEAN /\ early \in BOOLEAN
  BY DEF Outcomes
<1>2. CASE o.ok
  BY <1>2 DEF OutcomeRow, WorkloadRows
<1>3. CASE ~o.ok
  <2>1. OutcomeRow(row, type, o) = [row EXCEPT !.observed = obs, !.attempts = n,
                                               !.backoff = early, !.suspended = late]
    BY <1>3 DEF OutcomeRow, ObservedStateFor
  <2>2. /\ OutcomeRow(row, type, o).attempts = n
        /\ OutcomeRow(row, type, o).backoff = early
        /\ OutcomeRow(row, type, o).suspended = late
    <3> HIDE DEF obs, n, late, early
    <3> QED BY <2>1 DEF WorkloadRows
  <2> QED BY <1>1, <2>2
<1> QED BY <1>2, <1>3

(* A workload that used up its attempts is suspended and has no retry time, *)
(* whichever concurrent outcome or clear was written last.                  *)
THEOREM RetriesEndSuspended == Spec => []ExhaustedIsSuspended
<1>1. Init => ExhaustedIsSuspended
  BY DEF Init, ExhaustedIsSuspended
<1>2. ControlInv /\ ExhaustedIsSuspended /\ [Next]_vars => ExhaustedIsSuspended'
  <2> SUFFICES ASSUME TypeInv, ExhaustedIsSuspended, [Next]_vars PROVE ExhaustedIsSuspended'
    BY DEF ControlInv
  <2> DEFINE Good(k) == k.attempts >= MaxAttempts => k.suspended /\ ~k.backoff
  <2>1. ASSUME NEW w \in Workloads, NEW k, workload' = [workload EXCEPT ![w] = k], Good(k)
        PROVE  ExhaustedIsSuspended'
    BY <2>1 DEF ExhaustedIsSuspended, TypeInv, TypeOK
  <2>2. ASSUME NEW w \in Workloads PROVE Good(workload[w]) /\ workload[w] \in WorkloadRows
    BY DEF ExhaustedIsSuspended, TypeInv, TypeOK
  <2>3. ASSUME NEW t, NEW w \in Workloads, NEW a \in Agents, AssignWorkloadToAgent(t, w, a)
        PROVE  ExhaustedIsSuspended'
    <3> DEFINE k == [workload[w] EXCEPT !.assigned = a, !.generation = workload[w].generation + 1]
    <3>1. Good(k)
      BY <2>2 DEF WorkloadRows
    <3>2. workload' = [workload EXCEPT ![w] = k]
      BY <2>3 DEF AssignWorkloadToAgent, TypeInv, TypeOK
    <3> QED BY <2>1, <3>1, <3>2
  <2>4. ASSUME NEW w \in Workloads, ClearReconciliationFailure(w) PROVE ExhaustedIsSuspended'
    <3> DEFINE k == [workload[w] EXCEPT !.attempts = 0, !.backoff = FALSE, !.suspended = FALSE]
    <3>1. Good(k)
      BY <2>2 DEF WorkloadRows
    <3>2. workload' = [workload EXCEPT ![w] = k]
      BY <2>4 DEF ClearReconciliationFailure, TypeInv, TypeOK
    <3> QED BY <2>1, <3>1, <3>2
  <2>5. ASSUME NEW w \in Workloads, BackoffPasses(w) PROVE ExhaustedIsSuspended'
    <3> DEFINE k == [workload[w] EXCEPT !.backoff = FALSE]
    <3>1. Good(k)
      BY <2>2 DEF WorkloadRows
    <3>2. workload' = [workload EXCEPT ![w] = k]
      BY <2>5 DEF BackoffPasses, TypeInv, TypeOK
    <3> QED BY <2>1, <3>1, <3>2
  <2>6. ASSUME NEW t \in Callers, WriteDesired(t) PROVE ExhaustedIsSuspended'
    <3> DEFINE w == call[t].w
               k == [workload[w] EXCEPT !.desired = IF call[t].type = "stop" THEN "stopped" ELSE "running"]
    <3>1. w \in Workloads
      BY <2>6 DEF WriteDesired, TypeInv, CallRefs
    <3>2. Good(k)
      BY <2>2, <3>1 DEF WorkloadRows
    <3>3. workload' = [workload EXCEPT ![w] = k]
      BY <2>6, <3>1 DEF WriteDesired, TypeInv, TypeOK
    <3> QED BY <2>1, <3>1, <3>2, <3>3
  <2>7. ASSUME NEW d \in JobRuns, OutcomeWrites(d) PROVE ExhaustedIsSuspended'
    <3> DEFINE w == command[d[1]].w
               k == OutcomeRow(workload[w], command[d[1]].type, outcome[d])
    <3>1. w \in Workloads /\ workload[w] \in WorkloadRows /\ outcome[d] \in Outcomes
      BY <2>7 DEF OutcomeWrites, TypeInv, TypeOK, RowRefs
    <3>2. Good(k)
      BY <3>1, OutcomeRowGood
    <3>3. workload' = [workload EXCEPT ![w] = k]
      BY <2>7, <3>1 DEF OutcomeWrites, TypeInv, TypeOK
    <3> HIDE DEF k
    <3> QED BY <2>1, <3>1, <3>2, <3>3
  <2>8. ASSUME UNCHANGED workload PROVE ExhaustedIsSuspended'
    BY <2>8 DEF ExhaustedIsSuspended
  <2> QED
    BY <2>3, <2>4, <2>5, <2>6, <2>7, <2>8
    DEF Next, Admin, ReportedInventory, CallStep, TickStep, GatewayStep, AgentStep, vars, RequestCommand, HandleInventory,
        ReadWorkload, RecordCommand, EnqueueCommand, Crash, TickBegin, TickCheck, TickEnd, TickExpires,
        DispatchCommand, HandleAck, HandleCommandResult, OutcomeReads, AgentReceives, AgentFinishes,
        Disconnect, Reconnect, Archive, GatewayCrash
<1> QED BY <1>1, <1>2, ControlInvariant, PTL DEF Spec

-----------------------------------------------------------------------------
(* One command of the reconcilers per workload *)

(* The tick that is on holds the lock, and only its caller is at work. *)
LockHeld ==
  /\ \A r \in Reconcilers : tick[r] # "expired" /\ (tick[r] = "on" => lock = r)
  /\ \A r \in Reconcilers : call[r].pc # "idle" => tick[r] = "on" /\ call[r].by = "reconcile"
  /\ \A t \in Requests : call[t].by # "reconcile"

ReconcilerRow(c) == command[c].by = "reconcile" /\ command[c].status \in InFlightStatus

(* From the in-flight check to the new row, the tick's workload has none. *)
CheckHolds ==
  \A r \in Reconcilers : call[r].pc \in {"read", "record"} =>
    \A c \in Commands : ReconcilerRow(c) => command[c].w # call[r].w

LockInv == LockHeld /\ CheckHolds /\ OneReconcilerCommand

NoNewRow ==
  \A c \in Commands : command'[c].status \in InFlightStatus =>
    /\ command[c].status \in InFlightStatus
    /\ command'[c].w = command[c].w /\ command'[c].by = command[c].by

(* A step that puts no command in flight leaves one at most. *)
LEMMA NoNewRowKeeps ==
  ASSUME LockInv, NoNewRow PROVE OneReconcilerCommand'
  BY DEF LockInv, NoNewRow, OneReconcilerCommand

(* A step that adds no row and starts no send of a reconciler *)
LEMMA NoNewCheck ==
  ASSUME LockInv, NoNewRow,
         \A r \in Reconcilers : call'[r].pc \in {"read", "record"} =>
           call[r].pc \in {"read", "record"} /\ call'[r].w = call[r].w
  PROVE  CheckHolds' /\ OneReconcilerCommand'
<1>1. CheckHolds'
  BY DEF LockInv, NoNewRow, CheckHolds, ReconcilerRow
<1> QED BY <1>1, NoNewRowKeeps

(* Changing the status of a command in flight puts no other one in flight. *)
LEMMA StatusNoNewRow ==
  ASSUME TypeInv, NEW c \in Commands, NEW s, command[c].status \in InFlightStatus,
         command' = [command EXCEPT ![c].status = s]
  PROVE  NoNewRow
  BY DEF NoNewRow, TypeInv, TypeOK, CommandRows

(* Ending a command, whatever its status was, puts none in flight. *)
LEMMA EndedNoNewRow ==
  ASSUME TypeInv, NEW c \in Commands, NEW s \in Terminal,
         command' = [command EXCEPT ![c].status = s]
  PROVE  NoNewRow
  BY DEF NoNewRow, TypeInv, TypeOK, CommandRows, Terminal, InFlightStatus

(* Every step keeps the lock with its tick. *)
LEMMA LockNext ==
  ASSUME "timeout" \notin Faults
  PROVE  ControlInv /\ LockInv /\ [Next]_vars => LockInv'
<1> SUFFICES ASSUME TypeInv, Delivery, LockInv, [Next]_vars PROVE LockInv'
  BY DEF ControlInv
<1>a. \A r \in Reconcilers : r \in Callers /\ r \notin Requests
  BY DEF Callers
<1>b. \A t \in Requests : t \in Callers /\ t \notin Reconcilers
  BY DEF Callers
<1>c. ASSUME UNCHANGED command PROVE NoNewRow
  BY <1>c DEF NoNewRow
<1>1. ASSUME NoNewRow, UNCHANGED <<call, tick, lock>> PROVE LockInv'
  <2>1. LockHeld'
    BY <1>1 DEF LockInv, LockHeld
  <2>2. CheckHolds' /\ OneReconcilerCommand'
    BY <1>1, NoNewCheck
  <2> QED BY <2>1, <2>2 DEF LockInv
(* a request's call changes, to one that is not the reconciler's *)
<1>2. ASSUME NEW t \in Requests, UNCHANGED <<command, tick, lock>>,
             \A u \in Callers : u # t => call'[u] = call[u], call'[t].by # "reconcile"
      PROVE  LockInv'
  <2>1. LockHeld'
    BY <1>a, <1>b, <1>2 DEF LockInv, LockHeld
  <2>2. CheckHolds' /\ OneReconcilerCommand'
    BY <1>a, <1>c, <1>2, NoNewCheck
  <2> QED BY <2>1, <2>2 DEF LockInv
(* the call of a reconciler goes on, or ends *)
<1>3. ASSUME NEW r \in Reconcilers, UNCHANGED <<command, tick, lock>>, call[r].pc # "idle",
             \A u \in Callers : u # r => call'[u] = call[u],
             \/ call'[r].pc = "idle"
             \/ /\ call'[r].by = call[r].by
                /\ \/ call'[r].pc = "desired"
                   \/ call[r].pc = "read" /\ call'[r].pc = "record" /\ call'[r].w = call[r].w
      PROVE  LockInv'
  <2>1. LockHeld'
    BY <1>a, <1>b, <1>3 DEF LockInv, LockHeld
  <2>2. CheckHolds' /\ OneReconcilerCommand'
    BY <1>a, <1>c, <1>3, NoNewCheck
  <2> QED BY <2>1, <2>2 DEF LockInv
<1>4. ASSUME NEW t \in Requests, NEW w \in Workloads, NEW a \in Agents, AssignWorkloadToAgent(t, w, a)
      PROVE  LockInv'
  BY <1>2, <1>4, <1>b DEF AssignWorkloadToAgent, TypeInv, TypeOK
<1>5. ASSUME NEW t \in Requests, NEW w \in Workloads, NEW type, RequestCommand(t, w, type) PROVE LockInv'
  BY <1>2, <1>5, <1>b DEF RequestCommand, SendCall, TypeInv, TypeOK
<1>6. ASSUME NEW t \in Requests, NEW x \in told, HandleInventory(t, x) PROVE LockInv'
  BY <1>2, <1>6, <1>b DEF HandleInventory, FenceStaleAgent, TypeInv, TypeOK
<1>7. ASSUME NEW t \in Callers, ReadWorkload(t) \/ EnqueueCommand(t) \/ WriteDesired(t) PROVE LockInv'
  <2>1. /\ UNCHANGED <<command, tick, lock>> /\ call[t].pc # "idle"
        /\ \A u \in Callers : u # t => call'[u] = call[u]
        /\ \/ call'[t].pc = "idle" /\ call'[t].by = "admin"
           \/ /\ call'[t].by = call[t].by
              /\ \/ call'[t].pc = "desired"
                 \/ call[t].pc = "read" /\ call'[t].pc = "record" /\ call'[t].w = call[t].w
    <3>1. call[t] \in Calls
      BY DEF TypeInv, TypeOK
    <3>2. CASE ReadWorkload(t)
      BY <3>1, <3>2 DEF ReadWorkload, Idle, Calls, TypeInv, TypeOK
    <3>3. CASE EnqueueCommand(t)
      BY <3>1, <3>3 DEF EnqueueCommand, Idle, Calls, TypeInv, TypeOK
    <3>4. CASE WriteDesired(t)
      BY <3>4 DEF WriteDesired, Idle, TypeInv, TypeOK
    <3> QED BY <1>7, <3>2, <3>3, <3>4
  <2>2. CASE t \in Requests
    <3>1. call'[t].by # "reconcile"
      BY <2>1, <2>2 DEF LockInv, LockHeld
    <3> QED BY <1>2, <2>1, <2>2, <3>1
  <2>3. CASE t \in Reconcilers
    BY <1>3, <2>1, <2>3
  <2> QED BY <2>2, <2>3 DEF Callers
<1>8. ASSUME NEW t \in Callers, NEW c \in Commands, RecordCommand(t, c) PROVE LockInv'
  <2>1. /\ UNCHANGED <<tick, lock>> /\ call[t].pc = "record"
        /\ \A u \in Callers : u # t => call'[u] = call[u]
        /\ call'[t].pc = "enqueue" /\ call'[t].by = call[t].by
        /\ command'[c].w = call[t].w /\ command'[c].by = call[t].by
        /\ command[c].status = "free"
        /\ \A d \in Commands : d # c => command'[d] = command[d]
    BY <1>8 DEF RecordCommand, TypeInv, TypeOK, Calls
  <2>2. LockHeld'
    BY <1>a, <1>b, <2>1 DEF LockInv, LockHeld
  <2>3. CASE t \in Requests
    <3>1. command'[c].by # "reconcile"
      BY <2>1, <2>3 DEF LockInv, LockHeld
    <3>2. CheckHolds'
      BY <1>a, <2>1, <2>3, <3>1 DEF LockInv, CheckHolds, ReconcilerRow
    <3>3. OneReconcilerCommand'
      BY <2>1, <3>1 DEF LockInv, OneReconcilerCommand
    <3> QED BY <2>2, <3>2, <3>3 DEF LockInv
  <2>4. CASE t \in Reconcilers
    <3>1. \A r \in Reconcilers : call'[r].pc \notin {"read", "record"}
      BY <1>a, <2>1, <2>4 DEF LockInv, LockHeld
    <3>2. \A d \in Commands : ReconcilerRow(d) => command[d].w # call[t].w
      BY <2>1, <2>4 DEF LockInv, CheckHolds
    <3>3. OneReconcilerCommand'
      BY <2>1, <3>2 DEF LockInv, OneReconcilerCommand, ReconcilerRow
    <3> QED BY <2>2, <3>1, <3>3 DEF LockInv, CheckHolds
  <2> QED BY <2>3, <2>4 DEF Callers
<1>9. ASSUME NEW t \in Callers, Crash(t) PROVE LockInv'
  <2>1. /\ UNCHANGED command /\ call'[t].pc = "idle" /\ call'[t].by = "admin"
        /\ \A u \in Callers : u # t => call'[u] = call[u]
    BY <1>9 DEF Crash, Idle, TypeInv, TypeOK
  <2>2. CASE t \in Requests
    BY <1>2, <1>9, <1>b, <2>1, <2>2 DEF Crash
  <2>3. CASE t \in Reconcilers
    <3>1. LockHeld'
      BY <1>9, <1>a, <1>b, <2>1, <2>3 DEF Crash, LockInv, LockHeld, TypeInv, TypeOK
    <3>2. CheckHolds' /\ OneReconcilerCommand'
      BY <1>a, <1>c, <2>1, NoNewCheck
    <3> QED BY <3>1, <3>2 DEF LockInv
  <2> QED BY <2>2, <2>3 DEF Callers
<1>10. ASSUME NEW r \in Reconcilers, TickBegin(r) \/ TickEnd(r) PROVE LockInv'
  <2>1. LockHeld'
    BY <1>10 DEF TickBegin, TickEnd, LockInv, LockHeld, TypeInv, TypeOK
  <2>2. UNCHANGED <<command, call>>
    BY <1>10 DEF TickBegin, TickEnd
  <2>3. CheckHolds' /\ OneReconcilerCommand'
    BY <1>c, <2>2, NoNewCheck
  <2> QED BY <2>1, <2>3 DEF LockInv
<1>11. ASSUME NEW r \in Reconcilers, NEW x \in todo[r], TickCheck(r, x) PROVE LockInv'
  <2>1. UNCHANGED <<command, tick, lock>> /\ tick[r] = "on"
    BY <1>11 DEF TickCheck
  <2>2. CASE UNCHANGED call
    BY <1>1, <1>c, <2>1, <2>2
  <2>3. CASE ~InFlight(x.w) /\ call' = [call EXCEPT ![r] = SendCall(x.w, x.type, "reconcile")]
    <3>1. /\ \A u \in Callers : u # r => call'[u] = call[u]
          /\ call'[r].pc = "read" /\ call'[r].by = "reconcile" /\ call'[r].w = x.w
      BY <1>a, <2>3 DEF SendCall, TypeInv, TypeOK
    <3>2. LockHeld'
      BY <1>a, <1>b, <2>1, <3>1 DEF LockInv, LockHeld
    <3>3. CheckHolds'
      BY <1>a, <2>1, <2>3, <3>1 DEF LockInv, CheckHolds, ReconcilerRow, InFlight
    <3> QED BY <1>c, <2>1, <3>2, <3>3, NoNewRowKeeps DEF LockInv
  <2> QED BY <1>11, <2>2, <2>3 DEF TickCheck
<1>12. ASSUME NEW d \in JobRuns, DispatchCommand(d) \/ HandleCommandResult(d) PROVE LockInv'
  <2>1. /\ UNCHANGED <<call, tick, lock>>
        /\ UNCHANGED command \/ \E ok : MarkCommandOutcome(d, ok)
    BY <1>12 DEF DispatchCommand, HandleCommandResult
  <2>2. ASSUME NEW ok, MarkCommandOutcome(d, ok) PROVE NoNewRow
    <3>1. PICK s \in Terminal : command' = [command EXCEPT ![d[1]].status = s]
      BY <2>2 DEF MarkCommandOutcome, Terminal
    <3> QED BY <3>1, EndedNoNewRow
  <2> QED BY <1>1, <1>c, <2>1, <2>2
<1>13. ASSUME NEW c \in Commands, HandleAck(c) PROVE LockInv'
  <2>1. NoNewRow
    BY <1>13, <1>c, StatusNoNewRow DEF HandleAck, InFlightStatus
  <2> QED BY <1>1, <1>13, <2>1 DEF HandleAck
<1>14. ASSUME NEW c \in Commands, Archive(c) PROVE LockInv'
  <2>1. NoNewRow
    BY <1>14 DEF Archive, FreeRow, NoNewRow, InFlightStatus, TypeInv, TypeOK
  <2> QED BY <1>1, <1>14, <2>1 DEF Archive
<1>15. ASSUME NEW r \in Reconcilers, TickExpires(r) PROVE LockInv'
  BY <1>15 DEF TickExpires
<1>17. ASSUME GatewayCrash PROVE LockInv'
  <2>1. /\ UNCHANGED <<command, tick, lock>>
        /\ \A t \in Callers : \/ call'[t] = call[t]
                              \/ call'[t].pc = "idle" /\ call'[t].by = "admin"
    BY <1>17 DEF GatewayCrash, Idle
  <2>2. LockHeld'
    BY <1>a, <1>b, <2>1 DEF LockInv, LockHeld
  <2>3. CheckHolds' /\ OneReconcilerCommand'
    BY <1>a, <1>c, <2>1, NoNewCheck
  <2> QED BY <2>2, <2>3 DEF LockInv
<1>16. ASSUME UNCHANGED <<command, call, tick, lock>> PROVE LockInv'
  BY <1>1, <1>c, <1>16
<1> QED
  BY <1>4, <1>5, <1>6, <1>7, <1>8, <1>9, <1>10, <1>11, <1>12, <1>13, <1>14, <1>15, <1>16, <1>17
  DEF Next, Admin, ReportedInventory, CallStep, TickStep, GatewayStep, AgentStep, vars, ClearReconciliationFailure,
      BackoffPasses, OutcomeReads, OutcomeWrites, AgentReceives, AgentFinishes, Disconnect, Reconnect

(* With ticks that end within the transaction timeout, the reconcilers of   *)
(* any number of instances never have two commands in flight for a          *)
(* workload, wherever processes crash: the lock covers the time from the    *)
(* in-flight check to the new row.                                          *)
THEOREM ReconcilersExclude ==
  ASSUME "timeout" \notin Faults
  PROVE  Spec => []OneReconcilerCommand
<1>1. Init => LockInv
  BY DEF Init, LockInv, LockHeld, CheckHolds, OneReconcilerCommand, FreeRow, Idle, Callers, InFlightStatus
<1>2. ControlInv /\ LockInv /\ [Next]_vars => LockInv'
  BY LockNext
<1>3. LockInv => OneReconcilerCommand
  BY DEF LockInv
<1> QED BY <1>1, <1>2, <1>3, ControlInvariant, PTL DEF Spec

-----------------------------------------------------------------------------
(* Ended commands *)

(* A command that succeeded or failed is never in flight again, whatever    *)
(* acks and results come late or twice, wherever the gateway crashes and    *)
(* its jobs are run again.                                                  *)
THEOREM EndedForGood == Spec => EndedStaysEnded
<1> DEFINE Step == \A c \in Commands : command[c].status \in Terminal =>
                     command'[c].status \in Terminal \cup {"free"}
<1>1. ControlInv /\ [Next]_vars => Step
  <2> SUFFICES ASSUME TypeInv, [Next]_vars PROVE Step
    BY DEF ControlInv
  <2>1. ASSUME NEW c \in Commands, NEW s, s \in Terminal \/ command[c].status \notin Terminal,
               command' = [command EXCEPT ![c].status = s]
        PROVE  Step
    BY <2>1 DEF TypeInv, TypeOK, CommandRows
  <2>2. ASSUME UNCHANGED command PROVE Step
    BY <2>2
  <2>3. ASSUME NEW t, NEW c \in Commands, RecordCommand(t, c) PROVE Step
    BY <2>3 DEF RecordCommand, TypeInv, TypeOK, Terminal
  <2>4. ASSUME NEW d \in JobRuns, DispatchCommand(d) \/ HandleCommandResult(d) PROVE Step
    <3>1. UNCHANGED command \/ \E s \in Terminal : command' = [command EXCEPT ![d[1]].status = s]
      BY <2>4 DEF DispatchCommand, HandleCommandResult, MarkCommandOutcome, Terminal
    <3> QED BY <2>1, <2>2, <3>1
  <2>5. ASSUME NEW c \in Commands, HandleAck(c) PROVE Step
    <3>1. \/ UNCHANGED command
          \/ command[c].status \notin Terminal /\ command' = [command EXCEPT ![c].status = "accepted"]
      BY <2>5 DEF HandleAck, Terminal
    <3> QED BY <2>1, <2>2, <3>1
  <2>6. ASSUME NEW c \in Commands, Archive(c) PROVE Step
    BY <2>6 DEF Archive, FreeRow, TypeInv, TypeOK
  <2> HIDE DEF Step
  <2> QED
    BY <2>2, <2>3, <2>4, <2>5, <2>6
    DEF Next, Admin, ReportedInventory, CallStep, TickStep, GatewayStep, AgentStep, vars,
        AssignWorkloadToAgent, RequestCommand, HandleInventory, ClearReconciliationFailure, ReadWorkload,
        EnqueueCommand, WriteDesired, Crash, TickBegin, TickCheck, TickEnd, TickExpires, BackoffPasses,
        OutcomeReads, OutcomeWrites, AgentReceives, AgentFinishes, Disconnect, Reconnect, GatewayCrash
<1> QED BY <1>1, ControlInvariant, PTL DEF Spec, EndedStaysEnded
=============================================================================
