----------------------------- MODULE MCOperations -----------------------------
(***************************************************************************)
(* The single-node operations of the control plane, one component at a     *)
(* time: part says which one a behaviour exercises, the others rest in one *)
(* initial state.  They share no row that a property speaks of.            *)
(***************************************************************************)
EXTENDS Workers, BotActions, Roles, Plans, TLC

VARIABLE part

Parts == {"workers", "actions", "roles", "plans"}

MCMaxBots == <<2, 1, 2>>

MCInit ==
  /\ part \in Parts
  /\ IF part = "workers" THEN TRUE
     ELSE wkStatus = [w \in WorkerIds |-> "offline"] /\ group = [b \in BotIds |-> NoWorker]
  /\ IF part = "actions" THEN TRUE ELSE mode = [b \in FleetBots |-> "pm2"]
  /\ IF part = "roles" THEN TRUE ELSE role = [u \in Users |-> "owner"]
  /\ WorkersInit /\ BotActionsInit /\ RolesInit /\ PlansInit

MCNext ==
  \/ /\ part = "workers" /\ WorkersNext
     /\ UNCHANGED <<part, botActionVars, rolesVars, plansVars>>
  \/ /\ part = "actions" /\ BotActionsNext
     /\ UNCHANGED <<part, workersVars, rolesVars, plansVars>>
  \/ /\ part = "roles" /\ RolesNext
     /\ UNCHANGED <<part, workersVars, botActionVars, plansVars>>
  \/ /\ part = "plans" /\ PlansNext
     /\ UNCHANGED <<part, workersVars, botActionVars, rolesVars>>

MCSpec == MCInit /\ [][MCNext]_<<part, workersVars, botActionVars, rolesVars, plansVars>>

(* The types of the four components. *)
OperationsTypeOK ==
  /\ part \in Parts
  /\ WorkersTypeOK /\ BotActionsTypeOK /\ RolesTypeOK /\ PlansTypeOK

=============================================================================
