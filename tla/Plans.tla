--------------------------------- MODULE Plans ---------------------------------
(***************************************************************************)
(* Plan limits (lib/plans.ts) as the creation and the change of a bot      *)
(* enforce them (app/api/admin/bots/route.ts and bots/[id]/route.ts).  A   *)
(* request reads and checks in one statement and writes in another,        *)
(* between those of other requests.  Bots are never deleted.               *)
(***************************************************************************)
EXTENDS Naturals, Sequences, FiniteSets

CONSTANTS
  Customers,
  Tiers,        \* plans the admins use
  GuildLimits, ShardCounts,  \* values they enter
  PlanCalls,    \* requests in progress
  MaxRows,      \* bound on bots
  MaxPlanOps    \* bound on requests

PlanTiers == {"free", "starter", "pro", "enterprise", "custom"}

ASSUME PlansAssumption ==
  /\ Tiers \subseteq PlanTiers
  /\ GuildLimits \subseteq Nat \ {0} /\ ShardCounts \subseteq Nat \ {0}
  /\ IsFiniteSet(PlanCalls) /\ PlanCalls # {} /\ MaxRows \in Nat
  /\ MaxPlanOps \in Nat

Limits(bots, guilds, shards) == [bots |-> bots, guilds |-> guilds, shards |-> shards]

PLAN_LIMITS ==
  [free |-> Limits(1, 50, 1), starter |-> Limits(3, 250, 2), pro |-> Limits(10, 2500, 8),
   enterprise |-> Limits(100, 100000, 256), custom |-> Limits(10, 2500, 8)]

VARIABLES
  customers,  \* rows of Customer (Customer.plan is read by no limit)
  fleet,      \* rows of Bot, in the order of their creation
  healthy,    \* bots that have a BotHealth row
  planReq,    \* progress of each request
  loose,      \* bots whose limits were last checked against another plan than they have
  planOps

plansVars == <<customers, fleet, healthy, planReq, loose, planOps>>

(* A field that a PATCH leaves out.  bot: the row to change.  was: its plan *)
(* as read.                                                                 *)
Undefined == 0
NoTier == "undefined"

PlanIdle == [pc |-> "idle", customer |-> "", bot |-> 0, plan |-> NoTier, guilds |-> Undefined,
             shards |-> Undefined, was |-> NoTier]

PlansInit ==
  /\ customers = {} /\ fleet = <<>> /\ healthy = {}
  /\ planReq = [q \in PlanCalls |-> PlanIdle]
  /\ loose = {} /\ planOps = 0

PlanOp == planOps < MaxPlanOps /\ planOps' = planOps + 1

BotsOf(c) == {i \in DOMAIN fleet : fleet[i].customer = c}

AssertBotCountWithinPlan(p, count) == count < PLAN_LIMITS[p].bots
AssertGuildLimitWithinPlan(p, guilds) == guilds <= PLAN_LIMITS[p].guilds
AssertShardCountWithinPlan(p, shards) == shards <= PLAN_LIMITS[p].shards

CreateCustomer(c) ==
  /\ customers' = customers \cup {c}
  /\ UNCHANGED <<fleet, healthy, planReq, loose, planOps>>

-----------------------------------------------------------------------------
(* POST bots.  The limits are those of the new bot's plan. *)

(* Mutant of CountBots: the cap itself is still allowed. *)
CountBotsOffByOne(q, c, p, g, s) ==
  /\ planReq[q].pc = "idle" /\ PlanOp
  /\ c \in customers
  /\ Cardinality(BotsOf(c)) <= PLAN_LIMITS[p].bots
  /\ AssertGuildLimitWithinPlan(p, g) /\ AssertShardCountWithinPlan(p, s)
  /\ planReq' = [planReq EXCEPT ![q] =
       [@ EXCEPT !.pc = "insert", !.customer = c, !.plan = p, !.guilds = g, !.shards = s]]
  /\ UNCHANGED <<customers, fleet, healthy, loose>>

(* A request that exceeds a limit is answered with 422 and changes nothing. *)
CountBots(q, c, p, g, s) ==
  /\ planReq[q].pc = "idle" /\ PlanOp
  /\ c \in customers
  /\ AssertBotCountWithinPlan(p, Cardinality(BotsOf(c)))
  /\ AssertGuildLimitWithinPlan(p, g) /\ AssertShardCountWithinPlan(p, s)
  /\ planReq' = [planReq EXCEPT ![q] =
       [@ EXCEPT !.pc = "insert", !.customer = c, !.plan = p, !.guilds = g, !.shards = s]]
  /\ UNCHANGED <<customers, fleet, healthy, loose>>

(* born: the plan the bot was created with. *)
InsertBot(q) ==
  /\ planReq[q].pc = "insert" /\ Len(fleet) < MaxRows
  /\ LET r == planReq[q] IN
       fleet' = Append(fleet, [customer |-> r.customer, plan |-> r.plan, born |-> r.plan,
                               guilds |-> r.guilds, shards |-> r.shards])
  /\ planReq' = [planReq EXCEPT ![q].pc = "health", ![q].bot = Len(fleet) + 1]
  /\ UNCHANGED <<customers, healthy, loose, planOps>>

(* The worker, if one was chosen, is set by setBotWorker (module Workers). *)
InsertHealth(q) ==
  /\ planReq[q].pc = "health"
  /\ healthy' = healthy \cup {planReq[q].bot}
  /\ planReq' = [planReq EXCEPT ![q] = PlanIdle]
  /\ UNCHANGED <<customers, fleet, loose, planOps>>

-----------------------------------------------------------------------------
(* PATCH bots/[id] *)

(* Mutant of CheckPatch: the limits of the plan the bot has. *)
CheckPatchOfOldPlan(q, b, p, g, s) ==
  /\ planReq[q].pc = "idle" /\ PlanOp
  /\ b \in DOMAIN fleet
  /\ g # Undefined => AssertGuildLimitWithinPlan(fleet[b].plan, g)
  /\ s # Undefined => AssertShardCountWithinPlan(fleet[b].plan, s)
  /\ planReq' = [planReq EXCEPT ![q] =
       [@ EXCEPT !.pc = "update", !.bot = b, !.plan = p, !.guilds = g, !.shards = s,
                 !.was = fleet[b].plan]]
  /\ UNCHANGED <<customers, fleet, healthy, loose>>

CheckPatch(q, b, p, g, s) ==
  /\ planReq[q].pc = "idle" /\ PlanOp
  /\ b \in DOMAIN fleet
  /\ LET plan == IF p = NoTier THEN fleet[b].plan ELSE p IN
       /\ g # Undefined => AssertGuildLimitWithinPlan(plan, g)
       /\ s # Undefined => AssertShardCountWithinPlan(plan, s)
  /\ planReq' = [planReq EXCEPT ![q] =
       [@ EXCEPT !.pc = "update", !.bot = b, !.plan = p, !.guilds = g, !.shards = s,
                 !.was = fleet[b].plan]]
  /\ UNCHANGED <<customers, fleet, healthy, loose>>

Defined(value, none, old) == IF value = none THEN old ELSE value

(* Mutant of UpdateBot: a field that is left out is cleared. *)
UpdateBotAsGiven(q) ==
  /\ planReq[q].pc = "update"
  /\ LET r == planReq[q] IN
       fleet' = [fleet EXCEPT ![r.bot] =
         [@ EXCEPT !.plan = Defined(r.plan, NoTier, @), !.guilds = r.guilds, !.shards = r.shards]]
  /\ planReq' = [planReq EXCEPT ![q] = PlanIdle]
  /\ UNCHANGED <<customers, healthy, loose, planOps>>

UpdateBot(q) ==
  /\ planReq[q].pc = "update"
  /\ LET r == planReq[q]
         old == fleet[r.bot]
         limits == {r.guilds, r.shards}
     IN /\ fleet' = [fleet EXCEPT ![r.bot] =
             [old EXCEPT !.plan = Defined(r.plan, NoTier, old.plan),
                         !.guilds = Defined(r.guilds, Undefined, old.guilds),
                         !.shards = Defined(r.shards, Undefined, old.shards)]]
        /\ loose' = IF r.plan # NoTier
                    THEN IF Undefined \in limits THEN loose \cup {r.bot} ELSE loose \ {r.bot}
                    ELSE IF limits # {Undefined} /\ old.plan # r.was
                    THEN loose \cup {r.bot} ELSE loose
  /\ planReq' = [planReq EXCEPT ![q] = PlanIdle]
  /\ UNCHANGED <<customers, healthy, planOps>>

(* The process ends or the database fails: what was written stays. *)
RequestLost(q) ==
  /\ planReq[q].pc # "idle"
  /\ planReq' = [planReq EXCEPT ![q] = PlanIdle]
  /\ UNCHANGED <<customers, fleet, healthy, loose, planOps>>

PlansNext ==
  \/ \E c \in Customers : CreateCustomer(c)
  \/ \E q \in PlanCalls :
       \/ \E c \in Customers, p \in Tiers, g \in GuildLimits, s \in ShardCounts :
            CountBots(q, c, p, g, s)
       \/ \E b \in 1 .. MaxRows, p \in Tiers \cup {NoTier}, g \in GuildLimits \cup {Undefined},
             s \in ShardCounts \cup {Undefined} : CheckPatch(q, b, p, g, s)
       \/ InsertBot(q) \/ InsertHealth(q) \/ UpdateBot(q) \/ RequestLost(q)

PlansSpec == PlansInit /\ [][PlansNext]_plansVars

-----------------------------------------------------------------------------

PlansTypeOK ==
  /\ customers \subseteq Customers
  /\ Len(fleet) <= MaxRows /\ planOps \in 0 .. MaxPlanOps
  /\ \A i \in DOMAIN fleet :
       /\ fleet[i].customer \in customers /\ {fleet[i].plan, fleet[i].born} \subseteq Tiers
       /\ fleet[i].guilds \in GuildLimits /\ fleet[i].shards \in ShardCounts
  /\ healthy \cup loose \subseteq DOMAIN fleet
  /\ \A q \in PlanCalls :
       /\ planReq[q].pc \in {"idle", "insert", "health", "update"}
       /\ planReq[q].pc \in {"health", "update"} => planReq[q].bot \in DOMAIN fleet

(* plans.ts:103: a customer has no more bots than the most generous plan     *)
(* among the plans they were created with allows; creations that overlap     *)
(* exceed it, since each counts before the others insert, but never by more  *)
(* than the number of requests in progress less one.                         *)
ExcessBounded ==
  \A c \in customers : BotsOf(c) # {} =>
    \E i \in BotsOf(c) :
      Cardinality(BotsOf(c)) <= PLAN_LIMITS[fleet[i].born].bots + Cardinality(PlanCalls) - 1

(* Every bot's guild and shard limits are within its plan, whatever changes  *)
(* overlap, unless its plan was changed without its limits or after they     *)
(* were checked (bots/[id]/route.ts:59-63).                                  *)
CapsHold ==
  \A i \in DOMAIN fleet \ loose :
    /\ AssertGuildLimitWithinPlan(fleet[i].plan, fleet[i].guilds)
    /\ AssertShardCountWithinPlan(fleet[i].plan, fleet[i].shards)

=============================================================================
