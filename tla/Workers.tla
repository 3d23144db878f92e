-------------------------------- MODULE Workers --------------------------------
(***************************************************************************)
(* Bots on single-node workers: setBotWorker (lib/worker-assignment.ts),   *)
(* the rebalancing recommendations (lib/rebalance.ts) and drainWorker      *)
(* (lib/workers/drain.ts), run by concurrent requests.  A transaction of   *)
(* setBotWorker reads in one step and commits in another: PostgreSQL's     *)
(* read-committed isolation lets others commit in between.  It may abort   *)
(* instead, as the victim of a deadlock or on Prisma's timeout.            *)
(***************************************************************************)
EXTENDS Integers, FiniteSets

CONSTANTS
  NWorkers, NBots,  \* rows, numbered in the order findMany returns them
  MaxBots,          \* Worker.maxBots
  MoveCalls,        \* requests: PATCH bots/[id] or POST workers/[id]/drain
  MaxMoves          \* bound on requests and restarts

ASSUME WorkersAssumption ==
  /\ NWorkers \in Nat /\ NBots \in Nat /\ MaxMoves \in Nat
  /\ MaxBots \in [1 .. NWorkers -> Nat \ {0}]

WorkerIds == 1 .. NWorkers
BotIds == 1 .. NBots
NoWorker == 0
Stranger == NWorkers + 1  \* an id without a row: PATCH looks up none

VARIABLES
  wkStatus,    \* Worker.status
  group,       \* Bot.workerGroupId
  currentBots, \* Worker.currentBots
  active,      \* active WorkerAssignment rows for each worker and bot
  mover,       \* progress of each request
  drifted,     \* a move was committed although another had moved the bot
  moves

workersVars == <<wkStatus, group, currentBots, active, mover, drifted, moves>>

(* drains: the worker a request drains.  recs: the target of each bot still  *)
(* to be moved.  bot, from, to: the transaction.  quiet: nobody else moved a *)
(* bot or restarted a worker since the snapshot.                             *)
NoTargets == [b \in BotIds |-> NoWorker]

MoverIdle ==
  [pc |-> "idle", drains |-> NoWorker, recs |-> NoTargets, bot |-> 0, from |-> NoWorker,
   to |-> NoWorker, quiet |-> TRUE]

WorkersInit ==
  /\ wkStatus \in [WorkerIds -> {"online", "offline"}]
  /\ group \in [BotIds -> WorkerIds \cup {NoWorker}]
  /\ currentBots = [w \in WorkerIds |-> Cardinality({b \in BotIds : group[b] = w})]
  /\ active = [w \in WorkerIds |-> [b \in BotIds |-> IF group[b] = w THEN 1 ELSE 0]]
  /\ mover = [m \in MoveCalls |-> MoverIdle]
  /\ drifted = FALSE
  /\ moves = 0

-----------------------------------------------------------------------------
(* computeRebalanceRecommendations, for the statuses s.  A plan is the load  *)
(* Map and the recommendations: a bot gets at most one, which takes it from  *)
(* the worker it is on (type "assign" from none), and a drain applies those  *)
(* of one worker in the order of the bots, so a target for each bot tells    *)
(* them all.                                                                 *)

EffectiveMax(s, w) == IF s[w] \in {"draining", "failed"} THEN 0 ELSE MaxBots[w]

(* Mutant of LeastLoaded: a worker with one free slot counts as full. *)
LeastLoadedSpare(s, load, except) ==
  LET open == {w \in WorkerIds \ {except} : s[w] = "online" /\ load[w] + 1 < EffectiveMax(s, w)} IN
  IF open = {} THEN NoWorker
  ELSE CHOOSE w \in open : \A v \in open \ {w} :
         LET lw == load[w] * MaxBots[v]
             lv == load[v] * MaxBots[w]
         IN lw < lv \/ (lw = lv /\ w < v)

(* The stable sort by load / maxBots: the first of the least loaded. *)
LeastLoaded(s, load, except) ==
  LET open == {w \in WorkerIds \ {except} : s[w] = "online" /\ load[w] < EffectiveMax(s, w)} IN
  IF open = {} THEN NoWorker
  ELSE CHOOSE w \in open : \A v \in open \ {w} :
         LET lw == load[w] * MaxBots[v]
             lv == load[v] * MaxBots[w]
         IN lw < lv \/ (lw = lv /\ w < v)

(* Mutant of Recommend: a target's load is not counted up. *)
RecommendBlindly(s, plan, b, from) ==
  LET x == LeastLoaded(s, plan.load, from) IN
  IF x = NoWorker THEN plan ELSE [plan EXCEPT !.to[b] = x]

(* One more recommendation, if there is a target, and the load with it. *)
Recommend(s, plan, b, from) ==
  LET x == LeastLoaded(s, plan.load, from) IN
  IF x = NoWorker THEN plan
  ELSE [load |-> [w \in WorkerIds |->
                    plan.load[w] + (IF w = x THEN 1 ELSE 0) - (IF w = from THEN 1 ELSE 0)],
        to |-> [plan.to EXCEPT ![b] = x]]

(* bots.filter(...).slice(0, n): whether b is among the first n bots on from. *)
Among(b, from, n) ==
  group[b] = from /\ Cardinality({a \in 1 .. b - 1 : group[a] = from}) < n

RecommendFirst(s, plan, from, n) ==
  LET after[b \in 0 .. NBots] ==
        IF b = 0 THEN plan
        ELSE IF Among(b, from, n) THEN Recommend(s, after[b - 1], b, from)
        ELSE after[b - 1]
  IN after[NBots]

AssignUnassigned(s) ==
  RecommendFirst(s, [load |-> currentBots, to |-> NoTargets], NoWorker, NBots)

MoveExcess(s, plan, w) ==
  RecommendFirst(s, plan, w, plan.load[w] - EffectiveMax(s, w))

ComputeRebalanceRecommendations(s) ==
  LET after[w \in 0 .. NWorkers] ==
        IF w = 0 THEN AssignUnassigned(s) ELSE MoveExcess(s, after[w - 1], w)
  IN after[NWorkers]

-----------------------------------------------------------------------------
(* setBotWorker *)

BeginMove(m, b, w) ==
  /\ moves < MaxMoves /\ moves' = moves + 1
  /\ mover[m].pc = "idle"
  /\ mover' = [mover EXCEPT ![m].pc = "read", ![m].bot = b, ![m].to = w]
  /\ UNCHANGED <<wkStatus, group, currentBots, active, drifted>>

(* What comes after a transaction: the next recommendation, or the end. *)
Following(x) ==
  LET left == {b \in BotIds : x.recs[b] # NoWorker}
      next == CHOOSE b \in left : \A a \in left : b <= a
  IN IF x.drains = NoWorker THEN MoverIdle
     ELSE IF left = {} THEN [x EXCEPT !.pc = "recheck"]
     ELSE [x EXCEPT !.pc = "read", !.bot = next, !.to = x.recs[next],
                    !.recs = [@ EXCEPT ![next] = NoWorker]]

(* findUniqueOrThrow. *)
TxRead(m) ==
  /\ mover[m].pc = "read" /\ mover[m].bot \in BotIds
  /\ LET old == group[mover[m].bot] IN
       mover' = [mover EXCEPT ![m] =
         IF old = mover[m].to THEN Following(@)
         ELSE [@ EXCEPT !.pc = "write", !.from = old]]
  /\ UNCHANGED <<wkStatus, group, currentBots, active, drifted, moves>>

OthersDisturbed(m) ==
  [n \in MoveCalls |-> IF n = m THEN mover[n] ELSE [mover[n] EXCEPT !.quiet = FALSE]]

(* decrement and increment are relative to the rows at the commit; the     *)
(* worker they apply to is the one that was read.  The update of a worker  *)
(* without a row throws.                                                   *)
TxCommit(m) ==
  /\ mover[m].pc = "write" /\ mover[m].to \in WorkerIds \cup {NoWorker}
  /\ LET b == mover[m].bot
         from == mover[m].from
         to == mover[m].to
     IN /\ currentBots' = [w \in WorkerIds |->
             currentBots[w] - (IF w = from THEN 1 ELSE 0) + (IF w = to THEN 1 ELSE 0)]
        /\ active' = [w \in WorkerIds |-> [active[w] EXCEPT ![b] =
             IF w = from THEN 0 ELSE IF w = to THEN @ + 1 ELSE @]]
        /\ group' = [group EXCEPT ![b] = to]
        /\ drifted' = (drifted \/ group[b] # from)
  /\ mover' = [OthersDisturbed(m) EXCEPT ![m] = Following(@)]
  /\ UNCHANGED <<wkStatus, moves>>

(* A query throws: nothing is written; the request fails, a drain with it. *)
TxAbort(m) ==
  /\ mover[m].pc \in {"read", "write"}
  /\ mover' = [mover EXCEPT ![m] = MoverIdle]
  /\ UNCHANGED <<wkStatus, group, currentBots, active, drifted, moves>>

-----------------------------------------------------------------------------
(* drainWorker and the restart route *)

BeginDrain(m, w) ==
  /\ moves < MaxMoves /\ moves' = moves + 1
  /\ mover[m].pc = "idle"
  /\ wkStatus' = [wkStatus EXCEPT ![w] = "draining"]
  /\ mover' = [mover EXCEPT ![m].pc = "snapshot", ![m].drains = w]
  /\ UNCHANGED <<group, currentBots, active, drifted>>

PlanDrain(m) ==
  /\ mover[m].pc = "snapshot"
  /\ LET w == mover[m].drains
         plan == ComputeRebalanceRecommendations([wkStatus EXCEPT ![w] = "draining"])
     IN mover' = [mover EXCEPT ![m] =
          Following([@ EXCEPT !.quiet = TRUE,
            !.recs = [b \in BotIds |-> IF group[b] = w THEN plan.to[b] ELSE NoWorker]])]
  /\ UNCHANGED <<wkStatus, group, currentBots, active, drifted, moves>>

Recheck(m) ==
  /\ mover[m].pc = "recheck"
  /\ mover' = [mover EXCEPT ![m] =
       IF \E b \in BotIds : group[b] = mover[m].drains THEN MoverIdle
       ELSE [@ EXCEPT !.pc = "offline"]]
  /\ UNCHANGED <<wkStatus, group, currentBots, active, drifted, moves>>

SetOffline(m) ==
  /\ mover[m].pc = "offline"
  /\ wkStatus' = [wkStatus EXCEPT ![mover[m].drains] = "offline"]
  /\ mover' = [mover EXCEPT ![m] = MoverIdle]
  /\ UNCHANGED <<group, currentBots, active, drifted, moves>>

(* POST workers/[id]/restart: online, whatever it was. *)
RestartWorker(w) ==
  /\ moves < MaxMoves /\ moves' = moves + 1
  /\ wkStatus' = [wkStatus EXCEPT ![w] = "online"]
  /\ mover' = [m \in MoveCalls |-> [mover[m] EXCEPT !.quiet = FALSE]]
  /\ UNCHANGED <<group, currentBots, active, drifted>>

WorkersNext ==
  \/ \E m \in MoveCalls :
       \/ \E b \in BotIds, w \in WorkerIds \cup {NoWorker, Stranger} : BeginMove(m, b, w)
       \/ \E w \in WorkerIds : BeginDrain(m, w)
       \/ TxRead(m) \/ TxCommit(m) \/ TxAbort(m)
       \/ PlanDrain(m) \/ Recheck(m) \/ SetOffline(m)
  \/ \E w \in WorkerIds : RestartWorker(w)

WorkersSpec == WorkersInit /\ [][WorkersNext]_workersVars

-----------------------------------------------------------------------------

WorkersTypeOK ==
  /\ wkStatus \in [WorkerIds -> {"online", "offline", "draining", "failed"}]
  /\ group \in [BotIds -> WorkerIds \cup {NoWorker}]
  /\ currentBots \in [WorkerIds -> Int]
  /\ active \in [WorkerIds -> [BotIds -> Nat]]
  /\ \A m \in MoveCalls :
       /\ mover[m].drains \in WorkerIds \cup {NoWorker}
       /\ mover[m].pc \in {"read", "write"} =>
            mover[m].bot \in BotIds /\ mover[m].to \in WorkerIds \cup {NoWorker, Stranger}
       /\ mover[m].pc = "write" =>
            mover[m].from \in WorkerIds \cup {NoWorker} /\ mover[m].from # mover[m].to
  /\ drifted \in BOOLEAN /\ moves \in 0 .. MaxMoves

(* The active WorkerAssignment rows and the cached counter agree with       *)
(* Bot.workerGroupId.                                                        *)
InSync ==
  \A w \in WorkerIds :
    /\ \A b \in BotIds : active[w][b] = IF group[b] = w THEN 1 ELSE 0
    /\ currentBots[w] = Cardinality({b \in BotIds : group[b] = w})

(* What setBotWorker achieves: they agree whatever moves of different bots   *)
(* overlap and whichever abort, as long as no move was committed on a        *)
(* reading of the bot that another move had overtaken.                       *)
InSyncUnlessDrifted == ~drifted => InSync

(* drain.ts:18-21: a bot that is not to be moved is stranded only because    *)
(* every online worker is full, counting what was recommended for others     *)
(* (the slots of the unassigned bots included, which a drain does not use).  *)
StrandedMeansFull ==
  ~drifted =>
    LET plan == ComputeRebalanceRecommendations(wkStatus) IN
    \A b \in BotIds :
      group[b] # NoWorker /\ wkStatus[group[b]] = "draining" /\ plan.to[b] = NoWorker
      => \A w \in WorkerIds \ {group[b]} :
           wkStatus[w] = "online" => plan.load[w] >= MaxBots[w]

(* A drain that nobody disturbs after its snapshot fills no worker beyond    *)
(* maxBots, however many of its moves go to the same worker (drain.ts:45).   *)
DrainFits ==
  [][\A m \in MoveCalls :
       /\ mover[m].pc = "write" /\ mover[m].drains # NoWorker /\ mover[m].quiet
       /\ group' # group /\ mover'[m] # mover[m]
       => currentBots'[mover[m].to] <= MaxBots[mover[m].to]]_workersVars

-----------------------------------------------------------------------------

(* worker-assignment.ts:5-8: the assignment row, the counters and the bot's  *)
(* worker are kept "in sync", also for overlapping moves of one bot.         *)
WorkersInSync == InSync

=============================================================================
