--------------------------- MODULE OperationsProofs ---------------------------
(***************************************************************************)
(* Proofs about Workers, BotActions and Plans, for any number of workers,  *)
(* bots, calls, jobs, customers and requests, and about their composition  *)
(* with Roles. Each part has an inductive invariant of its own; the        *)
(* components share no state.                                              *)
(***************************************************************************)
EXTENDS MCOperations, RolesProofs, FiniteSetTheorems, WellFoundedInduction, TLAPS

-----------------------------------------------------------------------------
(* Workers: recommendations, assignments and their counters, drains *)

(* A set of natural numbers has a least element. *)
LEMMA LeastElement ==
  ASSUME NEW S \in SUBSET Nat, S # {}
  PROVE  \E m \in S : \A i \in S : m <= i
  <1>1. PICK m \in S : \A i \in S : ~(<<i, m>> \in OpToRel(<, Nat))
    BY NatLessThanWellFounded, WFMin
  <1>2. ASSUME NEW i \in S PROVE m <= i
    <2>1. ~(<<i, m>> \in {ss \in Nat \X Nat : ss[1] < ss[2]})
      BY <1>1 DEF OpToRel
    <2> QED BY <2>1
  <1> QED BY <1>2

(* Induction up to n, for a set in place of a predicate. *)
LEMMA UpTo ==
  ASSUME NEW n \in Nat, NEW S, 0 \in S, \A i \in 1 .. n : i - 1 \in S => i \in S
  PROVE  0 .. n \subseteq S
  <1> SUFFICES ASSUME NEW j \in 0 .. n, j \notin S PROVE FALSE
    OBVIOUS
  <1> DEFINE T == (0 .. n) \ S
  <1>1. PICK m \in T : \A i \in T : m <= i
    <2>1. T \in SUBSET Nat /\ T # {}
      OBVIOUS
    <2> HIDE DEF T
    <2> QED BY <2>1, LeastElement
  <1>2. \A i \in T : ~(i < m)
    BY <1>1
  <1>3. m \in 1 .. n /\ m - 1 \in 0 .. n
    OBVIOUS
  <1>4. m - 1 \notin T
    BY <1>2, <1>3
  <1> QED BY <1>3, <1>4

(* f is a run of n steps from x. *)
IsRun(f, n, x, step) == f[0] = x /\ \A i \in 1 .. n : f[i] = step[i][f[i - 1]]

(* A loop that takes a member of D to a member of D has a run. *)
LEMMA LoopRuns ==
  ASSUME NEW n \in Nat, NEW D, NEW x \in D, NEW step \in [1 .. n -> [D -> D]]
  PROVE  \E f \in [0 .. n -> D] : IsRun(f, n, x, step)
  <1> DEFINE Runs(k) == {f \in [0 .. k -> D] : f[0] = x /\ \A i \in 1 .. k : f[i] = step[i][f[i - 1]]}
             S == {k \in 0 .. n : Runs(k) # {}}
  <1>1. 0 \in S
    <2>1. [i \in 0 .. 0 |-> x] \in Runs(0)
      OBVIOUS
    <2> QED BY <2>1
  <1>2. ASSUME NEW k \in 1 .. n, k - 1 \in S PROVE k \in S
    <2>1. PICK f \in [0 .. k - 1 -> D] : f[0] = x /\ \A i \in 1 .. k - 1 : f[i] = step[i][f[i - 1]]
      BY <1>2
    <2>2. step[k] \in [D -> D] /\ f[k - 1] \in D
      OBVIOUS
    <2> DEFINE g == [i \in 0 .. k |-> IF i = k THEN step[k][f[k - 1]] ELSE f[i]]
    <2>3. g \in [0 .. k -> D]
      BY <2>2
    <2>4. g[0] = x /\ \A i \in 1 .. k : g[i] = step[i][g[i - 1]]
      BY <2>1
    <2>5. g \in Runs(k)
      BY <2>3, <2>4
    <2> QED BY <2>5
  <1>3. n \in S
    <2> HIDE DEF S
    <2>1. \A i \in 1 .. n : i - 1 \in S => i \in S
      BY <1>2
    <2>2. 0 .. n \subseteq S
      BY <1>1, <2>1, UpTo
    <2> QED BY <2>2
  <1> QED BY <1>3 DEF IsRun

(* The loads and the target of each bot. *)
RebalancePlans == [load : [WorkerIds -> Int], to : [BotIds -> WorkerIds \cup {NoWorker}]]

(* Cross-multiplied comparisons of load and capacity are transitive. *)
LEMMA ProductOrder ==
  ASSUME NEW a \in Int, NEW b \in Int, NEW c \in Int,
         NEW p \in Nat \ {0}, NEW q \in Nat \ {0}, NEW r \in Nat \ {0},
         a * q <= b * p, b * r <= c * q
  PROVE  a * r <= c * p /\ (a * q < b * p \/ b * r < c * q => a * r < c * p)
  <1>1. (a * q) * r <= (b * p) * r /\ (b * r) * p <= (c * q) * p
    OBVIOUS
  <1>2. (a * q < b * p => (a * q) * r < (b * p) * r) /\ (b * r < c * q => (b * r) * p < (c * q) * p)
    OBVIOUS
  <1>3. (b * p) * r = (b * r) * p
    OBVIOUS
  <1>4. (a * r) * q <= (c * p) * q /\ (a * q < b * p \/ b * r < c * q => (a * r) * q < (c * p) * q)
    BY <1>1, <1>2, <1>3
  <1> QED BY <1>4

(* w sorts before v. *)
Before(load, w, v) ==
  LET lw == load[w] * MaxBots[v]
      lv == load[v] * MaxBots[w]
  IN lw < lv \/ (lw = lv /\ w < v)

(* w sorts before v: the order is total and transitive. *)
LEMMA BeforeOrder ==
  ASSUME NEW load \in [WorkerIds -> Int], NEW u \in WorkerIds, NEW v \in WorkerIds, NEW w \in WorkerIds
  PROVE  /\ u # v => Before(load, u, v) \/ Before(load, v, u)
         /\ Before(load, u, v) /\ Before(load, v, w) => Before(load, u, w)
  <1>1. /\ u \in Nat /\ v \in Nat /\ w \in Nat
        /\ load[u] \in Int /\ load[v] \in Int /\ load[w] \in Int
        /\ MaxBots[u] \in Nat \ {0} /\ MaxBots[v] \in Nat \ {0} /\ MaxBots[w] \in Nat \ {0}
    BY WorkersAssumption DEF WorkerIds
  <1>2. u # v => Before(load, u, v) \/ Before(load, v, u)
    <2>1. load[u] * MaxBots[v] \in Int /\ load[v] * MaxBots[u] \in Int
      BY <1>1
    <2> QED BY <1>1, <2>1 DEF Before
  <1>3. ASSUME Before(load, u, v), Before(load, v, w) PROVE Before(load, u, w)
    <2>1. load[u] * MaxBots[v] <= load[v] * MaxBots[u] /\ load[v] * MaxBots[w] <= load[w] * MaxBots[v]
      BY <1>1, <1>3 DEF Before
    <2>2. /\ load[u] * MaxBots[w] <= load[w] * MaxBots[u]
          /\ \/ load[u] * MaxBots[v] < load[v] * MaxBots[u]
             \/ load[v] * MaxBots[w] < load[w] * MaxBots[v]
             => load[u] * MaxBots[w] < load[w] * MaxBots[u]
      BY <1>1, <2>1, ProductOrder
    <2>3. load[u] * MaxBots[w] \in Int /\ load[w] * MaxBots[u] \in Int
      BY <1>1
    <2> QED BY <1>1, <1>3, <2>2, <2>3 DEF Before
  <1> QED BY <1>2, <1>3

(* leastLoaded: the result is an online worker with room, and there is none *)
(* only if there is no such worker.                                         *)
LEMMA LeastLoadedOpen ==
  ASSUME NEW s, NEW load \in [WorkerIds -> Int], NEW except
  PROVE  LET x == LeastLoaded(s, load, except) IN
         /\ x = NoWorker => \A w \in WorkerIds \ {except} :
              s[w] = "online" => load[w] >= EffectiveMax(s, w)
         /\ x # NoWorker => /\ x \in WorkerIds /\ x # except /\ s[x] = "online"
                            /\ load[x] < EffectiveMax(s, x)
  <1> DEFINE open == {w \in WorkerIds \ {except} : s[w] = "online" /\ load[w] < EffectiveMax(s, w)}
             x == LeastLoaded(s, load, except)
             Firsts(S) == {w \in S : \A v \in S \ {w} : Before(load, w, v)}
             Upto(k) == {w \in open : w <= k}
             T == {k \in 0 .. NWorkers : Upto(k) = {} \/ Firsts(Upto(k)) # {}}
  <1>1. NWorkers \in Nat /\ open \subseteq 1 .. NWorkers /\ WorkerIds = 1 .. NWorkers
    BY WorkersAssumption DEF WorkerIds
  <1>2. x = IF open = {} THEN NoWorker ELSE CHOOSE w \in open : \A v \in open \ {w} : Before(load, w, v)
    BY DEF LeastLoaded, Before
  <1> HIDE DEF open, x
  <1>3. 0 \in T
    <2>1. Upto(0) = {}
      <3>1. \A w \in open : ~(w <= 0)
        BY <1>1
      <3> QED BY <3>1
    <2> QED BY <1>1, <2>1
  <1>4. ASSUME NEW k \in 1 .. NWorkers, k - 1 \in T PROVE k \in T
    <2>1. Upto(k) = Upto(k - 1) \cup (IF k \in open THEN {k} ELSE {})
      <3>1. \A w \in open : w <= k <=> (w <= k - 1 \/ w = k)
        BY <1>1
      <3> QED BY <3>1
    <2>2. CASE k \notin open
      BY <1>4, <2>1, <2>2
    <2>3. CASE k \in open /\ Upto(k - 1) = {}
      <3>1. Upto(k) = {k}
        BY <2>1, <2>3
      <3> QED BY <3>1
    <2>4. CASE k \in open /\ Upto(k - 1) # {}
      <3>1. PICK w \in Upto(k - 1) : \A v \in Upto(k - 1) \ {w} : Before(load, w, v)
        BY <1>4, <2>4
      <3>2. /\ w \in WorkerIds /\ k \in WorkerIds /\ w # k
            /\ Upto(k - 1) \subseteq WorkerIds /\ Upto(k) = Upto(k - 1) \cup {k}
        <4>1. w \in open /\ w <= k - 1
          OBVIOUS
        <4>2. w \in WorkerIds /\ k \in WorkerIds /\ w # k
          BY <1>1, <4>1
        <4> QED BY <1>1, <2>1, <2>4, <4>2
      <3> HIDE DEF Upto
      <3>3. CASE Before(load, w, k)
        <4>1. w \in Firsts(Upto(k))
          BY <3>1, <3>2, <3>3
        <4> QED BY <4>1
      <3>4. CASE Before(load, k, w)
        <4>1. \A v \in Upto(k) \ {k} : Before(load, k, v)
          BY <3>1, <3>2, <3>4, BeforeOrder
        <4>2. k \in Firsts(Upto(k))
          BY <3>2, <4>1
        <4> QED BY <4>2
      <3> QED BY <3>2, <3>3, <3>4, BeforeOrder
    <2> QED BY <2>2, <2>3, <2>4
  <1>5. NWorkers \in T
    <2> HIDE DEF T
    <2>1. \A i \in 1 .. NWorkers : i - 1 \in T => i \in T
      BY <1>4
    <2>2. 0 .. NWorkers \subseteq T
      BY <1>1, <1>3, <2>1, UpTo
    <2> QED BY <1>1, <2>2
  <1>6. Upto(NWorkers) = open
    <2>1. \A w \in open : w <= NWorkers
      BY <1>1
    <2> QED BY <2>1
  <1>7. open # {} => x \in open
    BY <1>2, <1>5, <1>6
  <1>8. \A w \in WorkerIds : load[w] \in Int /\ EffectiveMax(s, w) \in Nat
    BY WorkersAssumption DEF EffectiveMax, WorkerIds
  <1>9. x # NoWorker => open # {}
    BY <1>2
  <1>10. x = NoWorker => open = {}
    BY <1>1, <1>7 DEF NoWorker
  <1> QED BY <1>7, <1>8, <1>9, <1>10 DEF open, x

(* q is p with b recommended to go from one worker to x. *)
Moved(s, p, q, b, from, x) ==
  /\ x # from /\ s[x] = "online" /\ p.load[x] < EffectiveMax(s, x)
  /\ q.load[x] = p.load[x] + 1
  /\ from \in WorkerIds => q.load[from] = p.load[from] - 1
  /\ \A w \in WorkerIds \ {x, from} : q.load[w] = p.load[w]
  /\ q.to[b] = x /\ \A a \in BotIds \ {b} : q.to[a] = p.to[a]

(* No online worker but w has room. *)
NoRoom(s, p, w) == \A v \in WorkerIds \ {w} : s[v] = "online" => p.load[v] >= EffectiveMax(s, v)

(* A recommendation adds a bot to a worker with room, or there is no such *)
(* worker.                                                                *)
LEMMA RecommendFacts ==
  ASSUME NEW s, NEW p \in RebalancePlans, NEW b \in BotIds, NEW from
  PROVE  /\ Recommend(s, p, b, from) \in RebalancePlans
         /\ \/ NoRoom(s, p, from) /\ Recommend(s, p, b, from) = p
            \/ \E x \in WorkerIds : Moved(s, p, Recommend(s, p, b, from), b, from, x)
  <1> DEFINE x == LeastLoaded(s, p.load, from)
             q == Recommend(s, p, b, from)
             l == [w \in WorkerIds |-> p.load[w] + (IF w = x THEN 1 ELSE 0) - (IF w = from THEN 1 ELSE 0)]
             t == [p.to EXCEPT ![b] = x]
  <1>1. p.load \in [WorkerIds -> Int] /\ p.to \in [BotIds -> WorkerIds \cup {NoWorker}]
    BY DEF RebalancePlans
  <1>2. q = IF x = NoWorker THEN p ELSE [load |-> l, to |-> t]
    BY DEF Recommend
  <1>3. x \in WorkerIds \cup {NoWorker}
    BY <1>1, LeastLoadedOpen
  <1> HIDE DEF x, q
  <1>4. l \in [WorkerIds -> Int] /\ t \in [BotIds -> WorkerIds \cup {NoWorker}]
    BY <1>1, <1>3
  <1>5. \A a \in BotIds : t[a] = IF a = b THEN x ELSE p.to[a]
    BY <1>1
  <1>6. \A w \in WorkerIds : l[w] = p.load[w] + (IF w = x THEN 1 ELSE 0) - (IF w = from THEN 1 ELSE 0)
    OBVIOUS
  <1> HIDE DEF l, t
  <1>7. [load |-> l, to |-> t] \in RebalancePlans
    BY <1>4 DEF RebalancePlans
  <1>8. q \in RebalancePlans
    BY <1>2, <1>7
  <1>9. x # NoWorker => q.load = l /\ q.to = t
    BY <1>2
  <1>10. ASSUME x # NoWorker PROVE x \in WorkerIds /\ Moved(s, p, q, b, from, x)
    <2>1. x \in WorkerIds /\ x # from /\ s[x] = "online" /\ p.load[x] < EffectiveMax(s, x)
      BY <1>1, <1>10, LeastLoadedOpen DEF x
    <2>2. q.load[x] = p.load[x] + 1 /\ (from \in WorkerIds => q.load[from] = p.load[from] - 1)
      BY <1>1, <1>6, <1>9, <1>10, <2>1
    <2>3. \A w \in WorkerIds \ {x, from} : q.load[w] = p.load[w]
      BY <1>1, <1>6, <1>9, <1>10
    <2> QED BY <1>5, <1>9, <1>10, <2>1, <2>2, <2>3 DEF Moved
  <1>11. x = NoWorker => q = p /\ NoRoom(s, p, from)
    BY <1>1, <1>2, LeastLoadedOpen DEF NoRoom, x
  <1> QED BY <1>8, <1>10, <1>11 DEF q

(* One step of the loop over the bots. *)
BotStep(s, p, b, from, n) == IF Among(b, from, n) THEN Recommend(s, p, b, from) ELSE p

(* What one step of the loop over the bots does. *)
LEMMA StepFacts ==
  ASSUME NEW s, NEW p \in RebalancePlans, NEW b \in BotIds, NEW from, NEW n
  PROVE  /\ BotStep(s, p, b, from, n) \in RebalancePlans
         /\ \/ BotStep(s, p, b, from, n) = p /\ (Among(b, from, n) => NoRoom(s, p, from))
            \/ Among(b, from, n) /\ \E x \in WorkerIds : Moved(s, p, BotStep(s, p, b, from, n), b, from, x)
  BY RecommendFacts DEF BotStep

(* The loop over the bots keeps what each of its steps keeps. *)
LEMMA BotLoop ==
  ASSUME NEW s, NEW plan \in RebalancePlans, NEW from, NEW n,
         NEW Good, \A b \in 0 .. NBots : Good[b] \subseteq RebalancePlans, plan \in Good[0],
         \A b \in BotIds : \A p \in Good[b - 1] : BotStep(s, p, b, from, n) \in Good[b]
  PROVE  RecommendFirst(s, plan, from, n) \in Good[NBots]
  <1> DEFINE Body(f) == [b \in 0 .. NBots |-> IF b = 0 THEN plan ELSE BotStep(s, f[b - 1], b, from, n)]
             after == CHOOSE f : f = Body(f)
             step == [b \in 1 .. NBots |-> [p \in RebalancePlans |-> BotStep(s, p, b, from, n)]]
  <1>0. NBots \in Nat /\ BotIds = 1 .. NBots
    BY WorkersAssumption DEF BotIds
  <1>1. RecommendFirst(s, plan, from, n) = after[NBots]
    BY DEF RecommendFirst, BotStep
  <1>2. after = Body(after)
    <2>1. \A b \in BotIds : \A p \in RebalancePlans : BotStep(s, p, b, from, n) \in RebalancePlans
      BY StepFacts
    <2>2. step \in [1 .. NBots -> [RebalancePlans -> RebalancePlans]]
      BY <1>0, <2>1
    <2>3. \A b \in 1 .. NBots, p \in RebalancePlans : step[b][p] = BotStep(s, p, b, from, n)
      OBVIOUS
    <2> HIDE DEF step
    <2>4. PICK f \in [0 .. NBots -> RebalancePlans] : IsRun(f, NBots, plan, step)
      BY <1>0, <2>2, LoopRuns
    <2>5. \A b \in 0 .. NBots : b # 0 => b \in 1 .. NBots /\ f[b - 1] \in RebalancePlans
      BY <1>0
    <2>6. f = Body(f)
      <3> DEFINE k(i) == IF i = 0 THEN plan ELSE BotStep(s, f[i - 1], i, from, n)
      <3>1. \A i \in 0 .. NBots : f[i] = k(i)
        BY <2>3, <2>4, <2>5 DEF IsRun
      <3>2. f = [i \in 0 .. NBots |-> f[i]] /\ Body(f) = [i \in 0 .. NBots |-> k(i)]
        OBVIOUS
      <3> HIDE DEF k, Body
      <3> QED BY <3>1, <3>2
    <2> HIDE DEF Body
    <2> QED BY <2>6
  <1> HIDE DEF after
  <1> DEFINE S == {b \in 0 .. NBots : after[b] \in Good[b]}
  <1>3. 0 \in S
    BY <1>0, <1>2
  <1>4. ASSUME NEW b \in 1 .. NBots, b - 1 \in S PROVE b \in S
    <2>1. after[b] = BotStep(s, after[b - 1], b, from, n) /\ b \in 0 .. NBots
      BY <1>0, <1>2
    <2> QED BY <1>0, <1>4, <2>1
  <1>5. NBots \in S
    <2> HIDE DEF S
    <2>1. \A i \in 1 .. NBots : i - 1 \in S => i \in S
      BY <1>4
    <2>2. 0 .. NBots \subseteq S
      BY <1>0, <1>3, <2>1, UpTo
    <2> QED BY <1>0, <2>2
  <1> QED BY <1>1, <1>5

(* The loop over the bots ends with a plan. *)
LEMMA PlanTyped ==
  ASSUME NEW s, NEW plan \in RebalancePlans, NEW from, NEW n
  PROVE  RecommendFirst(s, plan, from, n) \in RebalancePlans
  <1> DEFINE Good == [b \in 0 .. NBots |-> RebalancePlans]
  <1>1. \A b \in BotIds : b - 1 \in 0 .. NBots /\ b \in 0 .. NBots
    BY WorkersAssumption DEF BotIds
  <1>2. \A b \in BotIds : \A p \in RebalancePlans : BotStep(s, p, b, from, n) \in RebalancePlans
    BY StepFacts
  <1>3. /\ \A b \in 0 .. NBots : Good[b] \subseteq RebalancePlans
        /\ \A b \in BotIds : \A p \in Good[b - 1] : BotStep(s, p, b, from, n) \in Good[b]
        /\ plan \in Good[0] /\ Good[NBots] = RebalancePlans
    BY <1>1, <1>2, WorkersAssumption
  <1> HIDE DEF Good
  <1>4. RecommendFirst(s, plan, from, n) \in Good[NBots]
    BY <1>3, BotLoop
  <1> QED BY <1>3, <1>4

(* The loop over the workers keeps what each of its steps keeps. *)
LEMMA WorkerLoop ==
  ASSUME NEW s, currentBots \in [WorkerIds -> Int],
         NEW Good, \A w \in 0 .. NWorkers : Good[w] \subseteq RebalancePlans, AssignUnassigned(s) \in Good[0],
         \A w \in WorkerIds : \A p \in Good[w - 1] : MoveExcess(s, p, w) \in Good[w]
  PROVE  ComputeRebalanceRecommendations(s) \in Good[NWorkers]
  <1> DEFINE Body(f) == [w \in 0 .. NWorkers |-> IF w = 0 THEN AssignUnassigned(s) ELSE MoveExcess(s, f[w - 1], w)]
             after == CHOOSE f : f = Body(f)
             step == [w \in 1 .. NWorkers |-> [p \in RebalancePlans |-> MoveExcess(s, p, w)]]
  <1>0. NWorkers \in Nat /\ WorkerIds = 1 .. NWorkers
    BY WorkersAssumption DEF WorkerIds
  <1>1. ComputeRebalanceRecommendations(s) = after[NWorkers]
    BY DEF ComputeRebalanceRecommendations
  <1>2. after = Body(after)
    <2>1. \A w \in WorkerIds : \A p \in RebalancePlans : MoveExcess(s, p, w) \in RebalancePlans
      BY PlanTyped DEF MoveExcess
    <2>2. step \in [1 .. NWorkers -> [RebalancePlans -> RebalancePlans]]
      BY <1>0, <2>1
    <2>3. \A w \in 1 .. NWorkers, p \in RebalancePlans : step[w][p] = MoveExcess(s, p, w)
      OBVIOUS
    <2>4. AssignUnassigned(s) \in RebalancePlans
      BY <1>0
    <2> HIDE DEF step
    <2>5. PICK f \in [0 .. NWorkers -> RebalancePlans] : IsRun(f, NWorkers, AssignUnassigned(s), step)
      BY <1>0, <2>2, <2>4, LoopRuns
    <2>6. \A w \in 0 .. NWorkers : w # 0 => w \in 1 .. NWorkers /\ f[w - 1] \in RebalancePlans
      BY <1>0
    <2>7. f = Body(f)
      <3> DEFINE k(i) == IF i = 0 THEN AssignUnassigned(s) ELSE MoveExcess(s, f[i - 1], i)
      <3>1. \A i \in 0 .. NWorkers : f[i] = k(i)
        BY <2>3, <2>5, <2>6 DEF IsRun
      <3>2. f = [i \in 0 .. NWorkers |-> f[i]] /\ Body(f) = [i \in 0 .. NWorkers |-> k(i)]
        OBVIOUS
      <3> HIDE DEF k, Body
      <3> QED BY <3>1, <3>2
    <2> HIDE DEF Body
    <2> QED BY <2>7
  <1> HIDE DEF after
  <1> DEFINE S == {w \in 0 .. NWorkers : after[w] \in Good[w]}
  <1>3. 0 \in S
    BY <1>0, <1>2
  <1>4. ASSUME NEW w \in 1 .. NWorkers, w - 1 \in S PROVE w \in S
    <2>1. after[w] = MoveExcess(s, after[w - 1], w) /\ w \in 0 .. NWorkers
      BY <1>0, <1>2
    <2> QED BY <1>0, <1>4, <2>1
  <1>5. NWorkers \in S
    <2> HIDE DEF S
    <2>1. \A i \in 1 .. NWorkers : i - 1 \in S => i \in S
      BY <1>4
    <2>2. 0 .. NWorkers \subseteq S
      BY <1>0, <1>3, <2>1, UpTo
    <2> QED BY <1>0, <2>2
  <1> QED BY <1>1, <1>5

(* The bots on w up to b. *)
OwnUpTo(b, w) == {a \in 1 .. b : group[a] = w}

(* One bot more, if it is on w. *)
LEMMA OwnCount ==
  ASSUME NEW b \in BotIds, NEW w
  PROVE  /\ Cardinality(OwnUpTo(b, w)) \in Nat /\ Cardinality(OwnUpTo(b - 1, w)) \in Nat
         /\ Cardinality(OwnUpTo(b, w)) = Cardinality(OwnUpTo(b - 1, w)) + (IF group[b] = w THEN 1 ELSE 0)
         /\ Cardinality(OwnUpTo(0, w)) = 0
  <1>1. b \in Nat \ {0}
    BY WorkersAssumption DEF BotIds
  <1>2. IsFiniteSet(1 .. b - 1)
    BY <1>1, FS_Interval
  <1>3. OwnUpTo(b - 1, w) \subseteq 1 .. b - 1
    BY DEF OwnUpTo
  <1>4. IsFiniteSet(OwnUpTo(b - 1, w)) /\ Cardinality(OwnUpTo(b - 1, w)) \in Nat
    BY <1>2, <1>3, FS_Subset, FS_CardinalityType
  <1>5. OwnUpTo(b, w) = IF group[b] = w THEN OwnUpTo(b - 1, w) \cup {b} ELSE OwnUpTo(b - 1, w)
    BY <1>1 DEF OwnUpTo
  <1>6. b \notin OwnUpTo(b - 1, w)
    BY <1>1 DEF OwnUpTo
  <1>7. OwnUpTo(0, w) = {}
    BY DEF OwnUpTo
  <1>8. Cardinality(OwnUpTo(0, w)) = 0
    BY <1>7, FS_EmptySet
  <1>9. CASE group[b] = w
    <2>1. Cardinality(OwnUpTo(b - 1, w) \cup {b}) = Cardinality(OwnUpTo(b - 1, w)) + 1
      BY <1>4, <1>6, FS_AddElement
    <2> QED BY <1>4, <1>5, <1>8, <1>9, <2>1
  <1>10. CASE group[b] # w
    BY <1>4, <1>5, <1>8, <1>10
  <1> QED BY <1>9, <1>10

(* One step of the loop takes at most one bot off the worker it looks at. *)
LEMMA LoadStep ==
  ASSUME NEW s, NEW p \in RebalancePlans, NEW b \in BotIds, NEW from, NEW n, NEW w \in WorkerIds
  PROVE  LET q == BotStep(s, p, b, from, n) IN
         /\ q \in RebalancePlans /\ p.load[w] \in Int /\ q.load[w] \in Int
         /\ q.load[w] >= p.load[w] - 1 /\ (w # from => q.load[w] >= p.load[w])
         /\ ~Among(b, from, n) => q = p
  <1> DEFINE q == BotStep(s, p, b, from, n)
  <1>1. p.load[w] \in Int /\ q \in RebalancePlans
    BY StepFacts DEF RebalancePlans
  <1>2. q = p \/ \E x \in WorkerIds : Moved(s, p, q, b, from, x)
    BY StepFacts
  <1>3. ~Among(b, from, n) => q = p
    BY DEF BotStep
  <1> HIDE DEF q
  <1>4. q.load[w] >= p.load[w] - 1 /\ (w # from => q.load[w] >= p.load[w])
    BY <1>1, <1>2 DEF Moved
  <1>5. q.load[w] \in Int
    BY <1>1 DEF RebalancePlans
  <1> QED BY <1>1, <1>3, <1>4, <1>5 DEF q

(* What a worker can hold. *)
LEMMA EffectiveMaxNat ==
  ASSUME NEW s, NEW w \in WorkerIds
  PROVE  EffectiveMax(s, w) \in Nat /\ (s[w] = "online" => EffectiveMax(s, w) = MaxBots[w])
                                    /\ (s[w] = "draining" => EffectiveMax(s, w) = 0)
         /\ EffectiveMax(s, w) <= MaxBots[w] /\ MaxBots[w] \in Nat
  BY WorkersAssumption DEF EffectiveMax, WorkerIds

(* Taking away the excess of w leaves at least its capacity. *)
KeepsCapacity(s, plan, p, w, b) ==
  plan.load[w] >= EffectiveMax(s, w) =>
    /\ p.load[w] >= EffectiveMax(s, w)
    /\ p.load[w] >= plan.load[w] - Cardinality(OwnUpTo(b, w))

(* A step of the loop over the bots of w takes none that its capacity *)
(* holds.                                                             *)
LEMMA CapacityStep ==
  ASSUME NEW s, NEW plan \in RebalancePlans, NEW w \in WorkerIds, NEW b \in BotIds, NEW p \in RebalancePlans,
         KeepsCapacity(s, plan, p, w, b - 1)
  PROVE  LET n == plan.load[w] - EffectiveMax(s, w) IN
         /\ KeepsCapacity(s, plan, BotStep(s, p, b, w, n), w, b)
         /\ Among(b, w, n) => p.load[w] - 1 >= EffectiveMax(s, w)
  <1> DEFINE n == plan.load[w] - EffectiveMax(s, w)
             e == EffectiveMax(s, w)
             q == BotStep(s, p, b, w, n)
             c == Cardinality(OwnUpTo(b - 1, w))
             d == Cardinality(OwnUpTo(b, w))
  <1>1. e \in Nat /\ plan.load[w] \in Int /\ p.load[w] \in Int /\ q \in RebalancePlans /\ q.load[w] \in Int
    BY EffectiveMaxNat, LoadStep DEF RebalancePlans
  <1>2. c \in Nat /\ d \in Nat /\ d = c + (IF group[b] = w THEN 1 ELSE 0)
    BY OwnCount
  <1>3. CASE ~Among(b, w, n)
    <2>1. q = p
      BY <1>3 DEF BotStep
    <2> HIDE DEF q, c, d
    <2> QED BY <1>1, <1>2, <1>3, <2>1 DEF KeepsCapacity, c, d, q
  <1>4. CASE Among(b, w, n)
    <2>1. group[b] = w /\ c < n
      BY <1>4 DEF Among, OwnUpTo
    <2>2. q.load[w] >= p.load[w] - 1
      BY LoadStep
    <2>3. plan.load[w] >= e
      BY <1>1, <1>2, <2>1
    <2>4. p.load[w] >= plan.load[w] - c
      BY <2>3 DEF KeepsCapacity
    <2> HIDE DEF q, c, d, e
    <2>5. p.load[w] - 1 >= e
      <3>1. c < plan.load[w] - e
        BY <2>1 DEF e, n
      <3> QED BY <1>1, <1>2, <2>4, <3>1
    <2>6. q.load[w] >= e /\ q.load[w] >= plan.load[w] - d
      BY <1>1, <1>2, <2>1, <2>2, <2>4, <2>5
    <2> QED BY <2>5, <2>6 DEF KeepsCapacity, q, d, e
  <1> QED BY <1>3, <1>4

(* A worker that is full stays full while others, or its own excess, are moved. *)
LEMMA FullStays ==
  ASSUME NEW s, NEW plan \in RebalancePlans, NEW w \in WorkerIds, NEW v \in WorkerIds,
         plan.load[v] >= EffectiveMax(s, v)
  PROVE  MoveExcess(s, plan, w).load[v] >= EffectiveMax(s, v)
  <1> DEFINE n == plan.load[w] - EffectiveMax(s, w)
             Good == [b \in 0 .. NBots |-> {p \in RebalancePlans :
                        KeepsCapacity(s, plan, p, w, b) /\ p.load[v] >= EffectiveMax(s, v)}]
  <1>0. NBots \in Nat /\ BotIds = 1 .. NBots /\ 0 \in 0 .. NBots /\ NBots \in 0 .. NBots
    BY WorkersAssumption DEF BotIds
  <1>1. plan \in Good[0]
    <2>1. KeepsCapacity(s, plan, plan, w, 0)
      <3>1. plan.load[w] \in Int
        BY DEF RebalancePlans
      <3>2. Cardinality(OwnUpTo(0, w)) = 0
        <4>1. OwnUpTo(0, w) = {}
          BY DEF OwnUpTo
        <4> QED BY <4>1, FS_EmptySet
      <3> QED BY <3>1, <3>2 DEF KeepsCapacity
    <2> QED BY <1>0, <2>1
  <1>2. ASSUME NEW b \in BotIds, NEW p \in Good[b - 1] PROVE BotStep(s, p, b, w, n) \in Good[b]
    <2> DEFINE q == BotStep(s, p, b, w, n)
    <2>1. b \in 0 .. NBots /\ b - 1 \in 0 .. NBots
      BY <1>0
    <2>2. p \in RebalancePlans /\ KeepsCapacity(s, plan, p, w, b - 1) /\ p.load[v] >= EffectiveMax(s, v)
      BY <1>2, <2>1
    <2>3. q \in RebalancePlans
      BY <2>2, StepFacts
    <2>4. KeepsCapacity(s, plan, q, w, b) /\ (Among(b, w, n) => p.load[w] - 1 >= EffectiveMax(s, w))
      BY <2>2, CapacityStep
    <2>5. q.load[v] >= EffectiveMax(s, v)
      <3>1. p.load[v] \in Int /\ EffectiveMax(s, v) \in Nat
        BY <2>2, EffectiveMaxNat DEF RebalancePlans
      <3>2. CASE ~Among(b, w, n)
        BY <2>2, <3>2 DEF BotStep
      <3>3. CASE Among(b, w, n) /\ v = w
        <4>1. q.load[v] >= p.load[v] - 1 /\ q.load[v] \in Int
          BY <2>2, LoadStep
        <4> HIDE DEF q
        <4> QED BY <2>2, <2>4, <3>1, <3>3, <4>1
      <3>4. CASE Among(b, w, n) /\ v # w
        <4>1. q.load[v] >= p.load[v] /\ q.load[v] \in Int
          BY <2>2, <3>4, LoadStep
        <4> HIDE DEF q
        <4> QED BY <2>2, <3>1, <3>4, <4>1
      <3> QED BY <3>2, <3>3, <3>4
    <2> HIDE DEF q
    <2>6. q \in Good[b]
      BY <2>1, <2>3, <2>4, <2>5
    <2> QED BY <2>6 DEF q
  <1>3. \A b \in 0 .. NBots : Good[b] \subseteq RebalancePlans
    OBVIOUS
  <1>4. MoveExcess(s, plan, w) \in Good[NBots]
    <2> HIDE DEF Good
    <2>1. RecommendFirst(s, plan, w, n) \in Good[NBots]
      <3> HIDE DEF n
      <3> QED BY <1>1, <1>2, <1>3, BotLoop
    <2> QED BY <2>1 DEF MoveExcess
  <1> QED BY <1>0, <1>4

(* The bots are numbered from 1. *)
LEMMA BotRange ==
  /\ NBots \in Nat /\ BotIds = 1 .. NBots /\ 0 \in 0 .. NBots /\ NBots \in 0 .. NBots
  /\ \A b \in BotIds : b \in 0 .. NBots /\ b - 1 \in 0 .. NBots
  BY WorkersAssumption DEF BotIds

(* The load of g and the target of b. *)
LeftAlone(p, q, g, b) == q.load[g] = p.load[g] /\ q.to[b] = p.to[b]

(* Looking at other workers leaves the load of a draining worker, and the target of its bots. *)
LEMMA OthersUntouched ==
  ASSUME NEW s, NEW plan \in RebalancePlans, NEW from, NEW n, NEW g \in WorkerIds, NEW b \in BotIds,
         group[b] = g, from # g, s[g] = "draining"
  PROVE  LeftAlone(plan, RecommendFirst(s, plan, from, n), g, b)
  <1> DEFINE Same == {p \in RebalancePlans : p.load[g] = plan.load[g] /\ p.to[b] = plan.to[b]}
             Good == [a \in 0 .. NBots |-> Same]
  <1>1. ASSUME NEW a \in BotIds, NEW p \in Same PROVE BotStep(s, p, a, from, n) \in Same
    <2> DEFINE q == BotStep(s, p, a, from, n)
    <2>1. p \in RebalancePlans /\ p.load[g] = plan.load[g] /\ p.to[b] = plan.to[b]
      OBVIOUS
    <2>2. q \in RebalancePlans
      BY <2>1, StepFacts
    <2>3. q = p \/ (Among(a, from, n) /\ \E x \in WorkerIds : Moved(s, p, q, a, from, x))
      BY <2>1, StepFacts
    <2> HIDE DEF q
    <2>4. q.load[g] = p.load[g] /\ q.to[b] = p.to[b]
      <3>1. CASE q = p
        BY <3>1
      <3>2. ASSUME Among(a, from, n), NEW x \in WorkerIds, Moved(s, p, q, a, from, x)
            PROVE  q.load[g] = p.load[g] /\ q.to[b] = p.to[b]
        <4>1. group[a] = from /\ a # b
          BY <3>2 DEF Among
        <4>2. x # g
          BY <3>2 DEF Moved
        <4> QED BY <3>2, <4>1, <4>2 DEF Moved
      <3> QED BY <2>3, <3>1, <3>2
    <2>5. q \in Same
      BY <2>1, <2>2, <2>4
    <2> QED BY <2>5 DEF q
  <1>2. /\ \A a \in 0 .. NBots : Good[a] \subseteq RebalancePlans
        /\ plan \in Good[0] /\ Good[NBots] = Same
        /\ \A a \in BotIds : \A p \in Good[a - 1] : BotStep(s, p, a, from, n) \in Good[a]
    <2>1. \A a \in 0 .. NBots : Good[a] = Same
      OBVIOUS
    <2>2. plan \in Same /\ Same \subseteq RebalancePlans
      OBVIOUS
    <2> HIDE DEF Good, Same
    <2> QED BY <1>1, <2>1, <2>2, BotRange
  <1>3. RecommendFirst(s, plan, from, n) \in Good[NBots]
    <2> HIDE DEF Good
    <2> QED BY <1>2, BotLoop
  <1>4. RecommendFirst(s, plan, from, n) \in Same
    BY <1>2, <1>3
  <1> HIDE DEF Good
  <1> QED BY <1>4 DEF LeftAlone

(* The same for the excess of another worker. *)
LEMMA OthersMoved ==
  ASSUME NEW s, NEW plan \in RebalancePlans, NEW g \in WorkerIds, NEW b \in BotIds,
         group[b] = g, s[g] = "draining", NEW w, w # g
  PROVE  LeftAlone(plan, MoveExcess(s, plan, w), g, b)
  BY OthersUntouched DEF MoveExcess

(* The bots of g up to but not including b are fewer than all of them. *)
LEMMA OwnFewer ==
  ASSUME NEW b \in BotIds
  PROVE  Among(b, group[b], Cardinality({a \in BotIds : group[a] = group[b]}))
  <1> DEFINE g == group[b]
             A == {a \in 1 .. b - 1 : group[a] = g}
             B == {a \in BotIds : group[a] = g}
  <1>1. b \in 1 .. NBots /\ NBots \in Nat /\ BotIds = 1 .. NBots
    BY BotRange
  <1>2. IsFiniteSet(BotIds) /\ B \subseteq BotIds
    BY <1>1, FS_Interval
  <1>3. IsFiniteSet(B) /\ Cardinality(B) \in Nat
    BY <1>2, FS_Subset, FS_CardinalityType
  <1>4. A \subseteq B /\ b \in B /\ b \notin A
    BY <1>1
  <1>5. A \subseteq B \ {b}
    BY <1>4
  <1> HIDE DEF A, B
  <1>6. IsFiniteSet(B \ {b}) /\ Cardinality(B \ {b}) = Cardinality(B) - 1
    BY <1>3, <1>4, FS_RemoveElement
  <1>7. Cardinality(A) <= Cardinality(B \ {b}) /\ IsFiniteSet(A)
    BY <1>5, <1>6, FS_Subset
  <1>8. Cardinality(A) \in Nat
    BY <1>7, FS_CardinalityType
  <1>9. Cardinality(A) < Cardinality(B)
    BY <1>3, <1>6, <1>7, <1>8
  <1> QED BY <1>9 DEF Among, A, B

(* Draining its worker recommends a target for b, or no other online worker has room. *)
Placed(s, p, b) == p.to[b] # NoWorker \/ NoRoom(s, p, group[b])

(* Every bot of a draining worker is looked at, as its counter is the *)
(* number of its bots.                                                *)
LEMMA OwnDrained ==
  ASSUME NEW s, NEW plan \in RebalancePlans, NEW b \in BotIds, group[b] \in WorkerIds,
         s[group[b]] = "draining", plan.load[group[b]] = Cardinality({a \in BotIds : group[a] = group[b]})
  PROVE  Placed(s, MoveExcess(s, plan, group[b]), b)
  <1> DEFINE g == group[b]
             n == plan.load[g] - EffectiveMax(s, g)
             Good == [a \in 0 .. NBots |-> {p \in RebalancePlans : a >= b => Placed(s, p, b)}]
  <1>1. plan.load[g] \in Int
    BY DEF RebalancePlans
  <1>2. n = Cardinality({a \in BotIds : group[a] = g})
    BY <1>1, EffectiveMaxNat
  <1>3. Among(b, g, n)
    BY <1>2, OwnFewer
  <1> HIDE DEF n
  <1>4. ASSUME NEW a \in BotIds, NEW p \in Good[a - 1] PROVE BotStep(s, p, a, g, n) \in Good[a]
    <2> DEFINE q == BotStep(s, p, a, g, n)
    <2>1. p \in RebalancePlans /\ (a - 1 >= b => Placed(s, p, b))
      BY <1>4, BotRange
    <2>2. q \in RebalancePlans
      BY <2>1, StepFacts
    <2>3. \/ q = p /\ (Among(a, g, n) => NoRoom(s, p, g))
          \/ \E x \in WorkerIds : Moved(s, p, q, a, g, x)
      BY <2>1, StepFacts
    <2> HIDE DEF q
    <2>4. ASSUME a >= b PROVE Placed(s, q, b)
      <3>1. CASE a = b
        <4>1. ASSUME NEW x \in WorkerIds, Moved(s, p, q, a, g, x) PROVE q.to[b] # NoWorker
          BY <3>1, <4>1, WorkersAssumption DEF Moved, WorkerIds, NoWorker
        <4> QED BY <1>3, <2>3, <3>1, <4>1 DEF Placed
      <3>2. CASE a # b
        <4>1. a - 1 >= b
          BY <2>4, <3>2, BotRange
        <4>2. Placed(s, p, b)
          BY <2>1, <4>1
        <4>3. ASSUME NEW x \in WorkerIds, Moved(s, p, q, a, g, x) PROVE q.to[b] = p.to[b] /\ ~NoRoom(s, p, g)
          <5>1. p.load[x] \in Int /\ EffectiveMax(s, x) \in Nat
            BY <2>1, EffectiveMaxNat DEF RebalancePlans
          <5> QED BY <3>2, <4>3, <5>1 DEF Moved, NoRoom
        <4> QED BY <2>3, <4>2, <4>3 DEF Placed
      <3> QED BY <3>1, <3>2
    <2>5. q \in Good[a]
      BY <2>2, <2>4, BotRange
    <2> QED BY <2>5 DEF q
  <1>5. /\ \A a \in 0 .. NBots : Good[a] \subseteq RebalancePlans
        /\ plan \in Good[0]
    BY BotRange
  <1>6. RecommendFirst(s, plan, g, n) \in Good[NBots]
    <2> HIDE DEF Good
    <2> QED BY <1>4, <1>5, BotLoop
  <1>7. Placed(s, RecommendFirst(s, plan, g, n), b)
    BY <1>6, BotRange
  <1> QED BY <1>7 DEF MoveExcess, n

(* Once placed or without room, so it stays while the workers after its own are looked at. *)
LEMMA PlacedStays ==
  ASSUME NEW s, NEW plan \in RebalancePlans, NEW b \in BotIds, group[b] \in WorkerIds,
         s[group[b]] = "draining", NEW w \in WorkerIds \ {group[b]}, Placed(s, plan, b)
  PROVE  Placed(s, MoveExcess(s, plan, w), b)
  <1> DEFINE q == MoveExcess(s, plan, w)
  <1>1. q.to[b] = plan.to[b]
    <2>1. PICK g \in WorkerIds : g = group[b]
      OBVIOUS
    <2>2. s[g] = "draining" /\ w # g
      BY <2>1
    <2>3. LeftAlone(plan, q, g, b)
      BY <2>1, <2>2, OthersMoved
    <2> QED BY <2>3 DEF LeftAlone
  <1>2. ASSUME NoRoom(s, plan, group[b]) PROVE NoRoom(s, q, group[b])
    <2> SUFFICES ASSUME NEW v \in WorkerIds \ {group[b]}, s[v] = "online"
                 PROVE  q.load[v] >= EffectiveMax(s, v)
      BY DEF NoRoom
    <2>1. plan.load[v] >= EffectiveMax(s, v)
      BY <1>2 DEF NoRoom
    <2> QED BY <2>1, FullStays
  <1> QED BY <1>1, <1>2 DEF Placed

(* drain.ts:18-21: of the bots of a draining worker each has a target, or *)
(* no other online worker has room at the end.                            *)
LEMMA DrainingPlaced ==
  ASSUME NEW s, currentBots \in [WorkerIds -> Int], NEW b \in BotIds, group[b] \in WorkerIds,
         s[group[b]] = "draining",
         currentBots[group[b]] = Cardinality({a \in BotIds : group[a] = group[b]})
  PROVE  Placed(s, ComputeRebalanceRecommendations(s), b)
  <1> DEFINE g == group[b]
             Good == [w \in 0 .. NWorkers |-> {p \in RebalancePlans :
                        IF w < g THEN p.load[g] = currentBots[g] ELSE Placed(s, p, b)}]
             p0 == [load |-> currentBots, to |-> NoTargets]
  <1>0. /\ NWorkers \in Nat /\ WorkerIds = 1 .. NWorkers
        /\ \A w \in WorkerIds : w \in 0 .. NWorkers /\ w - 1 \in 0 .. NWorkers
    BY WorkersAssumption DEF WorkerIds
  <1>1. p0 \in RebalancePlans
    BY DEF RebalancePlans, NoTargets
  <1>2. AssignUnassigned(s) \in Good[0]
    <2>1. AssignUnassigned(s) = RecommendFirst(s, p0, NoWorker, NBots)
      BY DEF AssignUnassigned
    <2>2. RecommendFirst(s, p0, NoWorker, NBots) \in RebalancePlans
      BY <1>1, PlanTyped
    <2>3. NoWorker # g /\ 0 < g /\ 0 \in 0 .. NWorkers
      BY <1>0 DEF NoWorker
    <2>4. RecommendFirst(s, p0, NoWorker, NBots).load[g] = currentBots[g]
      BY <1>1, <2>3, OthersUntouched DEF LeftAlone
    <2> QED BY <2>1, <2>2, <2>3, <2>4
  <1>3. ASSUME NEW w \in WorkerIds, NEW p \in Good[w - 1] PROVE MoveExcess(s, p, w) \in Good[w]
    <2> DEFINE q == MoveExcess(s, p, w)
    <2>1. p \in RebalancePlans /\ IF w - 1 < g THEN p.load[g] = currentBots[g] ELSE Placed(s, p, b)
      BY <1>0, <1>3
    <2>2. q \in RebalancePlans
      BY <2>1, PlanTyped DEF MoveExcess
    <2>3. CASE w < g
      <3>1. p.load[g] = currentBots[g] /\ w # g
        BY <1>0, <2>1, <2>3
      <3>2. q.load[g] = p.load[g]
        BY <2>1, <3>1, OthersMoved DEF LeftAlone
      <3> HIDE DEF q
      <3>3. q \in Good[w]
        BY <1>0, <2>2, <2>3, <3>1, <3>2
      <3> QED BY <3>3 DEF q
    <2>4. CASE w = g
      <3>1. p.load[g] = currentBots[g]
        BY <1>0, <2>1, <2>4
      <3>2. Placed(s, q, b)
        BY <2>1, <2>4, <3>1, OwnDrained
      <3> HIDE DEF q
      <3>3. q \in Good[w]
        BY <1>0, <2>2, <2>4, <3>2
      <3> QED BY <3>3 DEF q
    <2>5. CASE w > g
      <3>1. Placed(s, p, b) /\ w # g
        BY <1>0, <2>1, <2>5
      <3>2. Placed(s, q, b)
        BY <2>1, <3>1, PlacedStays
      <3> HIDE DEF q
      <3>3. q \in Good[w]
        BY <1>0, <2>2, <2>5, <3>2
      <3> QED BY <3>3 DEF q
    <2> QED BY <1>0, <2>3, <2>4, <2>5
  <1>4. \A w \in 0 .. NWorkers : Good[w] \subseteq RebalancePlans
    OBVIOUS
  <1>5. ComputeRebalanceRecommendations(s) \in Good[NWorkers]
    <2> HIDE DEF Good
    <2> QED BY <1>2, <1>3, <1>4, WorkerLoop
  <1>6. NWorkers \in 0 .. NWorkers /\ ~(NWorkers < g)
    BY <1>0
  <1> QED BY <1>5, <1>6

(* As the property puts it. *)
LEMMA StrandedFull ==
  ASSUME currentBots \in [WorkerIds -> Int], group \in [BotIds -> WorkerIds \cup {NoWorker}], InSyncUnlessDrifted
  PROVE  StrandedMeansFull
  <1> DEFINE plan == ComputeRebalanceRecommendations(wkStatus)
  <1> SUFFICES ASSUME ~drifted, NEW b \in BotIds, group[b] # NoWorker, wkStatus[group[b]] = "draining",
                      plan.to[b] = NoWorker, NEW w \in WorkerIds \ {group[b]}, wkStatus[w] = "online"
               PROVE  plan.load[w] >= MaxBots[w]
    BY DEF StrandedMeansFull
  <1>1. group[b] \in WorkerIds
    OBVIOUS
  <1>2. currentBots[group[b]] = Cardinality({a \in BotIds : group[a] = group[b]})
    BY <1>1 DEF InSyncUnlessDrifted, InSync
  <1>3. Placed(wkStatus, plan, b)
    BY <1>1, <1>2, DrainingPlaced
  <1>4. EffectiveMax(wkStatus, w) = MaxBots[w]
    BY EffectiveMaxNat
  <1> HIDE DEF plan
  <1> QED BY <1>3, <1>4 DEF Placed, NoRoom

(* The bots a plan sends to v. *)
Into(p, v) == {b \in BotIds : p.to[b] = v}

(* The load counts every bot sent to v, unless v is full; those sent to it fit. *)
FitsIn(s, p, v) ==
  /\ \/ p.load[v] >= currentBots[v] + Cardinality(Into(p, v))
     \/ p.load[v] >= EffectiveMax(s, v)
  /\ Into(p, v) # {} => currentBots[v] + Cardinality(Into(p, v)) <= MaxBots[v]

(* The number of bots a plan sends to v. *)
LEMMA IntoFinite ==
  ASSUME NEW p, NEW v
  PROVE  IsFiniteSet(Into(p, v)) /\ Cardinality(Into(p, v)) \in Nat
  <1>1. Into(p, v) \subseteq BotIds /\ IsFiniteSet(BotIds)
    BY BotRange, FS_Interval DEF Into
  <1> QED BY <1>1, FS_Subset, FS_CardinalityType

(* A recommendation keeps the loads and the room. *)
LEMMA FitsMoved ==
  ASSUME NEW s, NEW p \in RebalancePlans, NEW q \in RebalancePlans, NEW b \in BotIds, NEW from, NEW x \in WorkerIds,
         Moved(s, p, q, b, from, x), from \in WorkerIds => p.load[from] - 1 >= EffectiveMax(s, from),
         NEW v \in WorkerIds, currentBots[v] \in Int, FitsIn(s, p, v)
  PROVE  FitsIn(s, q, v)
  <1>1. /\ p.load[v] \in Int /\ q.load[v] \in Int /\ EffectiveMax(s, v) \in Nat
        /\ MaxBots[v] \in Nat /\ EffectiveMax(s, v) <= MaxBots[v]
    BY EffectiveMaxNat DEF RebalancePlans
  <1>2. /\ IsFiniteSet(Into(p, v)) /\ Cardinality(Into(p, v)) \in Nat
        /\ IsFiniteSet(Into(q, v)) /\ Cardinality(Into(q, v)) \in Nat
    BY IntoFinite
  <1>3. CASE v = x
    <2>1. Into(q, v) \subseteq Into(p, v) \cup {b}
      BY DEF Into, Moved
    <2>2. /\ IsFiniteSet(Into(p, v) \cup {b})
          /\ Cardinality(Into(p, v) \cup {b}) \in Nat
          /\ Cardinality(Into(p, v) \cup {b}) <= Cardinality(Into(p, v)) + 1
      <3>1. /\ IsFiniteSet(Into(p, v) \cup {b})
            /\ \/ Cardinality(Into(p, v) \cup {b}) = Cardinality(Into(p, v))
               \/ Cardinality(Into(p, v) \cup {b}) = Cardinality(Into(p, v)) + 1
        BY <1>2, FS_AddElement
      <3> QED BY <1>2, <3>1
    <2>3. Cardinality(Into(q, v)) <= Cardinality(Into(p, v) \cup {b})
      BY <2>1, <2>2, FS_Subset
    <2>4. Cardinality(Into(q, v)) <= Cardinality(Into(p, v)) + 1
      BY <1>2, <2>2, <2>3
    <2>5. p.load[v] < EffectiveMax(s, v) /\ q.load[v] = p.load[v] + 1
      BY <1>3 DEF Moved
    <2>6. p.load[v] >= currentBots[v] + Cardinality(Into(p, v))
      BY <1>1, <2>5 DEF FitsIn
    <2>7. q.load[v] >= currentBots[v] + Cardinality(Into(q, v))
      BY <1>1, <1>2, <2>4, <2>5, <2>6
    <2>8. currentBots[v] + Cardinality(Into(q, v)) <= MaxBots[v]
      BY <1>1, <1>2, <2>4, <2>5, <2>6
    <2> QED BY <2>7, <2>8 DEF FitsIn
  <1>4. CASE v # x
    <2>1. Into(q, v) \subseteq Into(p, v)
      BY <1>4 DEF Into, Moved
    <2>2. Cardinality(Into(q, v)) <= Cardinality(Into(p, v))
      BY <1>2, <2>1, FS_Subset
    <2>3. Into(q, v) # {} => currentBots[v] + Cardinality(Into(q, v)) <= MaxBots[v]
      BY <1>1, <1>2, <2>1, <2>2 DEF FitsIn
    <2>4. \/ q.load[v] >= currentBots[v] + Cardinality(Into(q, v))
          \/ q.load[v] >= EffectiveMax(s, v)
      <3>1. CASE v = from
        BY <1>1, <3>1 DEF Moved
      <3>2. CASE v # from
        <4>1. q.load[v] = p.load[v]
          BY <1>4, <3>2 DEF Moved
        <4> QED BY <1>1, <1>2, <2>2, <4>1 DEF FitsIn
      <3> QED BY <3>1, <3>2
    <2> QED BY <2>3, <2>4 DEF FitsIn
  <1> QED BY <1>3, <1>4

(* Every worker fits. *)
PlanFits(s, p) == \A v \in WorkerIds : FitsIn(s, p, v)

(* The unassigned bots fit. *)
LEMMA AssignFits ==
  ASSUME NEW s, currentBots \in [WorkerIds -> Int]
  PROVE  AssignUnassigned(s) \in RebalancePlans /\ PlanFits(s, AssignUnassigned(s))
  <1> DEFINE G == {p \in RebalancePlans : PlanFits(s, p)}
             Good == [b \in 0 .. NBots |-> G]
             p0 == [load |-> currentBots, to |-> NoTargets]
  <1>1. p0 \in RebalancePlans
    BY DEF RebalancePlans, NoTargets
  <1>2. p0 \in G
    <2> SUFFICES ASSUME NEW v \in WorkerIds PROVE FitsIn(s, p0, v)
      BY <1>1 DEF PlanFits
    <2>1. Into(p0, v) = {}
      BY WorkersAssumption DEF Into, NoTargets, NoWorker, WorkerIds
    <2>2. Cardinality(Into(p0, v)) = 0 /\ p0.load[v] = currentBots[v] /\ currentBots[v] \in Int
      BY <2>1, FS_EmptySet
    <2> HIDE DEF p0
    <2> QED BY <2>1, <2>2 DEF FitsIn
  <1>3. ASSUME NEW b \in BotIds, NEW p \in G PROVE BotStep(s, p, b, NoWorker, NBots) \in G
    <2> DEFINE q == BotStep(s, p, b, NoWorker, NBots)
    <2>1. p \in RebalancePlans /\ \A v \in WorkerIds : FitsIn(s, p, v)
      BY DEF PlanFits
    <2>2. q \in RebalancePlans
      BY <2>1, StepFacts
    <2>3. q = p \/ \E x \in WorkerIds : Moved(s, p, q, b, NoWorker, x)
      BY <2>1, StepFacts
    <2>4. NoWorker \notin WorkerIds /\ \A v \in WorkerIds : currentBots[v] \in Int
      BY WorkersAssumption DEF NoWorker, WorkerIds
    <2> HIDE DEF q
    <2>5. ASSUME NEW x \in WorkerIds, Moved(s, p, q, b, NoWorker, x), NEW v \in WorkerIds PROVE FitsIn(s, q, v)
      BY <2>1, <2>2, <2>4, <2>5, FitsMoved
    <2>6. PlanFits(s, q)
      BY <2>1, <2>3, <2>5 DEF PlanFits
    <2>7. q \in G
      BY <2>2, <2>6
    <2> QED BY <2>7 DEF q
  <1>4. /\ \A b \in 0 .. NBots : Good[b] \subseteq RebalancePlans
        /\ p0 \in Good[0] /\ Good[NBots] = G
        /\ \A b \in BotIds : \A p \in Good[b - 1] : BotStep(s, p, b, NoWorker, NBots) \in Good[b]
    <2>1. \A b \in 0 .. NBots : Good[b] = G
      OBVIOUS
    <2>2. G \subseteq RebalancePlans
      OBVIOUS
    <2> HIDE DEF Good, G, p0
    <2> QED BY <1>2, <1>3, <2>1, <2>2, BotRange
  <1>5. RecommendFirst(s, p0, NoWorker, NBots) \in Good[NBots]
    <2> HIDE DEF Good, p0
    <2> QED BY <1>1, <1>4, BotLoop
  <1> QED BY <1>4, <1>5 DEF AssignUnassigned

(* The excess of a worker fits elsewhere. *)
LEMMA ExcessFits ==
  ASSUME NEW s, currentBots \in [WorkerIds -> Int], NEW plan \in RebalancePlans, PlanFits(s, plan),
         NEW w \in WorkerIds
  PROVE  MoveExcess(s, plan, w) \in RebalancePlans /\ PlanFits(s, MoveExcess(s, plan, w))
  <1> DEFINE n == plan.load[w] - EffectiveMax(s, w)
             Good == [b \in 0 .. NBots |-> {p \in RebalancePlans : KeepsCapacity(s, plan, p, w, b) /\ PlanFits(s, p)}]
  <1>1. plan \in Good[0]
    <2>1. plan.load[w] \in Int
      BY DEF RebalancePlans
    <2>2. Cardinality(OwnUpTo(0, w)) = 0
      <3>1. OwnUpTo(0, w) = {}
        BY DEF OwnUpTo
      <3> QED BY <3>1, FS_EmptySet
    <2>3. KeepsCapacity(s, plan, plan, w, 0)
      BY <2>1, <2>2 DEF KeepsCapacity
    <2> QED BY <2>3, BotRange
  <1>2. ASSUME NEW b \in BotIds, NEW p \in Good[b - 1] PROVE BotStep(s, p, b, w, n) \in Good[b]
    <2> DEFINE q == BotStep(s, p, b, w, n)
    <2>1. p \in RebalancePlans /\ KeepsCapacity(s, plan, p, w, b - 1) /\ \A v \in WorkerIds : FitsIn(s, p, v)
      BY <1>2, BotRange DEF PlanFits
    <2>2. q \in RebalancePlans
      BY <2>1, StepFacts
    <2>3. KeepsCapacity(s, plan, q, w, b) /\ (Among(b, w, n) => p.load[w] - 1 >= EffectiveMax(s, w))
      BY <2>1, CapacityStep
    <2>4. q = p \/ (Among(b, w, n) /\ \E x \in WorkerIds : Moved(s, p, q, b, w, x))
      BY <2>1, StepFacts
    <2> HIDE DEF q
    <2>5. ASSUME Among(b, w, n), NEW x \in WorkerIds, Moved(s, p, q, b, w, x), NEW v \in WorkerIds
          PROVE  FitsIn(s, q, v)
      <3>1. p.load[w] - 1 >= EffectiveMax(s, w) /\ currentBots[v] \in Int
        BY <2>3, <2>5
      <3> QED BY <2>1, <2>2, <2>5, <3>1, FitsMoved
    <2>6. PlanFits(s, q)
      BY <2>1, <2>4, <2>5 DEF PlanFits
    <2>7. q \in Good[b]
      BY <2>2, <2>3, <2>6, BotRange
    <2> QED BY <2>7 DEF q
  <1>3. \A b \in 0 .. NBots : Good[b] \subseteq RebalancePlans
    OBVIOUS
  <1>4. RecommendFirst(s, plan, w, n) \in Good[NBots]
    <2> HIDE DEF Good, n
    <2> QED BY <1>1, <1>2, <1>3, BotLoop
  <1>5. RecommendFirst(s, plan, w, n) \in {p \in RebalancePlans : PlanFits(s, p)}
    BY <1>4, BotRange
  <1> QED BY <1>5 DEF MoveExcess

(* What is recommended fits every worker, counting what it has. *)
LEMMA RecommendationsFit ==
  ASSUME NEW s, currentBots \in [WorkerIds -> Int]
  PROVE  /\ ComputeRebalanceRecommendations(s) \in RebalancePlans
         /\ PlanFits(s, ComputeRebalanceRecommendations(s))
  <1> DEFINE G == {p \in RebalancePlans : PlanFits(s, p)}
             Good == [w \in 0 .. NWorkers |-> G]
  <1>1. /\ NWorkers \in 0 .. NWorkers /\ 0 \in 0 .. NWorkers
        /\ \A w \in WorkerIds : w \in 0 .. NWorkers /\ w - 1 \in 0 .. NWorkers
    BY WorkersAssumption DEF WorkerIds
  <1>2. AssignUnassigned(s) \in G
    BY AssignFits
  <1>3. \A w \in WorkerIds : \A p \in G : MoveExcess(s, p, w) \in G
    BY ExcessFits
  <1>4. \A w \in 0 .. NWorkers : Good[w] = G
    OBVIOUS
  <1>5. G \subseteq RebalancePlans
    OBVIOUS
  <1>6. ComputeRebalanceRecommendations(s) \in Good[NWorkers]
    <2> HIDE DEF G, Good
    <2>1. /\ \A w \in 0 .. NWorkers : Good[w] \subseteq RebalancePlans
          /\ AssignUnassigned(s) \in Good[0]
          /\ \A w \in WorkerIds : \A p \in Good[w - 1] : MoveExcess(s, p, w) \in Good[w]
      BY <1>1, <1>2, <1>3, <1>4, <1>5
    <2> QED BY <2>1, WorkerLoop
  <1> QED BY <1>1, <1>4, <1>6

MoverPcs == {"idle", "read", "write", "snapshot", "recheck", "offline"}

(* The progress of a move or drain. *)
MoverRecords ==
  [pc : MoverPcs, drains : WorkerIds \cup {NoWorker}, recs : [BotIds -> WorkerIds \cup {NoWorker}],
   bot : 0 .. NBots, from : WorkerIds \cup {NoWorker}, to : WorkerIds \cup {NoWorker, Stranger},
   quiet : BOOLEAN]

(* A transaction moves a bot that exists; one that is about to write moves   *)
(* it elsewhere; that of a drain moves it to a worker.                       *)
MoverFits(x) ==
  /\ x \in MoverRecords
  /\ x.pc \in {"read", "write"} => x.bot \in BotIds
  /\ x.pc = "write" => x.from # x.to
  /\ x.pc \in {"read", "write"} /\ x.drains # NoWorker => x.to \in WorkerIds
  /\ x.pc = "idle" => x.drains = NoWorker /\ x.recs = NoTargets

WorkersTypes ==
  /\ wkStatus \in [WorkerIds -> {"online", "offline", "draining", "failed"}]
  /\ group \in [BotIds -> WorkerIds \cup {NoWorker}] /\ currentBots \in [WorkerIds -> Int]
  /\ active \in [WorkerIds -> [BotIds -> Nat]] /\ drifted \in BOOLEAN /\ moves \in 0 .. MaxMoves
  /\ mover \in [MoveCalls -> MoverRecords] /\ \A m \in MoveCalls : MoverFits(mover[m])

(* The bots a drain has still to move to v, the one in hand not counted. *)
Waiting(x, v) == {b \in BotIds : x.recs[b] = v}

(* All it has still to move to v. *)
ToCome(x, v) ==
  Cardinality(Waiting(x, v)) + (IF x.pc \in {"read", "write"} /\ x.to = v THEN 1 ELSE 0)

(* What a drain that nobody disturbed has still to move to v fits, for the   *)
(* numbers of bots cur.                                                      *)
StillFits(x, cur) ==
  x.quiet /\ x.drains # NoWorker =>
    \A v \in WorkerIds : ToCome(x, v) > 0 => cur[v] + ToCome(x, v) <= MaxBots[v]

DrainsFit == \A m \in MoveCalls : StillFits(mover[m], currentBots)

(* The bots of a worker. *)
OnWorker(w) == {b \in BotIds : group[b] = w}

WorkersInv == WorkersTypes /\ InSyncUnlessDrifted /\ DrainsFit

(* Their number. *)
LEMMA OnWorkerFinite ==
  ASSUME NEW w
  PROVE  IsFiniteSet(OnWorker(w)) /\ Cardinality(OnWorker(w)) \in Nat
  <1>1. OnWorker(w) \subseteq BotIds /\ IsFiniteSet(BotIds)
    BY WorkersAssumption, FS_Interval DEF OnWorker, BotIds
  <1> QED BY <1>1, FS_Subset, FS_CardinalityType

(* A set of bots that wait. *)
LEMMA WaitingFinite ==
  ASSUME NEW x, NEW v
  PROVE  IsFiniteSet(Waiting(x, v)) /\ Cardinality(Waiting(x, v)) \in Nat /\ ToCome(x, v) \in Nat
         /\ ToCome(x, v) >= Cardinality(Waiting(x, v))
  <1>1. Waiting(x, v) \subseteq BotIds /\ IsFiniteSet(BotIds)
    BY BotRange, FS_Interval DEF Waiting
  <1>2. IsFiniteSet(Waiting(x, v)) /\ Cardinality(Waiting(x, v)) \in Nat
    BY <1>1, FS_Subset, FS_CardinalityType
  <1> QED BY <1>2 DEF ToCome

(* A call that has not begun writes nothing. *)
LEMMA MoverIdleFits == MoverFits(MoverIdle) /\ \A cur : StillFits(MoverIdle, cur)
  <1>1. NoTargets \in [BotIds -> WorkerIds \cup {NoWorker}] /\ 0 \in 0 .. NBots
    BY BotRange DEF NoTargets
  <1>2. MoverIdle \in MoverRecords
    BY <1>1 DEF MoverIdle, MoverRecords, MoverPcs
  <1> QED BY <1>2 DEF MoverIdle, MoverFits, StillFits

(* What follows a transaction is a read, never a write; it takes the bot it  *)
(* moves from those that wait.                                               *)
LEMMA FollowingFits ==
  ASSUME NEW x, MoverFits(x)
  PROVE  /\ MoverFits(Following(x))
         /\ Following(x).drains # NoWorker =>
              /\ x.drains # NoWorker /\ Following(x).quiet = x.quiet
              /\ \A v \in WorkerIds : ToCome(Following(x), v) = Cardinality(Waiting(x, v))
  <1> DEFINE left == {b \in BotIds : x.recs[b] # NoWorker}
             next == CHOOSE b \in left : \A a \in left : b <= a
             t == x.recs[next]
             r == [x.recs EXCEPT ![next] = NoWorker]
             y == [x EXCEPT !.pc = "read", !.bot = next, !.to = t, !.recs = r]
  <1>0. x \in MoverRecords
    BY DEF MoverFits
  <1>1. CASE x.drains = NoWorker
    BY <1>1, MoverIdleFits DEF Following, MoverIdle
  <1>2. CASE x.drains # NoWorker /\ left = {}
    <2> DEFINE z == [x EXCEPT !.pc = "recheck"]
    <2>1. Following(x) = z
      BY <1>2 DEF Following
    <2>2. z \in MoverRecords /\ z.pc = "recheck" /\ z.recs = x.recs /\ z.quiet = x.quiet /\ z.drains = x.drains
      BY <1>0 DEF MoverRecords, MoverPcs
    <2> HIDE DEF z
    <2>3. MoverFits(z)
      BY <2>2 DEF MoverFits
    <2>4. \A v \in WorkerIds : ToCome(z, v) = Cardinality(Waiting(x, v))
      <3>1. \A v : Waiting(z, v) = Waiting(x, v)
        BY <2>2 DEF Waiting
      <3> QED BY <2>2, <3>1, WaitingFinite DEF ToCome
    <2> QED BY <1>2, <2>1, <2>2, <2>3, <2>4
  <1>3. CASE x.drains # NoWorker /\ left # {}
    <2>1. Following(x) = y
      BY <1>3 DEF Following
    <2>2. next \in left
      <3>1. PICK m \in left : \A i \in left : m <= i
        <4> HIDE DEF left
        <4>1. left \in SUBSET Nat
          BY BotRange DEF left
        <4> QED BY <1>3, <4>1, LeastElement
      <3> HIDE DEF left
      <3> QED BY <3>1
    <2> HIDE DEF next
    <2>3. next \in BotIds /\ next \in 0 .. NBots /\ t # NoWorker
      BY <2>2, BotRange
    <2>4. x.recs \in [BotIds -> WorkerIds \cup {NoWorker}]
      BY <1>0 DEF MoverRecords
    <2>5. t \in WorkerIds /\ r \in [BotIds -> WorkerIds \cup {NoWorker}]
      BY <2>3, <2>4
    <2>6. \A b \in BotIds : r[b] = IF b = next THEN NoWorker ELSE x.recs[b]
      BY <2>4
    <2>7. t = x.recs[next]
      OBVIOUS
    <2> HIDE DEF t, r
    <2>8. /\ y \in MoverRecords /\ y.pc = "read" /\ y.bot = next /\ y.to = t /\ y.recs = r
          /\ y.drains = x.drains /\ y.quiet = x.quiet
      BY <1>0, <2>3, <2>5 DEF MoverRecords, MoverPcs
    <2> HIDE DEF y
    <2>9. MoverFits(y)
      BY <2>3, <2>5, <2>8 DEF MoverFits
    <2>10. ASSUME NEW v \in WorkerIds PROVE ToCome(y, v) = Cardinality(Waiting(x, v))
      <3>0. v # NoWorker
        BY WorkersAssumption DEF NoWorker, WorkerIds
      <3>1. CASE v = t
        <4>1. Waiting(y, v) = Waiting(x, v) \ {next} /\ next \in Waiting(x, v)
          BY <2>3, <2>6, <2>7, <2>8, <3>0, <3>1 DEF Waiting
        <4>2. Cardinality(Waiting(y, v)) = Cardinality(Waiting(x, v)) - 1
          BY <4>1, WaitingFinite, FS_RemoveElement
        <4>3. ToCome(y, v) = Cardinality(Waiting(y, v)) + 1
          BY <2>8, <3>1 DEF ToCome
        <4>4. Cardinality(Waiting(x, v)) \in Nat
          BY WaitingFinite
        <4> QED BY <4>2, <4>3, <4>4
      <3>2. CASE v # t
        <4>1. Waiting(y, v) = Waiting(x, v)
          BY <2>6, <2>7, <2>8, <3>0, <3>2 DEF Waiting
        <4>2. ToCome(y, v) = Cardinality(Waiting(y, v))
          BY <2>8, <3>2, WaitingFinite DEF ToCome
        <4> QED BY <4>1, <4>2
      <3> QED BY <3>1, <3>2
    <2> QED BY <1>3, <2>1, <2>8, <2>9, <2>10
  <1> QED BY <1>1, <1>2, <1>3

(* The rows and the counter are in sync as long as nobody touches them. *)
LEMMA SyncKept ==
  ASSUME InSyncUnlessDrifted, UNCHANGED <<group, currentBots, active, drifted>>
  PROVE  InSyncUnlessDrifted'
  <1>1. \A w : OnWorker(w)' = OnWorker(w)
    BY DEF OnWorker
  <1>2. ~drifted => \A w \in WorkerIds :
          /\ \A b \in BotIds : active[w][b] = IF group[b] = w THEN 1 ELSE 0
          /\ currentBots[w] = Cardinality(OnWorker(w))
    BY DEF InSyncUnlessDrifted, InSync, OnWorker
  <1>3. (~drifted => \A w \in WorkerIds :
          /\ \A b \in BotIds : active[w][b] = IF group[b] = w THEN 1 ELSE 0
          /\ currentBots[w] = Cardinality(OnWorker(w)))'
    BY <1>1, <1>2
  <1> QED BY <1>3 DEF InSyncUnlessDrifted, InSync, OnWorker

(* Rows and counters are in sync to begin with. *)
LEMMA WorkersInitInv == WorkersInit => WorkersInv
  <1> SUFFICES ASSUME WorkersInit PROVE WorkersInv
    OBVIOUS
  <1>1. currentBots \in [WorkerIds -> Int] /\ \A w \in WorkerIds : currentBots[w] = Cardinality(OnWorker(w))
    <2>1. currentBots = [w \in WorkerIds |-> Cardinality(OnWorker(w))]
      BY DEF WorkersInit, OnWorker
    <2> QED BY <2>1, OnWorkerFinite
  <1>2. active \in [WorkerIds -> [BotIds -> Nat]]
    BY DEF WorkersInit
  <1>3. mover \in [MoveCalls -> MoverRecords] /\ \A m \in MoveCalls : mover[m] = MoverIdle
    BY MoverIdleFits DEF WorkersInit, MoverFits
  <1>4. InSyncUnlessDrifted
    BY <1>1 DEF WorkersInit, InSyncUnlessDrifted, InSync, OnWorker
  <1>5. wkStatus \in [WorkerIds -> {"online", "offline", "draining", "failed"}]
    <2>1. wkStatus \in [WorkerIds -> {"online", "offline"}]
      BY DEF WorkersInit
    <2> QED BY <2>1
  <1>6. drifted \in BOOLEAN /\ moves \in 0 .. MaxMoves
    <2>1. drifted = FALSE /\ moves = 0 /\ MaxMoves \in Nat
      BY WorkersAssumption DEF WorkersInit
    <2>2. drifted \in BOOLEAN
      BY <2>1
    <2>3. moves \in 0 .. MaxMoves
      BY <2>1
    <2> QED BY <2>2, <2>3
  <1>7. WorkersTypes
    <2>1. \A m \in MoveCalls : MoverFits(mover[m])
      BY <1>3, MoverIdleFits
    <2>2. group \in [BotIds -> WorkerIds \cup {NoWorker}]
      BY DEF WorkersInit
    <2> QED BY <1>1, <1>2, <1>3, <1>5, <1>6, <2>1, <2>2 DEF WorkersTypes
  <1>8. DrainsFit
    BY <1>3, MoverIdleFits DEF DrainsFit
  <1> QED BY <1>4, <1>7, <1>8 DEF WorkersInv

(* Steps that move no bot. *)
LEMMA ReadStep ==
  ASSUME WorkersInv, NEW m \in MoveCalls, NEW y, MoverFits(y), StillFits(y, currentBots),
         mover' = [mover EXCEPT ![m] = y],
         UNCHANGED <<group, currentBots, active, drifted>>, moves' \in 0 .. MaxMoves,
         wkStatus' \in [WorkerIds -> {"online", "offline", "draining", "failed"}]
  PROVE  WorkersInv'
  <1>1. mover \in [MoveCalls -> MoverRecords] /\ y \in MoverRecords
    BY DEF WorkersInv, WorkersTypes, MoverFits
  <1>2. mover' \in [MoveCalls -> MoverRecords]
    BY <1>1
  <1>3. \A n \in MoveCalls : mover'[n] = IF n = m THEN y ELSE mover[n]
    BY <1>1
  <1>4. \A n \in MoveCalls : MoverFits(mover'[n]) /\ StillFits(mover'[n], currentBots)
    BY <1>3 DEF WorkersInv, WorkersTypes, DrainsFit
  <1>5. WorkersTypes'
    BY <1>2, <1>4 DEF WorkersTypes, WorkersInv, MoverFits
  <1>6. DrainsFit'
    <2>1. currentBots' = currentBots
      OBVIOUS
    <2> QED BY <1>4, <2>1 DEF DrainsFit, StillFits, ToCome, Waiting
  <1> QED BY <1>5, <1>6, SyncKept DEF WorkersInv

(* Disturbing a drain does not change its transaction. *)
LEMMA DisturbedFits ==
  ASSUME NEW x, MoverFits(x)
  PROVE  MoverFits([x EXCEPT !.quiet = FALSE]) /\ \A cur : StillFits([x EXCEPT !.quiet = FALSE], cur)
  <1> DEFINE z == [x EXCEPT !.quiet = FALSE]
  <1>1. /\ z \in MoverRecords /\ z.pc = x.pc /\ z.bot = x.bot /\ z.from = x.from /\ z.to = x.to
        /\ z.drains = x.drains /\ z.recs = x.recs /\ z.quiet = FALSE
    BY DEF MoverFits, MoverRecords
  <1> HIDE DEF z
  <1>2. MoverFits(z)
    BY <1>1 DEF MoverFits
  <1>3. \A cur : StillFits(z, cur)
    BY <1>1 DEF StillFits
  <1> QED BY <1>2, <1>3 DEF z

(* A drain that is about to move a bot to a worker has room for it there. *)
LEMMA RoomForNext ==
  ASSUME NEW x, MoverFits(x), NEW cur \in [WorkerIds -> Int], StillFits(x, cur),
         x.pc = "write", x.drains # NoWorker, x.quiet
  PROVE  x.to \in WorkerIds /\ cur[x.to] + 1 <= MaxBots[x.to]
  <1>1. x.to \in WorkerIds
    BY DEF MoverFits
  <1>2. ToCome(x, x.to) = Cardinality(Waiting(x, x.to)) + 1
    BY DEF ToCome
  <1>3. Cardinality(Waiting(x, x.to)) \in Nat
    BY WaitingFinite
  <1>4. cur[x.to] + ToCome(x, x.to) <= MaxBots[x.to]
    BY <1>1, <1>2, <1>3 DEF StillFits
  <1>5. cur[x.to] \in Int /\ MaxBots[x.to] \in Nat
    BY <1>1, EffectiveMaxNat
  <1> QED BY <1>1, <1>2, <1>3, <1>4, <1>5

(* worker-assignment.ts: the two counters, the rows and the bot move         *)
(* together; if the bot is where the transaction read it, they stay in sync. *)
LEMMA CommitStep ==
  ASSUME WorkersInv, NEW m \in MoveCalls, TxCommit(m)
  PROVE  WorkersInv'
  <1> DEFINE b == mover[m].bot
             from == mover[m].from
             to == mover[m].to
             x == mover[m]
  <1>1. /\ b \in BotIds /\ from # to /\ to \in WorkerIds \cup {NoWorker} /\ MoverFits(mover[m])
        /\ group' = [group EXCEPT ![b] = to] /\ drifted' = (drifted \/ group[b] # from)
        /\ mover' = [OthersDisturbed(m) EXCEPT ![m] = Following(@)]
        /\ UNCHANGED <<wkStatus, moves>> /\ x.pc = "write"
    BY DEF TxCommit, WorkersInv, WorkersTypes, MoverFits
  <1>2. currentBots' = [w \in WorkerIds |->
          currentBots[w] - (IF w = from THEN 1 ELSE 0) + (IF w = to THEN 1 ELSE 0)]
    BY DEF TxCommit
  <1>3. active' = [w \in WorkerIds |-> [active[w] EXCEPT ![b] =
             IF w = from THEN 0 ELSE IF w = to THEN @ + 1 ELSE @]]
    BY DEF TxCommit
  <1>x. \A w : x.to = w <=> to = w
    OBVIOUS
  <1> HIDE DEF b, from, to, x
  <1>4. /\ group' \in [BotIds -> WorkerIds \cup {NoWorker}] /\ currentBots' \in [WorkerIds -> Int]
        /\ active' \in [WorkerIds -> [BotIds -> Nat]] /\ drifted' \in BOOLEAN
    <2>1. group' \in [BotIds -> WorkerIds \cup {NoWorker}] /\ drifted' \in BOOLEAN
      BY <1>1 DEF WorkersInv, WorkersTypes
    <2>2. currentBots' \in [WorkerIds -> Int]
      BY <1>2 DEF WorkersInv, WorkersTypes
    <2>3. active' \in [WorkerIds -> [BotIds -> Nat]]
      <3> DEFINE row(w) == [active[w] EXCEPT ![b] = IF w = from THEN 0 ELSE IF w = to THEN @ + 1 ELSE @]
      <3>1. ASSUME NEW w \in WorkerIds
            PROVE  [active[w] EXCEPT ![b] = IF w = from THEN 0 ELSE IF w = to THEN @ + 1 ELSE @]
                     \in [BotIds -> Nat]
        <4>1. active[w] \in [BotIds -> Nat] /\ active[w][b] \in Nat
          BY <1>1 DEF WorkersInv, WorkersTypes
        <4> DEFINE v == IF w = from THEN 0 ELSE IF w = to THEN active[w][b] + 1 ELSE active[w][b]
        <4>2. v \in Nat
          BY <4>1
        <4> HIDE DEF v
        <4>3. [active[w] EXCEPT ![b] = v] \in [BotIds -> Nat]
          BY <4>1, <4>2
        <4> QED BY <4>3 DEF v
      <3>2. active' = [w \in WorkerIds |-> row(w)] /\ \A w \in WorkerIds : row(w) \in [BotIds -> Nat]
        BY <1>3, <3>1
      <3> HIDE DEF row
      <3> QED BY <3>2
    <2> QED BY <2>1, <2>2, <2>3
  <1>5. /\ mover' \in [MoveCalls -> MoverRecords] /\ mover'[m] = Following(x)
        /\ \A n \in MoveCalls \ {m} : mover'[n] = [mover[n] EXCEPT !.quiet = FALSE]
        /\ \A n \in MoveCalls : MoverFits(mover'[n])
    <2> DEFINE o == OthersDisturbed(m)
    <2>1. /\ o = [n \in MoveCalls |-> o[n]] /\ o[m] = x
          /\ \A n \in MoveCalls \ {m} : o[n] = [mover[n] EXCEPT !.quiet = FALSE]
      BY DEF OthersDisturbed, x
    <2>2. mover' = [o EXCEPT ![m] = Following(o[m])]
      BY <1>1
    <2> HIDE DEF o
    <2>3. /\ mover'[m] = Following(x) /\ mover' = [n \in MoveCalls |-> mover'[n]]
          /\ \A n \in MoveCalls \ {m} : mover'[n] = [mover[n] EXCEPT !.quiet = FALSE]
      BY <2>1, <2>2
    <2>4. ASSUME NEW n \in MoveCalls PROVE MoverFits(mover'[n])
      <3>1. CASE n = m
        <4>1. MoverFits(x)
          BY <1>1 DEF x
        <4> QED BY <2>3, <3>1, <4>1, FollowingFits
      <3>2. CASE n # m
        <4>1. MoverFits(mover[n]) /\ mover'[n] = [mover[n] EXCEPT !.quiet = FALSE]
          BY <2>3, <3>2 DEF WorkersInv, WorkersTypes
        <4>2. MoverFits([mover[n] EXCEPT !.quiet = FALSE])
          BY <4>1, DisturbedFits
        <4> QED BY <4>1, <4>2
      <3> QED BY <3>1, <3>2
    <2>5. mover' \in [MoveCalls -> MoverRecords]
      BY <2>3, <2>4 DEF MoverFits
    <2> QED BY <2>3, <2>4, <2>5
  <1>6. WorkersTypes'
    BY <1>1, <1>4, <1>5 DEF WorkersTypes, WorkersInv, MoverFits
  <1>7. DrainsFit'
    <2> SUFFICES ASSUME NEW n \in MoveCalls PROVE StillFits(mover'[n], currentBots')
      BY DEF DrainsFit, StillFits, ToCome, Waiting
    <2>1. CASE n # m
      <3>1. mover'[n] = [mover[n] EXCEPT !.quiet = FALSE] /\ MoverFits(mover[n])
        BY <1>5, <2>1 DEF WorkersInv, WorkersTypes
      <3>2. \A cur : StillFits([mover[n] EXCEPT !.quiet = FALSE], cur)
        BY <3>1, DisturbedFits
      <3> QED BY <3>1, <3>2
    <2>2. CASE n = m
      <3> DEFINE y == Following(x)
      <3> SUFFICES ASSUME y.quiet, y.drains # NoWorker, NEW v \in WorkerIds, ToCome(y, v) > 0
                   PROVE  currentBots'[v] + ToCome(y, v) <= MaxBots[v]
        BY <1>5, <2>2 DEF StillFits
      <3>1. x.drains # NoWorker /\ x.quiet /\ ToCome(y, v) = Cardinality(Waiting(x, v))
        BY <1>1, FollowingFits DEF x
      <3>2. StillFits(x, currentBots)
        BY DEF WorkersInv, DrainsFit, x
      <3>3. ToCome(x, v) = Cardinality(Waiting(x, v)) + (IF v = to THEN 1 ELSE 0)
        BY <1>1, <1>x DEF ToCome
      <3>4. Cardinality(Waiting(x, v)) \in Nat /\ MaxBots[v] \in Nat /\ currentBots[v] \in Int
        BY WaitingFinite, EffectiveMaxNat DEF WorkersInv, WorkersTypes
      <3> HIDE DEF y
      <3>5. currentBots[v] + ToCome(x, v) <= MaxBots[v]
        BY <3>1, <3>2, <3>3, <3>4 DEF StillFits
      <3>6. currentBots'[v] = currentBots[v] - (IF v = from THEN 1 ELSE 0) + (IF v = to THEN 1 ELSE 0)
        BY <1>2
      <3> QED BY <3>1, <3>3, <3>4, <3>5, <3>6
    <2> QED BY <2>1, <2>2
  <1>8. ASSUME ~drifted', NEW w \in WorkerIds
        PROVE  /\ \A a \in BotIds : active'[w][a] = IF group'[a] = w THEN 1 ELSE 0
               /\ currentBots'[w] = Cardinality(OnWorker(w)')
    <2>1. /\ ~drifted /\ group[b] = from
          /\ \A a \in BotIds : active[w][a] = IF group[a] = w THEN 1 ELSE 0
          /\ currentBots[w] = Cardinality(OnWorker(w))
      BY <1>1, <1>8 DEF WorkersInv, InSyncUnlessDrifted, InSync, WorkersTypes, OnWorker
    <2>2. \A a \in BotIds : group'[a] = IF a = b THEN to ELSE group[a]
      BY <1>1 DEF WorkersInv, WorkersTypes
    <2>3. \A a \in BotIds : active'[w][a] = IF a # b THEN active[w][a]
             ELSE IF w = from THEN 0 ELSE IF w = to THEN active[w][a] + 1 ELSE active[w][a]
      BY <1>3 DEF WorkersInv, WorkersTypes
    <2>4. \A a \in BotIds : active'[w][a] = IF group'[a] = w THEN 1 ELSE 0
      BY <1>1, <2>1, <2>2, <2>3
    <2>5. CASE w = from
      <3>1. OnWorker(w)' = OnWorker(w) \ {b} /\ b \in OnWorker(w)
        BY <1>1, <2>1, <2>2, <2>5 DEF OnWorker
      <3>2. Cardinality(OnWorker(w)') = Cardinality(OnWorker(w)) - 1
        BY <3>1, OnWorkerFinite, FS_RemoveElement
      <3>3. currentBots'[w] = currentBots[w] - 1
        BY <1>1, <1>2, <2>5 DEF WorkersInv, WorkersTypes
      <3> QED BY <2>1, <2>4, <3>2, <3>3
    <2>6. CASE w = to
      <3>1. OnWorker(w)' = OnWorker(w) \cup {b} /\ b \notin OnWorker(w)
        BY <1>1, <2>1, <2>2, <2>6 DEF OnWorker
      <3>2. Cardinality(OnWorker(w)') = Cardinality(OnWorker(w)) + 1
        BY <3>1, OnWorkerFinite, FS_AddElement
      <3>3. currentBots'[w] = currentBots[w] + 1
        BY <1>1, <1>2, <2>6 DEF WorkersInv, WorkersTypes
      <3> QED BY <2>1, <2>4, <3>2, <3>3
    <2>7. CASE w # from /\ w # to
      <3>1. OnWorker(w)' = OnWorker(w)
        BY <1>1, <2>1, <2>2, <2>7 DEF OnWorker
      <3>2. currentBots'[w] = currentBots[w]
        BY <1>2, <2>7 DEF WorkersInv, WorkersTypes
      <3> QED BY <2>1, <2>4, <3>1, <3>2
    <2> QED BY <2>5, <2>6, <2>7
  <1>9. InSyncUnlessDrifted'
    BY <1>8 DEF InSyncUnlessDrifted, InSync, OnWorker
  <1> QED BY <1>6, <1>7, <1>9 DEF WorkersInv

(* PlanDrain: what the drain is to move fits, by the recommendations. *)
LEMMA PlanStep ==
  ASSUME WorkersInv, NEW m \in MoveCalls, PlanDrain(m)
  PROVE  WorkersInv'
  <1> DEFINE w == mover[m].drains
             s == [wkStatus EXCEPT ![w] = "draining"]
             plan == ComputeRebalanceRecommendations(s)
             rs == [b \in BotIds |-> IF group[b] = w THEN plan.to[b] ELSE NoWorker]
             y == [mover[m] EXCEPT !.quiet = TRUE, !.recs = rs]
  <1>1. /\ mover' = [mover EXCEPT ![m] = Following(y)] /\ mover[m].pc = "snapshot"
        /\ UNCHANGED <<wkStatus, group, currentBots, active, drifted, moves>>
    BY DEF PlanDrain
  <1>2. mover[m] \in MoverRecords /\ currentBots \in [WorkerIds -> Int]
    BY DEF WorkersInv, WorkersTypes
  <1>3. plan \in RebalancePlans /\ PlanFits(s, plan)
    BY <1>2, RecommendationsFit
  <1> HIDE DEF plan
  <1>4. plan.to \in [BotIds -> WorkerIds \cup {NoWorker}]
    BY <1>3 DEF RebalancePlans
  <1>5. rs \in [BotIds -> WorkerIds \cup {NoWorker}]
    BY <1>4
  <1>6. \A b \in BotIds : rs[b] = IF group[b] = w THEN plan.to[b] ELSE NoWorker
    OBVIOUS
  <1> HIDE DEF rs, w, s
  <1>7. y \in MoverRecords /\ y.pc = "snapshot" /\ y.recs = rs
    BY <1>1, <1>2, <1>5 DEF MoverRecords, MoverPcs
  <1> HIDE DEF y
  <1>8. MoverFits(y)
    BY <1>7 DEF MoverFits
  <1> DEFINE z == Following(y)
  <1>9. StillFits(z, currentBots)
    <2> SUFFICES ASSUME z.quiet, z.drains # NoWorker, NEW v \in WorkerIds, ToCome(z, v) > 0
                 PROVE  currentBots[v] + ToCome(z, v) <= MaxBots[v]
      BY DEF StillFits
    <2>1. ToCome(z, v) = Cardinality(Waiting(y, v))
      BY <1>8, FollowingFits
    <2>2. v # NoWorker
      BY WorkersAssumption DEF NoWorker, WorkerIds
    <2>3. Waiting(y, v) \subseteq Into(plan, v)
      BY <1>6, <1>7, <2>2 DEF Waiting, Into
    <2>4. /\ Cardinality(Waiting(y, v)) \in Nat /\ Cardinality(Into(plan, v)) \in Nat
          /\ Cardinality(Waiting(y, v)) <= Cardinality(Into(plan, v))
      BY <2>3, WaitingFinite, IntoFinite, FS_Subset
    <2>5. Into(plan, v) # {}
      <3>1. Cardinality(Into(plan, v)) # 0
        <4> HIDE DEF z
        <4> QED BY <2>1, <2>4
      <3> QED BY <3>1, FS_EmptySet
    <2>6. currentBots[v] + Cardinality(Into(plan, v)) <= MaxBots[v]
      BY <1>3, <2>5 DEF PlanFits, FitsIn
    <2>7. currentBots[v] \in Int /\ MaxBots[v] \in Nat
      BY <1>2, EffectiveMaxNat
    <2> HIDE DEF z
    <2> QED BY <2>1, <2>4, <2>6, <2>7
  <1>10. MoverFits(z)
    BY <1>8, FollowingFits
  <1>11. moves' \in 0 .. MaxMoves /\ wkStatus' \in [WorkerIds -> {"online", "offline", "draining", "failed"}]
    BY <1>1 DEF WorkersInv, WorkersTypes
  <1> HIDE DEF z
  <1> QED BY <1>1, <1>9, <1>10, <1>11, ReadStep DEF z

(* The read of a transaction, or the end of one with nothing to do. *)
LEMMA TxReadStep ==
  ASSUME WorkersInv, NEW m \in MoveCalls, TxRead(m)
  PROVE  WorkersInv'
  <1> DEFINE old == group[mover[m].bot]
             x == mover[m]
             y == [mover[m] EXCEPT !.pc = "write", !.from = old]
             z == IF old = mover[m].to THEN Following(mover[m]) ELSE y
  <1>1. /\ mover' = [mover EXCEPT ![m] = z] /\ x.pc = "read" /\ x.bot \in BotIds
        /\ UNCHANGED <<wkStatus, group, currentBots, active, drifted, moves>>
    BY DEF TxRead
  <1>2. /\ MoverFits(x) /\ x \in MoverRecords /\ StillFits(x, currentBots) /\ old \in WorkerIds \cup {NoWorker}
        /\ moves' \in 0 .. MaxMoves /\ wkStatus' \in [WorkerIds -> {"online", "offline", "draining", "failed"}]
    BY <1>1 DEF WorkersInv, WorkersTypes, DrainsFit, MoverFits
  <1> HIDE DEF old
  <1>3. CASE old # x.to
    <2>1. /\ y \in MoverRecords /\ y.pc = "write" /\ y.from = old /\ y.to = x.to /\ y.bot = x.bot
          /\ y.drains = x.drains /\ y.recs = x.recs /\ y.quiet = x.quiet
      BY <1>2 DEF MoverRecords, MoverPcs
    <2>2. z = y
      BY <1>3
    <2> HIDE DEF y, x, z
    <2>3. MoverFits(y)
      BY <1>1, <1>2, <1>3, <2>1 DEF MoverFits
    <2>4. StillFits(y, currentBots)
      BY <1>1, <1>2, <2>1 DEF StillFits, ToCome, Waiting
    <2> QED BY <1>1, <1>2, <2>2, <2>3, <2>4, ReadStep
  <1>4. CASE old = x.to
    <2>1. z = Following(x)
      BY <1>4
    <2>2. MoverFits(Following(x))
      BY <1>2, FollowingFits
    <2> HIDE DEF z, x
    <2>3. StillFits(Following(x), currentBots)
      <3> DEFINE f == Following(x)
      <3> SUFFICES ASSUME f.quiet, f.drains # NoWorker, NEW v \in WorkerIds, ToCome(f, v) > 0
                   PROVE  currentBots[v] + ToCome(f, v) <= MaxBots[v]
        BY DEF StillFits
      <3>1. x.drains # NoWorker /\ x.quiet /\ ToCome(f, v) = Cardinality(Waiting(x, v))
        BY <1>2, FollowingFits
      <3>2. /\ ToCome(x, v) >= Cardinality(Waiting(x, v)) /\ ToCome(x, v) \in Nat /\ Cardinality(Waiting(x, v)) \in Nat
            /\ currentBots[v] \in Int /\ MaxBots[v] \in Nat
        BY WaitingFinite, EffectiveMaxNat DEF WorkersInv, WorkersTypes
      <3> HIDE DEF f
      <3>3. currentBots[v] + ToCome(x, v) <= MaxBots[v]
        BY <1>2, <3>1, <3>2 DEF StillFits
      <3> QED BY <3>1, <3>2, <3>3
    <2> QED BY <1>1, <1>2, <2>1, <2>2, <2>3, ReadStep
  <1> QED BY <1>3, <1>4

(* Every step keeps rows and counters in sync, or has drifted. *)
LEMMA WorkersStep == WorkersInv /\ [WorkersNext]_workersVars => WorkersInv'
  <1> SUFFICES ASSUME WorkersInv, [WorkersNext]_workersVars PROVE WorkersInv'
    OBVIOUS
  <1> DEFINE Statuses == [WorkerIds -> {"online", "offline", "draining", "failed"}]
  <1>0. /\ \A m \in MoveCalls : MoverFits(mover[m]) /\ mover[m] \in MoverRecords /\ StillFits(mover[m], currentBots)
        /\ wkStatus \in Statuses /\ moves \in 0 .. MaxMoves /\ moves \in Nat /\ MaxMoves \in Nat
    BY WorkersAssumption DEF WorkersInv, WorkersTypes, DrainsFit, MoverFits
  <1>1. ASSUME NEW m \in MoveCalls, NEW b \in BotIds, NEW w \in WorkerIds \cup {NoWorker, Stranger}, BeginMove(m, b, w)
        PROVE  WorkersInv'
    <2> DEFINE y == [mover[m] EXCEPT !.pc = "read", !.bot = b, !.to = w]
    <2>1. /\ mover' = [mover EXCEPT ![m] = y] /\ UNCHANGED <<wkStatus, group, currentBots, active, drifted>>
          /\ mover[m].pc = "idle"
      BY <1>1 DEF BeginMove, WorkersInv, WorkersTypes
    <2>2. moves' \in 0 .. MaxMoves /\ wkStatus' \in Statuses
      BY <1>0, <1>1, <2>1 DEF BeginMove
    <2>3. y \in MoverRecords /\ y.pc = "read" /\ y.bot = b /\ y.drains = mover[m].drains /\ b \in 0 .. NBots
      BY <1>0, BotRange DEF MoverRecords, MoverPcs
    <2>4. y.drains = NoWorker
      BY <1>0, <2>1, <2>3 DEF MoverFits
    <2> HIDE DEF y
    <2>5. MoverFits(y) /\ StillFits(y, currentBots)
      BY <2>3, <2>4 DEF MoverFits, StillFits
    <2> QED BY <2>1, <2>2, <2>5, ReadStep
  <1>2. ASSUME NEW m \in MoveCalls, NEW w \in WorkerIds, BeginDrain(m, w) PROVE WorkersInv'
    <2> DEFINE y == [mover[m] EXCEPT !.pc = "snapshot", !.drains = w]
    <2>1. /\ mover' = [mover EXCEPT ![m] = y] /\ UNCHANGED <<group, currentBots, active, drifted>>
          /\ wkStatus' = [wkStatus EXCEPT ![w] = "draining"] /\ mover[m].pc = "idle"
      BY <1>2 DEF BeginDrain, WorkersInv, WorkersTypes
    <2>2. moves' \in 0 .. MaxMoves
      BY <1>0, <1>2 DEF BeginDrain
    <2>3. wkStatus' \in Statuses
      BY <1>0, <2>1
    <2>4. y \in MoverRecords /\ y.pc = "snapshot" /\ y.drains = w /\ y.recs = mover[m].recs
      BY <1>0 DEF MoverRecords, MoverPcs
    <2>5. y.recs = NoTargets
      BY <1>0, <2>1, <2>4 DEF MoverFits
    <2> HIDE DEF y
    <2>6. MoverFits(y)
      BY <2>4 DEF MoverFits
    <2>7. ASSUME NEW v \in WorkerIds PROVE ToCome(y, v) = 0
      <3>1. Waiting(y, v) = {}
        BY <2>5, WorkersAssumption DEF Waiting, NoTargets, NoWorker, WorkerIds
      <3>2. Cardinality(Waiting(y, v)) = 0
        BY <3>1, FS_EmptySet
      <3> QED BY <2>4, <3>2 DEF ToCome
    <2>8. StillFits(y, currentBots)
      BY <2>7 DEF StillFits
    <2> QED BY <2>1, <2>2, <2>3, <2>6, <2>8, ReadStep
  <1>3. ASSUME NEW m \in MoveCalls, TxAbort(m) \/ SetOffline(m) PROVE WorkersInv'
    <2>1. /\ mover' = [mover EXCEPT ![m] = MoverIdle] /\ UNCHANGED <<group, currentBots, active, drifted, moves>>
          /\ wkStatus' = wkStatus \/ wkStatus' = [wkStatus EXCEPT ![mover[m].drains] = "offline"]
      BY <1>3 DEF TxAbort, SetOffline
    <2>2. moves' \in 0 .. MaxMoves /\ wkStatus' \in Statuses
      BY <1>0, <2>1
    <2> QED BY <2>1, <2>2, MoverIdleFits, ReadStep
  <1>4. ASSUME NEW m \in MoveCalls, Recheck(m) PROVE WorkersInv'
    <2> DEFINE y == [mover[m] EXCEPT !.pc = "offline"]
               z == IF \E b \in BotIds : group[b] = mover[m].drains THEN MoverIdle ELSE y
    <2>1. /\ mover' = [mover EXCEPT ![m] = z] /\ UNCHANGED <<wkStatus, group, currentBots, active, drifted, moves>>
          /\ mover[m].pc = "recheck"
      BY <1>4 DEF Recheck
    <2>2. /\ y \in MoverRecords /\ y.pc = "offline" /\ y.recs = mover[m].recs /\ y.quiet = mover[m].quiet
          /\ y.drains = mover[m].drains
      BY <1>0 DEF MoverRecords, MoverPcs
    <2> HIDE DEF y
    <2>3. MoverFits(y)
      BY <2>2 DEF MoverFits
    <2>4. StillFits(y, currentBots)
      BY <1>0, <2>1, <2>2 DEF StillFits, ToCome, Waiting
    <2>5. MoverFits(z) /\ StillFits(z, currentBots)
      BY <2>3, <2>4, MoverIdleFits
    <2>6. moves' \in 0 .. MaxMoves /\ wkStatus' \in Statuses
      BY <1>0, <2>1
    <2> HIDE DEF z
    <2> QED BY <2>1, <2>5, <2>6, ReadStep
  <1>5. ASSUME NEW w \in WorkerIds, RestartWorker(w) PROVE WorkersInv'
    <2>1. /\ mover' = [m \in MoveCalls |-> [mover[m] EXCEPT !.quiet = FALSE]]
          /\ wkStatus' = [wkStatus EXCEPT ![w] = "online"] /\ moves' = moves + 1 /\ moves < MaxMoves
          /\ UNCHANGED <<group, currentBots, active, drifted>>
      BY <1>5 DEF RestartWorker
    <2>2. \A m \in MoveCalls : MoverFits(mover'[m]) /\ StillFits(mover'[m], currentBots)
      BY <1>0, <2>1, DisturbedFits
    <2>3. mover' \in [MoveCalls -> MoverRecords]
      BY <2>1, <2>2 DEF MoverFits
    <2>4. moves' \in 0 .. MaxMoves /\ wkStatus' \in Statuses
      BY <1>0, <2>1
    <2>5. WorkersTypes'
      BY <2>1, <2>2, <2>3, <2>4 DEF WorkersTypes, WorkersInv, MoverFits
    <2>6. DrainsFit'
      BY <2>1, <2>2 DEF DrainsFit, StillFits, ToCome, Waiting
    <2> QED BY <2>1, <2>5, <2>6, SyncKept DEF WorkersInv
  <1>6. CASE UNCHANGED workersVars
    <2>1. WorkersTypes' /\ DrainsFit'
      BY <1>6 DEF workersVars, WorkersInv, WorkersTypes, DrainsFit, MoverFits, StillFits, ToCome, Waiting
    <2> QED BY <1>6, <2>1, SyncKept DEF workersVars, WorkersInv
  <1> QED BY <1>1, <1>2, <1>3, <1>4, <1>5, <1>6, CommitStep, PlanStep, TxReadStep DEF WorkersNext

(* The inductive invariant holds throughout. *)
LEMMA WorkersInvariant == WorkersSpec => []WorkersInv
  <1> QED BY WorkersInitInv, WorkersStep, PTL DEF WorkersSpec

(* The types the invariant gives. *)
LEMMA WorkersTyped == WorkersInv => WorkersTypeOK
  <1> SUFFICES ASSUME WorkersInv PROVE WorkersTypeOK
    OBVIOUS
  <1>1. ASSUME NEW m \in MoveCalls
        PROVE  /\ mover[m].drains \in WorkerIds \cup {NoWorker}
               /\ mover[m].pc \in {"read", "write"} =>
                    mover[m].bot \in BotIds /\ mover[m].to \in WorkerIds \cup {NoWorker, Stranger}
               /\ mover[m].pc = "write" =>
                    mover[m].from \in WorkerIds \cup {NoWorker} /\ mover[m].from # mover[m].to
    <2>1. MoverFits(mover[m]) /\ mover[m] \in MoverRecords
      BY DEF WorkersInv, WorkersTypes
    <2> QED BY <2>1 DEF MoverFits, MoverRecords
  <1> QED BY <1>1 DEF WorkersInv, WorkersTypes, WorkersTypeOK

(* worker-assignment.ts:5-8: WorkerAssignment and the cached counter agree *)
(* with Bot.workerGroupId through any overlap and any failure of moves and *)
(* drains of different bots, for any number of workers, bots and calls.    *)
THEOREM InSyncUnlessDriftedTheorem == WorkersSpec => []InSyncUnlessDrifted
  <1>1. WorkersInv => InSyncUnlessDrifted
    BY DEF WorkersInv
  <1> QED BY <1>1, WorkersInvariant, PTL

(* drain.ts:18-21: in every state without drift a bot of a draining worker *)
(* that gets no target is stranded because every other online worker is    *)
(* full, for any number of workers, bots, capacities and calls.            *)
THEOREM StrandedMeansFullTheorem == WorkersSpec => []StrandedMeansFull
  <1>1. WorkersInv => StrandedMeansFull
    BY StrandedFull DEF WorkersInv, WorkersTypes
  <1> QED BY <1>1, WorkersInvariant, PTL

(* drain.ts:45: a drain that nobody disturbs after its snapshot fills no *)
(* worker beyond maxBots, for any number of workers, bots and concurrent *)
(* calls.                                                                *)
THEOREM DrainFitsTheorem == WorkersSpec => DrainFits
  <1> DEFINE A == \A m \in MoveCalls :
               /\ mover[m].pc = "write" /\ mover[m].drains # NoWorker /\ mover[m].quiet
               /\ group' # group /\ mover'[m] # mover[m]
               => currentBots'[mover[m].to] <= MaxBots[mover[m].to]
  <1>1. WorkersInv /\ [WorkersNext]_workersVars => [A]_workersVars
    <2> SUFFICES ASSUME WorkersInv, WorkersNext, NEW m \in MoveCalls, mover[m].pc = "write",
                        mover[m].drains # NoWorker, mover[m].quiet, group' # group
                 PROVE  currentBots'[mover[m].to] <= MaxBots[mover[m].to]
      OBVIOUS
    <2>1. PICK n \in MoveCalls : TxCommit(n)
      BY DEF WorkersNext, BeginMove, BeginDrain, TxRead, TxAbort, PlanDrain, Recheck, SetOffline, RestartWorker
    <2>2. currentBots' = [w \in WorkerIds |-> currentBots[w] - (IF w = mover[n].from THEN 1 ELSE 0)
                                                            + (IF w = mover[n].to THEN 1 ELSE 0)]
      BY <2>1 DEF TxCommit
    <2> DEFINE x == mover[m]
               t == x.to
    <2>3. MoverFits(x) /\ currentBots \in [WorkerIds -> Int] /\ StillFits(x, currentBots)
      BY DEF WorkersInv, WorkersTypes, DrainsFit
    <2>4. t \in WorkerIds /\ currentBots[t] + 1 <= MaxBots[t]
      BY <2>3, RoomForNext
    <2> HIDE DEF t, x
    <2>5. currentBots[t] \in Int /\ MaxBots[t] \in Nat
      BY <2>3, <2>4, EffectiveMaxNat
    <2>6. currentBots'[t] <= currentBots[t] + 1
      BY <2>2, <2>4, <2>5
    <2>7. currentBots'[t] \in Int
      BY <2>2, <2>4, <2>5
    <2>8. currentBots'[t] <= MaxBots[t]
      BY <2>4, <2>5, <2>6, <2>7
    <2> QED BY <2>8 DEF t, x
  <1>2. WorkersInv /\ [WorkersNext]_workersVars =>
          [\A m \in MoveCalls :
             /\ mover[m].pc = "write" /\ mover[m].drains # NoWorker /\ mover[m].quiet
             /\ group' # group /\ mover'[m] # mover[m]
             => currentBots'[mover[m].to] <= MaxBots[mover[m].to]]_workersVars
    BY <1>1
  <1> QED BY <1>2, WorkersInvariant, PTL DEF WorkersSpec, DrainFits

-----------------------------------------------------------------------------
(* BotActions: calls, jobs and disturbances *)

(* The progress of a call, and what it may say of itself. *)
Pcs == {"idle", "check", "adapter", "bot1", "health1", "run", "fresh", "create", "delete", "bot2",
        "health2", "finished"}
ProcStates == {"none", "stopped", "running"}
ActRecords ==
  [pc : Pcs, by : {"admin", "customer", "job"}, op : {"start", "stop", "restart"},
   bot : FleetBots \cup {""}, on : Modes, sound : BOOLEAN, early : BOOLEAN, dep : Releases \cup {""}]
JobRecords == [bot : FleetBots, dep : Releases \cup {""}]

BotTypes ==
  /\ bstat \in [FleetBots -> BotStatuses] /\ hstat \in [FleetBots -> BotStatuses]
  /\ proc \in [FleetBots -> [Modes -> ProcStates]] /\ mode \in [FleetBots -> Modes]
  /\ maintenance \in BOOLEAN /\ parked \subseteq FleetBots
  /\ act \in [ActionCalls -> ActRecords] /\ jobs \subseteq JobRecords

(* A call that is past its checks, and what it does to the process. *)
Acting(x) == x.pc \notin {"idle", "check"}
Outcome(op) == IF op = "stop" THEN "none" ELSE "running"

(* What a call has achieved when it is at x.pc, if nothing disturbed it. *)
Achieved(x) ==
  /\ x.pc # "adapter" => x.on = mode[x.bot]
  /\ x.pc \in {"health2", "finished"} => bstat[x.bot] = Final(x.op)
  /\ x.pc = "finished" => hstat[x.bot] = Final(x.op)
  /\ x.pc \in {"bot2", "health2", "finished"} => proc[x.bot][x.on] = Outcome(x.op)

(* A call is where its operation takes it. *)
CallFits(x) ==
  /\ x.pc # "idle" => x.bot \in FleetBots
  /\ x.pc = "fresh" => x.op = "restart"
  /\ x.pc = "create" => x.op # "stop"
  /\ x.pc = "delete" => x.op = "stop"
  /\ x.sound /\ Acting(x) => Achieved(x)

(* No other call acts on the bot of an undisturbed one. *)
Alone(c) ==
  act[c].sound /\ Acting(act[c]) =>
    \A d \in ActionCalls \ {c} : Acting(act[d]) => act[d].bot # act[c].bot

CallsFit == \A c \in ActionCalls : CallFits(act[c]) /\ Alone(c)

ActionsInv == BotTypes /\ CallsFit /\ ParkedStaysDown /\ MaintenanceHolds

(* A call that has not begun. *)
LEMMA ActIdleRecord == ActIdle \in ActRecords /\ ActIdle.pc = "idle"
  BY DEF ActIdle, ActRecords, Pcs, Modes

(* No call in progress, no bot parked, no maintenance. *)
LEMMA ActionsInitInv == BotActionsInit => ActionsInv
  <1> SUFFICES ASSUME BotActionsInit PROVE ActionsInv
    OBVIOUS
  <1>1. [pm2 |-> "none", docker |-> "none"] \in [Modes -> ProcStates]
    BY DEF Modes, ProcStates
  <1>2. BotTypes
    BY <1>1, ActIdleRecord DEF BotActionsInit, BotTypes, BotStatuses, Modes
  <1>3. \A c \in ActionCalls : act[c].pc = "idle"
    BY ActIdleRecord DEF BotActionsInit
  <1>4. parked = {} /\ maintenance = FALSE
    BY DEF BotActionsInit
  <1> QED BY <1>2, <1>3, <1>4
    DEF ActionsInv, CallsFit, CallFits, Alone, Acting, ParkedStaysDown, MaintenanceHolds

(* What the invariant says of one call. *)
LEMMA CallFacts ==
  ASSUME ActionsInv, NEW c \in ActionCalls
  PROVE  /\ act[c] \in ActRecords /\ CallFits(act[c]) /\ Alone(c)
         /\ (Acting(act[c]) => act[c].bot \in FleetBots) /\ act[c].on \in Modes
  BY DEF ActionsInv, BotTypes, CallsFit, CallFits, Acting, ActRecords

(* A call that acts on its bot takes a step and touches nothing of other bots. *)
LEMMA CallProgress ==
  ASSUME ActionsInv, NEW c \in ActionCalls, Acting(act[c]),
         NEW y \in ActRecords, act' = [act EXCEPT ![c] = y],
         y.pc # "check",
         y.pc # "idle" => y.bot = act[c].bot /\ y.by = act[c].by /\ y.early = act[c].early,
         y.sound /\ y.pc # "idle" => act[c].sound,
         bstat' \in [FleetBots -> BotStatuses], hstat' \in [FleetBots -> BotStatuses],
         proc' \in [FleetBots -> [Modes -> ProcStates]], jobs' \subseteq JobRecords,
         \A b \in FleetBots \ {act[c].bot} :
           bstat'[b] = bstat[b] /\ hstat'[b] = hstat[b] /\ proc'[b] = proc[b],
         UNCHANGED <<mode, maintenance, parked>>, CallFits(act[c])'
  PROVE  ActionsInv'
  <1> DEFINE b == act[c].bot
  <1>1. act'[c] = y /\ \A d \in ActionCalls \ {c} : act'[d] = act[d]
    BY DEF ActionsInv, BotTypes
  <1>2. BotTypes'
    BY DEF ActionsInv, BotTypes
  <1>3. b \in FleetBots /\ Acting(act[c])
    BY CallFacts
  <1>4. ASSUME NEW d \in ActionCalls \ {c} PROVE CallFits(act[d])'
    <2>1. CallFits(act[d]) /\ Alone(d) /\ act'[d] = act[d] /\ act[d] \in ActRecords
      BY <1>1, CallFacts
    <2>2. act[d].sound /\ Acting(act[d]) => act[d].bot \in FleetBots \ {b}
      BY <1>3, <2>1, CallFacts DEF Alone
    <2>3. act[d].sound /\ Acting(act[d]) => Achieved(act[d])'
      BY <2>1, <2>2 DEF CallFits, Achieved
    <2> QED BY <2>1, <2>3 DEF CallFits, Acting
  <1>5. ASSUME NEW d \in ActionCalls PROVE Alone(d)'
    <2>1. Alone(d) /\ Alone(c)
      BY CallFacts
    <2> QED BY <1>1, <1>3, <2>1 DEF Alone, Acting
  <1>6. ParkedStaysDown'
    <2>1. ASSUME NEW k \in parked PROVE k # b /\ k \in FleetBots
      BY <1>3 DEF ActionsInv, ParkedStaysDown, InProgress, Acting, BotTypes
    <2>2. ASSUME NEW k \in parked PROVE InProgress(k)' = {}
      <3>1. InProgress(k) = {}
        BY DEF ActionsInv, ParkedStaysDown
      <3> QED BY <1>1, <2>1, <3>1 DEF InProgress
    <2>3. ASSUME NEW k \in parked PROVE bstat'[k] = "offline" /\ proc'[k][mode'[k]] = "none"
      BY <2>1 DEF ActionsInv, ParkedStaysDown
    <2> QED BY <2>2, <2>3 DEF ParkedStaysDown
  <1>7. MaintenanceHolds'
    BY <1>1, <1>3 DEF ActionsInv, MaintenanceHolds, Acting
  <1> QED BY <1>1, <1>2, <1>4, <1>5, <1>6, <1>7 DEF ActionsInv, CallsFit

(* Moving on changes nothing else of a call. *)
LEMMA PcRecord ==
  ASSUME NEW x \in ActRecords, NEW p \in Pcs
  PROVE  LET y == [x EXCEPT !.pc = p] IN
         /\ y \in ActRecords /\ y.pc = p /\ y.by = x.by /\ y.op = x.op /\ y.bot = x.bot
         /\ y.on = x.on /\ y.sound = x.sound /\ y.early = x.early
  BY DEF ActRecords

(* What a disturbance leaves of a call. *)
LEMMA DisturbedRecord ==
  ASSUME ActionsInv, NEW b, NEW d \in ActionCalls
  PROVE  LET y == Disturbed(b)[d] IN
         /\ y \in ActRecords /\ y.pc = act[d].pc /\ y.by = act[d].by /\ y.op = act[d].op
         /\ y.bot = act[d].bot /\ y.on = act[d].on /\ y.early = act[d].early
         /\ y.sound => act[d].sound /\ (Acting(act[d]) => act[d].bot # b)
  <1> DEFINE x == act[d]
             z == [x EXCEPT !.sound = FALSE]
  <1>1. x \in ActRecords
    BY CallFacts
  <1>2. Disturbed(b)[d] = IF d \in InProgress(b) THEN z ELSE x
    BY DEF Disturbed
  <1>3. /\ z \in ActRecords /\ z.pc = x.pc /\ z.by = x.by /\ z.op = x.op /\ z.bot = x.bot
        /\ z.on = x.on /\ z.early = x.early /\ ~z.sound
    <2> HIDE DEF x
    <2> QED BY <1>1 DEF ActRecords
  <1>4. d \notin InProgress(b) => (Acting(x) => x.bot # b)
    BY DEF InProgress, Acting
  <1> HIDE DEF z, x
  <1> QED BY <1>1, <1>2, <1>3, <1>4 DEF x

(* Something touches bot b, and the calls that act on it are disturbed. *)
LEMMA Disturbance ==
  ASSUME ActionsInv, NEW b \in FleetBots, act' = Disturbed(b),
         bstat' \in [FleetBots -> BotStatuses], hstat' \in [FleetBots -> BotStatuses],
         proc' \in [FleetBots -> [Modes -> ProcStates]], mode' \in [FleetBots -> Modes],
         \A k \in FleetBots \ {b} :
           bstat'[k] = bstat[k] /\ hstat'[k] = hstat[k] /\ proc'[k] = proc[k] /\ mode'[k] = mode[k],
         parked' \subseteq parked,
         b \in parked' => bstat'[b] = "offline" /\ proc'[b][mode'[b]] = "none",
         UNCHANGED <<maintenance, jobs>>
  PROVE  ActionsInv'
  <1>1. ASSUME NEW d \in ActionCalls
        PROVE  /\ act'[d] \in ActRecords /\ act'[d].pc = act[d].pc /\ act'[d].by = act[d].by
               /\ act'[d].op = act[d].op /\ act'[d].bot = act[d].bot /\ act'[d].on = act[d].on
               /\ act'[d].early = act[d].early
               /\ act'[d].sound => act[d].sound /\ (Acting(act[d]) => act[d].bot # b)
    BY DisturbedRecord
  <1>2. act' \in [ActionCalls -> ActRecords]
    BY <1>1 DEF Disturbed
  <1>3. BotTypes'
    BY <1>2 DEF ActionsInv, BotTypes
  <1>4. ASSUME NEW d \in ActionCalls PROVE CallFits(act[d])' /\ Alone(d)'
    <2>1. CallFits(act[d]) /\ Alone(d) /\ (Acting(act[d]) => act[d].bot \in FleetBots)
      BY CallFacts
    <2>2. Acting(act[d])' = Acting(act[d])
      BY <1>1 DEF Acting
    <2>3. act'[d].sound /\ Acting(act[d])' => Achieved(act[d])'
      <3> SUFFICES ASSUME act'[d].sound, Acting(act[d])' PROVE Achieved(act[d])'
        OBVIOUS
      <3>1. act[d].bot \in FleetBots \ {b} /\ Achieved(act[d])
        BY <1>1, <2>1, <2>2 DEF CallFits
      <3>2. /\ act'[d].pc = act[d].pc /\ act'[d].op = act[d].op /\ act'[d].bot = act[d].bot
            /\ act'[d].on = act[d].on
        BY <1>1
      <3> QED BY <3>1, <3>2 DEF Achieved
    <2>4. CallFits(act[d])'
      BY <1>1, <2>1, <2>3 DEF CallFits, Acting
    <2>5. Alone(d)'
      BY <1>1, <2>1 DEF Alone, Acting
    <2> QED BY <2>4, <2>5
  <1>5. ParkedStaysDown'
    <2> SUFFICES ASSUME NEW k \in parked'
                 PROVE  bstat'[k] = "offline" /\ proc'[k][mode'[k]] = "none" /\ InProgress(k)' = {}
      BY DEF ParkedStaysDown
    <2>1. k \in FleetBots /\ bstat[k] = "offline" /\ proc[k][mode[k]] = "none" /\ InProgress(k) = {}
      BY DEF ActionsInv, ParkedStaysDown, BotTypes
    <2>2. InProgress(k)' = {}
      BY <1>1, <2>1 DEF InProgress
    <2> QED BY <2>1, <2>2
  <1>6. MaintenanceHolds'
    BY <1>1 DEF ActionsInv, MaintenanceHolds
  <1> QED BY <1>3, <1>4, <1>5, <1>6 DEF ActionsInv, CallsFit

(* A call that acts on nothing begins to act on bot b. *)
LEMMA BeginStep ==
  ASSUME ActionsInv, NEW c \in ActionCalls, ~Acting(act[c]), NEW b \in FleetBots,
         NEW x \in ActRecords, Begins(c, b, x),
         maintenance /\ x.by # "admin" => x.early,
         parked' \subseteq parked, b \notin parked',
         UNCHANGED <<bstat, hstat, proc, mode, maintenance, jobs>>
  PROVE  ActionsInv'
  <1> DEFINE alone == InProgress(b) = {}
             y == [x EXCEPT !.bot = b, !.pc = "adapter", !.sound = alone]
  <1>1. alone \in BOOLEAN
    OBVIOUS
  <1>2. /\ y \in ActRecords /\ y.bot = b /\ y.pc = "adapter" /\ y.sound = alone /\ y.by = x.by
        /\ y.early = x.early
    <2> HIDE DEF alone
    <2> QED BY <1>1 DEF ActRecords, Pcs
  <1>3. act' = [Disturbed(b) EXCEPT ![c] = y]
    BY DEF Begins
  <1> HIDE DEF y
  <1>4. act'[c] = y /\ \A d \in ActionCalls \ {c} : act'[d] = Disturbed(b)[d]
    BY <1>3 DEF Disturbed
  <1>5. ASSUME NEW d \in ActionCalls \ {c}
        PROVE  /\ act'[d] \in ActRecords /\ act'[d].pc = act[d].pc /\ act'[d].by = act[d].by
               /\ act'[d].op = act[d].op /\ act'[d].bot = act[d].bot /\ act'[d].on = act[d].on
               /\ act'[d].early = act[d].early
               /\ act'[d].sound => act[d].sound /\ (Acting(act[d]) => act[d].bot # b)
    BY <1>4, DisturbedRecord
  <1>6. act' \in [ActionCalls -> ActRecords]
    BY <1>2, <1>3, <1>4, <1>5 DEF Disturbed
  <1>7. BotTypes'
    BY <1>6 DEF ActionsInv, BotTypes
  <1>8. CallFits(act[c])'
    BY <1>2, <1>4 DEF CallFits, Achieved
  <1>9. Alone(c)'
    <2>1. alone => \A d \in ActionCalls : Acting(act[d]) => act[d].bot # b
      BY DEF InProgress, Acting
    <2> QED BY <1>2, <1>4, <1>5, <2>1 DEF Alone, Acting
  <1>10. ASSUME NEW d \in ActionCalls \ {c} PROVE CallFits(act[d])' /\ Alone(d)'
    <2>1. CallFits(act[d]) /\ Alone(d) /\ (Acting(act[d]) => act[d].bot \in FleetBots)
      BY CallFacts
    <2>2. Acting(act[d])' = Acting(act[d])
      BY <1>5 DEF Acting
    <2>3. act'[d].sound /\ Acting(act[d])' => Achieved(act[d])'
      BY <1>5, <2>1, <2>2 DEF CallFits, Achieved
    <2>4. CallFits(act[d])'
      BY <1>5, <2>1, <2>3 DEF CallFits, Acting
    <2>5. Alone(d)'
      BY <1>2, <1>4, <1>5, <2>1 DEF Alone, Acting
    <2> QED BY <2>4, <2>5
  <1>11. ParkedStaysDown'
    <2> SUFFICES ASSUME NEW k \in parked'
                 PROVE  bstat'[k] = "offline" /\ proc'[k][mode'[k]] = "none" /\ InProgress(k)' = {}
      BY DEF ParkedStaysDown
    <2>1. k \in FleetBots /\ bstat[k] = "offline" /\ proc[k][mode[k]] = "none" /\ InProgress(k) = {} /\ k # b
      BY DEF ActionsInv, ParkedStaysDown, BotTypes
    <2>2. InProgress(k)' = {}
      BY <1>2, <1>4, <1>5, <2>1 DEF InProgress
    <2> QED BY <2>1, <2>2
  <1>12. MaintenanceHolds'
    BY <1>2, <1>4, <1>5 DEF ActionsInv, MaintenanceHolds
  <1> QED BY <1>7, <1>8, <1>9, <1>10, <1>11, <1>12 DEF ActionsInv, CallsFit

(* A call that acts on nothing afterwards: it ended, or is a job that checks. *)
LEMMA IdleStep ==
  ASSUME ActionsInv, NEW c \in ActionCalls, NEW y \in ActRecords, act' = [act EXCEPT ![c] = y],
         ~Acting(y), y.pc # "idle" => y.bot \in FleetBots /\ ~maintenance,
         UNCHANGED <<bstat, hstat, proc, mode, maintenance>>, jobs' \subseteq JobRecords,
         parked' \subseteq FleetBots,
         \A k \in parked' \ parked :
           bstat[k] = "offline" /\ proc[k][mode[k]] = "none" /\ InProgress(k) \subseteq {c}
  PROVE  ActionsInv'
  <1>1. act'[c] = y /\ \A d \in ActionCalls \ {c} : act'[d] = act[d]
    BY DEF ActionsInv, BotTypes
  <1>2. BotTypes'
    BY DEF ActionsInv, BotTypes
  <1>3. CallFits(act[c])' /\ Alone(c)'
    BY <1>1 DEF CallFits, Alone, Acting
  <1>4. ASSUME NEW d \in ActionCalls \ {c} PROVE CallFits(act[d])' /\ Alone(d)'
    <2>1. CallFits(act[d]) /\ Alone(d) /\ act'[d] = act[d]
      BY <1>1, CallFacts
    <2>2. Achieved(act[d])' = Achieved(act[d])
      BY <2>1 DEF Achieved
    <2>3. CallFits(act[d])'
      BY <2>1, <2>2 DEF CallFits, Acting
    <2>4. Alone(d)'
      BY <1>1, <2>1 DEF Alone, Acting
    <2> QED BY <2>3, <2>4
  <1>5. ASSUME NEW k \in parked'
        PROVE  bstat[k] = "offline" /\ proc[k][mode[k]] = "none" /\ InProgress(k) \subseteq {c}
    BY DEF ActionsInv, ParkedStaysDown
  <1>6. ASSUME NEW k \in parked' PROVE InProgress(k)' = {}
    BY <1>1, <1>5 DEF InProgress, Acting
  <1>7. ParkedStaysDown'
    BY <1>5, <1>6 DEF ParkedStaysDown
  <1>8. MaintenanceHolds'
    BY <1>1 DEF ActionsInv, MaintenanceHolds, Acting
  <1> QED BY <1>1, <1>2, <1>3, <1>4, <1>7, <1>8 DEF ActionsInv, CallsFit

(* What a supervisor does to a process touches no other bot. *)
LEMMA SetProcFacts ==
  ASSUME ActionsInv, NEW c \in ActionCalls, Acting(act[c]), NEW s \in ProcStates, SetProc(c, s)
  PROVE  /\ proc' \in [FleetBots -> [Modes -> ProcStates]]
         /\ proc'[act[c].bot][act[c].on] = s
         /\ \A b \in FleetBots \ {act[c].bot} : proc'[b] = proc[b]
  <1> DEFINE b == act[c].bot
             m == act[c].on
  <1>1. b \in FleetBots /\ m \in Modes /\ proc \in [FleetBots -> [Modes -> ProcStates]]
    BY CallFacts DEF ActionsInv, BotTypes
  <1>2. proc' = [proc EXCEPT ![b][m] = s]
    BY DEF SetProc
  <1> HIDE DEF b, m
  <1>3. /\ proc' \in [FleetBots -> [Modes -> ProcStates]] /\ proc'[b][m] = s
        /\ \A k \in FleetBots \ {b} : proc'[k] = proc[k]
    BY <1>1, <1>2
  <1> QED BY <1>3 DEF b, m

(* A call moves on in the supervisor, with or without effect on its process. *)
LEMMA AdvanceStep ==
  ASSUME ActionsInv, NEW c \in ActionCalls, Acting(act[c]), act[c].pc # "adapter",
         NEW p \in Pcs \ {"idle", "check", "adapter", "health2", "finished"}, Step(c, p),
         UNCHANGED proc \/ \E s \in ProcStates : SetProc(c, s),
         p = "fresh" => act[c].op = "restart", p = "create" => act[c].op # "stop",
         p = "delete" => act[c].op = "stop",
         p = "bot2" => proc'[act[c].bot][act[c].on] = Outcome(act[c].op),
         UNCHANGED <<bstat, hstat, mode, maintenance, parked, jobs>>
  PROVE  ActionsInv'
  <1> DEFINE x == act[c]
             y == [x EXCEPT !.pc = p]
  <1>1. /\ x \in ActRecords /\ CallFits(x) /\ x.bot \in FleetBots
    BY CallFacts
  <1>2. act' = [act EXCEPT ![c] = y] /\ act'[c] = y
    BY DEF Step, ActionsInv, BotTypes
  <1>3. /\ y \in ActRecords /\ y.pc = p /\ y.by = x.by /\ y.op = x.op /\ y.bot = x.bot
        /\ y.on = x.on /\ y.sound = x.sound /\ y.early = x.early
    <2> HIDE DEF x
    <2> QED BY <1>1, PcRecord
  <1>4. /\ proc' \in [FleetBots -> [Modes -> ProcStates]]
        /\ \A b \in FleetBots \ {act[c].bot} : proc'[b] = proc[b]
    BY SetProcFacts DEF ActionsInv, BotTypes
  <1> HIDE DEF y
  <1>5. CallFits(act[c])'
    <2>1. y.sound => Achieved(x)
      BY <1>1, <1>3 DEF CallFits
    <2>2. y.sound => y.on = mode[y.bot]
      BY <1>3, <2>1 DEF Achieved
    <2> QED BY <1>1, <1>2, <1>3, <2>2 DEF CallFits, Achieved
  <1>6. /\ bstat' \in [FleetBots -> BotStatuses] /\ hstat' \in [FleetBots -> BotStatuses]
        /\ jobs' \subseteq JobRecords
    BY DEF ActionsInv, BotTypes
  <1>7. /\ y.pc # "check" /\ y.bot = act[c].bot /\ y.by = act[c].by /\ y.early = act[c].early
        /\ y.sound => act[c].sound
    BY <1>3
  <1> QED BY <1>2, <1>3, <1>4, <1>5, <1>6, <1>7, CallProgress

(* An error ends the call, whatever it left of the process. *)
LEMMA ThrowStep ==
  ASSUME ActionsInv, NEW c \in ActionCalls, Acting(act[c]), act' = [act EXCEPT ![c] = ActIdle],
         UNCHANGED proc \/ \E s \in ProcStates : SetProc(c, s),
         UNCHANGED <<bstat, hstat, mode, maintenance, parked, jobs>>
  PROVE  ActionsInv'
  <1>1. /\ proc' \in [FleetBots -> [Modes -> ProcStates]]
        /\ \A b \in FleetBots \ {act[c].bot} : proc'[b] = proc[b]
    BY SetProcFacts DEF ActionsInv, BotTypes
  <1>2. /\ bstat' \in [FleetBots -> BotStatuses] /\ hstat' \in [FleetBots -> BotStatuses]
        /\ jobs' \subseteq JobRecords
    BY DEF ActionsInv, BotTypes
  <1>3. act'[c] = ActIdle
    BY DEF ActionsInv, BotTypes
  <1>4. CallFits(act[c])'
    BY <1>3, ActIdleRecord DEF CallFits, Acting
  <1> QED BY <1>1, <1>2, <1>4, ActIdleRecord, CallProgress

(* An error that is ignored: the call goes on, but is sound no more. *)
LEMMA IgnoredStep ==
  ASSUME ActionsInv, NEW c \in ActionCalls, Acting(act[c]),
         act' = [act EXCEPT ![c].pc = "bot2", ![c].sound = FALSE],
         UNCHANGED proc \/ \E s \in ProcStates : SetProc(c, s),
         UNCHANGED <<bstat, hstat, mode, maintenance, parked, jobs>>
  PROVE  ActionsInv'
  <1> DEFINE x == act[c]
             y == [x EXCEPT !.pc = "bot2", !.sound = FALSE]
  <1>1. x \in ActRecords /\ CallFits(x) /\ x.bot \in FleetBots
    BY CallFacts
  <1>2. act' = [act EXCEPT ![c] = y] /\ act'[c] = y
    BY <1>1 DEF ActionsInv, BotTypes, ActRecords
  <1>3. /\ y \in ActRecords /\ y.pc = "bot2" /\ y.by = x.by /\ y.bot = x.bot /\ y.sound = FALSE
        /\ y.early = x.early
    <2> HIDE DEF x
    <2> QED BY <1>1 DEF ActRecords, Pcs
  <1> HIDE DEF y
  <1>4. /\ proc' \in [FleetBots -> [Modes -> ProcStates]]
        /\ \A b \in FleetBots \ {act[c].bot} : proc'[b] = proc[b]
    BY SetProcFacts DEF ActionsInv, BotTypes
  <1>5. CallFits(act[c])'
    BY <1>1, <1>2, <1>3 DEF CallFits
  <1>6. /\ bstat' \in [FleetBots -> BotStatuses] /\ hstat' \in [FleetBots -> BotStatuses]
        /\ jobs' \subseteq JobRecords
    BY DEF ActionsInv, BotTypes
  <1>7. /\ y.pc # "check" /\ y.bot = act[c].bot /\ y.by = act[c].by /\ y.early = act[c].early
        /\ ~y.sound
    BY <1>3
  <1> QED BY <1>2, <1>3, <1>4, <1>5, <1>6, <1>7, CallProgress

(* bot-actions.ts: the adapter of the mode of the bot's worker. *)
LEMMA ChooseAdapterStep ==
  ASSUME ActionsInv, NEW c \in ActionCalls, ChooseAdapter(c)
  PROVE  ActionsInv'
  <1> DEFINE x == act[c]
             m == mode[x.bot]
             y == [x EXCEPT !.pc = "bot1", !.on = m]
  <1>1. Acting(x) /\ x.pc = "adapter"
    BY DEF ChooseAdapter, Acting
  <1>2. x \in ActRecords /\ CallFits(x) /\ x.bot \in FleetBots
    BY <1>1, CallFacts
  <1>3. m \in Modes
    BY <1>2 DEF ActionsInv, BotTypes
  <1>4. act' = [act EXCEPT ![c] = y] /\ act'[c] = y
    BY <1>2 DEF ChooseAdapter, ActionsInv, BotTypes, ActRecords
  <1>5. /\ y \in ActRecords /\ y.pc = "bot1" /\ y.by = x.by /\ y.bot = x.bot /\ y.on = m
        /\ y.sound = x.sound /\ y.early = x.early
    <2> HIDE DEF x, m
    <2> QED BY <1>2, <1>3 DEF ActRecords, Pcs
  <1> HIDE DEF y
  <1>6. UNCHANGED <<bstat, hstat, proc, mode, maintenance, parked, jobs>>
    BY DEF ChooseAdapter, Stays
  <1>7. CallFits(act[c])'
    BY <1>2, <1>4, <1>5, <1>6 DEF CallFits, Achieved
  <1>8. /\ bstat' \in [FleetBots -> BotStatuses] /\ hstat' \in [FleetBots -> BotStatuses]
        /\ proc' \in [FleetBots -> [Modes -> ProcStates]] /\ jobs' \subseteq JobRecords
    BY <1>6 DEF ActionsInv, BotTypes
  <1>9. /\ y.pc # "check" /\ y.bot = act[c].bot /\ y.by = act[c].by /\ y.early = act[c].early
        /\ y.sound = act[c].sound
    BY <1>5
  <1> QED BY <1>1, <1>4, <1>5, <1>6, <1>7, <1>8, <1>9, CallProgress

(* A status that is written is a status. *)
LEMMA StatusTypes ==
  ASSUME NEW op
  PROVE  First(op) \in BotStatuses /\ Final(op) \in BotStatuses
  BY DEF First, Final, BotStatuses

(* setStatus of both adapters, its first write: Bot.status. *)
LEMMA SetBotStatusStep ==
  ASSUME ActionsInv, NEW c \in ActionCalls, SetBotStatus(c)
  PROVE  ActionsInv'
  <1> DEFINE x == act[c]
             p == IF x.pc = "bot1" THEN "health1" ELSE "health2"
             s == IF x.pc = "bot1" THEN First(x.op) ELSE Final(x.op)
             y == [x EXCEPT !.pc = p]
  <1>1. Acting(x) /\ x.pc \in {"bot1", "bot2"}
    BY DEF SetBotStatus, Acting
  <1>2. x \in ActRecords /\ CallFits(x) /\ x.bot \in FleetBots
    BY <1>1, CallFacts
  <1>3. p \in Pcs \ {"idle", "check"} /\ s \in BotStatuses
    BY StatusTypes DEF Pcs
  <1>4. act' = [act EXCEPT ![c] = y] /\ act'[c] = y /\ bstat' = [bstat EXCEPT ![x.bot] = s]
    BY DEF SetBotStatus, Step, ActionsInv, BotTypes
  <1>5. /\ y \in ActRecords /\ y.pc = p /\ y.by = x.by /\ y.op = x.op /\ y.bot = x.bot
        /\ y.on = x.on /\ y.sound = x.sound /\ y.early = x.early
    <2> HIDE DEF x, p
    <2> QED BY <1>2, <1>3, PcRecord
  <1>6. /\ x.pc = "bot1" => p = "health1"
        /\ x.pc = "bot2" => p = "health2" /\ s = Final(x.op)
    OBVIOUS
  <1>7. UNCHANGED <<hstat, proc, mode, maintenance, parked, jobs>>
    BY DEF SetBotStatus, Stays
  <1> HIDE DEF y, p, s
  <1>8. /\ bstat' \in [FleetBots -> BotStatuses] /\ hstat' \in [FleetBots -> BotStatuses]
        /\ proc' \in [FleetBots -> [Modes -> ProcStates]] /\ jobs' \subseteq JobRecords
        /\ bstat'[x.bot] = s /\ \A b \in FleetBots \ {x.bot} : bstat'[b] = bstat[b]
    BY <1>2, <1>3, <1>4, <1>7 DEF ActionsInv, BotTypes
  <1>9. CallFits(act[c])'
    <2>1. y.sound => Achieved(x)
      BY <1>1, <1>2, <1>5 DEF CallFits
    <2>2. y.sound => Achieved(act[c])'
      BY <1>1, <1>4, <1>5, <1>6, <1>7, <1>8, <2>1 DEF Achieved
    <2> QED BY <1>1, <1>2, <1>4, <1>5, <1>6, <2>2 DEF CallFits
  <1>10. /\ y.pc # "check" /\ y.bot = act[c].bot /\ y.by = act[c].by /\ y.early = act[c].early
         /\ y.sound = act[c].sound
    BY <1>3, <1>5
  <1> QED BY <1>1, <1>4, <1>5, <1>7, <1>8, <1>9, <1>10, CallProgress

(* setStatus of both adapters, its second write: BotHealth.status. *)
LEMMA SetHealthStatusStep ==
  ASSUME ActionsInv, NEW c \in ActionCalls, SetHealthStatus(c)
  PROVE  ActionsInv'
  <1> DEFINE x == act[c]
             p == IF x.pc = "health1" THEN "run" ELSE "finished"
             s == IF x.pc = "health1" THEN First(x.op) ELSE Final(x.op)
             y == [x EXCEPT !.pc = p]
  <1>1. Acting(x) /\ x.pc \in {"health1", "health2"}
    BY DEF SetHealthStatus, Acting
  <1>2. x \in ActRecords /\ CallFits(x) /\ x.bot \in FleetBots
    BY <1>1, CallFacts
  <1>3. p \in Pcs \ {"idle", "check"} /\ s \in BotStatuses
    BY StatusTypes DEF Pcs
  <1>4. act' = [act EXCEPT ![c] = y] /\ act'[c] = y /\ hstat' = [hstat EXCEPT ![x.bot] = s]
    BY DEF SetHealthStatus, Step, ActionsInv, BotTypes
  <1>5. /\ y \in ActRecords /\ y.pc = p /\ y.by = x.by /\ y.op = x.op /\ y.bot = x.bot
        /\ y.on = x.on /\ y.sound = x.sound /\ y.early = x.early
    <2> HIDE DEF x, p
    <2> QED BY <1>2, <1>3, PcRecord
  <1>6. /\ x.pc = "health1" => p = "run"
        /\ x.pc = "health2" => p = "finished" /\ s = Final(x.op)
    OBVIOUS
  <1>7. UNCHANGED <<bstat, proc, mode, maintenance, parked, jobs>>
    BY DEF SetHealthStatus, Stays
  <1> HIDE DEF y, p, s
  <1>8. /\ bstat' \in [FleetBots -> BotStatuses] /\ hstat' \in [FleetBots -> BotStatuses]
        /\ proc' \in [FleetBots -> [Modes -> ProcStates]] /\ jobs' \subseteq JobRecords
        /\ hstat'[x.bot] = s /\ \A b \in FleetBots \ {x.bot} : hstat'[b] = hstat[b]
    BY <1>2, <1>3, <1>4, <1>7 DEF ActionsInv, BotTypes
  <1>9. CallFits(act[c])'
    <2>1. y.sound => Achieved(x)
      BY <1>1, <1>2, <1>5 DEF CallFits
    <2>2. y.sound => Achieved(act[c])'
      BY <1>1, <1>4, <1>5, <1>6, <1>7, <1>8, <2>1 DEF Achieved
    <2> QED BY <1>1, <1>2, <1>4, <1>5, <1>6, <2>2 DEF CallFits
  <1>10. /\ y.pc # "check" /\ y.bot = act[c].bot /\ y.by = act[c].by /\ y.early = act[c].early
         /\ y.sound = act[c].sound
    BY <1>3, <1>5
  <1> QED BY <1>1, <1>4, <1>5, <1>7, <1>8, <1>9, <1>10, CallProgress

(* The steps of the PM2 and Docker adapters. *)
LEMMA SupervisorStep ==
  ASSUME ActionsInv, NEW c \in ActionCalls,
         \/ Pm2Start(c) \/ Pm2Stop(c) \/ DeleteProcess(c) \/ RestartProcess(c)
         \/ RemoveContainer(c) \/ CreateContainer(c) \/ DockerStop(c)
  PROVE  ActionsInv'
  <1> DEFINE fixed == UNCHANGED <<bstat, hstat, mode, maintenance, parked, jobs>>
             touched == UNCHANGED proc \/ \E s \in ProcStates : SetProc(c, s)
             running == proc'[act[c].bot][act[c].on]
  <1>1. CallFits(act[c]) /\ act[c] \in ActRecords
    BY CallFacts
  <1>2. ASSUME NEW s \in ProcStates, SetProc(c, s), Acting(act[c]) PROVE running = s /\ touched
    BY <1>2, SetProcFacts
  <1>3. "none" \in ProcStates /\ "running" \in ProcStates /\ "stopped" \in ProcStates
    BY DEF ProcStates
  <1>4. {"bot2", "create", "delete", "fresh"} \subseteq
          Pcs \ {"idle", "check", "adapter", "health2", "finished"}
    BY DEF Pcs
  <1>5. CASE Pm2Start(c)
    <2>1. Acting(act[c]) /\ act[c].pc # "adapter" /\ fixed /\ Outcome(act[c].op) = "running"
      BY <1>1, <1>5 DEF Pm2Start, Acting, Stays, Untouched, CallFits, Outcome
    <2>2. CASE SetProc(c, "running") /\ Step(c, "bot2")
      BY <1>2, <1>3, <1>4, <2>1, <2>2, AdvanceStep
    <2>3. CASE Throws(c)
      BY <2>1, <2>3, ThrowStep DEF Throws
    <2> QED BY <1>5, <2>2, <2>3 DEF Pm2Start
  <1>6. CASE Pm2Stop(c)
    <2>1. Acting(act[c]) /\ act[c].pc # "adapter" /\ fixed /\ act[c].op = "stop"
      BY <1>6 DEF Pm2Stop, Acting, Stays, Untouched
    <2>2. CASE SetProc(c, "stopped") /\ Step(c, "delete")
      BY <1>2, <1>3, <1>4, <2>1, <2>2, AdvanceStep
    <2>3. CASE Throws(c)
      BY <2>1, <2>3, ThrowStep DEF Throws
    <2> QED BY <1>6, <2>2, <2>3 DEF Pm2Stop
  <1>7. CASE DeleteProcess(c)
    <2>1. Acting(act[c]) /\ act[c].pc # "adapter" /\ fixed /\ Outcome(act[c].op) = "none"
      BY <1>1, <1>7 DEF DeleteProcess, Acting, Stays, Untouched, CallFits, Outcome
    <2>2. CASE SetProc(c, "none") /\ Step(c, "bot2")
      BY <1>2, <1>3, <1>4, <2>1, <2>2, AdvanceStep
    <2>3. CASE UNCHANGED proc /\ act' = [act EXCEPT ![c].pc = "bot2", ![c].sound = FALSE]
      BY <2>1, <2>3, IgnoredStep
    <2> QED BY <1>7, <2>2, <2>3 DEF DeleteProcess
  <1>8. CASE RestartProcess(c)
    <2>1. /\ Acting(act[c]) /\ act[c].pc # "adapter" /\ fixed /\ act[c].op = "restart"
          /\ Outcome(act[c].op) = "running"
      BY <1>8 DEF RestartProcess, Acting, Stays, Untouched, Outcome
    <2>2. CASE SetProc(c, "running") /\ Step(c, "bot2")
      BY <1>2, <1>3, <1>4, <2>1, <2>2, AdvanceStep
    <2>3. CASE Step(c, "fresh") /\ (UNCHANGED proc \/ SetProc(c, "stopped"))
      BY <1>3, <1>4, <2>1, <2>3, AdvanceStep
    <2> QED BY <1>8, <2>2, <2>3 DEF RestartProcess
  <1>9. CASE RemoveContainer(c)
    <2>1. Acting(act[c]) /\ act[c].pc # "adapter" /\ fixed /\ act[c].op # "stop"
      BY <1>1, <1>9 DEF RemoveContainer, Acting, Stays, Untouched, CallFits
    <2>2. CASE Step(c, "create") /\ (UNCHANGED proc \/ SetProc(c, "none"))
      BY <1>3, <1>4, <2>1, <2>2, AdvanceStep
    <2>3. CASE Throws(c)
      BY <2>1, <2>3, ThrowStep DEF Throws
    <2> QED BY <1>9, <2>2, <2>3 DEF RemoveContainer
  <1>10. CASE CreateContainer(c)
    <2>1. Acting(act[c]) /\ act[c].pc # "adapter" /\ fixed /\ Outcome(act[c].op) = "running"
      BY <1>1, <1>10 DEF CreateContainer, Acting, Stays, Untouched, CallFits, Outcome
    <2>2. CASE SetProc(c, "running") /\ Step(c, "bot2")
      BY <1>2, <1>3, <1>4, <2>1, <2>2, AdvanceStep
    <2>3. CASE Throws(c)
      BY <2>1, <2>3, ThrowStep DEF Throws
    <2>4. CASE SetProc(c, "stopped") /\ act' = [act EXCEPT ![c] = ActIdle]
      BY <1>3, <2>1, <2>4, ThrowStep
    <2> QED BY <1>10, <2>2, <2>3, <2>4 DEF CreateContainer
  <1>11. CASE DockerStop(c)
    <2>1. /\ Acting(act[c]) /\ act[c].pc # "adapter" /\ fixed /\ act[c].op = "stop"
          /\ Outcome(act[c].op) = "none"
      BY <1>11 DEF DockerStop, Acting, Stays, Untouched, Outcome
    <2>2. CASE Running(c) = "none" /\ Step(c, "bot2") /\ UNCHANGED proc
      BY <1>4, <2>1, <2>2, AdvanceStep DEF Running
    <2>3. CASE Step(c, "delete") /\ (UNCHANGED proc \/ SetProc(c, "stopped"))
      BY <1>3, <1>4, <2>1, <2>3, AdvanceStep
    <2>4. CASE Throws(c)
      BY <2>1, <2>4, ThrowStep DEF Throws
    <2> QED BY <1>11, <2>2, <2>3, <2>4 DEF DockerStop
  <1> QED BY <1>5, <1>6, <1>7, <1>8, <1>9, <1>10, <1>11

(* The end of a call: a sound stop has achieved what parks the bot. *)
LEMMA FinishStep ==
  ASSUME ActionsInv, NEW c \in ActionCalls, FinishAction(c)
  PROVE  ActionsInv'
  <1> DEFINE x == act[c]
             b == x.bot
  <1>1. x.pc = "finished" /\ Acting(x)
    BY DEF FinishAction, Acting
  <1>2. CallFits(x) /\ Alone(c) /\ b \in FleetBots
    BY <1>1, CallFacts
  <1>3. /\ act' = [act EXCEPT ![c] = ActIdle]
        /\ UNCHANGED <<bstat, hstat, proc, mode, maintenance, jobs>>
    BY DEF FinishAction, Stays
  <1>4. parked' = parked \/ (x.op = "stop" /\ x.sound /\ parked' = parked \cup {b})
    BY DEF FinishAction
  <1>5. x.op = "stop" /\ x.sound =>
          bstat[b] = "offline" /\ proc[b][mode[b]] = "none" /\ InProgress(b) \subseteq {c}
    <2> SUFFICES ASSUME x.op = "stop", x.sound
                 PROVE  bstat[b] = "offline" /\ proc[b][mode[b]] = "none" /\ InProgress(b) \subseteq {c}
      OBVIOUS
    <2>1. Achieved(x)
      BY <1>1, <1>2 DEF CallFits
    <2>2. bstat[b] = "offline" /\ proc[b][mode[b]] = "none"
      BY <1>1, <2>1 DEF Achieved, Outcome, Final
    <2>3. InProgress(b) \subseteq {c}
      BY <1>1, <1>2 DEF Alone, Acting, InProgress
    <2> QED BY <2>2, <2>3
  <1>6. parked' \subseteq FleetBots /\ jobs' \subseteq JobRecords
    BY <1>2, <1>3, <1>4 DEF ActionsInv, BotTypes
  <1>7. \A k \in parked' \ parked :
          bstat[k] = "offline" /\ proc[k][mode[k]] = "none" /\ InProgress(k) \subseteq {c}
    BY <1>4, <1>5
  <1>8. ~Acting(ActIdle)
    BY ActIdleRecord DEF Acting
  <1> QED BY <1>3, <1>6, <1>7, <1>8, ActIdleRecord, IdleStep

(* The routes of admins and customers: a call begins, and the bot is not *)
(* parked any more.                                                      *)
LEMMA RequestStep ==
  ASSUME ActionsInv, NEW c \in ActionCalls, NEW b \in FleetBots,
         \/ \E op \in {"start", "stop", "restart"} : AdminActs(c, b, op)
         \/ CustomerRestarts(c, b)
  PROVE  ActionsInv'
  <1>1. ASSUME NEW op \in {"start", "stop", "restart"}, AdminActs(c, b, op) PROVE ActionsInv'
    <2> DEFINE x == [ActIdle EXCEPT !.op = op]
    <2>1. x \in ActRecords /\ x.by = "admin"
      BY ActIdleRecord DEF ActRecords, ActIdle
    <2>2. /\ ~Acting(act[c]) /\ Begins(c, b, x) /\ parked' = parked \ {b}
          /\ UNCHANGED <<bstat, hstat, proc, mode, maintenance, jobs>>
      BY <1>1 DEF AdminActs, Stays, Acting
    <2> HIDE DEF x
    <2> QED BY <2>1, <2>2, BeginStep
  <1>2. CASE CustomerRestarts(c, b)
    <2> DEFINE x == [ActIdle EXCEPT !.op = "restart", !.by = "customer"]
    <2>1. x \in ActRecords
      BY ActIdleRecord DEF ActRecords
    <2>2. /\ ~Acting(act[c]) /\ Begins(c, b, x) /\ parked' = parked \ {b} /\ ~maintenance
          /\ UNCHANGED <<bstat, hstat, proc, mode, maintenance, jobs>>
      BY <1>2 DEF CustomerRestarts, Stays, Acting
    <2> HIDE DEF x
    <2> QED BY <2>1, <2>2, BeginStep
  <1> QED BY <1>1, <1>2

(* ai-worker.ts:115-117: a job begins unless maintenance mode is on. *)
LEMMA JobBeginsStep ==
  ASSUME ActionsInv, NEW c \in ActionCalls, NEW j \in jobs, JobBegins(c, j)
  PROVE  ActionsInv'
  <1>1. j \in JobRecords /\ jobs' \subseteq JobRecords
    BY DEF ActionsInv, BotTypes, JobBegins
  <1>2. UNCHANGED <<bstat, hstat, proc, mode, maintenance, parked>> /\ act[c].pc = "idle"
    BY DEF JobBegins
  <1>3. parked' \subseteq FleetBots /\ parked' \ parked = {}
    BY <1>2 DEF ActionsInv, BotTypes
  <1>4. CASE maintenance
    <2>1. act' = act /\ act \in [ActionCalls -> ActRecords]
      BY <1>4 DEF JobBegins, ActionsInv, BotTypes
    <2>2. act' = [act EXCEPT ![c] = act[c]] /\ act[c] \in ActRecords /\ ~Acting(act[c])
      BY <1>2, <2>1 DEF Acting
    <2> QED BY <1>1, <1>2, <1>3, <2>2, IdleStep
  <1>5. CASE ~maintenance
    <2> DEFINE y == [ActIdle EXCEPT !.pc = "check", !.op = "restart", !.by = "job", !.bot = j.bot,
                                    !.dep = j.dep]
    <2>1. y \in ActRecords /\ y.pc = "check" /\ y.bot = j.bot /\ j.bot \in FleetBots
      BY <1>1, ActIdleRecord DEF ActRecords, JobRecords, Pcs
    <2>2. act' = [act EXCEPT ![c] = y]
      BY <1>5 DEF JobBegins
    <2> HIDE DEF y
    <2>3. ~Acting(y)
      BY <2>1 DEF Acting
    <2> QED BY <1>1, <1>2, <1>3, <1>5, <2>1, <2>2, <2>3, IdleStep
  <1> QED BY <1>4, <1>5

(* ai-worker.ts:119-131: a job acts on an online bot only, which is not a *)
(* parked one.                                                            *)
LEMMA JobChecksStep ==
  ASSUME ActionsInv, NEW c \in ActionCalls, JobChecks(c)
  PROVE  ActionsInv'
  <1> DEFINE x == act[c]
  <1>1. /\ x.pc = "check" /\ ~Acting(x)
        /\ UNCHANGED <<bstat, hstat, proc, mode, maintenance, parked, jobs>>
    BY DEF JobChecks, Stays, Acting
  <1>2. x \in ActRecords /\ x.bot \in FleetBots
    BY <1>1, CallFacts DEF CallFits
  <1>3. CASE bstat[x.bot] = "online" /\ workerUp[x.bot]
    <2>1. Begins(c, x.bot, x)
      BY <1>3 DEF JobChecks
    <2>2. x.bot \notin parked
      BY <1>3 DEF ActionsInv, ParkedStaysDown
    <2>3. maintenance /\ x.by # "admin" => x.early
      BY <1>1 DEF ActionsInv, MaintenanceHolds
    <2> QED BY <1>1, <1>2, <2>1, <2>2, <2>3, BeginStep
  <1>4. CASE ~(bstat[x.bot] = "online" /\ workerUp[x.bot])
    <2>1. act' = [act EXCEPT ![c] = ActIdle]
      BY <1>4 DEF JobChecks
    <2>2. ~Acting(ActIdle)
      BY ActIdleRecord DEF Acting
    <2>3. jobs' \subseteq JobRecords /\ parked' \subseteq FleetBots /\ parked' \ parked = {}
      BY <1>1 DEF ActionsInv, BotTypes
    <2> QED BY <1>1, <2>1, <2>2, <2>3, ActIdleRecord, IdleStep
  <1> QED BY <1>3, <1>4

(* A crash ends the call and puts a job back. *)
LEMMA CrashStep ==
  ASSUME ActionsInv, NEW c \in ActionCalls, CallCrash(c)
  PROVE  ActionsInv'
  <1>1. /\ act' = [act EXCEPT ![c] = ActIdle] /\ act[c].pc # "idle"
        /\ UNCHANGED <<bstat, hstat, proc, mode, maintenance, parked>>
    BY DEF CallCrash
  <1>2. [bot |-> act[c].bot, dep |-> act[c].dep] \in JobRecords
    BY <1>1, CallFacts DEF CallFits, ActRecords, JobRecords
  <1>3. jobs' \subseteq JobRecords /\ parked' \subseteq FleetBots /\ parked' \ parked = {}
    BY <1>1, <1>2 DEF CallCrash, ActionsInv, BotTypes
  <1>4. ~Acting(ActIdle)
    BY ActIdleRecord DEF Acting
  <1> QED BY <1>1, <1>3, <1>4, ActIdleRecord, IdleStep

(* Deployments leave bots and calls alone and queue jobs. *)
LEMMA DeployStep ==
  ASSUME ActionsInv, NEW r \in Releases,
         \/ DeployBegins(r) \/ DeployHooks(r) \/ DeployReads(r)
         \/ \E q \in SUBSET FleetBots : DeployQueues(r, q)
  PROVE  ActionsInv'
  <1>1. UNCHANGED <<bstat, hstat, proc, mode, maintenance, act, parked>>
    BY DEF DeployBegins, DeployHooks, DeployReads, DeployQueues
  <1>2. jobs' \subseteq JobRecords
    <2>1. ASSUME NEW q \in SUBSET FleetBots PROVE EnqueueStaggeredRestarts(q, r) \subseteq JobRecords
      <3>1. ASSUME NEW b \in q PROVE [bot |-> b, dep |-> r] \in JobRecords
        BY DEF JobRecords
      <3> HIDE DEF JobRecords
      <3> QED BY <3>1 DEF EnqueueStaggeredRestarts, ActionsInv, BotTypes
    <2> QED BY <2>1 DEF DeployBegins, DeployHooks, DeployReads, DeployQueues, ActionsInv, BotTypes
  <1>3. BotTypes' /\ CallsFit' /\ ParkedStaysDown' /\ MaintenanceHolds'
    BY <1>1, <1>2 DEF ActionsInv, BotTypes, CallsFit, CallFits, Alone, Acting, Achieved,
                      ParkedStaysDown, InProgress, MaintenanceHolds
  <1> QED BY <1>3 DEF ActionsInv

(* Switching maintenance mode marks the calls it finds in progress. *)
LEMMA MaintenanceStep ==
  ASSUME ActionsInv, NEW on \in BOOLEAN, SetMaintenanceMode(on)
  PROVE  ActionsInv'
  <1>1. UNCHANGED <<bstat, hstat, proc, mode, parked, jobs>> /\ maintenance' = on
    BY DEF SetMaintenanceMode
  <1>2. ASSUME NEW d \in ActionCalls
        PROVE  /\ act'[d] \in ActRecords /\ act'[d].pc = act[d].pc /\ act'[d].by = act[d].by
               /\ act'[d].op = act[d].op /\ act'[d].bot = act[d].bot /\ act'[d].on = act[d].on
               /\ act'[d].sound = act[d].sound /\ (on /\ act[d].pc # "idle" => act'[d].early)
    <2> DEFINE x == act[d]
               z == [x EXCEPT !.early = TRUE]
    <2>1. x \in ActRecords
      BY CallFacts
    <2>2. act'[d] = IF on /\ x.pc # "idle" THEN z ELSE x
      BY DEF SetMaintenanceMode
    <2>3. /\ z \in ActRecords /\ z.pc = x.pc /\ z.by = x.by /\ z.op = x.op /\ z.bot = x.bot
          /\ z.on = x.on /\ z.sound = x.sound /\ z.early
      <3> HIDE DEF x
      <3> QED BY <2>1 DEF ActRecords
    <2> HIDE DEF z, x
    <2> QED BY <2>1, <2>2, <2>3 DEF x
  <1>3. act' \in [ActionCalls -> ActRecords]
    BY <1>2 DEF SetMaintenanceMode
  <1>4. BotTypes'
    BY <1>1, <1>3 DEF ActionsInv, BotTypes
  <1>5. ASSUME NEW d \in ActionCalls PROVE CallFits(act[d])' /\ Alone(d)'
    <2>1. CallFits(act[d]) /\ Alone(d)
      BY CallFacts
    <2>2. Achieved(act[d])' = Achieved(act[d])
      BY <1>1, <1>2 DEF Achieved
    <2>3. CallFits(act[d])'
      BY <1>2, <2>1, <2>2 DEF CallFits, Acting
    <2>4. Alone(d)'
      BY <1>2, <2>1 DEF Alone, Acting
    <2> QED BY <2>3, <2>4
  <1>6. ParkedStaysDown'
    <2>1. ASSUME NEW k PROVE InProgress(k)' = InProgress(k)
      BY <1>2 DEF InProgress
    <2> QED BY <1>1, <2>1 DEF ActionsInv, ParkedStaysDown
  <1>7. MaintenanceHolds'
    BY <1>1, <1>2 DEF MaintenanceHolds
  <1> QED BY <1>4, <1>5, <1>6, <1>7 DEF ActionsInv, CallsFit

(* A move, an edit of the status and a death of the process. *)
LEMMA SurroundingsStep ==
  ASSUME ActionsInv, NEW b \in FleetBots,
         \/ MoveBot(b) \/ PatchStatus(b, "online") \/ \E m \in Modes : ProcessDies(b, m)
  PROVE  ActionsInv'
  <1>1. /\ bstat \in [FleetBots -> BotStatuses] /\ hstat \in [FleetBots -> BotStatuses]
        /\ proc \in [FleetBots -> [Modes -> ProcStates]] /\ mode \in [FleetBots -> Modes]
    BY DEF ActionsInv, BotTypes
  <1>2. CASE MoveBot(b)
    <2>1. /\ act' = Disturbed(b) /\ parked' = parked \ {b}
          /\ UNCHANGED <<bstat, hstat, proc, maintenance, jobs>>
      BY <1>2 DEF MoveBot
    <2>2. mode' \in [FleetBots -> Modes] /\ \A k \in FleetBots \ {b} : mode'[k] = mode[k]
      BY <1>1, <1>2 DEF MoveBot, Modes
    <2> QED BY <1>1, <2>1, <2>2, Disturbance
  <1>3. CASE PatchStatus(b, "online")
    <2>1. /\ act' = Disturbed(b) /\ parked' = parked \ {b}
          /\ UNCHANGED <<hstat, proc, mode, maintenance, jobs>>
      BY <1>3 DEF PatchStatus, Stays
    <2>2. bstat' \in [FleetBots -> BotStatuses] /\ \A k \in FleetBots \ {b} : bstat'[k] = bstat[k]
      BY <1>1, <1>3 DEF PatchStatus, BotStatuses
    <2> QED BY <1>1, <2>1, <2>2, Disturbance
  <1>4. ASSUME NEW m \in Modes, ProcessDies(b, m) PROVE ActionsInv'
    <2>1. /\ act' = Disturbed(b) /\ proc[b][m] = "running" /\ proc' = [proc EXCEPT ![b][m] = "stopped"]
          /\ UNCHANGED <<bstat, hstat, mode, maintenance, parked, jobs>>
      BY <1>4 DEF ProcessDies, Stays
    <2>2. /\ proc' \in [FleetBots -> [Modes -> ProcStates]]
          /\ \A k \in FleetBots \ {b} : proc'[k] = proc[k]
          /\ \A n \in Modes \ {m} : proc'[b][n] = proc[b][n]
      BY <1>1, <2>1 DEF ProcStates
    <2>3. b \in parked' => bstat'[b] = "offline" /\ proc'[b][mode'[b]] = "none"
      <3> SUFFICES ASSUME b \in parked PROVE bstat[b] = "offline" /\ proc'[b][mode[b]] = "none"
        BY <2>1
      <3>1. bstat[b] = "offline" /\ proc[b][mode[b]] = "none" /\ mode[b] \in Modes
        BY <1>1 DEF ActionsInv, ParkedStaysDown
      <3>2. mode[b] # m
        BY <2>1, <3>1
      <3> QED BY <2>2, <3>1, <3>2
    <2> QED BY <1>1, <2>1, <2>2, <2>3, Disturbance
  <1> QED BY <1>2, <1>3, <1>4

(* Every step keeps the invariant. *)
LEMMA ActionsStep ==
  ASSUME ActionsInv, [BotActionsNext]_botActionVars
  PROVE  ActionsInv'
  <1>1. CASE UNCHANGED botActionVars
    <2>1. UNCHANGED <<bstat, hstat, proc, mode, maintenance, act, parked, jobs>>
      BY <1>1 DEF botActionVars
    <2> QED BY <2>1 DEF ActionsInv, BotTypes, CallsFit, CallFits, Alone, Acting, Achieved,
                        ParkedStaysDown, InProgress, MaintenanceHolds
  <1>2. ASSUME NEW c \in ActionCalls, CallStep(c) PROVE ActionsInv'
    BY <1>2, JobBeginsStep, JobChecksStep, ChooseAdapterStep, SetBotStatusStep,
       SetHealthStatusStep, SupervisorStep, FinishStep
       DEF CallStep, Pm2Restart, DockerRestart, Pm2Delete, DockerRemove
  <1>3. ASSUME NEW c \in ActionCalls, NEW b \in FleetBots,
               CustomerRestarts(c, b) \/ AdminStarts(c, b) \/ AdminStops(c, b) \/ AdminRestarts(c, b)
        PROVE  ActionsInv'
    BY <1>3, RequestStep DEF AdminStarts, AdminStops, AdminRestarts
  <1>4. ASSUME NEW c \in ActionCalls, CallCrash(c) PROVE ActionsInv'
    BY <1>4, CrashStep
  <1>5. ASSUME NEW r \in Releases,
               \/ DeployBegins(r) \/ DeployHooks(r) \/ DeployReads(r)
               \/ \E q \in SUBSET FleetBots : DeployQueues(r, q)
        PROVE  ActionsInv'
    BY <1>5, DeployStep
  <1>6. ASSUME NEW on \in BOOLEAN, SetMaintenanceMode(on) PROVE ActionsInv'
    BY <1>6, MaintenanceStep
  <1>7. ASSUME NEW b \in FleetBots,
               \/ MoveBot(b) \/ PatchStatus(b, "online") \/ \E m \in Modes : ProcessDies(b, m)
        PROVE  ActionsInv'
    BY <1>7, SurroundingsStep
  <1> QED BY <1>1, <1>2, <1>3, <1>4, <1>5, <1>6, <1>7 DEF BotActionsNext

(* The invariant holds throughout. *)
LEMMA ActionsInvariant == BotActionsSpec => []ActionsInv
  BY ActionsInitInv, ActionsStep, PTL DEF BotActionsSpec

(* pm2-adapter.ts:35-66: an action that nothing disturbs ends with           *)
(* Bot.status, BotHealth.status and the process in agreement, for any number *)
(* of bots, calls and failures before it.                                    *)
THEOREM SoundActionAgreesTheorem == BotActionsSpec => []SoundActionAgrees
  <1>1. ActionsInv => SoundActionAgrees
    <2> SUFFICES ASSUME ActionsInv, NEW c \in ActionCalls, act[c].pc = "finished", act[c].sound
                 PROVE  /\ bstat[act[c].bot] = Final(act[c].op)
                        /\ hstat[act[c].bot] = Final(act[c].op)
                        /\ proc[act[c].bot][act[c].on] = Outcome(act[c].op)
      BY DEF SoundActionAgrees, Outcome
    <2>1. CallFits(act[c])
      BY CallFacts
    <2> QED BY <2>1 DEF CallFits, Acting, Achieved
  <1> QED BY <1>1, ActionsInvariant, PTL

(* ai-worker.ts:112-128: a bot that was stopped stays down until somebody  *)
(* asks for it or edits it, whatever restart jobs are still queued, run or *)
(* are run again.                                                          *)
THEOREM ParkedStaysDownTheorem == BotActionsSpec => []ParkedStaysDown
  <1>1. ActionsInv => ParkedStaysDown
    BY DEF ActionsInv
  <1> QED BY <1>1, ActionsInvariant, PTL

(* restart-queue.ts:36-38: in maintenance mode no job and no customer     *)
(* restarts a bot, except those past their check when it was switched on. *)
THEOREM MaintenanceHoldsTheorem == BotActionsSpec => []MaintenanceHolds
  <1>1. ActionsInv => MaintenanceHolds
    BY DEF ActionsInv
  <1> QED BY <1>1, ActionsInvariant, PTL

-----------------------------------------------------------------------------
(* Plans: limits and creations that overlap *)

(* The rows of bots, and the progress of a request. *)
BotRows == [customer : Customers, plan : Tiers, born : Tiers, guilds : Nat, shards : Nat]
PlanRecords ==
  [pc : {"idle", "insert", "health", "update"}, customer : Customers \cup {""}, bot : Nat,
   plan : Tiers \cup {NoTier}, guilds : Nat, shards : Nat, was : Tiers \cup {NoTier}]

(* Both limits are within plan p. *)
Within(p, g, s) == AssertGuildLimitWithinPlan(p, g) /\ AssertShardCountWithinPlan(p, s)

(* What a request has checked before it writes. *)
Checked(r) ==
  /\ r.pc = "insert" => r.customer \in Customers /\ r.plan \in Tiers /\ Within(r.plan, r.guilds, r.shards)
  /\ r.pc = "update" =>
       LET plan == Defined(r.plan, NoTier, r.was) IN
       /\ r.bot \in 1 .. Len(fleet) /\ r.was \in Tiers
       /\ r.guilds # Undefined => AssertGuildLimitWithinPlan(plan, r.guilds)
       /\ r.shards # Undefined => AssertShardCountWithinPlan(plan, r.shards)

PlansTypes ==
  /\ fleet \in Seq(BotRows) /\ planReq \in [PlanCalls -> PlanRecords]
  /\ \A q \in PlanCalls : Checked(planReq[q])

CapsInv == PlansTypes /\ CapsHold

(* A request that has not begun. *)
LEMMA PlanIdleRecord == PlanIdle \in PlanRecords /\ PlanIdle.pc = "idle"
  BY DEF PlanIdle, PlanRecords, Undefined

(* No bot to begin with. *)
LEMMA CapsInit == PlansInit => CapsInv
  BY PlanIdleRecord DEF PlansInit, CapsInv, PlansTypes, CapsHold, Checked

(* A step that changes one request and appends no row. *)
LEMMA PlanRequestStep ==
  ASSUME CapsInv, NEW q \in PlanCalls, NEW y \in PlanRecords, planReq' = [planReq EXCEPT ![q] = y],
         fleet' = fleet, loose' = loose, Checked(y)
  PROVE  CapsInv'
  <1>1. planReq' \in [PlanCalls -> PlanRecords]
    BY DEF CapsInv, PlansTypes
  <1>2. ASSUME NEW r \in PlanCalls PROVE Checked(planReq[r])'
    <2>1. Checked(planReq[r]) /\ planReq'[r] = IF r = q THEN y ELSE planReq[r]
      BY DEF CapsInv, PlansTypes
    <2> QED BY <2>1 DEF Checked
  <1>3. CapsHold'
    BY DEF CapsInv, CapsHold
  <1> QED BY <1>1, <1>2, <1>3 DEF CapsInv, PlansTypes

(* What the invariant says of one request. *)
LEMMA ReqFacts ==
  ASSUME CapsInv, NEW q \in PlanCalls
  PROVE  /\ planReq[q] \in PlanRecords /\ Checked(planReq[q])
         /\ fleet \in Seq(BotRows) /\ DOMAIN fleet = 1 .. Len(fleet) /\ Len(fleet) \in Nat
         /\ \A i \in DOMAIN fleet : fleet[i] \in BotRows
  BY DEF CapsInv, PlansTypes

(* bots/route.ts: the limits of a new bot are checked against its plan, and *)
(* the bots counted.                                                        *)
LEMMA CountStep ==
  ASSUME CapsInv, NEW q \in PlanCalls, NEW c \in Customers, NEW p \in Tiers,
         NEW g \in GuildLimits, NEW s \in ShardCounts, CountBots(q, c, p, g, s)
  PROVE  CapsInv'
  <1> DEFINE x == planReq[q]
             y == [x EXCEPT !.pc = "insert", !.customer = c, !.plan = p, !.guilds = g, !.shards = s]
  <1>1. /\ planReq' = [planReq EXCEPT ![q] = y] /\ fleet' = fleet /\ loose' = loose /\ Within(p, g, s)
    BY DEF CountBots, Within
  <1>2. g \in Nat /\ s \in Nat
    BY PlansAssumption
  <1>3. /\ y \in PlanRecords /\ y.pc = "insert" /\ y.customer = c /\ y.plan = p /\ y.guilds = g /\ y.shards = s
    BY <1>2, ReqFacts DEF PlanRecords
  <1> HIDE DEF y
  <1>4. Checked(y)
    BY <1>1, <1>3 DEF Checked
  <1> QED BY <1>1, <1>3, <1>4, PlanRequestStep

(* bots/[id]/route.ts:59-63: new limits are checked against the plan the row *)
(* had, or gets.                                                             *)
LEMMA PatchStep ==
  ASSUME CapsInv, NEW q \in PlanCalls, NEW b, NEW p \in Tiers \cup {NoTier},
         NEW g \in GuildLimits \cup {Undefined}, NEW s \in ShardCounts \cup {Undefined},
         CheckPatch(q, b, p, g, s)
  PROVE  CapsInv'
  <1> DEFINE x == planReq[q]
             old == fleet[b].plan
             y == [x EXCEPT !.pc = "update", !.bot = b, !.plan = p, !.guilds = g, !.shards = s, !.was = old]
  <1>1. /\ planReq' = [planReq EXCEPT ![q] = y] /\ fleet' = fleet /\ loose' = loose
        /\ g # Undefined => AssertGuildLimitWithinPlan(Defined(p, NoTier, old), g)
        /\ s # Undefined => AssertShardCountWithinPlan(Defined(p, NoTier, old), s)
        /\ b \in DOMAIN fleet
    BY DEF CheckPatch, Defined
  <1>2. g \in Nat /\ s \in Nat /\ b \in Nat /\ b \in 1 .. Len(fleet) /\ old \in Tiers
    BY <1>1, PlansAssumption, ReqFacts DEF Undefined, BotRows
  <1> HIDE DEF old
  <1>3. /\ y \in PlanRecords /\ y.pc = "update" /\ y.bot = b /\ y.plan = p /\ y.guilds = g /\ y.shards = s
        /\ y.was = old
    BY <1>2, ReqFacts DEF PlanRecords
  <1> HIDE DEF y
  <1>4. Checked(y)
    BY <1>1, <1>2, <1>3 DEF Checked
  <1> QED BY <1>1, <1>3, <1>4, PlanRequestStep

(* bots/route.ts: a row with limits that were checked. *)
LEMMA InsertStep ==
  ASSUME CapsInv, NEW q \in PlanCalls, InsertBot(q)
  PROVE  CapsInv'
  <1> DEFINE x == planReq[q]
             row == [customer |-> x.customer, plan |-> x.plan, born |-> x.plan,
                     guilds |-> x.guilds, shards |-> x.shards]
             n == Len(fleet) + 1
             y == [x EXCEPT !.pc = "health", !.bot = n]
  <1>1. x.pc = "insert" /\ fleet' = Append(fleet, row) /\ loose' = loose
    BY DEF InsertBot
  <1>2. planReq' = [planReq EXCEPT ![q] = y]
    BY ReqFacts DEF InsertBot, CapsInv, PlansTypes
  <1>3. x \in PlanRecords /\ x.customer \in Customers /\ x.plan \in Tiers /\ Within(x.plan, x.guilds, x.shards)
        /\ n \in Nat
    BY <1>1, ReqFacts DEF Checked
  <1>4. row \in BotRows /\ row.plan = x.plan /\ row.guilds = x.guilds /\ row.shards = x.shards
    BY <1>3 DEF BotRows, PlanRecords
  <1> HIDE DEF row, n
  <1>5. y \in PlanRecords /\ y.pc = "health"
    BY <1>3 DEF PlanRecords
  <1> HIDE DEF y
  <1>6. /\ fleet' \in Seq(BotRows) /\ Len(fleet') = n /\ DOMAIN fleet' = 1 .. n
        /\ \A i \in 1 .. Len(fleet) : fleet'[i] = fleet[i]
        /\ fleet'[n] = row
    BY <1>1, <1>4, ReqFacts DEF n
  <1>7. planReq' \in [PlanCalls -> PlanRecords]
    BY <1>2, <1>5 DEF CapsInv, PlansTypes
  <1>8. ASSUME NEW r \in PlanCalls PROVE Checked(planReq[r])'
    <2>1. Checked(planReq[r]) /\ planReq'[r] = IF r = q THEN y ELSE planReq[r]
      BY <1>2 DEF CapsInv, PlansTypes
    <2>2. 1 .. Len(fleet) \subseteq 1 .. Len(fleet')
      BY <1>6, ReqFacts DEF n
    <2> QED BY <1>5, <2>1, <2>2 DEF Checked
  <1>9. CapsHold'
    <2> SUFFICES ASSUME NEW i \in DOMAIN fleet', i \notin loose'
                 PROVE  Within(fleet'[i].plan, fleet'[i].guilds, fleet'[i].shards)
      BY DEF CapsHold, Within, AssertGuildLimitWithinPlan, AssertShardCountWithinPlan
    <2>1. CASE i = n
      BY <1>3, <1>4, <1>6, <2>1
    <2>2. CASE i # n
      <3>1. i \in 1 .. Len(fleet)
        BY <1>6, <2>2, ReqFacts DEF n
      <3> QED BY <1>1, <1>6, <3>1, ReqFacts DEF CapsInv, CapsHold, Within
    <2> QED BY <2>1, <2>2
  <1> QED BY <1>6, <1>7, <1>8, <1>9 DEF CapsInv, PlansTypes

(* bots/[id]/route.ts: the update takes over what was checked; a row whose *)
(* plan changed meanwhile, or alone, is loose.                             *)
LEMMA UpdateStep ==
  ASSUME CapsInv, NEW q \in PlanCalls, UpdateBot(q)
  PROVE  CapsInv'
  <1> DEFINE x == planReq[q]
             b == x.bot
             old == fleet[b]
             np == Defined(x.plan, NoTier, old.plan)
             ng == Defined(x.guilds, Undefined, old.guilds)
             ns == Defined(x.shards, Undefined, old.shards)
             row == [old EXCEPT !.plan = np, !.guilds = ng, !.shards = ns]
             given == {x.guilds, x.shards}
  <1>1. /\ x.pc = "update" /\ fleet' = [fleet EXCEPT ![b] = row]
        /\ planReq' = [planReq EXCEPT ![q] = PlanIdle]
        /\ loose' = IF x.plan # NoTier
                    THEN IF Undefined \in given THEN loose \cup {b} ELSE loose \ {b}
                    ELSE IF given # {Undefined} /\ old.plan # x.was
                    THEN loose \cup {b} ELSE loose
    BY DEF UpdateBot
  <1>2. /\ x \in PlanRecords /\ b \in 1 .. Len(fleet) /\ x.was \in Tiers /\ old \in BotRows
        /\ x.guilds # Undefined => AssertGuildLimitWithinPlan(Defined(x.plan, NoTier, x.was), x.guilds)
        /\ x.shards # Undefined => AssertShardCountWithinPlan(Defined(x.plan, NoTier, x.was), x.shards)
    BY <1>1, ReqFacts DEF Checked
  <1>3. np \in Tiers /\ ng \in Nat /\ ns \in Nat
    BY <1>2 DEF Defined, PlanRecords, BotRows
  <1> HIDE DEF np, ng, ns
  <1>4. row \in BotRows /\ row.plan = np /\ row.guilds = ng /\ row.shards = ns
    BY <1>2, <1>3 DEF BotRows
  <1> HIDE DEF row
  <1>5. /\ fleet' \in Seq(BotRows) /\ Len(fleet') = Len(fleet) /\ DOMAIN fleet' = DOMAIN fleet
        /\ fleet'[b] = row /\ \A i \in DOMAIN fleet \ {b} : fleet'[i] = fleet[i]
    BY <1>1, <1>2, <1>4, ReqFacts
  <1>6. planReq' \in [PlanCalls -> PlanRecords]
    BY <1>1, PlanIdleRecord DEF CapsInv, PlansTypes
  <1>7. ASSUME NEW r \in PlanCalls PROVE Checked(planReq[r])'
    <2>1. Checked(planReq[r]) /\ planReq'[r] = IF r = q THEN PlanIdle ELSE planReq[r]
      BY <1>1 DEF CapsInv, PlansTypes
    <2> QED BY <1>5, <2>1, PlanIdleRecord DEF Checked
  <1>8. CapsHold'
    <2> SUFFICES ASSUME NEW i \in DOMAIN fleet', i \notin loose'
                 PROVE  Within(fleet'[i].plan, fleet'[i].guilds, fleet'[i].shards)
      BY DEF CapsHold, Within, AssertGuildLimitWithinPlan, AssertShardCountWithinPlan
    <2>1. CASE i # b
      <3>1. i \in DOMAIN fleet \ loose
        BY <1>1, <1>5, <2>1
      <3> QED BY <1>5, <2>1, <3>1 DEF CapsInv, CapsHold, Within
    <2>2. CASE i = b
      <3>1. b \notin loose => Within(old.plan, old.guilds, old.shards)
        BY <1>2, ReqFacts DEF CapsInv, CapsHold, Within
      <3>2. b \notin loose'
        BY <2>2
      <3>3. CASE x.plan # NoTier
        <4>1. x.guilds # Undefined /\ x.shards # Undefined
          BY <1>1, <3>2, <3>3
        <4> QED BY <1>2, <1>4, <1>5, <2>2, <3>3, <4>1 DEF Defined, Within, np, ng, ns
      <3>4. CASE x.plan = NoTier
        <4>1. b \notin loose /\ (given = {Undefined} \/ old.plan = x.was)
          BY <1>1, <3>2, <3>4
        <4>2. Within(old.plan, old.guilds, old.shards)
          BY <3>1, <4>1
        <4>3. Within(np, ng, ns)
          BY <1>2, <3>4, <4>1, <4>2 DEF Defined, Within, np, ng, ns
        <4> QED BY <1>4, <1>5, <2>2, <4>3
      <3> QED BY <3>3, <3>4
    <2> QED BY <2>1, <2>2
  <1> QED BY <1>5, <1>6, <1>7, <1>8 DEF CapsInv, PlansTypes

(* Every step keeps the limits within the plans. *)
LEMMA CapsStep == CapsInv /\ [PlansNext]_plansVars => CapsInv'
  <1> SUFFICES ASSUME CapsInv, [PlansNext]_plansVars PROVE CapsInv'
    OBVIOUS
  <1>1. ASSUME UNCHANGED <<fleet, planReq, loose>> PROVE CapsInv'
    BY <1>1 DEF CapsInv, PlansTypes, CapsHold, Checked
  <1>2. ASSUME NEW q \in PlanCalls, InsertHealth(q) \/ RequestLost(q) PROVE CapsInv'
    <2>1. planReq' = [planReq EXCEPT ![q] = PlanIdle] /\ fleet' = fleet /\ loose' = loose
      BY <1>2 DEF InsertHealth, RequestLost
    <2> QED BY <2>1, PlanIdleRecord, PlanRequestStep DEF Checked
  <1>3. CASE UNCHANGED plansVars
    BY <1>1, <1>3 DEF plansVars
  <1>4. ASSUME NEW c \in Customers, CreateCustomer(c) PROVE CapsInv'
    BY <1>1, <1>4 DEF CreateCustomer
  <1> QED BY <1>2, <1>3, <1>4, CountStep, PatchStep, InsertStep, UpdateStep DEF PlansNext

(* bots/[id]/route.ts:59-63: every bot's guild and shard limits are within *)
(* its plan, unless the plan was changed without them or after they were   *)
(* checked, for any number of customers, bots and overlapping requests.    *)
THEOREM CapsHoldTheorem == PlansSpec => []CapsHold
  <1>1. CapsInv => CapsHold
    BY DEF CapsInv
  <1> QED BY <1>1, CapsInit, CapsStep, PTL DEF PlansSpec

(* The creations of c's bots that have been counted and not yet inserted. *)
Inserting(c) == {q \in PlanCalls : planReq[q].pc = "insert" /\ planReq[q].customer = c}

(* Plan p is one that a bot of c was created with, or that a call of S creates one with. *)
Backs(c, S, p) ==
  (\E i \in BotsOf(c) : fleet[i].born = p) \/ (\E q \in S : planReq[q].plan = p)

(* Whichever of the pending creations were to be inserted now, there would  *)
(* be a plan that allows what there would be.                               *)
Room(c, S) ==
  \E p \in Tiers :
    /\ Backs(c, S, p)
    /\ Cardinality(BotsOf(c)) + Cardinality(S) <= PLAN_LIMITS[p].bots + Cardinality(PlanCalls) - 1

ExcessInv ==
  \A c \in Customers : \A S \in SUBSET Inserting(c) : BotsOf(c) # {} \/ S # {} => Room(c, S)

(* The limits are numbers. *)
LEMMA LimitType == \A p \in Tiers : PLAN_LIMITS[p].bots \in Nat
  <1> SUFFICES ASSUME NEW p \in Tiers PROVE PLAN_LIMITS[p].bots \in Nat
    OBVIOUS
  <1>1. p \in {"free", "starter", "pro", "enterprise", "custom"}
    BY PlansAssumption DEF PlanTiers
  <1> QED BY <1>1 DEF PLAN_LIMITS, Limits

(* The bots of a customer are finitely many. *)
LEMMA RowsFinite ==
  ASSUME PlansTypes, NEW c
  PROVE  IsFiniteSet(BotsOf(c)) /\ Cardinality(BotsOf(c)) \in Nat
  <1>1. BotsOf(c) \subseteq 1 .. Len(fleet) /\ Len(fleet) \in Nat
    BY DEF PlansTypes, BotsOf
  <1>2. IsFiniteSet(1 .. Len(fleet))
    BY <1>1, FS_Interval
  <1> QED BY <1>1, <1>2, FS_Subset, FS_CardinalityType

(* The pending creations are as many as the requests at most. *)
LEMMA CallsFinite ==
  ASSUME NEW c, NEW S \in SUBSET Inserting(c)
  PROVE  /\ IsFiniteSet(S) /\ Cardinality(S) \in Nat /\ Cardinality(PlanCalls) \in Nat
         /\ Cardinality(S) <= Cardinality(PlanCalls)
  <1>1. S \in SUBSET PlanCalls
    BY DEF Inserting
  <1> QED BY <1>1, PlansAssumption, FS_Subset, FS_CardinalityType

(* No bot and no request to begin with. *)
LEMMA ExcessInit == PlansInit => ExcessInv
  BY PlanIdleRecord DEF PlansInit, ExcessInv, BotsOf, Inserting

(* No new pending creation, and no new row: there is room as before. *)
LEMMA RoomKept ==
  ASSUME ExcessInv, \A c \in Customers : BotsOf(c)' = BotsOf(c),
         \A i \in DOMAIN fleet : fleet'[i].born = fleet[i].born,
         \A q \in PlanCalls : planReq'[q].pc = "insert" => planReq'[q] = planReq[q]
  PROVE  ExcessInv'
  <1> SUFFICES ASSUME NEW c \in Customers, NEW S \in SUBSET Inserting(c)', BotsOf(c)' # {} \/ S # {}
               PROVE  Room(c, S)'
    BY DEF ExcessInv
  <1>1. S \in SUBSET Inserting(c) /\ \A q \in S : planReq'[q] = planReq[q]
    BY DEF Inserting
  <1>2. PICK p \in Tiers :
          /\ Backs(c, S, p)
          /\ Cardinality(BotsOf(c)) + Cardinality(S) <= PLAN_LIMITS[p].bots + Cardinality(PlanCalls) - 1
    BY <1>1 DEF ExcessInv, Room
  <1>3. (\E i \in BotsOf(c)' : fleet'[i].born = p) \/ (\E q \in S : planReq'[q].plan = p)
    BY <1>1, <1>2 DEF Backs, BotsOf
  <1> QED BY <1>2, <1>3 DEF Room, Backs

(* A call counts before it is one of the pending: fewer than the limit, and *)
(* at most as many pending as there are calls.                              *)
LEMMA CountRoom ==
  ASSUME CapsInv, ExcessInv, NEW q \in PlanCalls, NEW k \in Customers, NEW p \in Tiers, NEW g, NEW s,
         CountBots(q, k, p, g, s)
  PROVE  ExcessInv'
  <1> SUFFICES ASSUME NEW c \in Customers, NEW S \in SUBSET Inserting(c)', BotsOf(c)' # {} \/ S # {}
               PROVE  Room(c, S)'
    BY DEF ExcessInv
  <1> DEFINE y == [planReq[q] EXCEPT !.pc = "insert", !.customer = k, !.plan = p, !.guilds = g, !.shards = s]
  <1>1. /\ planReq' = [planReq EXCEPT ![q] = y] /\ fleet' = fleet
        /\ AssertBotCountWithinPlan(p, Cardinality(BotsOf(k)))
    BY DEF CountBots
  <1>2. y.customer = k /\ y.plan = p
    BY ReqFacts DEF PlanRecords
  <1> HIDE DEF y
  <1>3. planReq'[q] = y /\ \A r \in PlanCalls \ {q} : planReq'[r] = planReq[r]
    BY <1>1 DEF CapsInv, PlansTypes
  <1>4. BotsOf(c)' = BotsOf(c)
    BY <1>1 DEF BotsOf
  <1>5. /\ Cardinality(BotsOf(c)) \in Nat /\ Cardinality(S) \in Nat /\ Cardinality(PlanCalls) \in Nat
        /\ Cardinality(S) <= Cardinality(PlanCalls)
    <2>1. S \in SUBSET PlanCalls
      BY DEF Inserting
    <2> QED BY <2>1, RowsFinite, PlansAssumption, FS_Subset, FS_CardinalityType DEF CapsInv
  <1>6. CASE q \in S
    <2>1. c = k
      BY <1>2, <1>3, <1>6 DEF Inserting
    <2>2. Cardinality(BotsOf(c)) < PLAN_LIMITS[p].bots /\ PLAN_LIMITS[p].bots \in Nat
      BY <1>1, <2>1, LimitType DEF AssertBotCountWithinPlan
    <2>3. Cardinality(BotsOf(c)') + Cardinality(S) <= PLAN_LIMITS[p].bots + Cardinality(PlanCalls) - 1
      BY <1>4, <1>5, <2>2
    <2>4. \E r \in S : planReq'[r].plan = p
      BY <1>2, <1>3, <1>6
    <2> QED BY <2>3, <2>4 DEF Room, Backs
  <1>7. CASE q \notin S
    <2>1. S \in SUBSET Inserting(c) /\ \A r \in S : planReq'[r] = planReq[r]
      BY <1>3, <1>7 DEF Inserting
    <2>2. Room(c, S)
      BY <1>4, <2>1 DEF ExcessInv
    <2> QED BY <1>1, <1>4, <2>1, <2>2 DEF Room, Backs
  <1> QED BY <1>6, <1>7

(* What was pending is a row: the same total, the same plans. *)
LEMMA InsertRoom ==
  ASSUME CapsInv, ExcessInv, NEW q \in PlanCalls, InsertBot(q)
  PROVE  ExcessInv'
  <1> SUFFICES ASSUME NEW c \in Customers, NEW S \in SUBSET Inserting(c)', BotsOf(c)' # {} \/ S # {}
               PROVE  Room(c, S)'
    BY DEF ExcessInv
  <1> DEFINE x == planReq[q]
             row == [customer |-> x.customer, plan |-> x.plan, born |-> x.plan,
                     guilds |-> x.guilds, shards |-> x.shards]
             n == Len(fleet) + 1
             y == [x EXCEPT !.pc = "health", !.bot = n]
  <1>1. x.pc = "insert" /\ fleet' = Append(fleet, row) /\ planReq' = [planReq EXCEPT ![q] = y]
    BY ReqFacts DEF InsertBot, CapsInv, PlansTypes
  <1>2. y.pc = "health" /\ row.customer = x.customer /\ row.born = x.plan
    BY ReqFacts DEF PlanRecords
  <1> HIDE DEF row, y
  <1>3. /\ DOMAIN fleet' = 1 .. n /\ DOMAIN fleet = 1 .. Len(fleet) /\ Len(fleet) \in Nat
        /\ \A i \in DOMAIN fleet : fleet'[i] = fleet[i]
        /\ fleet'[n] = row
    BY <1>1, ReqFacts
  <1>4. DOMAIN fleet' = DOMAIN fleet \cup {n} /\ n \notin DOMAIN fleet
    BY <1>3
  <1> HIDE DEF n
  <1>5. planReq'[q] = y /\ \A r \in PlanCalls \ {q} : planReq'[r] = planReq[r]
    BY <1>1 DEF CapsInv, PlansTypes
  <1>6. q \notin S /\ S \in SUBSET Inserting(c) /\ \A r \in S : planReq'[r] = planReq[r]
    BY <1>2, <1>5 DEF Inserting
  <1>7. CASE x.customer = c
    <2> DEFINE T == S \cup {q}
    <2>1. BotsOf(c)' = BotsOf(c) \cup {n} /\ n \notin BotsOf(c)
      BY <1>2, <1>3, <1>4, <1>7 DEF BotsOf
    <2>2. T \in SUBSET Inserting(c) /\ T # {}
      BY <1>1, <1>6, <1>7 DEF Inserting
    <2>3. PICK p \in Tiers :
            /\ Backs(c, T, p)
            /\ Cardinality(BotsOf(c)) + Cardinality(T) <= PLAN_LIMITS[p].bots + Cardinality(PlanCalls) - 1
      BY <2>2 DEF ExcessInv, Room
    <2>4. Cardinality(T) = Cardinality(S) + 1 /\ Cardinality(S) \in Nat
      BY <1>6, CallsFinite, FS_AddElement
    <2>5. /\ Cardinality(BotsOf(c)') = Cardinality(BotsOf(c)) + 1 /\ Cardinality(BotsOf(c)) \in Nat
      BY <2>1, RowsFinite, FS_AddElement DEF CapsInv
    <2>6. (\E i \in BotsOf(c)' : fleet'[i].born = p) \/ (\E r \in S : planReq'[r].plan = p)
      BY <1>2, <1>3, <1>6, <2>1, <2>3 DEF Backs, BotsOf
    <2>7. Cardinality(BotsOf(c)') + Cardinality(S) = Cardinality(BotsOf(c)) + Cardinality(T)
      BY <2>4, <2>5
    <2> QED BY <2>3, <2>6, <2>7 DEF Room, Backs
  <1>8. CASE x.customer # c
    <2>1. BotsOf(c)' = BotsOf(c)
      BY <1>2, <1>3, <1>4, <1>8 DEF BotsOf
    <2>2. Room(c, S)
      BY <1>6, <2>1 DEF ExcessInv
    <2>3. \A i \in BotsOf(c) : fleet'[i] = fleet[i]
      BY <1>3 DEF BotsOf
    <2> QED BY <1>6, <2>1, <2>2, <2>3 DEF Room, Backs
  <1> QED BY <1>7, <1>8

(* Every step leaves room. *)
LEMMA ExcessStep == CapsInv /\ ExcessInv /\ [PlansNext]_plansVars => ExcessInv'
  <1> SUFFICES ASSUME CapsInv, ExcessInv, [PlansNext]_plansVars PROVE ExcessInv'
    OBVIOUS
  <1>1. ASSUME UNCHANGED <<fleet, planReq>> PROVE ExcessInv'
    BY <1>1, RoomKept DEF BotsOf
  <1>2. ASSUME NEW q \in PlanCalls, InsertHealth(q) \/ RequestLost(q) PROVE ExcessInv'
    <2>1. planReq' = [planReq EXCEPT ![q] = PlanIdle] /\ fleet' = fleet
      BY <1>2 DEF InsertHealth, RequestLost
    <2>2. \A r \in PlanCalls : planReq'[r].pc = "insert" => planReq'[r] = planReq[r]
      BY <2>1, PlanIdleRecord DEF CapsInv, PlansTypes
    <2> QED BY <2>1, <2>2, RoomKept DEF BotsOf
  <1>3. ASSUME NEW q \in PlanCalls, UpdateBot(q) PROVE ExcessInv'
    <2> DEFINE x == planReq[q]
               b == x.bot
               np == Defined(x.plan, NoTier, fleet[b].plan)
               ng == Defined(x.guilds, Undefined, fleet[b].guilds)
               ns == Defined(x.shards, Undefined, fleet[b].shards)
               row == [fleet[b] EXCEPT !.plan = np, !.guilds = ng, !.shards = ns]
    <2>1. x.pc = "update" /\ fleet' = [fleet EXCEPT ![b] = row] /\ planReq' = [planReq EXCEPT ![q] = PlanIdle]
      BY <1>3 DEF UpdateBot
    <2>2. row.customer = fleet[b].customer /\ row.born = fleet[b].born /\ b \in DOMAIN fleet
      <3>1. b \in 1 .. Len(fleet) /\ fleet[b] \in BotRows
        BY <2>1, ReqFacts DEF Checked
      <3> HIDE DEF np, ng, ns
      <3> QED BY <3>1, ReqFacts DEF BotRows
    <2> HIDE DEF row
    <2>3. /\ DOMAIN fleet' = DOMAIN fleet
          /\ \A i \in DOMAIN fleet : fleet'[i].customer = fleet[i].customer /\ fleet'[i].born = fleet[i].born
      BY <2>1, <2>2, ReqFacts
    <2>4. \A r \in PlanCalls : planReq'[r].pc = "insert" => planReq'[r] = planReq[r]
      BY <2>1, PlanIdleRecord DEF CapsInv, PlansTypes
    <2>5. \A c \in Customers : BotsOf(c)' = BotsOf(c)
      BY <2>3 DEF BotsOf
    <2> QED BY <2>3, <2>4, <2>5, RoomKept
  <1>4. ASSUME NEW q \in PlanCalls, NEW b, NEW p, NEW g, NEW s, CheckPatch(q, b, p, g, s) PROVE ExcessInv'
    <2> DEFINE y == [planReq[q] EXCEPT !.pc = "update", !.bot = b, !.plan = p, !.guilds = g, !.shards = s,
                                       !.was = fleet[b].plan]
    <2>1. planReq' = [planReq EXCEPT ![q] = y] /\ fleet' = fleet
      BY <1>4 DEF CheckPatch
    <2>2. y.pc = "update"
      BY ReqFacts DEF PlanRecords
    <2> HIDE DEF y
    <2>3. \A r \in PlanCalls : planReq'[r].pc = "insert" => planReq'[r] = planReq[r]
      BY <2>1, <2>2 DEF CapsInv, PlansTypes
    <2> QED BY <2>1, <2>3, RoomKept DEF BotsOf
  <1>5. CASE UNCHANGED plansVars
    BY <1>1, <1>5 DEF plansVars
  <1>6. ASSUME NEW c \in Customers, CreateCustomer(c) PROVE ExcessInv'
    BY <1>1, <1>6 DEF CreateCustomer
  <1> QED BY <1>2, <1>3, <1>4, <1>5, <1>6, CountRoom, InsertRoom DEF PlansNext

(* plans.ts:103: among the bots of a customer is one that was created under a *)
(* plan whose limit the customer exceeds by at most the number of requests    *)
(* that can overlap less one, however creations and plan changes overlap.     *)
THEOREM ExcessBoundedTheorem == PlansSpec => []ExcessBounded
  <1>1. customers \subseteq Customers /\ CapsInv /\ ExcessInv => ExcessBounded
    <2> SUFFICES ASSUME CapsInv, ExcessInv, NEW c \in Customers, BotsOf(c) # {}
                 PROVE  \E i \in BotsOf(c) :
                          Cardinality(BotsOf(c)) <= PLAN_LIMITS[fleet[i].born].bots + Cardinality(PlanCalls) - 1
      BY DEF ExcessBounded
    <2>1. PICK p \in Tiers :
            /\ Backs(c, {}, p)
            /\ Cardinality(BotsOf(c)) + Cardinality({}) <= PLAN_LIMITS[p].bots + Cardinality(PlanCalls) - 1
      BY DEF ExcessInv, Room
    <2>2. PICK i \in BotsOf(c) : fleet[i].born = p
      BY <2>1 DEF Backs
    <2>3. Cardinality(BotsOf(c)) + Cardinality({}) = Cardinality(BotsOf(c))
      BY RowsFinite, FS_EmptySet DEF CapsInv
    <2> QED BY <2>1, <2>2, <2>3
  <1>2. PlansInit => customers \subseteq Customers
    BY DEF PlansInit
  <1>3. customers \subseteq Customers /\ [PlansNext]_plansVars => (customers \subseteq Customers)'
    <2> SUFFICES ASSUME customers \subseteq Customers, [PlansNext]_plansVars PROVE customers' \subseteq Customers
      OBVIOUS
    <2>1. CASE customers' = customers
      BY <2>1
    <2>2. ASSUME NEW c \in Customers, CreateCustomer(c) PROVE customers' \subseteq Customers
      BY <2>2 DEF CreateCustomer
    <2>3. ASSUME NEW q \in PlanCalls, InsertBot(q) \/ InsertHealth(q) \/ UpdateBot(q) \/ RequestLost(q)
          PROVE  customers' = customers
      BY <2>3 DEF InsertBot, InsertHealth, UpdateBot, RequestLost
    <2>4. ASSUME NEW q, NEW c, NEW p, NEW g, NEW s, CountBots(q, c, p, g, s) \/ CheckPatch(q, c, p, g, s)
          PROVE  customers' = customers
      BY <2>4 DEF CountBots, CheckPatch
    <2> QED BY <2>1, <2>2, <2>3, <2>4 DEF PlansNext, plansVars
  <1> QED BY <1>1, <1>2, <1>3, CapsInit, CapsStep, ExcessInit, ExcessStep, PTL DEF PlansSpec

-----------------------------------------------------------------------------
(* The types of BotActions and Plans *)

(* A restart job, waiting or running, names the deployment it is for. *)
Released(x) == x.by = "job" => x.dep \in Releases
JobsReleased ==
  /\ workerUp \in [FleetBots -> BOOLEAN]
  /\ \A j \in jobs : j.dep \in Releases
  /\ \A c \in ActionCalls : Released(act[c])

(* A step of a call leaves who asked and the deployment as they were, or *)
(* ends the call.                                                        *)
SameAskers ==
  \A d \in ActionCalls :
    act'[d].by # "job" \/ (act'[d].by = act[d].by /\ act'[d].dep = act[d].dep)

(* Such a step, with no job queued, keeps the jobs released. *)
LEMMA AskersKept ==
  ASSUME JobsReleased, SameAskers, jobs' \subseteq jobs, workerUp' = workerUp
  PROVE  JobsReleased'
  BY DEF JobsReleased, SameAskers, Released

(* Steps that change one call in its progress, or end it. *)
LEMMA OneAsker ==
  ASSUME ActionsInv, NEW c \in ActionCalls, NEW y, act' = [act EXCEPT ![c] = y],
         y.by # "job" \/ (y.by = act[c].by /\ y.dep = act[c].dep)
  PROVE  SameAskers
  BY DEF ActionsInv, BotTypes, SameAskers

(* A disturbed call is the same call. *)
LEMMA DisturbedAskers ==
  ASSUME ActionsInv, NEW b
  PROVE  \A d \in ActionCalls : /\ Disturbed(b)[d].by = act[d].by
                                /\ Disturbed(b)[d].dep = act[d].dep
  <1> SUFFICES ASSUME NEW d \in ActionCalls
               PROVE  Disturbed(b)[d].by = act[d].by /\ Disturbed(b)[d].dep = act[d].dep
    OBVIOUS
  <1>1. act[d] \in ActRecords
    BY CallFacts
  <1>2. Disturbed(b)[d] \in {act[d], [act[d] EXCEPT !.sound = FALSE]}
    BY DEF Disturbed
  <1> QED BY <1>1, <1>2 DEF ActRecords

(* A call that begins has the asker it is given. *)
LEMMA BeginsAskers ==
  ASSUME ActionsInv, NEW c \in ActionCalls, NEW b, NEW x \in ActRecords, Begins(c, b, x),
         x.by # "job" \/ (x.by = act[c].by /\ x.dep = act[c].dep)
  PROVE  SameAskers
  <1> DEFINE alone == InProgress(b) = {}
             y == [x EXCEPT !.bot = b, !.pc = "adapter", !.sound = alone]
  <1>1. act' = [Disturbed(b) EXCEPT ![c] = y]
    BY DEF Begins
  <1>2. y.by = x.by /\ y.dep = x.dep
    BY DEF ActRecords
  <1> HIDE DEF y
  <1>3. DOMAIN Disturbed(b) = ActionCalls
    BY DEF Disturbed
  <1>4. \A d \in ActionCalls : act'[d] = IF d = c THEN y ELSE Disturbed(b)[d]
    BY <1>1, <1>3
  <1> QED BY <1>2, <1>4, DisturbedAskers DEF SameAskers

(* A call that takes a step, or is no longer sound, is the same call. *)
LEMMA StepAskers ==
  ASSUME ActionsInv, NEW c \in ActionCalls, NEW pc, NEW on,
         \/ Step(c, pc) \/ act' = [act EXCEPT ![c].pc = pc, ![c].sound = FALSE]
         \/ act' = [act EXCEPT ![c].pc = pc, ![c].on = on]
  PROVE  SameAskers
  <1>1. act[c] \in ActRecords /\ act \in [ActionCalls -> ActRecords]
    BY CallFacts DEF ActionsInv, BotTypes
  <1>2. PICK y : /\ act' = [act EXCEPT ![c] = y]
                 /\ y \in {[act[c] EXCEPT !.pc = pc], [act[c] EXCEPT !.pc = pc, !.sound = FALSE],
                           [act[c] EXCEPT !.pc = pc, !.on = on]}
    BY DEF Step
  <1>3. y.by = act[c].by /\ y.dep = act[c].dep
    BY <1>1, <1>2 DEF ActRecords
  <1> QED BY <1>2, <1>3, OneAsker

(* A call that ends is nobody's. *)
LEMMA IdleAskers ==
  ASSUME ActionsInv, NEW c \in ActionCalls, act' = [act EXCEPT ![c] = ActIdle]
  PROVE  SameAskers
  <1>1. ActIdle.by = "admin"
    BY DEF ActIdle
  <1> QED BY <1>1, OneAsker

(* Every step keeps the jobs released. *)
LEMMA ReleasedStep == ActionsInv /\ JobsReleased /\ [BotActionsNext]_botActionVars => JobsReleased'
  <1> SUFFICES ASSUME ActionsInv, JobsReleased, [BotActionsNext]_botActionVars PROVE JobsReleased'
    OBVIOUS
  <1>1. ASSUME NEW c \in ActionCalls, NEW b \in FleetBots,
               AdminStarts(c, b) \/ AdminStops(c, b) \/ AdminRestarts(c, b) \/ CustomerRestarts(c, b)
        PROVE  JobsReleased'
    <2>1. PICK x \in ActRecords :
            Begins(c, b, x) /\ x.by # "job" /\ jobs' = jobs /\ workerUp' = workerUp
      <3> DEFINE y(op) == [ActIdle EXCEPT !.op = op]
                 z == [ActIdle EXCEPT !.op = "restart", !.by = "customer"]
      <3>1. /\ \A op \in {"start", "stop", "restart"} : y(op) \in ActRecords /\ y(op).by = "admin"
            /\ z \in ActRecords /\ z.by = "customer"
        BY ActIdleRecord DEF ActRecords, ActIdle
      <3>2. /\ \/ \E op \in {"start", "stop", "restart"} : Begins(c, b, y(op))
               \/ Begins(c, b, z)
            /\ jobs' = jobs /\ workerUp' = workerUp
        BY <1>1 DEF AdminStarts, AdminStops, AdminRestarts, AdminActs, CustomerRestarts, Stays
      <3> HIDE DEF y, z
      <3> QED BY <3>1, <3>2
    <2>2. SameAskers
      BY <2>1, BeginsAskers
    <2> QED BY <2>1, <2>2, AskersKept
  <1>2. ASSUME NEW c \in ActionCalls, NEW j \in jobs, JobBegins(c, j) PROVE JobsReleased'
    <2> DEFINE y == [ActIdle EXCEPT !.pc = "check", !.op = "restart", !.by = "job", !.bot = j.bot,
                                    !.dep = j.dep]
    <2>1. jobs' \subseteq jobs /\ workerUp' = workerUp /\ (act' = act \/ act' = [act EXCEPT ![c] = y])
      BY <1>2 DEF JobBegins
    <2>2. y.dep = j.dep
      BY DEF ActIdle
    <2>3. y.dep \in Releases
      BY <2>2 DEF JobsReleased
    <2> HIDE DEF y
    <2>4. act \in [ActionCalls -> ActRecords]
      BY DEF ActionsInv, BotTypes
    <2> QED BY <2>1, <2>3, <2>4 DEF JobsReleased, Released
  <1>3. ASSUME NEW c \in ActionCalls, JobChecks(c) PROVE JobsReleased'
    <2>1. jobs' = jobs /\ workerUp' = workerUp
      BY <1>3 DEF JobChecks, Stays
    <2>2. Begins(c, act[c].bot, act[c]) \/ act' = [act EXCEPT ![c] = ActIdle]
      BY <1>3 DEF JobChecks
    <2>3. SameAskers
      BY <2>2, CallFacts, BeginsAskers, IdleAskers
    <2> QED BY <2>1, <2>3, AskersKept
  <1>4. ASSUME NEW c \in ActionCalls,
               \/ ChooseAdapter(c) \/ SetBotStatus(c) \/ SetHealthStatus(c) \/ Pm2Start(c)
               \/ Pm2Stop(c) \/ Pm2Delete(c) \/ Pm2Restart(c) \/ RemoveContainer(c)
               \/ CreateContainer(c) \/ DockerStop(c) \/ DockerRemove(c) \/ DockerRestart(c)
               \/ FinishAction(c)
        PROVE  JobsReleased'
    <2>1. jobs' = jobs /\ workerUp' = workerUp
      BY <1>4 DEF ChooseAdapter, SetBotStatus, SetHealthStatus, Pm2Start, Pm2Stop, DeleteProcess,
                  Pm2Delete, Pm2Restart, RestartProcess, RemoveContainer, CreateContainer, DockerStop,
                  DockerRemove,
                  DockerRestart, FinishAction, Stays
    <2>2. \/ \E pc : Step(c, pc) \/ act' = [act EXCEPT ![c].pc = pc, ![c].sound = FALSE]
          \/ \E pc, on : act' = [act EXCEPT ![c].pc = pc, ![c].on = on]
          \/ act' = [act EXCEPT ![c] = ActIdle]
      BY <1>4 DEF ChooseAdapter, SetBotStatus, SetHealthStatus, Pm2Start, Pm2Stop, DeleteProcess,
                  Pm2Delete, Pm2Restart, RestartProcess, RemoveContainer, CreateContainer, DockerStop,
                  DockerRemove,
                  DockerRestart, FinishAction, Throws
    <2>3. SameAskers
      BY <2>2, StepAskers, IdleAskers
    <2> QED BY <2>1, <2>3, AskersKept
  <1>5. ASSUME NEW c \in ActionCalls, CallCrash(c) PROVE JobsReleased'
    <2>1. workerUp' = workerUp /\ act' = [act EXCEPT ![c] = ActIdle]
      BY <1>5 DEF CallCrash
    <2>2. \A j \in jobs' : j \in jobs \/ (act[c].by = "job" /\ j = [bot |-> act[c].bot, dep |-> act[c].dep])
      BY <1>5 DEF CallCrash
    <2>3. \A j \in jobs' : j.dep \in Releases
      BY <2>2 DEF JobsReleased, Released
    <2>4. SameAskers
      BY <2>1, IdleAskers
    <2> QED BY <2>1, <2>3, <2>4 DEF JobsReleased, SameAskers, Released
  <1>6. ASSUME NEW r \in Releases,
               DeployBegins(r) \/ DeployHooks(r) \/ DeployReads(r) \/ \E q \in SUBSET FleetBots : DeployQueues(r, q)
        PROVE  JobsReleased'
    <2>1. act' = act /\ workerUp' = workerUp
      BY <1>6 DEF DeployBegins, DeployHooks, DeployReads, DeployQueues
    <2>2. jobs' = jobs \/ \E q : jobs' = jobs \cup {[bot |-> b, dep |-> r] : b \in q}
      BY <1>6 DEF DeployBegins, DeployHooks, DeployReads, DeployQueues, EnqueueStaggeredRestarts
    <2>3. \A j \in jobs' : j.dep \in Releases
      BY <2>2 DEF JobsReleased
    <2> QED BY <2>1, <2>3 DEF JobsReleased
  <1>7. ASSUME NEW on \in BOOLEAN, SetMaintenanceMode(on) PROVE JobsReleased'
    <2>1. jobs' = jobs /\ workerUp' = workerUp
      BY <1>7 DEF SetMaintenanceMode
    <2>2. \A d \in ActionCalls : act'[d] \in {act[d], [act[d] EXCEPT !.early = TRUE]}
      BY <1>7 DEF SetMaintenanceMode
    <2>3. \A d \in ActionCalls : act'[d].by = act[d].by /\ act'[d].dep = act[d].dep
      BY <2>2, CallFacts DEF ActRecords
    <2> QED BY <2>1, <2>3, AskersKept DEF SameAskers
  <1>8. ASSUME NEW b \in FleetBots,
               MoveBot(b) \/ PatchStatus(b, "online") \/ \E m \in Modes : ProcessDies(b, m)
        PROVE  JobsReleased'
    <2>1. jobs' = jobs /\ act' = Disturbed(b)
      BY <1>8 DEF MoveBot, PatchStatus, ProcessDies, Stays
    <2>2. workerUp' = workerUp \/ \E up \in BOOLEAN : workerUp' = [workerUp EXCEPT ![b] = up]
      BY <1>8 DEF MoveBot, PatchStatus, ProcessDies, Stays
    <2>3. workerUp' \in [FleetBots -> BOOLEAN]
      BY <2>2 DEF JobsReleased
    <2> QED BY <2>1, <2>3, DisturbedAskers DEF JobsReleased, Released
  <1>9. CASE UNCHANGED botActionVars
    BY <1>9 DEF botActionVars, JobsReleased, Released
  <1> QED BY <1>1, <1>2, <1>3, <1>4, <1>5, <1>6, <1>7, <1>8, <1>9 DEF BotActionsNext, CallStep

(* BotActions keeps its types, whatever calls, jobs and deployments overlap. *)
LEMMA BotActionsTypes == BotActionsSpec => []BotActionsTypeOK
  <1>1. BotActionsInit => JobsReleased
    <2> SUFFICES ASSUME BotActionsInit PROVE JobsReleased
      OBVIOUS
    <2>1. workerUp \in [FleetBots -> BOOLEAN] /\ jobs = {}
      BY DEF BotActionsInit
    <2>2. \A c \in ActionCalls : act[c] = ActIdle
      BY DEF BotActionsInit
    <2>3. ActIdle.by = "admin"
      BY DEF ActIdle
    <2> QED BY <2>1, <2>2, <2>3 DEF JobsReleased, Released
  <1>2. ActionsInv /\ JobsReleased => BotActionsTypeOK
    <2> SUFFICES ASSUME ActionsInv, JobsReleased PROVE BotActionsTypeOK
      OBVIOUS
    <2>1. \A c \in ActionCalls : act[c].bot \in FleetBots \cup {""} /\ act[c].on \in Modes
      BY CallFacts DEF ActRecords
    <2>2. \A j \in jobs : j.bot \in FleetBots /\ j.dep \in Releases
      BY DEF ActionsInv, BotTypes, JobRecords, JobsReleased
    <2> QED BY <2>1, <2>2 DEF BotActionsTypeOK, ActionsInv, BotTypes, ProcStates, JobsReleased
  <1> QED BY <1>1, <1>2, ReleasedStep, ActionsInvariant, PTL DEF BotActionsSpec

(* A request refers to customers and bots that exist and carries values an *)
(* admin can enter.                                                        *)
Entered(r) ==
  /\ r.pc = "insert" => r.customer \in customers /\ r.guilds \in GuildLimits /\ r.shards \in ShardCounts
  /\ r.pc = "health" => r.bot \in 1 .. Len(fleet)
  /\ r.pc = "update" => r.guilds \in GuildLimits \cup {Undefined} /\ r.shards \in ShardCounts \cup {Undefined}

(* So do the rows. *)
RowEntered(x) == x.customer \in customers /\ x.guilds \in GuildLimits /\ x.shards \in ShardCounts

FleetFits ==
  /\ customers \subseteq Customers /\ Len(fleet) <= MaxRows /\ planOps \in 0 .. MaxPlanOps
  /\ \A i \in 1 .. Len(fleet) : RowEntered(fleet[i])
  /\ healthy \subseteq 1 .. Len(fleet) /\ loose \subseteq 1 .. Len(fleet)
  /\ \A q \in PlanCalls : Entered(planReq[q])

(* A step that changes one request, and no row or customer. *)
LEMMA EnteredStep ==
  ASSUME CapsInv, FleetFits, NEW q \in PlanCalls, NEW y, planReq' = [planReq EXCEPT ![q] = y],
         Entered(y), UNCHANGED <<customers, fleet, loose>>,
         healthy' \subseteq 1 .. Len(fleet), planOps' \in 0 .. MaxPlanOps
  PROVE  FleetFits'
  <1>1. ASSUME NEW r \in PlanCalls PROVE Entered(planReq[r])'
    <2>1. Entered(planReq[r]) /\ planReq'[r] = IF r = q THEN y ELSE planReq[r]
      BY DEF FleetFits, CapsInv, PlansTypes
    <2> QED BY <2>1 DEF Entered
  <1> QED BY <1>1 DEF FleetFits, RowEntered

(* Counting operations stays within the bound. *)
LEMMA OpCounted == ASSUME FleetFits, PlanOp PROVE planOps' \in 0 .. MaxPlanOps
  BY PlansAssumption DEF FleetFits, PlanOp

(* Every step keeps rows and requests in their ranges. *)
LEMMA FleetStep == CapsInv /\ FleetFits /\ [PlansNext]_plansVars => FleetFits'
  <1> SUFFICES ASSUME CapsInv, FleetFits, [PlansNext]_plansVars PROVE FleetFits'
    OBVIOUS
  <1>1. ASSUME NEW c \in Customers, CreateCustomer(c) PROVE FleetFits'
    <2>1. customers \subseteq customers' /\ customers' \subseteq Customers
      BY <1>1 DEF CreateCustomer, FleetFits
    <2>2. UNCHANGED <<fleet, healthy, planReq, loose, planOps>>
      BY <1>1 DEF CreateCustomer
    <2>3. \A i \in 1 .. Len(fleet) : RowEntered(fleet[i])'
      BY <2>1, <2>2 DEF FleetFits, RowEntered
    <2>4. \A q \in PlanCalls : Entered(planReq[q])'
      BY <2>1, <2>2 DEF FleetFits, Entered
    <2> QED BY <2>1, <2>2, <2>3, <2>4 DEF FleetFits
  <1>2. ASSUME NEW q \in PlanCalls, NEW c \in Customers, NEW p \in Tiers, NEW g \in GuildLimits,
               NEW s \in ShardCounts, CountBots(q, c, p, g, s)
        PROVE  FleetFits'
    <2> DEFINE y == [planReq[q] EXCEPT !.pc = "insert", !.customer = c, !.plan = p, !.guilds = g, !.shards = s]
    <2>1. planReq' = [planReq EXCEPT ![q] = y] /\ c \in customers
      BY <1>2 DEF CountBots
    <2>2. y.pc = "insert" /\ y.customer = c /\ y.guilds = g /\ y.shards = s
      BY ReqFacts DEF PlanRecords
    <2> HIDE DEF y
    <2>3. Entered(y)
      BY <2>1, <2>2 DEF Entered
    <2>4. UNCHANGED <<customers, fleet, loose>> /\ healthy' \subseteq 1 .. Len(fleet)
      BY <1>2 DEF CountBots, FleetFits
    <2> QED BY <1>2, <2>1, <2>3, <2>4, EnteredStep, OpCounted DEF CountBots
  <1>3. ASSUME NEW q \in PlanCalls, NEW b, NEW p, NEW g \in GuildLimits \cup {Undefined},
               NEW s \in ShardCounts \cup {Undefined}, CheckPatch(q, b, p, g, s)
        PROVE  FleetFits'
    <2> DEFINE y == [planReq[q] EXCEPT !.pc = "update", !.bot = b, !.plan = p, !.guilds = g, !.shards = s,
                                       !.was = fleet[b].plan]
    <2>1. planReq' = [planReq EXCEPT ![q] = y]
      BY <1>3 DEF CheckPatch
    <2>2. y.pc = "update" /\ y.guilds = g /\ y.shards = s
      BY ReqFacts DEF PlanRecords
    <2> HIDE DEF y
    <2>3. Entered(y)
      BY <2>2 DEF Entered
    <2>4. UNCHANGED <<customers, fleet, loose>> /\ healthy' \subseteq 1 .. Len(fleet)
      BY <1>3 DEF CheckPatch, FleetFits
    <2> QED BY <1>3, <2>1, <2>3, <2>4, EnteredStep, OpCounted DEF CheckPatch
  <1>4. ASSUME NEW q \in PlanCalls, InsertHealth(q) \/ RequestLost(q) PROVE FleetFits'
    <2>1. /\ planReq' = [planReq EXCEPT ![q] = PlanIdle] /\ UNCHANGED <<customers, fleet, loose, planOps>>
          /\ healthy' = healthy \/ (planReq[q].pc = "health" /\ healthy' = healthy \cup {planReq[q].bot})
      BY <1>4 DEF InsertHealth, RequestLost
    <2>2. healthy' \subseteq 1 .. Len(fleet)
      <3>1. healthy \subseteq 1 .. Len(fleet) /\ Entered(planReq[q])
        BY DEF FleetFits
      <3>2. planReq[q].pc = "health" => planReq[q].bot \in 1 .. Len(fleet)
        BY <3>1 DEF Entered
      <3> QED BY <2>1, <3>1, <3>2
    <2>3. Entered(PlanIdle)
      BY PlanIdleRecord DEF Entered
    <2>4. planOps' \in 0 .. MaxPlanOps
      BY <2>1 DEF FleetFits
    <2> QED BY <2>1, <2>2, <2>3, <2>4, EnteredStep
  <1>5. ASSUME NEW q \in PlanCalls, InsertBot(q) PROVE FleetFits'
    <2> DEFINE x == planReq[q]
               row == [customer |-> x.customer, plan |-> x.plan, born |-> x.plan,
                       guilds |-> x.guilds, shards |-> x.shards]
               n == Len(fleet) + 1
               y == [x EXCEPT !.pc = "health", !.bot = n]
    <2>1. /\ x.pc = "insert" /\ fleet' = Append(fleet, row) /\ Len(fleet) < MaxRows
          /\ UNCHANGED <<customers, healthy, loose, planOps>>
      BY <1>5 DEF InsertBot
    <2>2. planReq' = [planReq EXCEPT ![q] = y]
      BY <1>5, ReqFacts DEF InsertBot, CapsInv, PlansTypes
    <2>3. RowEntered(row)
      BY <2>1 DEF FleetFits, Entered, RowEntered
    <2>4. n \in Nat /\ Len(fleet) \in Nat /\ Len(fleet) < n /\ n <= MaxRows
      BY <2>1, PlansAssumption, ReqFacts
    <2>5. y.pc = "health" /\ y.bot = n
      BY ReqFacts DEF PlanRecords
    <2>6. fleet \in Seq(BotRows)
      BY ReqFacts
    <2> HIDE DEF row, y
    <2>7. Len(fleet') = n /\ fleet'[n] = row /\ \A i \in 1 .. Len(fleet) : fleet'[i] = fleet[i]
      BY <2>1, <2>6
    <2> HIDE DEF n
    <2>8. ASSUME NEW i \in 1 .. n PROVE RowEntered(fleet[i])'
      <3>1. CASE i = n
        BY <2>1, <2>3, <2>7, <3>1 DEF RowEntered
      <3>2. CASE i # n
        <4>1. i \in 1 .. Len(fleet)
          BY <2>4, <3>2 DEF n
        <4> QED BY <2>1, <2>7, <4>1 DEF FleetFits, RowEntered
      <3> QED BY <3>1, <3>2
    <2>9. ASSUME NEW r \in PlanCalls PROVE Entered(planReq[r])'
      <3>1. Entered(planReq[r]) /\ planReq'[r] = IF r = q THEN y ELSE planReq[r]
        BY <2>2 DEF FleetFits, CapsInv, PlansTypes
      <3>2. \A b \in 1 .. Len(fleet) : b \in 1 .. n
        BY <2>4
      <3>3. n \in 1 .. n
        BY <2>4
      <3> QED BY <2>1, <2>5, <2>7, <3>1, <3>2, <3>3 DEF Entered
    <2>10. \A b \in 1 .. Len(fleet) : b \in 1 .. n
      BY <2>4
    <2> QED BY <2>1, <2>4, <2>7, <2>8, <2>9, <2>10 DEF FleetFits
  <1>6. ASSUME NEW q \in PlanCalls, UpdateBot(q) PROVE FleetFits'
    <2> DEFINE x == planReq[q]
               b == x.bot
               old == fleet[b]
               np == Defined(x.plan, NoTier, old.plan)
               ng == Defined(x.guilds, Undefined, old.guilds)
               ns == Defined(x.shards, Undefined, old.shards)
               row == [old EXCEPT !.plan = np, !.guilds = ng, !.shards = ns]
    <2>1. /\ x.pc = "update" /\ fleet' = [fleet EXCEPT ![b] = row]
          /\ planReq' = [planReq EXCEPT ![q] = PlanIdle]
          /\ UNCHANGED <<customers, healthy, planOps>>
      BY <1>6 DEF UpdateBot
    <2>2. loose' \subseteq loose \cup {b}
      BY <1>6 DEF UpdateBot
    <2>3. b \in 1 .. Len(fleet) /\ old \in BotRows /\ RowEntered(old) /\ Entered(x)
      BY <2>1, ReqFacts DEF Checked, FleetFits
    <2>4. ng \in GuildLimits /\ ns \in ShardCounts
      BY <2>1, <2>3 DEF Entered, RowEntered, Defined
    <2> HIDE DEF np, ng, ns
    <2>5. row.customer = old.customer /\ row.guilds = ng /\ row.shards = ns
      BY <2>3 DEF BotRows
    <2> HIDE DEF row
    <2>6. /\ Len(fleet') = Len(fleet) /\ fleet'[b] = row
          /\ \A i \in 1 .. Len(fleet) : i # b => fleet'[i] = fleet[i]
      BY <2>1, <2>3, ReqFacts
    <2>7. ASSUME NEW i \in 1 .. Len(fleet) PROVE RowEntered(fleet[i])'
      BY <2>1, <2>3, <2>4, <2>5, <2>6 DEF FleetFits, RowEntered
    <2>8. ASSUME NEW r \in PlanCalls PROVE Entered(planReq[r])'
      <3>1. Entered(planReq[r]) /\ planReq'[r] = IF r = q THEN PlanIdle ELSE planReq[r]
        BY <2>1 DEF FleetFits, CapsInv, PlansTypes
      <3> QED BY <2>1, <2>6, <3>1, PlanIdleRecord DEF Entered
    <2> QED BY <2>1, <2>2, <2>3, <2>6, <2>7, <2>8 DEF FleetFits
  <1>7. CASE UNCHANGED plansVars
    BY <1>7 DEF plansVars, FleetFits, RowEntered, Entered
  <1> QED BY <1>1, <1>2, <1>3, <1>4, <1>5, <1>6, <1>7 DEF PlansNext

(* Plans keeps its types, however creations and changes overlap. *)
LEMMA PlansTypesHold == PlansSpec => []PlansTypeOK
  <1>1. PlansInit => FleetFits
    <2> SUFFICES ASSUME PlansInit PROVE FleetFits
      OBVIOUS
    <2>1. \A q \in PlanCalls : Entered(planReq[q])
      BY PlanIdleRecord DEF PlansInit, Entered
    <2> QED BY <2>1, PlansAssumption DEF PlansInit, FleetFits
  <1>2. CapsInv /\ FleetFits => PlansTypeOK
    <2> SUFFICES ASSUME CapsInv, FleetFits PROVE PlansTypeOK
      OBVIOUS
    <2>1. fleet \in Seq(BotRows) /\ DOMAIN fleet = 1 .. Len(fleet)
      BY DEF CapsInv, PlansTypes
    <2>2. \A i \in DOMAIN fleet :
            /\ fleet[i].customer \in customers /\ {fleet[i].plan, fleet[i].born} \subseteq Tiers
            /\ fleet[i].guilds \in GuildLimits /\ fleet[i].shards \in ShardCounts
      <3> SUFFICES ASSUME NEW i \in DOMAIN fleet
                   PROVE  /\ fleet[i].customer \in customers /\ {fleet[i].plan, fleet[i].born} \subseteq Tiers
                          /\ fleet[i].guilds \in GuildLimits /\ fleet[i].shards \in ShardCounts
        OBVIOUS
      <3>1. fleet[i] \in BotRows /\ RowEntered(fleet[i])
        BY <2>1 DEF FleetFits
      <3>2. fleet[i].plan \in Tiers /\ fleet[i].born \in Tiers
        BY <3>1 DEF BotRows
      <3> QED BY <3>1, <3>2 DEF RowEntered
    <2>3. \A q \in PlanCalls :
            /\ planReq[q].pc \in {"idle", "insert", "health", "update"}
            /\ planReq[q].pc \in {"health", "update"} => planReq[q].bot \in DOMAIN fleet
      <3> SUFFICES ASSUME NEW q \in PlanCalls
                   PROVE  /\ planReq[q].pc \in {"idle", "insert", "health", "update"}
                          /\ planReq[q].pc \in {"health", "update"} => planReq[q].bot \in DOMAIN fleet
        OBVIOUS
      <3>1. planReq[q] \in PlanRecords /\ Checked(planReq[q]) /\ Entered(planReq[q])
        BY ReqFacts DEF FleetFits
      <3>2. planReq[q].pc \in {"idle", "insert", "health", "update"}
        BY <3>1 DEF PlanRecords
      <3>3. planReq[q].pc = "update" => planReq[q].bot \in 1 .. Len(fleet)
        BY <3>1 DEF Checked
      <3>4. planReq[q].pc = "health" => planReq[q].bot \in 1 .. Len(fleet)
        BY <3>1 DEF Entered
      <3> QED BY <2>1, <3>2, <3>3, <3>4
    <2> QED BY <2>1, <2>2, <2>3 DEF FleetFits, PlansTypeOK
  <1> QED BY <1>1, <1>2, FleetStep, CapsInit, CapsStep, PTL DEF PlansSpec

-----------------------------------------------------------------------------
(* The components together *)

(* A behaviour that exercises one component at a time is a behaviour of each *)
(* of them, so what is proved of a component holds of the composition that   *)
(* TLC checks: no step of one changes what another reads or writes.          *)
THEOREM OperationsCompose == MCSpec => WorkersSpec /\ BotActionsSpec /\ RolesSpec /\ PlansSpec
  <1>1. MCInit => WorkersInit /\ BotActionsInit /\ RolesInit /\ PlansInit
    BY DEF MCInit
  <1>2. [MCNext]_<<part, workersVars, botActionVars, rolesVars, plansVars>> =>
          /\ [WorkersNext]_workersVars /\ [BotActionsNext]_botActionVars
          /\ [RolesNext]_rolesVars /\ [PlansNext]_plansVars
    BY DEF MCNext
  <1> QED BY <1>1, <1>2, PTL DEF MCSpec, WorkersSpec, BotActionsSpec, RolesSpec, PlansSpec

(* Users, bots, workers, deployments and customers keep their types, for any *)
(* number of each and any overlap of the requests about them.                *)
THEOREM OperationsTypes == MCSpec => []OperationsTypeOK
  <1>1. MCSpec => [](part \in Parts)
    <2>1. MCInit => part \in Parts
      BY DEF MCInit
    <2>2. part \in Parts /\ [MCNext]_<<part, workersVars, botActionVars, rolesVars, plansVars>>
            => (part \in Parts)'
      BY DEF MCNext
    <2> QED BY <2>1, <2>2, PTL DEF MCSpec
  <1>2. WorkersSpec => []WorkersTypeOK
    BY WorkersInvariant, WorkersTyped, PTL
  <1>3. RolesSpec => []RolesTypeOK
    <2>1. RolesInv => RolesTypeOK
      BY DEF RolesInv
    <2> QED BY <2>1, RolesInvariant, PTL
  <1> QED
    BY <1>1, <1>2, <1>3, BotActionsTypes, PlansTypesHold, OperationsCompose, PTL DEF OperationsTypeOK

=============================================================================
