SPECIFICATION SafetySpec

CONSTANTS
  NWorkers = 3
  NBots = 3
  MaxBots <- MCMaxBots
  MoveCalls = {m1, m2}
  MaxMoves = 2
  FleetBots = {b1}
  ActionCalls = {a1, a2}
  Releases = {r1}
  MaxActions = 3
  MaxFailures = 1
  Users = {u1, u2, u3}
  AllowListed = {u1}
  RoleCalls = {q1, q2}
  MaxRoleCalls = 2
  Customers = {c1}
  Tiers = {"free", "starter"}
  GuildLimits = {50, 250}
  ShardCounts = {1}
  PlanCalls = {p1, p2}
  MaxRows = 3
  MaxPlanOps = 4
  Hosts = {h1, h2}
  Tokens = {t1}
  Rows = {r1, r2, r3, r4, r5, r6}
  Conns = {k1, k2}
  None = None
  Misfits = {h2}
  Ordered = TRUE
  MaxDrains = 2
  MaxFaults = 2
  Workloads = {w1, w2}
  Children = {x1, x2, x3}
  NoChild = NoChild
  Overlap = FALSE

INVARIANTS
  OperationsTypeOK
  StrandedMeansFull
  SoundActionAgrees
  ParkedStaysDown
  MaintenanceHolds
  ExcessBounded
  CapsHold
  GatewayTypeOK
  TokenRedeemedOnce
  ServedConnection
  NoDanglingAgent
  RunnerTypeOK
  NoUntrackedChild
  StoppedMeansDead

PROPERTIES
  DrainFits

\* The numbers of requests are bounded.
CHECK_DEADLOCK FALSE
