SPECIFICATION MCSpec

CONSTANTS
  NWorkers = 3
  NBots = 3
  MaxBots <- MCMaxBots
  MoveCalls = {m1, m2}
  MaxMoves = 1
  FleetBots = {b1}
  ActionCalls = {a1, a2}
  Releases = {r1}
  MaxActions = 1
  MaxFailures = 1
  Users = {u1, u2, u3}
  AllowListed = {u1}
  RoleCalls = {q1, q2}
  MaxRoleCalls = 2
  Customers = {c1}
  Tiers = {"free", "starter"}
  GuildLimits = {50, 250}
  ShardCounts = {1}
  PlanCalls = {p1, p2}
  MaxRows = 3
  MaxPlanOps = 1

INVARIANTS
  AnOwnerRemains

\* The numbers of requests are bounded.
CHECK_DEADLOCK FALSE
