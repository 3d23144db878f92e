SPECIFICATION LivenessSpec

CONSTANTS
  w1 = w1
  w2 = w2
  e1 = e1
  e2 = e2
  e3 = e3
  Agents = {1, 2, 3}
  Workloads = {w1, w2}
  Fleets <- MCFleets
  Demands <- MCDemands
  Homes <- MCHomes
  DrainCalls = {d1, d2}
  HealthChecks = 2
  MaxEvents = 2
  AlertBots = {1, 2}
  GuildBots = {2}
  Evaluators = {"scheduled", "click"}
  MaxRestarts <- MCMaxRestarts
  MessageIds = {m1, m2}
  TtlMs = 2
  MaxClock = 4
  MaxLives = 1
  Libraries = {"discordjs", "eris"}
  MaxQueueSize = 2
  MaxSends = 5
  MaxOutages = 2
  MaxPerWindow = 2
  WindowMs = 3
  Horizon = 9
  CrashBots = {b1}
  Errors = {e1, e2, e3}
  HashError <- MCHashError
  Matches <- MCMatches
  Buttons = {u1, u2}
  MaxAttempts = 2
  MaxClicks = 5
  Hosted = {w3}
  Children = {p1, p2, p3}
  NoChild = NoChild
  Overlap = TRUE

INVARIANTS
  MessagingTypeOK
  RecommendationSettles
  StopIsFenced
  DrainLeavesNothing
  NewestKept
  BurstBounded
  AnswerFits
  SignalledHasOneStopper

PROPERTIES
  DrainEnds
  RestartsReported
  NoEarlyReplay
  ReportsInOrder
  Recovers
  DiscordStoppedIsLast
  SignalledDies

\* The numbers of events are bounded.
CHECK_DEADLOCK FALSE
