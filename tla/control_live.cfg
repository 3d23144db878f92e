CONSTANTS
  Workloads = {w1}
  Agents = {a1, a2}
  Commands = {c1, c2}
  Requests = {t1}
  Reconcilers = {r1, r2}
  None = None
  MaxAttempts = 2
  MaxGeneration = 3
  MaxOps = 2
  MaxStalled = 1
  Faults = {}
SPECIFICATION FairSpec
PROPERTIES
  Converges
