CONSTANTS
  Workloads = {w1}
  Agents = {a1, a2}
  Commands = {c1, c2}
  Requests = {t1}
  Reconcilers = {r1}
  None = None
  MaxAttempts = 2
  MaxGeneration = 3
  MaxOps = 3
  MaxStalled = 1
  Faults = {"disconnect", "crash", "timeout", "gateway"}
SPECIFICATION Spec
SYMMETRY Symmetry
INVARIANTS
  TypeOK
  TokenNamesOwner
  ExhaustedIsSuspended
PROPERTIES
  EndedStaysEnded
