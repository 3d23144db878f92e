CONSTANTS
  Workloads = {w1}
  Agents = {a1}
  Commands = {c1, c2}
  Requests = {t1}
  Reconcilers = {r1, r2}
  None = None
  MaxAttempts = 2
  MaxGeneration = 2
  MaxOps = 3
  MaxStalled = 1
  Faults = {"timeout"}
SPECIFICATION Spec
INVARIANTS
  OneReconcilerCommand
