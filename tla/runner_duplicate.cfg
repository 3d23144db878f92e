CONSTANTS
  Workloads = {w1}
  Children = {p1, p2, p3}
  NoChild = NoChild
  Overlap = TRUE
SPECIFICATION RunnerSpec
SYMMETRY Symmetry
INVARIANTS
  NoSecondCopy
