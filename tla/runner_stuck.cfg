CONSTANTS
  Workloads = {w1}
  Children = {p1, p2}
  NoChild = NoChild
  Overlap = FALSE
SPECIFICATION RunnerFairSpec

PROPERTIES
  HandlerReports
