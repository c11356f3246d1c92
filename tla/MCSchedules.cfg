SPECIFICATION Spec
CONSTANTS
  s1 = s1  p1 = p1  p2 = p2  x1 = x1  x2 = x2  u1 = u1  u2 = u2
  Schedules <- OneSchedule
  Processes <- TwoProcesses
  Executions <- TwoExecutions
  Requests <- TwoRequests
  MaxRuns = 2
  MaxRequests = 2
  MaxFailures = 1
  MaxCrashes = 1
  None = None
SYMMETRY Symmetry
CHECK_DEADLOCK FALSE
INVARIANTS CountWithinHistory EnabledHasJob OffStaysOff
