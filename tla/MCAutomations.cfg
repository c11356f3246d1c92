SPECIFICATION Spec
CONSTANTS
  r1 = r1  r2 = r2  q1 = q1  h1 = h1  h2 = h2  h3 = h3
  Rules <- OneRule
  Cooling <- OneRule
  Handlers <- TwoHandlers
  RuleRequests <- OneRequest
  MaxDeliveries = 4
  MaxFailures = 3
  MaxCrashes = 1
  MaxTicks = 1
  MaxRequests = 2
  None = None
SYMMETRY Symmetry
CHECK_DEADLOCK FALSE
INVARIANTS CooldownKept
