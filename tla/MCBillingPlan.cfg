SPECIFICATION FairSpec
CONSTANTS
  w1 = w1  w2 = w2  w3 = w3  p1 = p1  p2 = p2  u1 = u1  u2 = u2
  Workers <- MCWorkers2
  Payments <- MCPayments1
  Users <- MCUsers1
  Tenant = t1
  Offers <- TwoPlans
  Requests <- PlanRequests
  MaxTime = 1
  None = None
CHECK_DEADLOCK FALSE
INVARIANTS EntitlementWasPaid DowngradeIsLower
PROPERTIES HandlersReturn ImplementsEntitlement
