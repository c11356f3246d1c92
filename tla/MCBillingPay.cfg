SPECIFICATION Spec
CONSTANTS
  w1 = w1  w2 = w2  w3 = w3  p1 = p1  p2 = p2  u1 = u1  u2 = u2
  Workers <- MCWorkers2
  Payments <- MCPayments2
  Users <- MCUsers1
  Tenant = t1
  Offers <- TwoPlans
  Requests <- PaymentRequests
  MaxTime = 0
  None = None
CHECK_DEADLOCK FALSE
SYMMETRY Symmetry
INVARIANTS PaidOrFlagged RefundWasMade NoLockCycle
PROPERTIES PaymentNeverLowersPlan AppliedAsPaid
