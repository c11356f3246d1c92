SPECIFICATION FairSpec
CONSTANTS
  w1 = w1  w2 = w2  w3 = w3  c1 = c1  c2 = c2
  d1 = d1  d2 = d2  d3 = d3  u1 = u1  u2 = u2
  Workers <- TwoWorkers
  Customers <- OneCustomer
  Devices <- OneDevice
  Users <- OneUser
  CustomerOf <- AllOfOne
  Limit = 5
  Allocations <- UpToTwo
  Requests <- OnlyAtOnce
  Triggers = TRUE
  MayFail = FALSE
  MaxCount = 3
  None = None
CHECK_DEADLOCK FALSE
PROPERTIES HandlersReturn
