SPECIFICATION FairSpec
CONSTANTS
  a1 = a1  a2 = a2  q1 = q1  q2 = q2  p1 = p1  p2 = p2
  Alarms <- OneAlarm
  AutoClear <- OneAlarm
  AlarmRequests <- OneRequest
  Processes <- TwoProcesses
  MaxUplinks = 2
  MaxFailures = 2
  MaxRedeliveries = 1
  MaxRequests = 1
  None = None
CHECK_DEADLOCK FALSE
INVARIANTS AnnouncedOnce CommittedIsSettled
PROPERTIES UplinksSettle
