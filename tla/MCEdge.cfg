SPECIFICATION FairSpec
CONSTANTS
  e1 = e1  e2 = e2  d1 = d1  d2 = d2  c1 = c1  c2 = c2  h1 = h1  h2 = h2
  Edges <- TwoEdges
  Devices <- OneDevice
  Commands <- OneCommand
  Handlers <- TwoHandlers
  MaxRequests = 2
  MaxBeats = 1
  MaxTicks = 1
  MaxFailures = 1
  None = None
CHECK_DEADLOCK FALSE
INVARIANTS AnswerStands HandedOutOnce CountCoversDevices
PROPERTIES SilentGoesOffline CommandsAnswered ImplementsMailbox
