SPECIFICATION FairSpec
CONSTANTS
  c1 = c1  c2 = c2  p1 = p1  p2 = p2
  Commands <- OneCommand
  Consumers <- TwoConsumers
  Retries = 2
  MaxFailures = 2
  MaxRedeliveries = 1
  None = None
CHECK_DEADLOCK FALSE
INVARIANTS DuplicatesExcused StatusTellsTruth ScheduledNotEarly NoneForgotten
PROPERTIES CommandsSettle ImplementsCommandLife
