\* Two replicas race for the two events of one aggregate.
SPECIFICATION FairSpec
CONSTANTS
  None = None
  Aggregates = {a1}
  Dispatchers = {d1, d2}
  Tokens = {t1, t2, t3}
  BatchSize = 2
  MaxParallel = 1
  AttemptLimit = 2
  MaxEvents = 2
\* Identifiers and attempts are bounded, so an instance stops.
CHECK_DEADLOCK FALSE
INVARIANTS TypeOK InOrder NothingLost SlotsCountCalls
PROPERTIES LeaseFence ImplementsStream NeverForgotten
