\* Reloads, hidden pages, renewed tokens, new tabs and failing calls.
SPECIFICATION FairSpec
CONSTANTS
  MaxRounds = 2
  maxPollAttempts = 2
  acknowledgementMaxAttempts = 2
  Scenarios <- Everyday
INVARIANTS
  RecordsRight
  NeverStuck
  GenuineResults
PROPERTIES
  ImplementsDelivery
  RoundEnds
\* Rounds, faults and pages are bounded, so an instance stops.
CHECK_DEADLOCK FALSE
