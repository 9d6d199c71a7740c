\* Rounds, features, failures and a hidden page under one controller.
SPECIFICATION FairSpec
CONSTANTS
  MaxRounds = 3
  Scenarios <- Everyday
INVARIANTS
  RoundsRight
  ResultsHonoured
  PlayerCanGoOn
PROPERTIES
  EndIsFinal
  RoundsPlayedOut
\* The rounds are bounded, so an instance stops.
CHECK_DEADLOCK FALSE
