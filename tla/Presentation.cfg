SPECIFICATION FairSpec
INVARIANT
  PartsRight
PROPERTIES
  StepsRight
  PartsEnd
CHECK_DEADLOCK FALSE
