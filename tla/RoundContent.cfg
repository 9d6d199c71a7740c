SPECIFICATION Spec
CONSTANTS
  PotBets = {1, 2}
  PotWins = {6}
  PotUpper = 2
  PotCap = 5
  PotLinger = 2
  PotIdle = 4
  PotRounds = 2
  MusicSteps = 14
  PageCalls = 7
  PageTasks = 3
  TotalWin = 2
  MessageRounds = 2
  FirstSpins = 3
  WinCap = 3
  WinTotals = {0, 1, 2}
  MaxAwarded = 5
  MaxLevel = 2
  MaxCollected = 3
  RunCounts = {2}
  StopBoundaries = {"any-win"}
  ControlRounds = 2
  CabinetRounds = 3
  ClipFrames = 2
  IntroFrames = 3
INVARIANTS
  ContentRight
  RoundRight
  StageRight
PROPERTY
  StepsRight
CHECK_DEADLOCK FALSE
