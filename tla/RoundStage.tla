----------------------------- MODULE RoundStage -----------------------------
(***************************************************************************)
(* The parts of the page that drive a round, and those that are heard:     *)
(* which feature state a result may come to, the controls and the          *)
(* messages, the character, the music, what is audible, the pot.  They     *)
(* share no state, so a behaviour moves one of them, which "part" names,   *)
(* in the record "now".                                                    *)
(***************************************************************************)
EXTENDS Integers, Sequences, FiniteSets

CONSTANTS
  PotBets, PotWins, PotUpper, PotCap, PotLinger, PotIdle, PotRounds, \* MusicPot
  MusicSteps,                                           \* MusicProgram
  PageCalls, PageTasks,                                 \* AudioLifecycle
  TotalWin, MessageRounds,                              \* RoundMessages
  FirstSpins, WinCap, WinTotals, MaxAwarded, MaxLevel, MaxCollected, \* FeatureCycle
  RunCounts, StopBoundaries, ControlRounds,             \* SpinControls
  ClipFrames, IntroFrames                               \* CharacterStage

ASSUME PotAssumption ==
  /\ PotBets \subseteq Nat \ {0} /\ PotBets # {} /\ PotWins \subseteq Nat
  /\ PotUpper \in Nat \ {0, 1} /\ PotCap \in Nat \ {0}
  /\ PotLinger \in Nat /\ PotIdle \in Nat /\ PotRounds \in Nat
ASSUME MusicAssumption == MusicSteps \in Nat
ASSUME PageAssumption == PageCalls \in Nat /\ PageTasks \in Nat
ASSUME MessagesAssumption == TotalWin \in Nat /\ MessageRounds \in Nat
ASSUME ControlsAssumption ==
  RunCounts \subseteq Nat \ {0} /\ "any-win" \in StopBoundaries /\ ControlRounds \in Nat
ASSUME CycleAssumption ==
  /\ FirstSpins \in Nat \ {0} /\ MaxAwarded \in Nat /\ FirstSpins <= MaxAwarded
  /\ WinCap \in Nat \ {0} /\ WinTotals \subseteq 0..WinCap
  /\ MaxLevel \in Nat \ {0} /\ MaxCollected \in Nat
ASSUME CharacterAssumption == ClipFrames \in Nat \ {0} /\ IntroFrames \in Nat \ {0}

VARIABLES part, now
vars == <<part, now>>

Controls == INSTANCE SpinControls WITH s <- now, Counts <- RunCounts,
  Boundaries <- StopBoundaries, Rounds <- ControlRounds

Messages == INSTANCE RoundMessages WITH s <- now, Total <- TotalWin,
  Rounds <- MessageRounds

Cycle == INSTANCE FeatureCycle WITH s <- now, FirstSpins <- FirstSpins,
  Cap <- WinCap, Totals <- WinTotals, MaxAwarded <- MaxAwarded,
  MaxLevel <- MaxLevel, MaxCollected <- MaxCollected

Tune == INSTANCE MusicProgram WITH s <- now, MaxSteps <- MusicSteps

Audible == INSTANCE AudioLifecycle WITH s <- now, MaxCalls <- PageCalls,
  MaxQueue <- PageTasks

Pot == INSTANCE MusicPot WITH s <- now, Bets <- PotBets, Wins <- PotWins,
  Upper <- PotUpper, Cap <- PotCap, Linger <- PotLinger, Idle <- PotIdle,
  MaxRounds <- PotRounds

Ape == INSTANCE CharacterStage WITH s <- now, Long <- ClipFrames,
  IntroLong <- IntroFrames

StageInit ==
  \/ part = "controls" /\ Controls!Init
  \/ part = "messages" /\ Messages!Init
  \/ part = "cycle" /\ Cycle!Init
  \/ part = "music" /\ Tune!Init
  \/ part = "audible" /\ Audible!Init
  \/ part = "pot" /\ Pot!Init
  \/ part = "character" /\ Ape!Init

Only(p) == part = p /\ UNCHANGED part

StageNext ==
  \/ Only("controls") /\ Controls!handlePrimarySpinAction
  \/ Only("controls") /\ Controls!SpaceKey
  \/ Only("controls") /\ Controls!StopAutoplay
  \/ Only("controls") /\ Controls!TimerFires
  \/ Only("controls") /\ Controls!setFeaturePreviewVisible
  \/ Only("controls") /\ Controls!freeSpinTimer
  \/ Only("controls") /\ Controls!rejectSpinResult
  \/ Only("controls") /\ Controls!RoundOver
  \/ Only("controls") /\ Controls!showSessionTimeout
  \/ Only("controls") /\ Controls!destroy
  \/ Only("controls") /\ \E panel \in {"bet", "auto", "menu"} : Controls!OpenPanel(panel)
  \/ Only("controls") /\ \E panel \in {"bet", "auto", "menu"} : Controls!ClosePanel(panel)
  \/ Only("controls") /\ \E count \in RunCounts : Controls!startAutoplay(count)
  \/ Only("controls") /\ \E boundary \in StopBoundaries : Controls!setAutoplayStopSettings(boundary)
  \/ Only("controls") /\ \E boundary \in StopBoundaries : Controls!Boundary(boundary)
  \/ Only("controls") /\ \E yes \in BOOLEAN : Controls!setLaunchPhase(yes)
  \/ Only("controls") /\ \E yes \in BOOLEAN : Controls!StatusChanges(yes)
  \/ Only("controls") /\ \E win \in BOOLEAN, free \in 0..1 : Controls!ResultAccepted(win, free)
  \/ Only("controls") /\ \E mode \in {"waiting", "stop", "continue", "wheel", "popup", "turn"} : Controls!ModeOfTheShow(mode)
  \/ Only("messages") /\ Messages!requestSpin
  \/ Only("messages") /\ Messages!refreshUi
  \/ Only("messages") /\ Messages!handleStatus
  \/ Only("messages") /\ Messages!Recovered
  \/ Only("messages") /\ Messages!clearTransientSpinMessage
  \/ Only("messages") /\ Messages!beginResultPresentation
  \/ Only("messages") /\ Messages!showBigWinCongratulations
  \/ Only("messages") /\ Messages!BigWinOver
  \/ Only("messages") /\ Messages!CounterFrame
  \/ Only("messages") /\ Messages!CounterFinishes
  \/ Only("messages") /\ Messages!WinsOver
  \/ Only("messages") /\ Messages!showWheelBonusRoundSummary
  \/ Only("messages") /\ Messages!presentationFailed
  \/ Only("messages") /\ \E win \in 0..TotalWin, big \in BOOLEAN, bonus \in 0..1 : Messages!ResultAccepted(win, big, bonus)
  \/ Only("messages") /\ \E win \in 0..TotalWin, bonus \in 0..1 : Messages!beginRecoveredRound(win, bonus)
  \/ Only("messages") /\ \E timed \in BOOLEAN : Messages!presentNormalWinCounter(timed)
  \/ Only("messages") /\ \E yes \in BOOLEAN : Messages!roundComplete(yes)
  \/ Only("cycle") /\ Cycle!AcceptBaseSpin
  \/ Only("cycle") /\ Cycle!AcceptFreeSpin
  \/ Only("music") /\ \E mode \in {"base", "free"} : Tune!syncGameMusic(mode)
  \/ Only("music") /\ Tune!requestSpin
  \/ Only("music") /\ Tune!ReelsStop
  \/ Only("music") /\ Tune!ShowBigWin
  \/ Only("music") /\ Tune!CountStart
  \/ Only("music") /\ Tune!HideBigWin
  \/ Only("music") /\ Tune!NormalWin
  \/ Only("music") /\ Tune!NormalWinOver
  \/ Only("music") /\ Tune!FeatureStarts
  \/ Only("music") /\ Tune!FeatureCompleted
  \/ Only("music") /\ Tune!beginFreeSpinsExitOnce
  \/ Only("music") /\ Tune!RoundOver
  \/ Only("music") /\ Tune!onLevelChange
  \/ Only("music") /\ Tune!destroy
  \/ Only("music") /\ \E c \in {"bigcount", "normal"} : Tune!Sweetener(c)
  \/ Only("audible") /\ Audible!handleVisibilityChange
  \/ Only("audible") /\ Audible!handlePageBlur
  \/ Only("audible") /\ Audible!handlePageFocus
  \/ Only("audible") /\ Audible!bindUserGestures
  \/ Only("audible") /\ Audible!requestSpin
  \/ Only("audible") /\ Audible!toggleMuted
  \/ Only("audible") /\ Audible!Task
  \/ Only("audible") /\ Audible!Resumed
  \/ Only("audible") /\ Audible!ResumeRefused
  \/ Only("audible") /\ Audible!Suspended
  \/ Only("audible") /\ Audible!destroy
  \/ Only("pot") /\ \E bet \in PotBets : Pot!beginRound(bet)
  \/ Only("pot") /\ \E win \in PotWins : Pot!recordWin(win)
  \/ Only("pot") /\ Pot!recordNoWin
  \/ Only("pot") /\ Pot!endRound
  \/ Only("pot") /\ Pot!updateOneSecond
  \/ Only("pot") /\ Pot!dock
  \/ Only("pot") /\ Pot!undock
  \/ Only("character") /\ Ape!LoadArtwork
  \/ Only("character") /\ Ape!AbortLoad
  \/ Only("character") /\ \E ok \in BOOLEAN : Ape!BitmapLoads(ok)
  \/ Only("character") /\ \E ok \in BOOLEAN : Ape!AuthoredLoads(ok)
  \/ Only("character") /\ \E ok \in BOOLEAN : Ape!performArtworkLoad(ok)
  \/ Only("character") /\ Ape!cueIntro
  \/ Only("character") /\ Ape!cueHudReveal
  \/ Only("character") /\ Ape!seekAuthoredIntro
  \/ Only("character") /\ \E yes \in BOOLEAN : Ape!completeIntro(yes)
  \/ Only("character") /\ \E yes \in BOOLEAN : Ape!handleReducedMotionPreference(yes)
  \/ Only("character") /\ \E breaker \in Ape!Breakers : Ape!update(breaker)
  \/ Only("character") /\ \E mode \in Ape!Modes : \E rage \in 1..2 : Ape!restoreFeatureState(mode, rage)
  \/ Only("character") /\ \E mode \in Ape!Modes : \E rage \in 1..2 : Ape!PresentationFails(mode, rage)
  \/ Only("character") /\ \E clip \in Ape!Reactions : Ape!cueReaction(clip)
  \/ Only("character") /\ \E clip \in Ape!CollectClips : Ape!cueCollect(clip)
  \/ Only("character") /\ \E level \in 1..2 : Ape!setRageAuraLevel(level)
  \/ Only("character") /\ \E direction \in {"expand", "shrink"} : Ape!GridExpanded(direction)
  \/ Only("character") /\ \E mode \in Ape!Modes : Ape!completeWheelPresentation(mode)
  \/ Only("character") /\ \E rage \in 1..2 : \E shrinks \in BOOLEAN : Ape!beginFeatureExitAtSummaryHide(rage, shrinks)
  \/ Only("character") /\ Ape!reactToWin
  \/ Only("character") /\ Ape!beginWheelSpinPresentation
  \/ Only("character") /\ Ape!onWheelSpinFinish
  \/ Only("character") /\ Ape!abortWheelPresentation
  \/ Only("character") /\ Ape!cueFreeSpinsStarted
  \/ Only("character") /\ Ape!exitFeatureMode
  \/ Only("character") /\ Ape!destroy

-----------------------------------------------------------------------------
(* The round as the page drives it: which feature state it accepts, its     *)
(* controls and its messages. Each part's module says what it promises; the *)
(* types of its state come first.                                           *)
RoundRight ==
  /\ part = "controls" =>
       Controls!TypeOK /\ Controls!PaidAsChosen /\ Controls!StoppedStays /\ Controls!BoundaryHonoured /\ Controls!OnePanel /\ Controls!TimedOutIsFinal /\ Controls!NotForgotten
  /\ part = "messages" =>
       Messages!TypeOK /\ Messages!AnsweredOnce /\ Messages!MeterTrue /\ Messages!LineTrue
  /\ part = "cycle" => Cycle!TypeOK /\ Cycle!Conserved /\ Cycle!SoundAccepted

(* The character that is seen, the music that is heard and the pot that is  *)
(* counted up: the moment decides them. Each part's module says what it     *)
(* promises; the types of its state come first.                             *)
StageRight ==
  /\ part = "music" => Tune!TypeOK /\ Tune!MusicFits /\ Tune!StemFits /\ Tune!LoopsEnd
  /\ part = "audible" =>
       Audible!TypeOK /\ Audible!FrontIsHeard /\ Audible!BackIsSilent /\ Audible!OneChange
  /\ part = "pot" => Pot!TypeOK /\ Pot!LevelOfPot /\ Pot!CalmsDown /\ Pot!Bounded
  /\ part = "character" =>
       Ape!TypeOK /\ Ape!OneCharacter /\ Ape!ShownWhole /\ Ape!BreakerWaits /\ Ape!PoundsForTheWheel /\ Ape!StandsInMode /\ Ape!AuraShown

(* What no step of these parts may do: a win ends the run that was to stop  *)
(* at it, a result moves the feature state and its meter whole, a feature's *)
(* exit leaves the character clean, and the pot falls in time.              *)
StageStep ==
  /\ part = "controls" => Controls!WinStops
  /\ part = "cycle" => Cycle!CycleWhole /\ Cycle!MeterKept
  /\ part = "pot" => Pot!FallsInTime
  /\ part = "character" => Ape!ExitIsClean
=============================================================================
