--------------------------- MODULE MCPresentation ---------------------------
(***************************************************************************)
(* The parts of the page that start it and present a round, for TLC.  They  *)
(* share no state, so a behaviour moves one of them, which "part" names: one *)
(* run checks them all.  The parts that keep their state in one record share *)
(* the variable of it.                                                       *)
(***************************************************************************)
EXTENDS Integers, FiniteSets

VARIABLES part, now,
          seq, task, post, view, loop, idle, grid, heard, alive, budget,
          rowCount, whole, target, origin, settled

stopVars == <<seq, task, post, view, loop, idle, grid, heard, alive, budget>>
beltVars == <<rowCount, whole, target, origin, settled>>
vars == <<part, now, stopVars, beltVars>>

-----------------------------------------------------------------------------
\* One result for every combination of the anticipation plan and the ending.
Result(a, b, c) == [r \in 0..2 |-> CASE r = 0 -> a [] r = 1 -> b [] OTHER -> c]
Plain == Result({}, {}, {})
EveryPlan ==
  { Plain, Result({"WILD"}, {}, {}), Result({"SURGE"}, {"SURGE"}, {}),
    Result({"SURGE"}, {"SURGE"}, {"WILD"}), Result({"SURGE"}, {"SURGE"}, {"SURGE"}) }

\* One spin with any plan and late timers; two plain spins.
Spins == { [spins |-> 1, faults |-> 1, late |-> 1, mayCancel |-> TRUE, results |-> EveryPlan],
           [spins |-> 2, faults |-> 1, late |-> 0, mayCancel |-> FALSE, results |-> {Plain}] }

Stop == INSTANCE ReelStop WITH
  FirstBrake <- 3, FastFirstBrake <- 2, ReelGap <- 1, FastGap <- 1, BrakeTime <- 1,
  SlowBrake <- 2, Bounce <- 1, Transition <- 1, CopyLead <- 0, Outro <- 1, Late <- 1,
  MaxSpins <- 2, Scenarios <- Spins
Belt == INSTANCE ReelBelt WITH
  RowCounts <- 3..8, StripLength <- 7, MinTravel <- 9, MaxWhole <- 17

Start == INSTANCE Startup WITH s <- now, Tasks <- 3, Parts <- 3

Dom == INSTANCE DomReadiness WITH s <- now, Images <- 3, Workers <- 2, Fonts <- 1

Intro == INSTANCE LaunchIntro WITH s <- now, Duration <- 2, Cues <- <<0, 1, 2>>,
  Grace <- 1, MaxWall <- 4

Warm == INSTANCE RendererLaunch WITH s <- now, Loads <- 3, Workers <- 2

Hud == INSTANCE FreeSpinHud WITH s <- now, Calls <- 3

Wins == { [n |-> 1, merge |-> TRUE, big |-> FALSE, count |-> 4],
          [n |-> 2, merge |-> FALSE, big |-> TRUE, count |-> 1] }
Win == INSTANCE WinRecords WITH s <- now, Plays <- Wins, ShowDone <- 1,
  MergeEnd <- 2, MergeDone <- 3, HideTime <- 1, PlainHold <- 2,
  MultiplierHold <- 4, RepeatHold <- 2, Late <- 2, MaxGen <- 3, Stalls <- FALSE

Feature == INSTANCE FeaturePresentation WITH s <- now, Show <- 1, Hold <- 2,
  Hide <- 1, StopFrom <- 1, Turn <- 3, Fade <- 2, Members <- 2

Rage == INSTANCE RageFeature WITH s <- now, Cells <- 2, Swing <- 1, PerCell <- 1,
  Cooldown <- 1, Pound <- 1, Activated <- 2, HiddenAfter <- 1, Absorbing <- 1,
  LayerBack <- 2, Gone <- 2, Flight <- 3, Jump <- 7

Flame == INSTANCE WheelHyperspin WITH s <- now, Appear <- 3, Disappear <- 2

\* The record of the part that moves, of those that keep theirs in one.
PartInit ==
  \/ part = "start" /\ Start!Init
  \/ part = "dom" /\ Dom!Init
  \/ part = "intro" /\ Intro!Init
  \/ part = "warm" /\ Warm!Init
  \/ part = "hud" /\ Hud!Init
  \/ part = "win" /\ Win!Init
  \/ part = "feature" /\ Feature!Init
  \/ part = "rage" /\ Rage!Init
  \/ part = "flame" /\ Flame!Init
  \/ part \in {"stop", "belt"} /\ now = [at |-> "none"]

Init == /\ part \in {"stop", "belt", "start", "dom", "intro", "warm", "hud",
                        "win", "feature", "rage", "flame"}
        /\ PartInit /\ Stop!Init /\ Belt!Init
        /\ part = "stop" \/ budget = CHOOSE b \in Spins : TRUE

-----------------------------------------------------------------------------
OnlyStop == part = "stop" /\ UNCHANGED <<part, now, beltVars>>
OnlyBelt == part = "belt" /\ UNCHANGED <<part, now, stopVars>>
Only(p) == part = p /\ UNCHANGED <<part, stopVars, beltVars>>

Next ==
  \/ OnlyStop /\ Stop!markSpinStart
  \/ OnlyStop /\ Stop!present
  \/ OnlyStop /\ Stop!requestFastForward
  \/ OnlyStop /\ Stop!cancel
  \/ OnlyStop /\ Stop!Tick
  \/ OnlyStop /\ Stop!PostTimer
  \/ OnlyStop /\ Stop!quickStopReleaseTimer
  \/ OnlyStop /\ Stop!EndingGoesOn
  \/ OnlyStop /\ Stop!PresentSettles
  \/ OnlyStop /\ \E r \in 0..2 : Stop!TaskTimer(r)
  \/ OnlyStop /\ \E r \in 0..2 : Stop!ReelDelayOver(r)
  \/ OnlyStop /\ \E r \in 0..2 : Stop!BarrierOver(r)
  \/ OnlyStop /\ \E r \in 0..2 : Stop!Impact(r)
  \/ OnlyStop /\ \E r \in 0..2 : Stop!Frame(r)
  \/ OnlyStop /\ Stop!WinPresentation
  \/ OnlyStop /\ Stop!RageCascade
  \/ OnlyStop /\ Stop!setRowsTransition
  \/ OnlyStop /\ Stop!setGrid
  \/ OnlyBelt /\ Belt!beginSpin
  \/ OnlyBelt /\ Belt!applySpinFrame
  \/ OnlyBelt /\ Belt!stopAt
  \/ OnlyBelt /\ Belt!Brake
  \/ OnlyBelt /\ Belt!commitRequestedStopImpact
  \/ OnlyBelt /\ Belt!applyLayout
  \/ OnlyBelt /\ Belt!setVisualStripMode
  \/ Only("start") /\ Start!takeLaunchHandoff
  \/ Only("start") /\ Start!importApplicationModule
  \/ Only("start") /\ Start!waitForPaintedFrame
  \/ Only("start") /\ Start!ControllerLoaded
  \/ Only("start") /\ Start!buildPaintedStartupStage
  \/ Only("start") /\ Start!runStagedComponentConstruction
  \/ Only("start") /\ Start!createAndStart
  \/ Only("start") /\ Start!runTaskWithDeadline
  \/ Only("start") /\ Start!LaunchPainted
  \/ Only("start") /\ Start!SessionOpens
  \/ Only("start") /\ Start!InitialSessionTimeout
  \/ Only("start") /\ Start!PageLeft
  \/ Only("start") /\ Start!WindowError
  \/ Only("start") /\ \E t \in 1..3 : Start!report(t)
  \/ Only("start") /\ \E t \in 1..3 : Start!TaskEnds(t)
  \/ Only("dom") /\ Dom!waitForRequiredImageLoad
  \/ Only("dom") /\ Dom!nextTask
  \/ Only("dom") /\ Dom!FontsReady
  \/ Only("dom") /\ Dom!linkAbortSignal
  \/ Only("dom") /\ \E i \in 1..3 : Dom!onLoad(i)
  \/ Only("dom") /\ \E i \in 1..3 : Dom!onError(i)
  \/ Only("dom") /\ \E i \in 1..3 : Dom!observeDecode(i)
  \/ Only("dom") /\ \E i \in 1..3 : Dom!RetryStarts(i)
  \/ Only("dom") /\ \E i \in 1..3 : Dom!decodeRequiredImage(i)
  \/ Only("dom") /\ \E i \in 1..3, which \in 1..2 : Dom!AttemptSettles(i, which)
  \/ Only("dom") /\ \E f \in 1..1 : Dom!FontLoads(f)
  \/ Only("intro") /\ Intro!playLaunchIntroWithinWallDeadline
  \/ Only("intro") /\ Intro!continueFeaturePreview
  \/ Only("intro") /\ Intro!UnlockFails
  \/ Only("intro") /\ Intro!onFrame
  \/ Only("intro") /\ Intro!WallDeadline
  \/ Only("intro") /\ Intro!destroy
  \/ Only("intro") /\ Intro!Tick
  \/ Only("intro") /\ Intro!getLaunchPlaybackClock
  \/ Only("warm") /\ Warm!loadCriticalAssets
  \/ Only("warm") /\ Warm!setAuthoredSymbolsEnabledFrameSliced
  \/ Only("warm") /\ Warm!runGpuPrepareSlices
  \/ Only("warm") /\ Warm!warmCriticalAssets
  \/ Only("warm") /\ Warm!warmUp
  \/ Only("warm") /\ Warm!destroy
  \/ Only("warm") /\ \E i \in 1..3 : Warm!LoadReports(i)
  \/ Only("warm") /\ \E i \in 1..3 : Warm!LoadSettles(i)
  \/ Only("warm") /\ \E mode \in {"BASE", "FREE"} : Warm!restoreFeatureState(mode)
  \/ Only("hud") /\ Hud!hide
  \/ Only("hud") /\ Hud!requestCapContinue
  \/ Only("hud") /\ Hud!adoptVerifiedFeatureArtwork
  \/ Only("hud") /\ Hud!releaseVerifiedFeatureArtwork
  \/ Only("hud") /\ Hud!destroy
  \/ Only("hud") /\ Hud!ArtworkSettles
  \/ Only("hud") /\ Hud!StaleArtwork
  \/ Only("hud") /\ Hud!HideOver
  \/ Only("hud") /\ Hud!PanelShown
  \/ Only("hud") /\ Hud!HoldOver
  \/ Only("hud") /\ Hud!PanelOver
  \/ Only("hud") /\ \E active \in BOOLEAN : Hud!show(active)
  \/ Only("hud") /\ \E active \in BOOLEAN : Hud!restoreFeatureState(active)
  \/ Only("hud") /\ \E active \in BOOLEAN : Hud!updateFeatureState(active)
  \/ Only("hud") /\ \E active \in BOOLEAN : Hud!retriggerCap(active)
  \/ Only("win") /\ Win!presentRecord
  \/ Only("win") /\ Win!ShowFails
  \/ Only("win") /\ Win!LoadSettles
  \/ Only("win") /\ Win!Frame
  \/ Only("win") /\ Win!completeResidentHideTail
  \/ Only("win") /\ Win!requestSpin
  \/ Only("win") /\ Win!AcceptWins
  \/ Only("win") /\ Win!AcceptNothing
  \/ Only("win") /\ Win!presentNormalWinCounter
  \/ Only("win") /\ Win!requestFastStop
  \/ Only("win") /\ Win!schedulePostWinIdleRepeat
  \/ Only("win") /\ Win!runPostWinIdleRepeat
  \/ Only("win") /\ Win!destroy
  \/ Only("feature") /\ \E call \in {"intro", "summary", "wheel", "tease", "trails", "upgrade", "unlock"} : Feature!presentAfterReels(call)
  \/ Only("feature") /\ \E count \in 1..2 : Feature!GroupStarted(count)
  \/ Only("feature") /\ \E kind \in {"fs", "wheel"} : Feature!adoptVerifiedArtwork(kind)
  \/ Only("feature") /\ \E kind \in {"fs", "wheel"} : Feature!releaseVerifiedFeatureArtwork(kind)
  \/ Only("feature") /\ \E kind \in {"fs", "wheel"}, loaded \in BOOLEAN : Feature!ArtworkSettles(kind, loaded)
  \/ Only("feature") /\ Feature!Frame
  \/ Only("feature") /\ Feature!renderFrame
  \/ Only("feature") /\ Feature!FrameFails
  \/ Only("feature") /\ Feature!requestWheelInteraction
  \/ Only("feature") /\ Feature!requestWheelSummaryContinue
  \/ Only("feature") /\ Feature!requestFreeSpinContinue
  \/ Only("feature") /\ Feature!requestFreeSpinSummaryContinue
  \/ Only("feature") /\ Feature!requestVaultTeaseSkip
  \/ Only("feature") /\ Feature!ArtworkLoaded
  \/ Only("feature") /\ Feature!IntroShown
  \/ Only("feature") /\ Feature!waitForFreeSpinsContinue
  \/ Only("feature") /\ Feature!SummaryShown
  \/ Only("feature") /\ Feature!SummaryHeld
  \/ Only("feature") /\ Feature!PopupOver
  \/ Only("feature") /\ Feature!WheelReady
  \/ Only("feature") /\ Feature!WheelLanded
  \/ Only("feature") /\ Feature!SummaryReady
  \/ Only("feature") /\ Feature!SummaryOver
  \/ Only("feature") /\ Feature!OutroAwaited
  \/ Only("feature") /\ Feature!LastAwaited
  \/ Only("feature") /\ Feature!cancelActivePresentation
  \/ Only("feature") /\ Feature!destroy
  \/ Only("rage") /\ Rage!presentRageCascade
  \/ Only("rage") /\ \E d \in 1..7 : Rage!CascadeFrame(d)
  \/ Only("rage") /\ Rage!CascadeFrameFails
  \/ Only("rage") /\ Rage!CascadeGoesOn
  \/ Only("rage") /\ Rage!presentAuthoredSurgeCollection
  \/ Only("rage") /\ \E d \in 1..7 : Rage!FlightFrame(d)
  \/ Only("rage") /\ Rage!FlightFrameFails
  \/ Only("rage") /\ Rage!FlightGoesOn
  \/ Only("rage") /\ Rage!CommitTimer
  \/ Only("rage") /\ Rage!commitRageCollectionAfterBarrier
  \/ Only("rage") /\ Rage!cancelSpinPresentation
  \/ Only("rage") /\ Rage!destroy
  \/ Only("flame") /\ \E visible \in BOOLEAN : Flame!setVisible(visible)
  \/ Only("flame") /\ Flame!tick
  \/ Only("flame") /\ Flame!destroy

Spec == Init /\ [][Next]_vars

\* Timers fire and frames are drawn.
Progress ==
  \/ OnlyStop /\ Stop!Progress
  \/ Only("start") /\ Start!Progress
  \/ Only("dom") /\ Dom!Progress
  \/ Only("intro") /\ Intro!Progress
  \/ Only("warm") /\ Warm!Progress
  \/ Only("hud") /\ Hud!Progress
  \/ Only("win") /\ Win!Progress
  \/ Only("feature") /\ Feature!Progress
  \/ Only("rage") /\ Rage!Progress
  \/ Only("flame") /\ Flame!Progress
FairSpec == Spec /\ WF_vars(Progress)

-----------------------------------------------------------------------------
(* What each part promises of every state, the types of its state first; its*)
(* module says what that is.                                                *)
PartsRight ==
  /\ Stop!TypeOK /\ Belt!TypeOK
  /\ part = "stop" => /\ Stop!OneLayer /\ Stop!LoopOfItsOwn /\ Stop!QuickStopFloor
                      /\ Stop!SuspenseClosed /\ Stop!LeftToRight /\ Stop!NoIdleInSpin
                      /\ Stop!ResolvedMeansSettled
  /\ part = "belt" => Belt!LandsExactly
  /\ part = "start" => Start!TypeOK /\ Start!NothingLeftBehind /\ Start!OutcomeShown
  /\ part = "dom" => Dom!TypeOK /\ Dom!ReadyMeansReady
  /\ part = "intro" => Intro!TypeOK /\ Intro!IntroRight
  /\ part = "warm" => Warm!TypeOK /\ Warm!LaunchRight
  /\ part = "hud" => Hud!TypeOK /\ Hud!HudRight /\ Hud!PromptClosed
  /\ part = "win" => Win!TypeOK /\ Win!InOrder /\ Win!SceneOwned /\ Win!Responsive
  /\ part = "feature" =>
       Feature!TypeOK /\ Feature!ClosedOnce /\ Feature!TurnAccounted /\ Feature!StageOwned /\ Feature!BatchOfItsOwn
  /\ part = "rage" => Rage!TypeOK /\ Rage!BeatsInOrder /\ Rage!ReelsGivenBack
  /\ part = "flame" => Flame!TypeOK /\ Flame!Moves

(* What no step of a part may do.                                           *)
StepRight ==
  /\ part = "start" => Start!ProgressForward
  /\ part = "dom" => Dom!EndedStays
  /\ part = "intro" => Intro!ClockContinuous
  /\ part = "warm" => Warm!LoadsStop
  /\ part = "win" => Win!Quiet
  /\ part = "feature" => Feature!Quiet
  /\ part = "rage" => Rage!QuietOnceCancelled
  /\ part = "flame" => Flame!HiddenGently
StepsRight ==
  Stop!SilentAfterEnd /\ Belt!Continuous /\ Belt!InsertedOffScreen /\ [][StepRight]_now

(* What a part comes to in the end: every presentation and every wait ends. *)
PartWaits ==
  \/ part = "start" /\ Start!Waits
  \/ part = "dom" /\ Dom!Waits
  \/ part = "intro" /\ Intro!Waits
  \/ part = "warm" /\ Warm!Waits
  \/ part = "hud" /\ Hud!Waits
  \/ part = "win" /\ Win!Waits
  \/ part = "feature" /\ Feature!Waits
  \/ part = "rage" /\ Rage!Waits
  \/ part = "flame" /\ Flame!Waits
PartEnded ==
  \/ part = "start" /\ Start!Ended
  \/ part = "dom" /\ Dom!Ended
  \/ part = "intro" /\ Intro!Ended
  \/ part = "warm" /\ Warm!Ended
  \/ part = "hud" /\ Hud!Ended
  \/ part = "win" /\ Win!Ended
  \/ part = "feature" /\ Feature!Ended
  \/ part = "rage" /\ Rage!Ended
  \/ part = "flame" /\ Flame!Ended
OtherWaits ==
  \/ part = "stop" /\ seq.presenting /\ alive
  \/ part = "start" /\ Start!HalfBuilt
  \/ part = "flame" /\ Flame!Wanted
OtherEnded ==
  \/ part = "stop" /\ (~seq.presenting \/ ~alive)
  \/ part = "start" /\ Start!GivenBack
  \/ part = "flame" /\ Flame!Steady
PartsEnd == (PartWaits ~> PartEnded) /\ (OtherWaits ~> OtherEnded)
=============================================================================
