--------------------------- MODULE MCRoundContent ---------------------------
(***************************************************************************)
(* The parts of the page that decide what a round's result is, shows and   *)
(* sounds like, for TLC: those of RoundStage, and those that decode a      *)
(* result, keep it, and play it bit by bit.                                *)
(***************************************************************************)
EXTENDS RoundStage

CONSTANTS
  CabinetRounds \* Cabinet

Ledger == INSTANCE VaultLedger WITH s <- now, Vaults <- <<1, 2>>

Money == INSTANCE ResultProjection WITH s <- now, Cap <- 4, Nominals <- {1, 2}

Sprite == INSTANCE SpriteAudio WITH s <- now,
  Shots <- {"open", "close", "tail", "intro"},
  Loops <- {"ambient", "counter", "motor"}, MaxVoices <- 3, MaxCalls <- 4

BigWin == INSTANCE BigWin WITH s <- now, Bets <- {1, 3},
  Wins <- {20, 80, 307, 1601}, Frames <- {500, 3500}, MaxPresents <- 2

\* The coins and the quarters of density each level of the fuse allows.
CoinBudgets ==
  <<[coins |-> 4, quarters |-> 4], [coins |-> 3, quarters |-> 3], [coins |-> 1, quarters |-> 2]>>
Coins == INSTANCE CoinShower WITH s <- now, Pools <- 2, Capacity <- 2,
  Lifetime <- 2, Budgets <- CoinBudgets, Tiers <- {1, 3}, Window <- 3,
  SlowToDegrade <- 2, HealthyToRecover <- 2, Batch <- 3, BurstTicks <- 1,
  MaxFrames <- 4, MaxLoads <- 2

Wire == INSTANCE WireContract WITH s <- now, InitialSpins <- 2, MaxSpins <- 3,
  Cap <- 5, MaxRequests <- 3

Case == INSTANCE Cabinet WITH s <- now, MaxRounds <- CabinetRounds

Kept == INSTANCE RecoveryLedger WITH s <- now, MaxRounds <- 2, MaxLaunches <- 2,
  MaxRage <- 2, MaxSpins <- 3

Init ==
  \/ StageInit
  \/ part = "ledger" /\ Ledger!Init
  \/ part = "money" /\ Money!Init
  \/ part = "sprite" /\ Sprite!Init
  \/ part = "bigwin" /\ BigWin!Init
  \/ part = "coins" /\ Coins!Init
  \/ part = "wire" /\ Wire!Init
  \/ part = "cabinet" /\ Case!Init
  \/ part = "kept" /\ Kept!Init

Next ==
  \/ StageNext
  \/ Only("ledger") /\ Ledger!Tamper
  \/ Only("ledger") /\ Ledger!Decode
  \/ Only("ledger") /\ Ledger!PresentOther
  \/ Only("ledger") /\ Ledger!StartUnlockGroup
  \/ Only("ledger") /\ Ledger!StartUpgrades
  \/ Only("ledger") /\ Ledger!DeferAward
  \/ Only("ledger") /\ Ledger!MemberFinishes
  \/ Only("ledger") /\ Ledger!BarrierComplete
  \/ Only("ledger") /\ Ledger!EventsOver
  \/ Only("ledger") /\ Ledger!PresentAward
  \/ Only("money") /\ Money!Alter
  \/ Only("money") /\ Money!DecodeWins
  \/ Only("money") /\ Money!Identities
  \/ Only("money") /\ Money!AwardTotal
  \/ Only("money") /\ Money!PaidProjection
  \/ Only("money") /\ Money!CapProjection
  \/ Only("sprite") /\ \E p \in {"main", "delayed"} : Sprite!Decoded(p)
  \/ Only("sprite") /\ \E p \in {"main", "delayed"} : Sprite!PackFailed(p)
  \/ Only("sprite") /\ \E p \in {"main", "delayed"} : Sprite!Late(p)
  \/ Only("sprite") /\ Sprite!prime
  \/ Only("sprite") /\ Sprite!primeForLaunch
  \/ Only("sprite") /\ \E c \in {"open", "close", "tail", "intro"} : Sprite!playOneShot(c)
  \/ Only("sprite") /\ \E c \in {"open", "close", "tail", "intro"}, fade \in BOOLEAN : Sprite!stopOneShot(c, fade)
  \/ Only("sprite") /\ \E l \in {"ambient", "counter", "motor"}, level \in {0, 1} : Sprite!startLoop(l, level)
  \/ Only("sprite") /\ \E l \in {"ambient", "counter", "motor"}, fade \in BOOLEAN : Sprite!stopLoop(l, fade)
  \/ Only("sprite") /\ \E level \in 0..2 : Sprite!setBaseMusicStemLevel(level)
  \/ Only("sprite") /\ Sprite!enterFreeSpinsBaseMusic
  \/ Only("sprite") /\ Sprite!quickStopReelMotor
  \/ Only("sprite") /\ Sprite!finishReelMotorNaturally
  \/ Only("sprite") /\ Sprite!Aged
  \/ Only("sprite") /\ Sprite!destroy
  \/ Only("sprite") /\ \E i \in 1..3 : Sprite!Ended(i)
  \/ Only("bigwin") /\ \E p \in BigWin!Plans : BigWin!present(p)
  \/ Only("bigwin") /\ BigWin!Loaded
  \/ Only("bigwin") /\ BigWin!loadArtwork
  \/ Only("bigwin") /\ BigWin!requestAdvance
  \/ Only("bigwin") /\ BigWin!abort
  \/ Only("bigwin") /\ BigWin!destroy
  \/ Only("bigwin") /\ \E f \in {500, 3500} : BigWin!update(f)
  \/ Only("coins") /\ Coins!load
  \/ Only("coins") /\ Coins!Slice
  \/ Only("coins") /\ Coins!LoadFails
  \/ Only("coins") /\ Coins!stop
  \/ Only("coins") /\ Coins!killAll
  \/ Only("coins") /\ Coins!setReducedMotion
  \/ Only("coins") /\ Coins!clearArtwork
  \/ Only("coins") /\ Coins!destroy
  \/ Only("coins") /\ \E t \in {1, 3} : Coins!setTier(t)
  \/ Only("coins") /\ \E kind \in {"slow", "middle", "healthy"}, n \in 0..2 : Coins!update(kind, n)
  \/ Only("wire") /\ \E kind \in Wire!Kinds : Wire!Ask(kind)
  \/ Only("wire") /\ \E wins \in {<<>>, <<Wire!Way(2)>>}, events \in Wire!Lists : Wire!Settle(wins, events)
  \/ Only("wire") /\ Wire!Refuse
  \/ Only("wire") /\ Wire!Reply
  \/ Only("wire") /\ Wire!Repeat
  \/ Only("wire") /\ Wire!Foreign
  \/ Only("wire") /\ Wire!GiveUp
  \/ Only("wire") /\ Wire!Read
  \/ Only("cabinet") /\ Case!advanceCollectionReaction
  \/ Only("cabinet") /\ Case!playHidden
  \/ Only("cabinet") /\ Case!scheduleShow
  \/ Only("cabinet") /\ Case!scheduleIdle
  \/ Only("cabinet") /\ Case!advanceLabel
  \/ Only("cabinet") /\ \E loaded \in BOOLEAN : Case!LabelLoads(loaded)
  \/ Only("cabinet") /\ \E mode \in Case!Modes : Case!Resumes(mode)
  \/ Only("cabinet") /\ Case!completeIntro
  \/ Only("cabinet") /\ Case!finishSpinPresentation
  \/ Only("cabinet") /\ Case!reactToWin
  \/ Only("cabinet") /\ Case!WinsOver
  \/ Only("cabinet") /\ \E mode \in Case!Modes : \E round \in Case!Rounds(mode) : Case!beginSpinPresentation(round)
  \/ Only("cabinet") /\ Case!cueCollect
  \/ Only("cabinet") /\ Case!OpenGroup
  \/ Only("cabinet") /\ Case!UnlockGroup
  \/ Only("cabinet") /\ Case!UpgradeGroup
  \/ Only("cabinet") /\ Case!presentFreeSpinAwardBatch
  \/ Only("cabinet") /\ Case!GroupCompleted
  \/ Only("cabinet") /\ \E c \in Case!Cells : Case!AwardVault(c)
  \/ Only("cabinet") /\ Case!cueWheelStarted
  \/ Only("cabinet") /\ Case!cueWheelAwarded
  \/ Only("cabinet") /\ Case!beginWheelSpinPresentation
  \/ Only("cabinet") /\ Case!commitPendingWheelAward
  \/ Only("cabinet") /\ Case!presentWheelBonusLabel
  \/ Only("cabinet") /\ Case!WheelOver
  \/ Only("cabinet") /\ \E continued \in BOOLEAN : Case!FreeSpinsStarted(continued)
  \/ Only("cabinet") /\ Case!SummaryHides
  \/ Only("cabinet") /\ Case!RoundComplete
  \/ Only("cabinet") /\ Case!PresentationFails
  \/ Only("cabinet") /\ Case!rejectSpinResult
  \/ Only("kept") /\ \E bet \in {1, 2} : Kept!AskOld(bet)
  \/ Only("kept") /\ \E bet \in {1, 2} : Kept!requestSpin(bet)
  \/ Only("kept") /\ \E c \in Kept!Configs, b \in {Kept!Mine, Kept!Other} : Kept!Launch(c, b)
  \/ Only("kept") /\ \E m \in Kept!Submissions : Kept!Receive(m)
  \/ Only("kept") /\ \E m \in Kept!Submissions : Kept!Lose(m)
  \/ Only("kept") /\ \E answered \in BOOLEAN : Kept!Acknowledge(answered)
  \/ Only("kept") /\ \E sample \in Kept!Samples : Kept!CallFails(sample)
  \/ Only("kept") /\ \E h \in Kept!Headers, sample \in Kept!Samples : Kept!RateLimited(h, sample)
  \/ Only("kept") /\ \E h \in Kept!Headers, sample \in Kept!Samples : Kept!throwIfEdgeRateLimited(h, sample)
  \/ Only("kept") /\ Kept!Settle
  \/ Only("kept") /\ Kept!Reject
  \/ Only("kept") /\ Kept!NothingStored
  \/ Only("kept") /\ Kept!ForeignLedger
  \/ Only("kept") /\ Kept!RefuseLedger
  \/ Only("kept") /\ Kept!restorePendingLedger
  \/ Only("kept") /\ Kept!UpgradeNotSaved
  \/ Only("kept") /\ Kept!discoverPendingResult
  \/ Only("kept") /\ Kept!SubmissionFails
  \/ Only("kept") /\ Kept!pollPending
  \/ Only("kept") /\ Kept!finishRejectedRound
  \/ Only("kept") /\ Kept!acceptCommitted

Spec == Init /\ [][Next]_vars

-----------------------------------------------------------------------------
(* What is decoded and kept of a result, what is shown and played of it bit *)
(* by bit, and what stands around the reels. Each part's module says what it*)
(* promises; the types of its state come first.                             *)
ContentRight ==
  /\ part = "ledger" =>
       Ledger!TypeOK /\ Ledger!SoundAccepted /\ Ledger!PresentedAsSettled /\ Ledger!PaidInFull
  /\ part = "money" => Money!TypeOK /\ Money!SoundAccepted /\ Money!AddsUp
  /\ part = "sprite" =>
       Sprite!TypeOK /\ Sprite!NothingStrands /\ Sprite!StopsHold /\ Sprite!DuckFollowsCounter /\ Sprite!StemAsTold /\ Sprite!DeadStaysSilent
  /\ part = "bigwin" =>
       BigWin!TypeOK /\ BigWin!ToldInOrder /\ BigWin!LevelsEarned /\ BigWin!ShownIsHonest /\ BigWin!LoadsAgain
  /\ part = "coins" => Coins!TypeOK /\ Coins!WithinBudget /\ Coins!WholeOrNothing
  /\ part = "wire" =>
       Wire!TypeOK /\ Wire!NothingRefused /\ Wire!NothingLost /\ Wire!OwnAnswerOnly
  /\ part = "cabinet" =>
       Case!TypeOK /\ Case!OnlyWhatWasWon /\ Case!PlayedOnce /\ Case!NothingCarriedOver /\ Case!LogoDriven /\ Case!StandsInMode
  /\ part = "kept" =>
       Kept!TypeOK /\ Kept!OriginExact /\ Kept!StoredIsReadable /\ Kept!OwnRoundOnly /\ Kept!AskedWithOrigin /\ Kept!LedgerResumes /\ Kept!WaitsLongEnough

(* What no step of a part may do.                                           *)
StepRight ==
  /\ StageStep
  /\ part = "ledger" => Ledger!PaidLast
  /\ part = "bigwin" => BigWin!AmountRises
  /\ part = "coins" => Coins!FuseIsFair
  /\ part = "cabinet" => Case!NoIdleWhileTurning
  /\ part = "kept" => Kept!EvidenceKept
StepsRight == [][StepRight]_now

(* What the intro promises of a launch, with reduced motion too: when it is *)
(* over the character is in view.                                           *)
LaunchShowsTheCharacter == part = "character" => Ape!LaunchShowsTheCharacter
=============================================================================
