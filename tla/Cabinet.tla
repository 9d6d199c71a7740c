------------------------------ MODULE Cabinet -------------------------------
(***************************************************************************)
(* What stands around the reels: the jackpot tower (JackpotTowerView.ts),  *)
(* the logo (LogoGameView.ts) and the plate of a wheel's money             *)
(* (WheelBonusWinLabel.ts), as PixiRenderer.ts plays a round on them.      *)
(* A round is the list of calls its events make, in the server's order:    *)
(* vaults, Rage, wheel; the awards of the vaults are put off to the end.   *)
(***************************************************************************)
EXTENDS Integers, Sequences, FiniteSets, TLC
CONSTANTS MaxRounds   \* bound: rounds played
VARIABLE s

Tiers == <<"low", "high">>      \* bottom to top
Modes == {"BASE", "EXPANSION", "OVERDRIVE"}
Cells == 1..3
None == [c \in Cells |-> "none"]
Lit == [t \in {"low", "high"} |-> TRUE]

(***************************************************************************)
(* A round: its calls, the prizes of its vaults when they open and after   *)
(* King Spin raised them, the wheel's prize, the mode it leaves.           *)
(***************************************************************************)
Round(calls, opens, raised, wheel, next) ==
  [calls |-> calls, opens |-> opens, raised |-> raised, wheel |-> wheel, next |-> next]
Vaults(a, b, c) == (1 :> a) @@ (2 :> b) @@ (3 :> c)
Plain(calls, mode) == Round(calls, None, None, "none", mode)
Wheel == <<"wheel", "prize">>
Opens == <<"open", "unlock", "opened">>
Rounds(mode) ==
  CASE mode = "BASE" ->
         { Plain(<<>>, mode), Plain(<<"collect">>, mode),
           Round(Wheel, None, None, "high", mode),
           Round(Wheel \o <<"start">>, None, None, "feature", "OVERDRIVE"),
           Round(Opens \o <<"collect", "award2", "award3">>, Vaults("none", "low", "high"),
                 None, "none", mode),
           Round(Opens \o Wheel \o <<"start", "award1">>, Vaults("low", "none", "none"), None,
                 "feature", "EXPANSION") }
    [] mode = "EXPANSION" ->
         { Round(<<"open", "unlock", "free", "opened", "award2", "award3">>,
                 Vaults("free", "low", "high"), None, "none", mode),
           Round(<<"open", "unlock", "free", "opened">>, Vaults("free", "none", "none"),
                 None, "none", mode),
           Plain(<<"end">>, "BASE") }
    [] OTHER ->
         { Round(Opens \o <<"upgrade", "award1", "award2">>, Vaults("low", "low", "none"),
                 Vaults("none", "high", "none"), "none", mode),
           Plain(<<"end">>, "BASE") }
Holding(vaults) == {c \in Cells : vaults[c] # "none"}

(***************************************************************************)
(* tower: clip and palette of each panel, whether a highlight is on, the   *)
(* next panel of the collection's reaction (0: none); pending, cells,      *)
(* expected, resolved: the renderer's ledger of a vault batch; award: the  *)
(* wheel's, not yet shown; scene: the wheel; exit: pendingFeatureExit.     *)
(* Ghosts: mode (the session's), won (tiers the round has revealed),       *)
(* batches and plays (highlights due and played), mixed (a group of free   *)
(* spins and awards was flushed half way), leaked (a failed round left     *)
(* its exit behind).                                                       *)
(***************************************************************************)
FreshTower == [clip |-> [t \in DOMAIN Lit |-> "idle"], bright |-> Lit, on |-> FALSE, react |-> 0]
FreshLogo == [want |-> FALSE, visible |-> FALSE, hide |-> FALSE, show |-> FALSE, idle |-> FALSE,
              clip |-> "hidden", allowed |-> TRUE]
Init ==
  s = [tower |-> FreshTower, pending |-> {}, cells |-> None, expected |-> 0, resolved |-> 0,
       award |-> "none", scene |-> "no",
       logo |-> FreshLogo,
       label |-> "hidden", load |-> "no",
       intro |-> FALSE, feature |-> "BASE", exit |-> FALSE,
       phase |-> "rest", todo |-> <<>>, round |-> Plain(<<>>, "BASE"), rounds |-> 0,
       mode |-> "BASE", won |-> {}, batches |-> 0, plays |-> 0, mixed |-> FALSE, leaked |-> FALSE]

-----------------------------------------------------------------------------
(* The tower.                                                              *)
applyAwardHighlight(x, tiers) ==
  [x EXCEPT !.tower = [clip |-> [t \in DOMAIN Lit |-> IF t \in tiers THEN "win" ELSE "dark"],
                       bright |-> [t \in DOMAIN Lit |-> t \in tiers], on |-> TRUE, react |-> 0],
            !.plays = @ + 1]
highlightAwards(x, tiers) == IF tiers = {} THEN x ELSE applyAwardHighlight(x, tiers)
darkenAllPanels(x) == applyAwardHighlight(x, {})
resetPanelAnimations(x) ==
  IF ~x.tower.on THEN x
  ELSE [x EXCEPT !.tower = [clip |-> [t \in DOMAIN Lit |-> "show"], bright |-> Lit,
                            on |-> FALSE, react |-> 0]]
advanceCollectionReaction ==
  /\ s.tower.react > 0
  /\ LET i == s.tower.react
     IN  s' = [s EXCEPT !.tower = [@ EXCEPT !.clip[Tiers[i]] = "trail",
                                            !.react = IF i = Len(Tiers) THEN 0 ELSE i + 1]]
reactToCollection(x) == [x EXCEPT !.tower.clip["low"] = "trail", !.tower.react = 2]

-----------------------------------------------------------------------------
(* The logo: what it should show, whether it is drawn, its three timers,  *)
(* its clip, and whether an idle clip may play.                            *)
Shown(x) == [x.logo EXCEPT !.want = TRUE, !.visible = TRUE, !.show = TRUE]
show(x) ==
  IF x.logo.want THEN x
  ELSE [x EXCEPT !.logo = [Shown(x) EXCEPT !.hide = FALSE, !.idle = FALSE]]
hide(x, immediate) ==
  LET fades == ~immediate /\ x.logo.want
  IN  [x EXCEPT !.logo = [@ EXCEPT !.want = FALSE, !.visible = fades, !.hide = fades,
                                   !.show = FALSE, !.idle = FALSE,
                                   !.clip = IF fades THEN "hide" ELSE "hidden"]]
win(x) ==
  IF ~x.logo.want THEN x
  ELSE [x EXCEPT !.logo = [@ EXCEPT !.visible = TRUE, !.hide = FALSE, !.show = FALSE,
                                    !.idle = TRUE, !.clip = "win"]]
setIdleAllowed(x, allowed) == [x EXCEPT !.logo.allowed = allowed]
playHidden ==
  /\ s.logo.hide
  /\ s' = [s EXCEPT !.logo = [@ EXCEPT !.hide = FALSE, !.visible = FALSE, !.clip = "hidden"]]
scheduleShow ==
  /\ s.logo.show
  /\ s' = [s EXCEPT !.logo = [@ EXCEPT !.show = FALSE, !.visible = TRUE, !.idle = TRUE,
                                       !.clip = "show"]]
\* The idle timer sets itself again, whether its clip was allowed or not.
scheduleIdle == s.logo.idle /\ s.logo.allowed /\ s' = [s EXCEPT !.logo.clip = "idle"]
LogoFor(x, mode) == IF x.intro /\ mode = "BASE" THEN show(x) ELSE hide(x, TRUE)

-----------------------------------------------------------------------------
(* The plate: its artwork may still be on its way when it is asked for.    *)
showLabel(x) == [x EXCEPT !.label = "hidden", !.load = "mine"]
hideLabel(x) ==
  [x EXCEPT !.label = IF @ \in {"show", "hold"} THEN "hide" ELSE "hidden",
            !.load = IF @ = "mine" THEN "stale" ELSE @]
cancelLabel(x) == [hideLabel(x) EXCEPT !.label = "hidden"]
createActiveLabel(x) == [x EXCEPT !.label = "show"]
LabelLoads(loaded) ==
  /\ s.load # "no"
  /\ LET x == [s EXCEPT !.load = "no"]
     IN  s' = IF loaded /\ s.load = "mine" THEN createActiveLabel(x) ELSE x
advanceLabel ==
  /\ s.label \in {"show", "hide"}
  /\ s' = [s EXCEPT !.label = IF @ = "show" THEN "hold" ELSE "hidden"]

-----------------------------------------------------------------------------
(* The ledger of a vault batch.                                            *)
flushVaultAwardHighlights(x) ==
  [x EXCEPT !.pending = {}, !.cells = None, !.resolved = 0, !.expected = 0]
beginVaultAwardBatch(x, count) == [flushVaultAwardHighlights(x) EXCEPT !.expected = count]
noteResolvedVaultAwards(x, count) ==
  LET y == [x EXCEPT !.resolved = @ + count]
  IN  IF y.expected > 0 /\ y.resolved >= y.expected THEN flushVaultAwardHighlights(y) ELSE y
\* Every opened vault is kept, so that an upgrade lights the whole set anew.
highlightVaultMutationBatch(x, vaults) ==
  LET cells == [c \in Cells |-> IF vaults[c] = "none" THEN x.cells[c] ELSE vaults[c]]
      tiers == {cells[c] : c \in Cells} \cap DOMAIN Lit
  IN  highlightAwards([x EXCEPT !.cells = cells, !.pending = tiers], tiers)
queueVaultAwardHighlight(x, tier) ==
  LET y == [x EXCEPT !.pending = @ \cup {tier}]
  IN  noteResolvedVaultAwards(IF tier \in x.pending THEN x ELSE highlightAwards(y, y.pending), 1)

-----------------------------------------------------------------------------
(* The session and the intro.                                              *)
restoreFeatureState(x, mode) == LogoFor([x EXCEPT !.feature = mode], mode)
Resumes(mode) ==
  /\ ~s.intro /\ s.rounds = 0 /\ mode # s.mode
  /\ s' = restoreFeatureState([s EXCEPT !.mode = mode], mode)
completeIntro ==
  /\ ~s.intro
  /\ s' = LogoFor([s EXCEPT !.intro = TRUE], s.feature)

-----------------------------------------------------------------------------
(* A round.  The reels turn, stop, and the events are presented in order.  *)
Playing == s.phase = "feature"
beginSpinPresentation(round) ==
  /\ s.intro /\ s.phase = "rest" /\ s.rounds < MaxRounds
  /\ round \in Rounds(s.mode)
  /\ s' = [setIdleAllowed(resetPanelAnimations(hideLabel(s)), FALSE) EXCEPT
             !.phase = "spin", !.round = round, !.rounds = @ + 1,
             !.won = {}, !.batches = 0, !.plays = 0, !.mixed = FALSE]
finishSpinPresentation ==
  /\ s.phase = "spin"
  /\ s' = [setIdleAllowed(s, TRUE) EXCEPT !.phase = "won", !.todo = s.round.calls]
reactToWin == s.phase = "won" /\ s' = [win(s) EXCEPT !.phase = "feature"]
WinsOver == s.phase = "won" /\ s' = [s EXCEPT !.phase = "feature"]

Call(name) == Playing /\ s.scene = "no" /\ s.todo # <<>> /\ Head(s.todo) = name
Done(x) == [x EXCEPT !.todo = Tail(@)]
Due(x, tiers) == [x EXCEPT !.won = tiers, !.batches = @ + 1]

cueCollect == Call("collect") /\ s' = Done(reactToCollection(s))

OpenGroup ==
  /\ Call("open")
  /\ s' = Done(beginVaultAwardBatch(s, Cardinality(Holding(s.round.opens))))
Mutated(vaults) ==
  LET now == [c \in Cells |-> IF vaults[c] = "none" THEN s.round.opens[c] ELSE vaults[c]]
      tiers == {now[c] : c \in Cells} \cap DOMAIN Lit
  IN  Done(highlightVaultMutationBatch(IF tiers = {} THEN s ELSE Due(s, tiers), vaults))
UnlockGroup == Call("unlock") /\ s' = Mutated(s.round.opens)
UpgradeGroup == Call("upgrade") /\ s' = Mutated(s.round.raised)
presentFreeSpinAwardBatch ==
  /\ Call("free")
  /\ s' = Done(noteResolvedVaultAwards(s, Cardinality({c \in Cells : s.round.opens[c] = "free"})))
GroupCompleted ==
  /\ Call("opened")
  /\ s' = Done(IF s.resolved = 0 THEN s
               ELSE [flushVaultAwardHighlights(s) EXCEPT !.mixed = TRUE])
Prize(c) == IF s.round.raised[c] = "none" THEN s.round.opens[c] ELSE s.round.raised[c]
AwardVault(c) ==
  /\ Call(<<"award1", "award2", "award3">>[c])
  /\ s' = Done(queueVaultAwardHighlight(s, Prize(c)))

cueWheelStarted == Call("wheel") /\ s' = Done(hide([s EXCEPT !.award = "none"], FALSE))
cueWheelAwarded ==
  /\ Call("prize")
  /\ s' = [s EXCEPT !.award = s.round.wheel, !.scene = "ready"]
beginWheelSpinPresentation ==
  /\ s.scene = "ready"
  /\ s' = [resetPanelAnimations(s) EXCEPT !.scene = "spun", !.won = {}, !.batches = 0, !.plays = 0]
commitPendingWheelAward ==
  /\ s.scene = "spun" /\ s.award # "none"
  /\ LET x == [s EXCEPT !.scene = "landed", !.award = "none"]
     IN  s' = IF s.award = "feature" THEN darkenAllPanels(Due(x, {}))
              ELSE highlightAwards(Due(x, {s.award}), {s.award})
presentWheelBonusLabel ==
  /\ s.scene = "landed" /\ s.round.wheel # "feature" /\ s.label = "hidden" /\ s.load = "no"
  /\ s' = showLabel(s)
completeWheelPresentation(x) == LogoFor(x, x.round.next)
abortWheelPresentation(x) == LogoFor(cancelLabel([x EXCEPT !.award = "none"]), x.feature)
WheelOver ==
  /\ s.scene # "no"
  /\ LET x == IF s.scene = "landed" THEN s ELSE abortWheelPresentation(s)
     IN  s' = [Done(completeWheelPresentation(x)) EXCEPT !.scene = "no"]

\* The intro of the free spins is left by its button, or fails.
FreeSpinsStarted(continued) ==
  /\ Call("start")
  /\ LET x == hide([s EXCEPT !.feature = s.round.next], FALSE)
     IN  s' = Done(IF continued THEN [resetPanelAnimations(x) EXCEPT !.won = {}] ELSE x)

\* At the summary's exit, and again when the round is over.
beginFeatureExitAtSummaryHide(x) ==
  IF x.exit THEN x
  ELSE LET y == [x EXCEPT !.feature = x.round.next, !.exit = TRUE]
       IN  IF y.intro /\ y.feature = "BASE" THEN show(y) ELSE y
SummaryHides == Call("end") /\ s' = Done(beginFeatureExitAtSummaryHide(s))

exitFeatureMode_LeavesPending(x) == beginFeatureExitAtSummaryHide(x)
exitFeatureMode(x) == [beginFeatureExitAtSummaryHide(x) EXCEPT !.exit = FALSE]
RoundComplete ==
  /\ Playing /\ s.todo = <<>> /\ s.scene = "no"
  /\ LET ended == s.mode # "BASE" /\ s.round.next = "BASE"
         x == IF ended THEN exitFeatureMode(s) ELSE s
     IN  s' = [x EXCEPT !.phase = "rest", !.mode = s.round.next, !.round = Plain(<<>>, "BASE")]

\* A round that failed: everything is cancelled, the accepted mode restored.
cancelSpinPresentation(x) ==
  [setIdleAllowed(cancelLabel(x), TRUE) EXCEPT !.award = "none", !.scene = "no"]
PresentationFails ==
  /\ s.phase # "rest"
  /\ LET x == restoreFeatureState(cancelSpinPresentation(s), s.round.next)
     IN  s' = [x EXCEPT !.phase = "rest", !.todo = <<>>, !.mode = s.round.next,
                        !.leaked = @ \/ s.exit, !.round = Plain(<<>>, "BASE")]
\* A refused request: nothing of the round is known.
rejectSpinResult ==
  /\ s.phase = "spin"
  /\ s' = [cancelSpinPresentation(s) EXCEPT !.phase = "rest", !.round = Plain(<<>>, "BASE")]

Next ==
  \/ advanceCollectionReaction \/ playHidden \/ scheduleShow \/ scheduleIdle \/ advanceLabel
  \/ \E loaded \in BOOLEAN : LabelLoads(loaded)
  \/ \E mode \in Modes : Resumes(mode)
  \/ completeIntro \/ finishSpinPresentation \/ reactToWin \/ WinsOver
  \/ \E mode \in Modes : \E round \in Rounds(mode) : beginSpinPresentation(round)
  \/ cueCollect \/ OpenGroup \/ UnlockGroup \/ UpgradeGroup \/ presentFreeSpinAwardBatch
  \/ GroupCompleted \/ \E c \in Cells : AwardVault(c)
  \/ cueWheelStarted \/ cueWheelAwarded \/ beginWheelSpinPresentation
  \/ commitPendingWheelAward \/ presentWheelBonusLabel \/ WheelOver
  \/ \E continued \in BOOLEAN : FreeSpinsStarted(continued)
  \/ SummaryHides \/ RoundComplete \/ PresentationFails \/ rejectSpinResult

-----------------------------------------------------------------------------
TypeOK ==
  /\ s.tower.clip \in [DOMAIN Lit -> {"idle", "win", "dark", "show", "trail"}]
  /\ s.tower.bright \in [DOMAIN Lit -> BOOLEAN] /\ s.tower.react \in 0..Len(Tiers)
  /\ s.pending \subseteq DOMAIN Lit /\ s.award \in {"none", "low", "high", "feature"}
  /\ s.scene \in {"no", "ready", "spun", "landed"} /\ s.mode \in Modes /\ s.feature \in Modes
  /\ s.label \in {"hidden", "show", "hold", "hide"} /\ s.load \in {"no", "mine", "stale"}
  /\ s.phase \in {"rest", "spin", "won", "feature"} /\ s.rounds \in 0..MaxRounds
  /\ s.expected \in 0..3 /\ s.resolved \in 0..3

(***************************************************************************)
(* The lit panels are the tiers the round has revealed: the wheel's prize  *)
(* is not read off the tower before the wheel lands, an upgrade darkens no *)
(* vault that did not change, and nothing of an earlier round is lit.      *)
(* (JackpotTowerView.ts:456, PixiRenderer.ts:1445, 2137.)  A group of free *)
(* spins and awards flushed half way is the exception.                     *)
(***************************************************************************)
OnlyWhatWasWon ==
  /\ s.tower.on /\ s.phase = "feature" /\ ~s.mixed
       => {t \in DOMAIN Lit : s.tower.bright[t]} = s.won
  /\ ~s.tower.on => s.tower.bright = Lit
  /\ s.phase = "spin" => ~s.tower.on

(***************************************************************************)
(* A prize's winning clip plays once for each batch that changed it: the   *)
(* award that is counted later does not start it again (2155-2162).        *)
(***************************************************************************)
PlayedOnce == s.plays <= s.batches \/ s.mixed

(***************************************************************************)
(* A round that is over owes the tower nothing: no wheel prize waits, no   *)
(* batch is half counted, no plate of it comes up while reels turn, and    *)
(* the logo may idle again.                                                *)
(***************************************************************************)
NothingCarriedOver ==
  /\ s.phase # "feature" => s.award = "none" /\ (s.phase = "rest" => s.logo.allowed)
  /\ s.phase = "spin" => s.label \in {"hidden", "hide"} /\ s.load # "mine"
  /\ s.phase = "feature" /\ s.todo = <<>> /\ s.scene = "no" /\ ~s.mixed
       /\ (\E i \in DOMAIN s.round.calls : s.round.calls[i] = "open")
       => s.expected = 0 /\ s.resolved = 0 /\ s.pending = {} /\ s.cells = None

(***************************************************************************)
(* The logo is drawn when it should be, or a timer of its own will bring   *)
(* it there; no timer of an earlier wish is left to undo a later one       *)
(* (LogoGameView.ts:201-231, 293-330).                                     *)
(***************************************************************************)
LogoDriven ==
  /\ s.logo.want => s.logo.visible /\ ~s.logo.hide /\ (s.logo.show \/ s.logo.idle)
  /\ ~s.logo.want => ~s.logo.show /\ ~s.logo.idle /\ (s.logo.visible <=> s.logo.hide)

(***************************************************************************)
(* While the reels turn no idle clip starts, whichever timer fires (245).  *)
(***************************************************************************)
NoIdleWhileTurning == s.phase = "spin" /\ s'.logo.clip # s.logo.clip => s'.logo.clip # "idle"

(***************************************************************************)
(* Between rounds the cabinet stands in the session's mode, and the logo   *)
(* is wanted exactly in the base game (1332-1341, 2087-2123), unless a     *)
(* round failed after its summary hid and left its exit pending.           *)
(***************************************************************************)
StandsInMode ==
  s.phase = "rest" /\ ~s.leaked =>
    /\ s.feature = s.mode /\ ~s.exit
    /\ s.logo.want <=> s.intro /\ s.mode = "BASE"
=============================================================================
