--------------------------- MODULE CharacterStage ---------------------------
(***************************************************************************)
(* The character of the cabinet (renderer/intro/LaunchScene.ts) and the    *)
(* calls PixiRenderer.ts makes on it.  One body track is shared by the     *)
(* launch clip, the idle loop with its random breakers, the reactions of   *)
(* a round and the wheel's chest pounding; three clocks of the scene, not  *)
(* Spine's, decide when a clip hands the track over.                       *)
(* The bundled skeleton has every clip the calls name.                     *)
(***************************************************************************)
EXTENDS Integers
CONSTANTS Long,     \* frames of a finite clip and of the idle loop before a breaker
          IntroLong \* frames of the launch clip; its timeline is one frame shorter
VARIABLE s

Bodies == {"base", "feature", "kq"}
Modes == {"BASE", "EXPANSION", "OVERDRIVE"}
Palettes == {"main", "fire", "snow"}
Auras == 0..2             \* 0: none; the particles' track is the aura's
Breakers == {"idle_breaker", "idle_breaker2"}
Reactions == {"vault", "respin"}      \* also pound and feature_activation
CollectClips == {"idle_breaker2", "chest_pound", "win"}
LoopOf == [base |-> "idle", feature |-> "feature_idle", kq |-> "reel_stretch_waiting"]

Persistent(body, aura, palette) == [body |-> body, aura |-> aura, palette |-> palette]
Entry(clip, loop, queue) ==
  [clip |-> clip, loop |-> loop, left |-> IF loop THEN 0 ELSE Long, queue |-> queue]
NoClip == Entry("none", TRUE, "none")
\* idle: the breaker's clock (on, elapsed), the hand-over's (left) and whom it serves.
Stopped == [on |-> FALSE, elapsed |-> 0, left |-> 0, toBase |-> FALSE, toFeature |-> FALSE]
Scheduled == [Stopped EXCEPT !.on = TRUE, !.toBase = TRUE]

(***************************************************************************)
(* load: the artwork's request; bitmap, authored: its two branches; views: *)
(* Spine views alive (ghost); intro: the launch clip runs; controlled: on  *)
(* the timeline's time; pound: frames to the next entry of the pounding    *)
(* (-1: no task); owned: the body's entry is the task's.                   *)
(* launch: "before", "timeline", "over", "gone"; calm: reduced motion when *)
(* the director was built; mode and scene: where the game is; frozen       *)
(* (ghost): reduced motion held the present clip for a while.              *)
(***************************************************************************)
Init ==
  \E calm \in BOOLEAN :
  s = [load |-> "no", bitmap |-> "no", authored |-> "no", views |-> 0, art |-> FALSE,
       launch |-> "before", at |-> 0,
       intro |-> FALSE, elapsed |-> 0, controlled |-> FALSE,
       bodyReleased |-> FALSE, auraReleased |-> FALSE,
       body |-> NoClip, overlay |-> FALSE, aura |-> 0, palette |-> "main",
       persistent |-> Persistent("base", 0, "main"),
       idle |-> Stopped, pound |-> -1, owned |-> FALSE, reduced |-> calm, calm |-> calm,
       mode |-> "BASE", scene |-> "no", frozen |-> FALSE]

-----------------------------------------------------------------------------
(* The tracks.                                                             *)
cancelWheelChestPoundReentry(x) == [x EXCEPT !.pound = -1, !.owned = FALSE]
Plays(x, entry) == [x EXCEPT !.body = entry, !.owned = FALSE, !.frozen = x.reduced]
persistentBodyAnimation(x) == LoopOf[x.persistent.body]
\* Nothing loops before the launch clip gave the body up.
applyPersistentBody(x) ==
  LET y == cancelWheelChestPoundReentry(x)
  IN  IF ~x.art \/ ~x.bodyReleased \/ x.intro THEN y
      ELSE [Plays(y, Entry(persistentBodyAnimation(x), TRUE, "none"))
              EXCEPT !.idle = IF x.persistent.body = "base" THEN Scheduled ELSE Stopped]
applyPersistentAura(x) == [x EXCEPT !.aura = x.persistent.aura]
applyPersistentPresentation(x) ==
  IF ~x.art THEN x
  ELSE LET y == IF x.bodyReleased THEN applyPersistentBody(x) ELSE x
           z == IF x.auraReleased THEN applyPersistentAura(y) ELSE y
       IN  [z EXCEPT !.palette = x.persistent.palette]
setCharacterPersistentPresentation(x, presentation) ==
  applyPersistentPresentation([x EXCEPT !.persistent = presentation])
\* The callers never ask for a restart: they play a clip next.
setCharacterBodyContinuation(x, body) ==
  LET y == IF body = "feature" THEN x ELSE cancelWheelChestPoundReentry(x)
      stale == x.persistent.body = "feature" /\ body # "feature"
                 /\ x.idle.left > 0 /\ x.idle.toFeature
  IN  [y EXCEPT !.persistent.body = body,
                !.idle = IF stale THEN [@ EXCEPT !.left = 0, !.toBase = FALSE, !.toFeature = FALSE]
                         ELSE @]
setCharacterAuraLevel(x, level) ==
  LET y == [x EXCEPT !.persistent.aura = level]
  IN  IF x.art /\ x.auraReleased THEN applyPersistentAura(y) ELSE y
releaseCharacterBodyForTakeover(x) ==
  [x EXCEPT !.controlled = @ /\ ~x.intro, !.intro = FALSE, !.bodyReleased = TRUE, !.idle = Stopped]
releaseAuthoredIntroAura(x) ==
  IF x.auraReleased THEN x
  ELSE LET y == [x EXCEPT !.auraReleased = TRUE]
       IN  IF x.art THEN applyPersistentAura(y) ELSE y

(***************************************************************************)
(* A clip on the body.  Its loop is queued behind it, except behind the    *)
(* win of a round, which the scene's clock hands over after its last       *)
(* frame; in the base game that clock also restarts the loop of a queued   *)
(* clip, and with it the breakers.                                         *)
(***************************************************************************)
HandsOver(x, clip, context) ==
  clip = "win" /\ context = "state" /\ x.persistent.body \in {"base", "feature"}
playCharacterAnimation(x, clip, context) ==
  LET y == releaseCharacterBodyForTakeover(cancelWheelChestPoundReentry(x))
      hands == HandsOver(x, clip, context)
      queue == IF hands THEN "none" ELSE persistentBodyAnimation(x)
  IN  IF ~x.art THEN x
      ELSE [Plays(y, Entry(clip, FALSE, queue))
              EXCEPT !.idle = [Stopped EXCEPT !.left = Long,
                                              !.toBase = x.persistent.body = "base",
                                              !.toFeature = hands /\ x.persistent.body = "feature"]]
\* The wheel's loop: under reduced motion it gets no task.
startWheelChestPoundTask(x) ==
  LET y == releaseCharacterBodyForTakeover(cancelWheelChestPoundReentry(x))
      z == [Plays(y, Entry("chest_pound", TRUE, "none")) EXCEPT !.idle = Stopped]
  IN  IF ~x.art THEN x
      ELSE IF x.reduced \/ x.persistent.body # "feature" THEN z
      ELSE [z EXCEPT !.pound = Long, !.owned = TRUE]
playCharacterCollect(x, clip) ==
  [playCharacterAnimation(x, clip, "collect-random") EXCEPT !.overlay = x.art]

-----------------------------------------------------------------------------
(* The artwork: two branches, settled together; a failed load may be asked *)
(* for again, an aborted one rejects whatever its branches brought.        *)
LoadArtwork ==
  /\ s.launch = "before" /\ ~s.art /\ s.load = "no"
  /\ s' = [s EXCEPT !.load = "pending", !.bitmap = "pending", !.authored = "pending"]
AbortLoad == s.load = "pending" /\ s' = [s EXCEPT !.load = "aborted"]
BitmapLoads(ok) ==
  /\ s.bitmap = "pending" /\ (ok => s.load # "aborted")
  /\ s' = [s EXCEPT !.bitmap = IF ok THEN "ok" ELSE "failed"]
AuthoredLoads(ok) ==
  /\ s.authored = "pending" /\ (ok => s.load # "aborted")
  /\ s' = [s EXCEPT !.authored = IF ok THEN "ok" ELSE "failed",
                    !.views = IF ok THEN @ + 1 ELSE @]
LoadOver ==
  LET over(branch) == IF branch = "pending" THEN branch ELSE "no"
  IN  [s EXCEPT !.load = "no", !.bitmap = over(@), !.authored = over(@)]
Attached ==
  applyPersistentPresentation(
    [LoadOver EXCEPT !.art = TRUE, !.body = [Entry("hidden", FALSE, "none") EXCEPT !.left = 0],
                     !.intro = FALSE, !.elapsed = 0, !.idle = Stopped,
                     !.bodyReleased = FALSE, !.auraReleased = FALSE])
\* A branch that is still under way when the other fails is waited for.
Settled == "pending" \notin {s.bitmap, s.authored}
performArtworkLoad(attaches) ==
  /\ s.load # "no" /\ Settled
  /\ s' = IF s.load = "pending" /\ s.bitmap = "ok" /\ s.authored = "ok" /\ attaches
          THEN Attached
          ELSE [LoadOver EXCEPT !.views = IF s.authored = "ok" THEN @ - 1 ELSE @]

-----------------------------------------------------------------------------
(* The launch.  A director built under reduced motion emits no visual cue: *)
(* the launch clip is then neither started nor brought to its end.         *)
startAuthoredIntro(x) ==
  [cancelWheelChestPoundReentry(x) EXCEPT
     !.controlled = TRUE, !.elapsed = 0, !.bodyReleased = FALSE, !.auraReleased = FALSE,
     !.intro = TRUE, !.idle = Stopped, !.aura = 0,
     !.body = [Entry("intro", FALSE, "none") EXCEPT !.left = IntroLong]]
finishCharacterIntroToLoop(x) ==
  IF ~x.intro THEN x
  ELSE applyPersistentBody(
         [x EXCEPT !.elapsed = IntroLong, !.intro = FALSE, !.bodyReleased = TRUE])
Moves(x) == IF x.reduced THEN x ELSE [x EXCEPT !.body.left = IF @ = 0 THEN 0 ELSE @ - 1]
advanceCharacterIntroTask(x) ==
  IF ~x.intro THEN x
  ELSE LET y == [x EXCEPT !.elapsed = @ + 1]
       IN  IF y.elapsed < IntroLong THEN y ELSE finishCharacterIntroToLoop(y)
\* A natural end leaves the clip running: it is longer than the timeline.
completeAuthoredIntro(x, skipped) ==
  LET y == [x EXCEPT !.controlled = FALSE]
  IN  IF y.intro /\ skipped THEN releaseAuthoredIntroAura(finishCharacterIntroToLoop(y)) ELSE y
completeActiveCharacterIntroForReducedMotion(x) ==
  IF ~x.intro THEN x
  ELSE releaseAuthoredIntroAura(finishCharacterIntroToLoop([x EXCEPT !.controlled = FALSE]))
cueIntro ==
  /\ s.launch = "before" /\ s.art
  /\ s' = [IF s.calm THEN s ELSE startAuthoredIntro(s) EXCEPT !.launch = "timeline"]
cueHudReveal ==
  /\ s.launch = "timeline" /\ ~s.calm /\ s.at > 0 /\ ~s.auraReleased
  /\ s' = releaseAuthoredIntroAura(s)
seekAuthoredIntro ==
  /\ s.launch = "timeline" /\ s.at < IntroLong - 1
  /\ LET x == [s EXCEPT !.at = @ + 1]
     IN  s' = IF s.controlled THEN advanceCharacterIntroTask(Moves(x)) ELSE x
completeIntro(skipped) ==
  /\ s.launch = "timeline"
  /\ skipped \/ (s.at = IntroLong - 1 /\ (s.calm \/ s.auraReleased))
  /\ s' = [completeAuthoredIntro(s, skipped \/ s.calm) EXCEPT !.launch = "over", !.at = 0]
\* The preference changes: the launch is skipped, or its tail is ended.
handleReducedMotionPreference(matches) ==
  /\ s.launch # "gone" /\ s.reduced # matches
  /\ LET x == [s EXCEPT !.reduced = matches]
         y == cancelWheelChestPoundReentry(x)
     IN  s' = IF ~matches THEN x
              ELSE IF s.launch = "timeline"
                   THEN [completeAuthoredIntro(y, TRUE) EXCEPT !.launch = "over", !.at = 0]
                   ELSE completeActiveCharacterIntroForReducedMotion(y)

-----------------------------------------------------------------------------
(* A frame: Spine first, then the launch clip's clock, the pounding's and  *)
(* the idle one.  Spine moves on to the queued loop by itself.             *)
SpineMoves(x) ==
  LET y == Moves(x)
  IN  IF y.body.loop \/ y.body.left > 0 \/ y.body.queue = "none" THEN y
      ELSE [y EXCEPT !.body = Entry(y.body.queue, TRUE, "none"), !.owned = FALSE]
updateWheelChestPound(x) ==
  IF x.pound = -1 THEN x
  ELSE IF x.reduced \/ x.persistent.body # "feature" \/ ~x.owned
       THEN cancelWheelChestPoundReentry(x)
  ELSE IF x.pound > 1 THEN [x EXCEPT !.pound = @ - 1]
  ELSE [Plays(x, Entry("chest_pound", TRUE, "none")) EXCEPT !.pound = Long, !.owned = TRUE]
StartBreaker(x, breaker) ==
  [Plays(cancelWheelChestPoundReentry(x), Entry(breaker, FALSE, "none"))
     EXCEPT !.idle = [Stopped EXCEPT !.left = Long, !.toBase = TRUE]]
updateCharacterIdle(x, breaker) ==
  LET pending == x.persistent.body = "feature" /\ x.idle.left > 0 /\ x.idle.toFeature
  IN  IF ~x.bodyReleased \/ (x.persistent.body # "base" /\ ~pending) THEN x
      ELSE IF x.idle.left > 0
           THEN LET y == [x EXCEPT !.idle.left = @ - 1]
                IN  IF y.idle.left = 0 /\ (y.idle.toBase \/ y.idle.toFeature)
                    THEN applyPersistentBody(y) ELSE y
      ELSE IF x.reduced \/ ~x.idle.on THEN x
      ELSE IF x.idle.elapsed + 1 < Long THEN [x EXCEPT !.idle.elapsed = @ + 1]
      ELSE StartBreaker(x, breaker)
\* The frame that ends the launch clip gives the idle clock no time.
update(breaker) ==
  /\ s.art /\ ~s.controlled /\ s.launch # "gone"
  /\ LET x == SpineMoves([s EXCEPT !.frozen = @ \/ s.reduced])
         y == IF s.reduced THEN x ELSE advanceCharacterIntroTask(x)
         z == updateWheelChestPound(y)
     IN  s' = IF s.intro THEN z ELSE updateCharacterIdle(z, breaker)

-----------------------------------------------------------------------------
(* What the rounds ask of the character.                                   *)
Playing == s.launch = "over" /\ s.scene = "no"
persistentFeatureVisualPlan(mode, rage) ==
  IF mode = "EXPANSION" THEN Persistent("kq", 1, "fire")
  ELSE IF mode = "OVERDRIVE" THEN Persistent("feature", 1, "snow")
  ELSE Persistent("base", IF rage > 1 THEN rage ELSE 0, "main")
featureIntroCharacterPresentation(mode) ==
  Persistent("feature", 1, IF mode = "OVERDRIVE" THEN "snow" ELSE "fire")
characterWinPresentation(mode) ==
  IF mode = "EXPANSION" THEN "kq" ELSE IF mode = "OVERDRIVE" THEN "feature" ELSE "base"
Projected(x, mode, rage) ==
  setCharacterPersistentPresentation(x, persistentFeatureVisualPlan(mode, rage))
restoreFeatureState(mode, rage) ==
  /\ s.launch = "before" /\ s.load = "no"
  /\ s' = [Projected(s, mode, rage) EXCEPT !.mode = mode]
cueReaction(clip) == Playing /\ s' = playCharacterAnimation(s, clip, "state")
cueCollect(clip) == Playing /\ s' = playCharacterCollect(s, clip)
setRageAuraLevel(level) ==
  Playing /\ s' = setCharacterAuraLevel(s, IF level > 1 THEN level ELSE 0)
reactToWin ==
  /\ Playing
  /\ s' = playCharacterAnimation(
            setCharacterBodyContinuation(s, characterWinPresentation(s.mode)), "win", "state")
\* characterReelStructurePlan: a taller or a lower grid, or the base one again.
onReelStructure(x, direction) ==
  LET kong == direction = "expand" \/ x.mode = "EXPANSION"
  IN  playCharacterAnimation(setCharacterBodyContinuation(x, IF kong THEN "kq" ELSE "base"),
                             IF direction = "expand" THEN "reel_stretch" ELSE "reel_smash", "state")
GridExpanded(direction) ==
  Playing /\ s.mode = "EXPANSION" /\ s' = onReelStructure(s, direction)
beginWheelSpinPresentation ==
  /\ Playing /\ s.mode = "BASE"
  /\ s' = [startWheelChestPoundTask(setCharacterBodyContinuation(s, "feature"))
              EXCEPT !.scene = "spinning"]
onWheelSpinFinish ==
  /\ s.scene = "spinning"
  /\ s' = [playCharacterAnimation(setCharacterBodyContinuation(s, "feature"), "win", "state")
              EXCEPT !.scene = "landed"]
abortWheelPresentation ==
  s.scene = "spinning" /\ s' = [applyPersistentBody(s) EXCEPT !.scene = "landed"]
completeWheelPresentation(mode) ==
  /\ s.scene = "landed"
  /\ s' = [Projected(s, mode, 1) EXCEPT !.scene = IF mode = "BASE" THEN "no" ELSE "starting",
                                        !.mode = mode]
cueFreeSpinsStarted ==
  /\ s.scene = "starting"
  /\ s' = [setCharacterPersistentPresentation(s, featureIntroCharacterPresentation(s.mode))
              EXCEPT !.scene = "no"]
\* The reels shrink only if they had grown; settling waits for them.
beginFeatureExitAtSummaryHide(rage, shrinks) ==
  /\ Playing /\ s.mode # "BASE" /\ (shrinks => s.mode = "EXPANSION")
  /\ LET x == [Projected([s EXCEPT !.mode = "BASE"], "BASE", rage) EXCEPT !.scene = "leaving"]
     IN  s' = IF shrinks THEN onReelStructure(x, "shrink") ELSE x
settleFeatureExit(x) ==
  IF ~x.art THEN x
  ELSE applyPersistentPresentation(
         [cancelWheelChestPoundReentry(x) EXCEPT
            !.overlay = FALSE, !.body = NoClip, !.aura = 0, !.palette = "main"])
exitFeatureMode ==
  s.scene = "leaving" /\ s' = [settleFeatureExit(s) EXCEPT !.scene = "no"]
\* A presentation that fails restores what the accepted result says.
PresentationFails(mode, rage) ==
  /\ s.launch = "over" /\ (mode = s.mode \/ mode = "BASE" \/ s.scene # "no")
  /\ LET x == IF s.scene = "spinning" THEN applyPersistentBody(s) ELSE s
     IN  s' = [Projected(x, mode, rage) EXCEPT !.mode = mode, !.scene = "no"]
cancelCharacterStateTasks(x) == [cancelWheelChestPoundReentry(x) EXCEPT !.idle = Stopped]
destroy ==
  /\ s.launch # "gone" /\ s.art
  /\ s' = [cancelCharacterStateTasks(s) EXCEPT !.launch = "gone"]

Next ==
  \/ LoadArtwork \/ AbortLoad
  \/ \E ok \in BOOLEAN : BitmapLoads(ok) \/ AuthoredLoads(ok) \/ performArtworkLoad(ok)
  \/ cueIntro \/ cueHudReveal \/ seekAuthoredIntro
  \/ \E yes \in BOOLEAN : completeIntro(yes) \/ handleReducedMotionPreference(yes)
  \/ \E breaker \in Breakers : update(breaker)
  \/ \E mode \in Modes : \E rage \in 1..2 : restoreFeatureState(mode, rage)
                                             \/ PresentationFails(mode, rage)
  \/ \E clip \in Reactions : cueReaction(clip)
  \/ \E clip \in CollectClips : cueCollect(clip)
  \/ \E level \in 1..2 : setRageAuraLevel(level)
  \/ reactToWin \/ beginWheelSpinPresentation \/ onWheelSpinFinish \/ abortWheelPresentation
  \/ \E direction \in {"expand", "shrink"} : GridExpanded(direction)
  \/ \E mode \in Modes : completeWheelPresentation(mode)
  \/ cueFreeSpinsStarted
  \/ \E rage \in 1..2 : \E shrinks \in BOOLEAN : beginFeatureExitAtSummaryHide(rage, shrinks)
  \/ exitFeatureMode \/ destroy

-----------------------------------------------------------------------------
TypeOK ==
  /\ s.load \in {"no", "pending", "aborted"}
  /\ {s.bitmap, s.authored} \subseteq {"no", "pending", "ok", "failed"}
  /\ s.views \in 0..2 /\ s.at \in 0..(IntroLong - 1) /\ s.elapsed \in 0..IntroLong
  /\ s.launch \in {"before", "timeline", "over", "gone"}
  /\ {s.art, s.intro, s.controlled, s.bodyReleased, s.auraReleased, s.overlay, s.owned,
      s.reduced, s.calm, s.frozen} \subseteq BOOLEAN
  /\ s.body.left \in 0..Long \cup 0..IntroLong /\ s.aura \in Auras /\ s.palette \in Palettes
  /\ s.persistent \in [body : Bodies, aura : Auras, palette : Palettes]
  /\ s.idle \in [on : BOOLEAN, elapsed : 0..(Long - 1), left : 0..Long,
                 toBase : BOOLEAN, toFeature : BOOLEAN]
  /\ s.pound \in -1..Long /\ s.mode \in Modes
  /\ s.scene \in {"no", "spinning", "landed", "starting", "leaving"}
\* A load that failed or was aborted leaves no Spine view behind, and a load
\* that is repeated never attaches a second character.
OneCharacter == s.load = "no" => s.views = IF s.art THEN 1 ELSE 0
Free == s.bodyReleased /\ ~s.intro /\ s.launch # "gone"
\* A clip nothing is queued behind is handed over by the scene's clock, and
\* exactly at its last frame: it is neither cut nor left standing.  (Reduced
\* motion stops the clip and not the clock.)
ShownWhole ==
  Free /\ ~s.body.loop /\ s.body.queue = "none" =>
    /\ s.idle.left > 0 /\ (s.frozen \/ s.idle.left = s.body.left)
    /\ \/ s.persistent.body = "base" /\ s.idle.toBase
       \/ s.persistent.body = "feature" /\ s.idle.toFeature
\* The random breakers run in the base game alone, and while no other clip has
\* the body: a reaction is never cut short by one.
BreakerWaits == s.idle.on => s.body.loop /\ s.body.clip = "idle" /\ s.persistent.body = "base"
\* The pounding belongs to the wheel's turn, and its task to the entry it has put
\* on the body: nothing pounds after the wheel landed or was abandoned.
PoundsForTheWheel ==
  /\ s.pound >= 0 => s.owned /\ s.body.clip = "chest_pound" /\ ~s.reduced
  /\ (s.body.clip = "chest_pound" /\ s.body.loop /\ s.launch # "gone") => s.scene = "spinning"
\* Between the scenes the character stands in the session's mode: the loop it is
\* in or goes back to, its aura and its palette.  (Free spins in Kong Quest are
\* opened in the common feature stance.)
StandsInMode ==
  /\ (Playing /\ s.mode # "EXPANSION") =>
       s.persistent.body = characterWinPresentation(s.mode)
  /\ (Playing /\ s.mode = "EXPANSION") => s.persistent.body # "base"
  /\ Free => /\ s.body.queue \in {"none", persistentBodyAnimation(s)}
             /\ (s.body.loop /\ s.scene # "spinning") => s.body.clip = persistentBodyAnimation(s)
  /\ s.art => s.palette = s.persistent.palette
  /\ s.art => s.aura = IF s.auraReleased THEN s.persistent.aura ELSE 0
\* A launch that is over has handed its aura to the mode, unless reduced motion
\* was asked for before it began.
AuraShown == (s.launch = "over" /\ ~s.calm) => s.auraReleased
\* The exit's barrier opens on a clean stance: nothing of the feature is left on
\* any track, and no mix from it.
ExitIsClean ==
  (exitFeatureMode /\ s.art) =>
    /\ s'.palette = "main" /\ ~s'.overlay /\ s'.pound = -1
    /\ s'.bodyReleased => s'.body = Entry("idle", TRUE, "none")
\* A launch that is over has brought the character into view.
LaunchShowsTheCharacter == s.launch = "over" => s.intro \/ s.bodyReleased
=============================================================================
