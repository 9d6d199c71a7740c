------------------------ MODULE FeaturePresentation ------------------------
(***************************************************************************)
(* FeatureEffects.ts: what is shown of a feature.  The controller awaits   *)
(* one presentation at a time (the intro and the summary of free spins,    *)
(* the wheel, the vaults' barrier, upgrades, unlocking and tease, the      *)
(* award trails); each is a chain of awaited animations, artwork loads and *)
(* prompts of the player, and what follows an await runs as a step of its  *)
(* own, before any other event ("micro").  The wheel's fade-out outlives   *)
(* its presentation.  A round that fails cancels whatever is shown, at any *)
(* moment, and the renderer goes on to the next round.                     *)
(* Frames of an animation are counted; easing, layout and telemetry are    *)
(* left out, and the capture checkpoints, absent in production, with them. *)
(***************************************************************************)
EXTENDS Integers, FiniteSets

CONSTANTS
  Show, Hold, Hide,    \* frames of an entrance, a pause and an exit
  StopFrom, Turn,      \* frames of the wheel's turn: quick stop from, landing at
  Fade,                \* frames of the wheel's whole fade-out, Hide of them awaited
  Members              \* upgrades of a vault batch, at most

VARIABLE s

Prompts == {"popup", "spin", "wsum", "cont", "fsum", "skip"}
Closed == {"popup", "wsum", "fsum"}        \* prompts whose end is announced
Arts == {"fs", "wheel"}
Calls == {"intro", "summary", "wheel", "tease", "trails", "barrier", "upgrade", "unlock"}
Scenes == {"intro", "summary", "wheel", "tease", "trails", "outro"}
ArtOf == [intro |-> "fs", summary |-> "fs", wheel |-> "wheel"]
Drawn(call) == call \in DOMAIN ArtOf

TypeOK ==
  /\ s.call \in Calls \cup {"none"}
  /\ s.at \in {"none", "load", "show", "wait", "hide", "popup", "ready", "spin",
               "landing", "summary", "outro", "run"}
  /\ s.left \in 0..(Show + Hold + Hide) /\ s.outro \in 0..Fade /\ s.turned \in 0..Turn
  /\ s.micro \in {"no", "ok", "cancelled", "failed"}
  /\ s.how \in {"none", "waiting", "continued", "cancelled", "expired"}
  /\ s.art \subseteq Arts /\ s.load \subseteq Arts
  /\ s.stage \subseteq Scenes /\ s.low \subseteq s.held /\ s.held \subseteq Scenes
  /\ s.reel \in {"full", "dim"} /\ s.base \in {"none", "full", "dim"}
  /\ s.active \in [Prompts -> {"none", "waiting", "continued", "settling", "spinning"}]
  /\ s.told \in [Closed -> 0..2] /\ s.spin \in {"idle", "started", "finished", "aborted"}
  /\ s.pending \in 0..Members /\ s.due \in 0..Members
  /\ {s.off, s.current, s.opening, s.gone} \subseteq BOOLEAN

Init ==
  \E off \in BOOLEAN :
    s = [off |-> off, art |-> {}, load |-> {}, call |-> "none", at |-> "none",
         left |-> 0, micro |-> "no", how |-> "none", current |-> FALSE, stage |-> {},
         held |-> {}, low |-> {}, reel |-> "full", base |-> "none",
         active |-> [p \in Prompts |-> "none"], told |-> [p \in Closed |-> 1],
         spin |-> "idle", turned |-> 0, outro |-> 0, opening |-> FALSE,
         pending |-> 0, due |-> 0, gone |-> FALSE]

-----------------------------------------------------------------------------
(* ReelAlphaLayers: overlapping fades of the reels.  The first layer keeps *)
(* the alpha it found, the last one released puts it back.                 *)
Dimmed(t, low) ==
  [t EXCEPT !.low = low, !.reel = IF low = {} THEN t.base ELSE "dim"]
acquire(t, owner) ==
  [t EXCEPT !.base = IF @ = "none" THEN t.reel ELSE @, !.held = @ \cup {owner}]
setAlpha(t, owner, dim) ==
  IF owner \in t.held
  THEN Dimmed(t, IF dim THEN t.low \cup {owner} ELSE t.low \ {owner})
  ELSE t
release(t, owner) ==
  IF owner \notin t.held THEN t
  ELSE IF t.held = {owner}
       THEN [t EXCEPT !.held = {}, !.low = {}, !.base = "none", !.reel = t.base]
       ELSE Dimmed([t EXCEPT !.held = @ \ {owner}], t.low \ {owner})
restore(t) ==
  [t EXCEPT !.held = {}, !.low = {}, !.base = "none",
            !.reel = IF t.base = "none" THEN @ ELSE t.base]

\* A prompt's end is announced once, whoever ends it.
notify(t, p) == IF t.told[p] = 0 THEN [t EXCEPT !.told[p] = 1] ELSE t

Awaits(t, at, frames) == [t EXCEPT !.at = at, !.left = frames, !.micro = "no"]
Over(t) ==
  [t EXCEPT !.call = "none", !.at = "none", !.left = 0, !.micro = "no",
            !.how = "none", !.current = FALSE]
Asks(t, p) ==
  [t EXCEPT !.active[p] = "waiting", !.how = "waiting",
            !.told = IF p \in Closed THEN [@ EXCEPT ![p] = 0] ELSE @]

\* The scene is built once its artwork is there.
Staged(t, scene) == [t EXCEPT !.stage = @ \cup {scene}]
presentFreeSpinsStart(t) == Awaits(acquire(Staged(t, "intro"), "intro"), "show", Show)
presentFreeSpinsSummary(t) ==
  Awaits(acquire(Staged(t, "summary"), "summary"), "show", Show)
presentWheel(t) ==
  Awaits(Asks(acquire([Staged(t, "wheel") EXCEPT !.spin = "idle"], "wheel"), "popup"),
         "popup", Show + Hold)
presentVaultTease(t) == Awaits(Asks(Staged(t, "tease"), "skip"), "run", Hold)
presentFreeSpinAwardTrails(t) == Awaits(Staged(t, "trails"), "run", Hold)
presentVaultGroupBarrier(t, count) ==
  Awaits([t EXCEPT !.pending = count, !.due = count], "run", Hold)
\* The members of a batch start together: only the last one is waited for.
presentVaultUpgradeMember(t) ==
  LET u == [t EXCEPT !.due = IF @ > 0 THEN @ - 1 ELSE 0,
                     !.pending = IF @ > 0 THEN @ - 1 ELSE 0]
  IN  IF t.pending > 0 /\ u.pending > 0 THEN Over(u) ELSE Awaits(u, "run", Hold)
presentVaultMutationBatch(t) == Awaits([t EXCEPT !.opening = TRUE], "run", Hold)

Built(t) ==
  CASE t.call = "intro" -> presentFreeSpinsStart(t)
    [] t.call = "summary" -> presentFreeSpinsSummary(t)
    [] t.call = "wheel" -> presentWheel(t)
    [] t.call = "tease" -> presentVaultTease(t)
    [] t.call = "trails" -> presentFreeSpinAwardTrails(t)
    [] t.call = "upgrade" -> presentVaultUpgradeMember(t)
    [] t.call = "unlock" -> presentVaultMutationBatch(t)

\* ensureFreeSpinArtwork, ensureWheelArtwork: one load of each kind at a time.
ensureArtwork(t) ==
  [t EXCEPT !.at = "load", !.micro = "no", !.load = @ \cup {ArtOf[t.call]}]
\* The controller presents one event after the other; with verified artwork,
\* only once it was adopted.  A batch of upgrades follows its barrier.
Idle == s.call = "none" /\ s.micro = "no" /\ ~s.gone
presentAfterReels(call) ==
  LET t == [s EXCEPT !.call = call, !.current = TRUE]
  IN  /\ Idle /\ (s.due > 0 => call = "upgrade")
      /\ (Drawn(call) /\ ~s.off) => ArtOf[call] \in s.art
      /\ s' = IF Drawn(call) /\ ArtOf[call] \notin s.art
              THEN ensureArtwork(t) ELSE Built(t)
GroupStarted(count) ==
  /\ Idle /\ s.due = 0
  /\ s' = presentVaultGroupBarrier([s EXCEPT !.call = "barrier", !.current = TRUE], count)

adoptVerifiedArtwork(kind) ==
  /\ ~s.off /\ ~s.gone /\ kind \notin s.art
  /\ s' = [s EXCEPT !.art = @ \cup {kind}]
releaseVerifiedFeatureArtwork(kind) ==
  /\ Idle /\ ~s.off /\ kind \in s.art
  /\ s' = [s EXCEPT !.art = @ \ {kind}]

ArtworkSettles(kind, loaded) ==
  /\ s.micro = "no" /\ kind \in s.load
  /\ s' = [s EXCEPT !.load = @ \ {kind},
                    !.art = IF loaded /\ ~s.gone THEN @ \cup {kind} ELSE @,
                    !.micro = IF s.at = "load" /\ ArtOf[s.call] = kind
                              THEN IF loaded THEN "ok" ELSE "failed"
                              ELSE "no"]

-----------------------------------------------------------------------------
(* Frames.  Every running animation is drawn; the wheel's state follows    *)
(* how far it has turned, and a renderer failure rejects what is awaited.  *)
Fading(t, owner) ==
  setAlpha(t, owner, t.at \in {"show", "wait", "popup", "ready", "spin", "landing",
                               "summary"} \/ t.left > 0)
Drew(t) == IF t.call \in t.held THEN Fading(t, t.call) ELSE t
cleanupScene(t) ==
  IF t.outro = 0 /\ "outro" \in t.stage
  THEN release([t EXCEPT !.stage = @ \ {"outro"}], "outro") ELSE t
FadesOut(t) ==
  IF t.outro > 0
  THEN cleanupScene(setAlpha([t EXCEPT !.outro = @ - 1], "outro", t.outro > 1)) ELSE t
Runs(t) ==
  IF t.left > 0
  THEN Drew([t EXCEPT !.left = @ - 1, !.micro = IF t.left = 1 THEN "ok" ELSE "no"])
  ELSE t
Animates == s.left > 0 \/ s.outro > 0
Frame ==
  /\ s.micro = "no" /\ Animates /\ s.at # "spin"
  /\ s' = Runs(FadesOut(s))
\* A quick stop, heeded once the wheel is stopping, takes it to its landing.
renderFrame ==
  /\ s.micro = "no" /\ s.at = "spin"
  /\ LET turned == IF s.active["spin"] = "settling" THEN Turn ELSE s.turned + 1
     IN  s' = FadesOut(
           IF turned = Turn
           THEN [s EXCEPT !.turned = Turn, !.micro = "ok", !.spin = "finished",
                          !.active["spin"] = "none"]
           ELSE [s EXCEPT !.turned = turned])
FrameFails ==
  /\ s.micro = "no" /\ (s.left > 0 \/ s.at = "spin") /\ s.call \in {"intro", "summary", "wheel"}
  /\ s' = [FadesOut(s) EXCEPT !.left = 0, !.micro = "failed"]

-----------------------------------------------------------------------------
(* The player.  A request is of the prompt that waits, or of none.         *)
Continued(p) == [s EXCEPT !.active[p] = "continued", !.how = "continued",
                          !.left = 0, !.micro = "ok"]
Open(p) == s.micro = "no" /\ s.active[p] = "waiting" /\ ~s.gone
requestWheelInteraction ==
  \/ Open("popup") /\ s' = notify(Continued("popup"), "popup")
  \/ /\ s.active["popup"] # "waiting" /\ Open("spin")
     /\ s' = [s EXCEPT !.active["spin"] = "spinning", !.spin = "started", !.micro = "ok"]
  \/ /\ s.micro = "no" /\ s.active["spin"] = "spinning" /\ s.turned >= StopFrom
     /\ s' = [s EXCEPT !.active["spin"] = "settling"]
requestWheelSummaryContinue ==
  Open("wsum") /\ s' = notify(Continued("wsum"), "wsum")
requestFreeSpinContinue == Open("cont") /\ s' = Continued("cont")
requestFreeSpinSummaryContinue ==
  Open("fsum") /\ s' = notify(Continued("fsum"), "fsum")
requestVaultTeaseSkip == Open("skip") /\ s' = Continued("skip")

-----------------------------------------------------------------------------
(* What follows an await.  Expired: the pause ran out before the player.   *)
Expired(t) == [t EXCEPT !.how = IF @ = "waiting" THEN "expired" ELSE @]
Nulled(t, p) == [t EXCEPT !.active[p] = "none"]
Finally(t, scene) == Over(release([t EXCEPT !.stage = @ \ {scene}], scene))
Settled(t) == t.micro = "ok" /\ t.current
After(call, at) == s.call = call /\ s.at = at /\ s.micro # "no"

ArtworkLoaded ==
  /\ s.at = "load" /\ s.micro # "no"
  /\ s' = IF Settled(s) /\ ArtOf[s.call] \in s.art THEN Built(s) ELSE Over(s)

\* An animation cancelled by the round rejects; one ended for its prompt
\* resolves, and the prompt's own state says that it was cancelled.
IntroShown ==
  /\ After("intro", "show")
  /\ s' = IF s.micro = "ok" /\ s.active["cont"] = "none" /\ ~s.gone
          THEN Awaits(Asks(s, "cont"), "wait", 0) ELSE Finally(s, "intro")
waitForFreeSpinsContinue ==
  /\ After("intro", "wait")
  /\ s' = IF s.how = "continued" /\ ~s.gone
          THEN Awaits(Nulled(s, "cont"), "hide", Hide)
          ELSE Finally(Nulled(s, "cont"), "intro")

SummaryShown ==
  /\ After("summary", "show")
  /\ s' = IF s.micro = "ok" /\ ~s.gone THEN Awaits(Asks(s, "fsum"), "wait", Hold)
          ELSE Finally(s, "summary")
SummaryHeld ==
  /\ After("summary", "wait")
  /\ LET t == notify(Nulled(Expired(s), "fsum"), "fsum")
     IN  s' = IF s.micro # "ok" \/ t.how = "cancelled" \/ s.gone
              THEN Finally(t, "summary") ELSE Awaits(t, "hide", Hide)

\* shouldAbortWheelPresentation: a turn that began and did not land is aborted.
WheelEnds(t) ==
  LET aborts == t.spin = "started" \/ (t.gone /\ t.at = "ready" /\ t.spin = "idle")
      u == [t EXCEPT !.spin = IF aborts THEN "aborted" ELSE @]
      v == Nulled(Nulled(notify(notify(u, "popup"), "wsum"), "wsum"), "popup")
  IN  Finally(Nulled(v, "spin"), "wheel")
PopupOver ==
  /\ After("wheel", "popup")
  /\ s' = IF ~Settled(s) \/ s.gone THEN WheelEnds(s)
          ELSE Awaits(Asks(notify(Nulled(Expired(s), "popup"), "popup"), "spin"), "ready", 0)
WheelReady ==
  /\ After("wheel", "ready")
  /\ s' = IF Settled(s) THEN Awaits([s EXCEPT !.turned = 0], "spin", 0) ELSE WheelEnds(s)
WheelLanded ==
  /\ After("wheel", "spin")
  /\ s' = IF Settled(s) THEN Awaits(s, "landing", Hide) ELSE WheelEnds(s)
SummaryReady ==
  /\ After("wheel", "landing")
  /\ s' = IF s.micro = "ok" THEN Awaits(Asks(s, "wsum"), "summary", Hold) ELSE WheelEnds(s)
\* From here the fade-out owns the scene, and its first task alone is awaited.
SummaryOver ==
  /\ After("wheel", "summary")
  /\ LET t == notify(Nulled(Expired(s), "wsum"), "wsum")
         u == [t EXCEPT !.stage = (@ \ {"wheel"}) \cup {"outro"}, !.outro = Fade,
                        !.held = (@ \ {"wheel"}) \cup {"outro"},
                        !.low = IF "wheel" \in @ THEN (@ \ {"wheel"}) \cup {"outro"} ELSE @]
     IN  s' = IF s.micro # "ok" \/ t.how = "cancelled" \/ s.gone THEN WheelEnds(t)
              ELSE Awaits(u, "outro", Hide)
OutroAwaited ==
  /\ After("wheel", "outro")
  /\ s' = LET t == IF s.micro = "failed" THEN cleanupScene([s EXCEPT !.outro = 0]) ELSE s
          IN  Over(t)

\* The exit of a panel; the one animation of the vaults and the trails.
LastAwaited ==
  /\ s.at \in {"hide", "run"} /\ s.micro # "no"
  /\ s' = Finally([s EXCEPT !.active["skip"] = "none",
                            !.opening = IF s.current THEN FALSE ELSE @], s.call)

-----------------------------------------------------------------------------
(* cancelActivePresentation, with the reset of the reels that follows it   *)
(* (PixiRenderer.cancelSpinPresentation).  A pending await settles, its    *)
(* continuation still has to run.                                          *)
Waiting(t, p) == t.active[p] = "waiting"
CancelPrompts(t) ==
  LET closed == {p \in Closed : Waiting(t, p)}
  IN  [t EXCEPT !.told = [p \in Closed |-> IF p \in closed THEN 1 ELSE @[p]],
                !.active = [p \in Prompts |-> "none"],
                !.how = IF \E p \in Prompts \ {"spin"} : Waiting(t, p)
                        THEN "cancelled" ELSE @]
\* Ended for its prompt, or rejected: the popup, the summaries, the tease and
\* the intro's wait resolve.
Resolves(t) == \E p \in Prompts \ {"spin"} : Waiting(t, p)
CancelAwait(t) ==
  IF t.call = "none" THEN t
  ELSE [t EXCEPT !.current = FALSE, !.left = 0,
                 !.micro = IF Resolves(t) THEN "ok" ELSE "cancelled"]
CancelScenes(t) ==
  [restore(t) EXCEPT !.outro = 0, !.stage = {}, !.pending = 0, !.due = 0,
                     !.opening = FALSE]
Cancelled(t) == CancelScenes(CancelPrompts(CancelAwait(t)))
cancelActivePresentation ==
  s.micro = "no" /\ ~s.gone /\ (s.call # "none" \/ s.outro > 0 \/ s.due > 0)
  /\ s' = Cancelled(s)
destroy ==
  /\ s.micro = "no" /\ ~s.gone
  /\ s' = [Cancelled(s) EXCEPT !.gone = TRUE, !.art = {}]

Progress ==
  \/ Frame \/ renderFrame
  \/ \E kind \in Arts, loaded \in BOOLEAN : ArtworkSettles(kind, loaded)
  \/ ArtworkLoaded \/ IntroShown \/ waitForFreeSpinsContinue
  \/ SummaryShown \/ SummaryHeld \/ LastAwaited
  \/ PopupOver \/ WheelReady \/ WheelLanded \/ SummaryReady \/ SummaryOver
  \/ OutroAwaited
Next ==
  \/ Progress \/ FrameFails
  \/ \E call \in Calls \ {"barrier"} : presentAfterReels(call)
  \/ \E count \in 1..Members : GroupStarted(count)
  \/ \E kind \in Arts : adoptVerifiedArtwork(kind) \/ releaseVerifiedFeatureArtwork(kind)
  \/ requestWheelInteraction \/ requestWheelSummaryContinue \/ requestFreeSpinContinue
  \/ requestFreeSpinSummaryContinue \/ requestVaultTeaseSkip
  \/ cancelActivePresentation \/ destroy
Spec == Init /\ [][Next]_s /\ WF_s(Progress)

-----------------------------------------------------------------------------
(* Each prompt that is announced is closed exactly once, whether the       *)
(* player, the pause, a failure or the round ended it, and none is left    *)
(* for the next presentation to be answered by.                            *)
ClosedOnce ==
  s.micro = "no" =>
    /\ \A p \in Closed : s.told[p] = (IF Waiting(s, p) THEN 0 ELSE 1)
    /\ s.call = "none" => \A p \in Prompts : s.active[p] = "none"

(* The wheel's turn, once the player began it, is reported as landed or    *)
(* aborted before its presentation returns: the character and the award    *)
(* wait for that.                                                          *)
TurnAccounted ==
  /\ s.spin = "started" => s.call = "wheel"
  /\ s.at \in {"landing", "summary", "outro"} => s.spin = "finished"

(* Between events only the wheel's fade-out is on stage, and when nothing  *)
(* dims the reels they are as bright as they were.                         *)
StageOwned ==
  s.micro = "no" =>
    /\ s.stage = ((IF s.at \in {"none", "load", "outro"} THEN {} ELSE {s.call}) \cap Scenes)
                 \cup (IF s.outro > 0 THEN {"outro"} ELSE {})
    /\ s.held = s.stage \cap {"intro", "summary", "wheel", "outro"}
    /\ s.low = {} => s.reel = "full"
    /\ s.call = "none" => ~s.opening

(* The upgrades still expected are those of the batch being shown: a batch *)
(* the round gave up leaves none to the next.                              *)
BatchOfItsOwn == s.micro = "no" => s.pending = s.due

(* With nothing shown, late frames, loads and clicks change nothing that   *)
(* the player sees.                                                        *)
Shown(t) == <<t.stage, t.reel, t.told, t.spin, t.active>>
Quiet == (s.call = "none" /\ s.outro = 0 /\ s'.call = "none") => Shown(s') = Shown(s)

(* A presentation comes to its end, but for the two prompts that wait for  *)
(* the player without a limit: the intro's and the wheel's.                *)
Waits == s.call # "none"
Ended == s.call = "none" \/ s.at \in {"wait", "ready"}
=============================================================================
