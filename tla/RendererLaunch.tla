--------------------------- MODULE RendererLaunch ---------------------------
(***************************************************************************)
(* How the renderer gets ready (web/src/renderer/PixiRenderer.ts): a few   *)
(* workers load the critical artwork, then every node of the scene is      *)
(* exposed for an off-screen pass that warms the GPU up, frame by frame,   *)
(* and put back as it was.  Meanwhile a session may open and change what   *)
(* is to be seen, and the launch may be aborted.                           *)
(***************************************************************************)
EXTENDS Integers, FiniteSets, FiniteSetsExt, Functions

CONSTANTS Loads,      \* the loads, 1 .. Loads
          Workers     \* loads at a time

VARIABLE s

Views == {"logo", "counter"}
Nothing == [v \in Views |-> FALSE]
Running(x) == {i \in 1 .. Loads : x.load[i] = "running"}
Stages == {"loads", "symbols", "exposed", "targets", "scene", "started", "failed"}

Init ==
  s = [at |-> "loads", load |-> [i \in 1 .. Loads |-> "idle"],
       frac |-> [i \in 1 .. Loads |-> 0], failed |-> FALSE, told |-> 0,
       over |-> FALSE, mode |-> "BASE", shown |-> Nothing, saved |-> {},
       particles |-> TRUE, sessions |-> 2]

-----------------------------------------------------------------------------
(* runBoundedLaunchLoads *)

shouldAcceptProgress(x) == ~x.over

\* A load counts halves of itself, and its end as the whole.
Sum(f) == FoldFunction(LAMBDA a, b : a + b, 0, f)

publish(x, i, f) ==
  IF x.failed \/ ~shouldAcceptProgress(x) \/ f <= x.frac[i] THEN x
  ELSE LET y == [x EXCEPT !.frac[i] = f]
       IN [y EXCEPT !.told = IF Sum(y.frac) > @ THEN Sum(y.frac) ELSE @]

Idle(x) == {i \in 1 .. Loads : x.load[i] = "idle"}

assertLaunchActive(x) == ~x.over

\* The pool resolves when every worker has stopped, also on an abort, which
\* only the check behind it notices.
LoadsOver(x) ==
  IF Running(x) # {} THEN x
  ELSE [x EXCEPT !.at = IF x.failed \/ ~assertLaunchActive(x) THEN "failed" ELSE "symbols"]

\* The workers take the loads in order until one fails or the launch is over.
RECURSIVE Refill(_)
Refill(x) ==
  IF x.failed \/ ~shouldAcceptProgress(x) \/ Idle(x) = {}
       \/ Cardinality(Running(x)) >= Workers
  THEN LoadsOver(x)
  ELSE Refill([x EXCEPT !.load[Min(Idle(x))] = "running"])

loadCriticalAssets ==
  /\ s.at = "loads" /\ Idle(s) = 1 .. Loads
  /\ s' = IF assertLaunchActive(s) THEN Refill(s) ELSE [s EXCEPT !.at = "failed"]

LoadReports(i) ==
  /\ i \in Running(s) /\ s.frac[i] = 0
  /\ s' = publish(s, i, 1)

LoadSettles(i) ==
  /\ i \in Running(s)
  /\ \/ s' = Refill(publish([s EXCEPT !.load[i] = "done"], i, 2))
     \/ s' = Refill([s EXCEPT !.load[i] = "failed", !.failed = TRUE])

-----------------------------------------------------------------------------
(* warmCriticalAssets *)

\* Every renderable node is made visible, and what it was is noted down.
exposeForOffscreenWarmup(x) ==
  [x EXCEPT !.saved = {x.shown}, !.shown = [v \in Views |-> TRUE], !.particles = FALSE]

restorePresentationState(x) ==
  IF x.saved = {} THEN x
  ELSE [x EXCEPT !.shown = CHOOSE v \in x.saved : TRUE, !.saved = {}]

\* finally: also on the way out of a failure.
WarmUpThrows(x) ==
  [restorePresentationState(x) EXCEPT !.particles = TRUE, !.at = "failed"]

\* The symbols are enabled in slices of frames, then the warm-up begins.
setAuthoredSymbolsEnabledFrameSliced ==
  /\ s.at = "symbols"
  /\ s' = IF assertLaunchActive(s)
          THEN exposeForOffscreenWarmup([s EXCEPT !.at = "exposed"])
          ELSE [s EXCEPT !.at = "failed"]

\* One upload or render target of many frames.
runGpuPrepareSlices ==
  /\ s.at = "exposed"
  /\ s' = IF assertLaunchActive(s) THEN [s EXCEPT !.at = "targets"] ELSE WarmUpThrows(s)

\* The last target: the scene is put back before the final render.
warmCriticalAssets ==
  /\ s.at = "targets"
  /\ s' = IF assertLaunchActive(s)
          THEN [restorePresentationState(s) EXCEPT !.particles = TRUE, !.at = "scene"]
          ELSE WarmUpThrows(s)

warmUp ==
  /\ s.at = "scene"
  /\ s' = [s EXCEPT !.at = IF assertLaunchActive(s) THEN "started" ELSE "failed"]

-----------------------------------------------------------------------------
(* What happens meanwhile *)

\* A session shows the counter of a feature that goes on; the logo waits for
\* the end of the introduction.
restoreFeatureState(mode) ==
  /\ s.sessions > 0 /\ ~s.over /\ s.at # "failed"
  /\ s' = [s EXCEPT !.sessions = @ - 1, !.mode = mode,
                    !.shown.counter = mode = "FREE", !.shown.logo = FALSE]

\* Aborted by the gate, or destroyed with the application.
destroy ==
  /\ ~s.over /\ s.at \notin {"started", "failed"}
  /\ s' = [s EXCEPT !.over = TRUE]

Next ==
  \/ loadCriticalAssets \/ setAuthoredSymbolsEnabledFrameSliced
  \/ runGpuPrepareSlices \/ warmCriticalAssets \/ warmUp \/ destroy
  \/ \E i \in 1 .. Loads : LoadReports(i) \/ LoadSettles(i)
  \/ \E mode \in {"BASE", "FREE"} : restoreFeatureState(mode)

Progress ==
  \/ loadCriticalAssets \/ setAuthoredSymbolsEnabledFrameSliced
  \/ runGpuPrepareSlices \/ warmCriticalAssets \/ warmUp

-----------------------------------------------------------------------------
(* Properties *)

(* The types of the fields of the record.                                  *)
TypeOK ==
  /\ s.at \in Stages /\ s.mode \in {"BASE", "FREE"} /\ s.shown \in [Views -> BOOLEAN]
  /\ s.load \in [1 .. Loads -> {"idle", "running", "done", "failed"}]
  /\ s.told \in 0 .. 2 * Loads /\ s.sessions \in 0 .. 2

(* The renderer starts only with everything loaded, the pool never runs    *)
(* more loads than it has workers, and whoever leaves the warm-up, also by *)
(* a failure, leaves no hidden node exposed and the particles on.          *)
LaunchRight ==
  /\ s.at \in {"exposed", "targets", "scene", "started"} =>
       s.told = 2 * Loads /\ \A i \in 1 .. Loads : s.load[i] = "done"
  /\ Cardinality(Running(s)) <= Workers
  /\ s.at \in {"scene", "started", "failed"} => s.saved = {} /\ s.particles /\ ~s.shown.logo
  /\ s.at = "loads" /\ ~s.failed /\ ~s.over /\ Idle(s) \notin {{}, 1 .. Loads} =>
       Cardinality(Running(s)) = Workers

(* The progress never falls and stands still once a load has failed or the *)
(* launch was aborted; no load starts any more.                            *)
LoadsStop ==
  /\ s'.told >= s.told
  /\ s.failed \/ s.over => s'.told = s.told /\ Idle(s') = Idle(s)

(* A warm-up that has begun ends.                                          *)
Waits == s.at = "exposed"
Ended == s.at \in {"started", "failed"}

(* web/src/renderer/FreeSpinHudView.ts:510: the counter of a session that  *)
(* was restored is shown without its animation; it is shown when the       *)
(* renderer is ready, whenever the session opened.                         *)
CounterAsRestored == s.at = "started" => (s.shown.counter <=> s.mode = "FREE")
=============================================================================
