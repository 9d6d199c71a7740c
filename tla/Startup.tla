------------------------------- MODULE Startup -------------------------------
(***************************************************************************)
(* How the page starts (web/src/bootstrap.ts, main.ts, the creation of the *)
(* AppController, startup/PreloadGate.ts and runLaunch): the launch        *)
(* handoff, the lazily loaded modules, a view that is built stage by stage *)
(* between painted frames, and the gate of preload tasks.  The page may be *)
(* left, or the application fail, at any await of it.                      *)
(*                                                                         *)
(* The whole state is one record.  A handler is an operator from the       *)
(* record to the record; an action is one turn of the event loop.          *)
(***************************************************************************)
EXTENDS Integers, FiniteSets

CONSTANTS Tasks,      \* the preload tasks, 1 .. Tasks
          Parts       \* the stages of the renderer, the last builds its graph

VARIABLE s

Preflights == {"missing", "invalid", "unsupported", "refused", "held"}
Places == {"page", "module", "shell", "controller", "shell-mounted", "overlay-mounted",
           "building", "renderer-mounted", "started", "over"}
Launches == {"off", "preload", "painting", "intro", "failed", "over"}
Owned == {"listeners", "monitor", "gateway", "overlay", "parts", "graph", "app"}

\* A task reports thirds of itself; the last third is its end.
Whole == 3
Gates == [task : 0 .. Tasks, frac : 0 .. Whole - 1, done : 0 .. Tasks,
          taking : BOOLEAN, aborted : BOOLEAN, told : 0 .. Whole * Tasks,
          complete : BOOLEAN]

Init ==
  s = [at |-> "page", boot |-> "open", had |-> FALSE, notices |-> 0,
       disposed |-> FALSE, left |-> FALSE, armed |-> FALSE, handled |-> FALSE,
       held |-> {}, again |-> FALSE, built |-> 0,
       gate |-> [task |-> 0, frac |-> 0, done |-> 0, taking |-> FALSE,
                 aborted |-> FALSE, told |-> 0, complete |-> FALSE],
       tries |-> {}, launch |-> "off", session |-> "none", shown |-> "loading",
       faults |-> 1]

-----------------------------------------------------------------------------
(* Ownership *)

\* What is given back a second time is noticed; closing the gateway twice or
\* removing a listener twice does nothing.
Free(x, what) == [x EXCEPT !.held = @ \ what]

startStartupPerformanceMonitor(x) == [x EXCEPT !.held = @ \union {"monitor"}]
finishStartupPerformanceMonitor(x) == Free(x, {"monitor"})

\* Disposing of a finished graph disposes of its parts; before it exists each
\* part has its own disposer.
disposeStaged(x) == Free(x, {"parts", "graph"})

destroyRenderer(x) ==
  IF "graph" \in x.held THEN disposeStaged(x) ELSE [x EXCEPT !.again = @ \/ x.built = Parts]

-----------------------------------------------------------------------------
(* The preload gate *)

gateAbort(x) ==
  IF ~x.gate.taking THEN x
  ELSE [x EXCEPT !.gate.taking = FALSE, !.gate.aborted = TRUE, !.gate.task = 0]

emit(x) ==
  [x EXCEPT !.gate.told = Whole * x.gate.done + x.gate.frac]

runTask(x) ==
  emit([x EXCEPT !.gate.task = x.gate.done + 1, !.gate.frac = 0,
                 !.tries = @ \union {x.gate.done + 1}])

run(x) == runTask([x EXCEPT !.gate.taking = TRUE])

completeLaunchFailure(x) ==
  [x EXCEPT !.launch = "failed", !.shown = "failed"]

\* runLaunch: the catch of a failed or aborted gate.
LaunchFails(x) ==
  IF x.disposed THEN [x EXCEPT !.launch = "over"]
  ELSE completeLaunchFailure(finishStartupPerformanceMonitor(x))

gateThrows(x) == LaunchFails(gateAbort(x))

gateTaskOver(x) ==
  LET y == emit([x EXCEPT !.gate.done = @ + 1, !.gate.frac = 0, !.gate.task = 0])
  IN IF y.gate.done < Tasks THEN runTask(y)
     ELSE [y EXCEPT !.gate.taking = FALSE, !.gate.complete = TRUE,
                    !.launch = "painting"]

-----------------------------------------------------------------------------
(* The controller *)

\* A gate that is aborted rejects before anything else runs, and runLaunch with it.
abortPreload(x) == IF x.gate.taking THEN gateThrows(x) ELSE x

destroy(x) ==
  IF "app" \notin x.held THEN [x EXCEPT !.again = TRUE]
  ELSE LET y == abortPreload(finishStartupPerformanceMonitor(x))
       IN destroyRenderer(Free(y, {"app", "overlay", "gateway"}))

start(x) == run([x EXCEPT !.launch = "preload"])

failInitialRgsSession(x) ==
  LET closed == [Free(x, {"gateway"}) EXCEPT !.session = "failed"]
  IN abortPreload([completeLaunchFailure(closed) EXCEPT !.notices = @ + 1])

-----------------------------------------------------------------------------
(* main.ts *)

\* A controller that is being created is no application yet: it is disposed of
\* by its creation, at the next await.
disposeApplication(x) ==
  IF x.disposed THEN x
  ELSE LET y == finishStartupPerformanceMonitor(
                  Free([x EXCEPT !.disposed = TRUE, !.armed = FALSE], {"listeners"}))
           z == IF x.at = "started" THEN [destroy(y) EXCEPT !.at = "over"] ELSE y
       IN Free(z, {"gateway"})

presentStartupFailure(x, operator) ==
  [finishStartupPerformanceMonitor(x) EXCEPT
     !.shown = "failed", !.notices = IF operator THEN @ + 1 ELSE @]

failConfiguredLaunch(x) ==
  IF x.disposed THEN [x EXCEPT !.at = "over"]
  ELSE [presentStartupFailure(disposeApplication(x), FALSE) EXCEPT !.at = "over"]

\* create: its catch disposes of what it has built.
createFails(x) ==
  LET y == IF x.built = Parts THEN destroyRenderer(x) ELSE x
  IN failConfiguredLaunch(Free(y, {"overlay"}))

presentRuntimeFailure(x) ==
  [x EXCEPT !.shown = "runtime-failed", !.notices = @ + 1]

handleRuntimeFailure(x) ==
  IF ~x.armed \/ x.handled \/ x.disposed THEN x
  ELSE presentRuntimeFailure(disposeApplication([x EXCEPT !.handled = TRUE]))

startApplication(x, gateway) ==
  IF gateway = "refused" THEN
    [presentStartupFailure(x, TRUE) EXCEPT !.boot = "done", !.at = "over"]
  ELSE startStartupPerformanceMonitor(
         [x EXCEPT !.boot = "done", !.at = "shell",
                   !.held = @ \union {"listeners", "gateway"}])

-----------------------------------------------------------------------------
(* bootstrap.ts *)

bootstrapFails(x) ==
  [x EXCEPT !.boot = "failed", !.at = "over", !.shown = "failed",
            !.notices = IF x.had THEN @ + 1 ELSE @]

\* The handoff is taken once, while the page's scripts run.
takeLaunchHandoff ==
  /\ s.at = "page"
  /\ \E p \in Preflights, had \in BOOLEAN :
       LET x == [s EXCEPT !.had = had /\ p \in {"missing", "held"}]
       IN s' = CASE p = "held" -> [x EXCEPT !.at = "module"]
                 [] p = "unsupported" -> [x EXCEPT !.at = "over", !.boot = "none"]
                 [] OTHER -> bootstrapFails(x)

\* The module, its failure or the deadline, whichever comes first.
importApplicationModule ==
  /\ s.at = "module"
  /\ \E outcome \in {"loaded", "failed", "late"}, gateway \in {"made", "refused"} :
       s' = IF outcome = "loaded" THEN startApplication(s, gateway) ELSE bootstrapFails(s)

-----------------------------------------------------------------------------
(* The awaits of main.ts and of create *)

Fault(x) == [x EXCEPT !.faults = @ - 1]

waitForPaintedFrame ==
  /\ s.at = "shell"
  /\ s' = [s EXCEPT !.at = IF s.disposed THEN "over" ELSE "controller"]

\* import("./app/AppController") has no deadline of its own.
ControllerLoaded ==
  /\ s.at = "controller"
  /\ \/ s' = [s EXCEPT !.at = IF s.disposed THEN "over" ELSE "shell-mounted"]
     \/ s.faults > 0 /\ s' = failConfiguredLaunch(Fault(s))

\* The overlay belongs to create as soon as it is built, before its paint.
buildPaintedStartupStage ==
  /\ s.at \in {"shell-mounted", "overlay-mounted"}
  /\ \/ s.disposed /\ s' = createFails(s)
     \/ /\ ~s.disposed
        /\ s' = IF s.at = "shell-mounted"
                THEN [s EXCEPT !.at = "overlay-mounted", !.held = @ \union {"overlay"}]
                ELSE [s EXCEPT !.at = "building"]
     \/ ~s.disposed /\ s.faults > 0 /\ s' = createFails(Fault(s))

\* One component in each frame; a throw disposes of those before it.
runStagedComponentConstruction ==
  /\ s.at = "building"
  /\ \/ s.disposed /\ s' = createFails(disposeStaged(s))
     \/ /\ ~s.disposed
        /\ s' = [s EXCEPT !.built = @ + 1,
                          !.held = @ \union IF s.built + 1 = Parts THEN {"parts", "graph"}
                                            ELSE {"parts"},
                          !.at = IF s.built + 1 = Parts THEN "renderer-mounted" ELSE @]
     \/ ~s.disposed /\ s.faults > 0 /\ s' = createFails(disposeStaged(Fault(s)))

\* The controller is wired and started in one turn, and the boundary armed.
createAndStart ==
  /\ s.at = "renderer-mounted"
  /\ \/ s.disposed /\ s' = createFails(s)
     \/ /\ ~s.disposed
        /\ s' = [start([s EXCEPT !.at = "started", !.held = @ \union {"app"}])
                 EXCEPT !.armed = TRUE]
     \/ ~s.disposed /\ s.faults > 0 /\ s' = createFails(Fault(s))
     \/ /\ ~s.disposed /\ s.faults > 0
        /\ s' = failConfiguredLaunch(
                  Fault([s EXCEPT !.at = "started", !.held = @ \union {"app"}]))

-----------------------------------------------------------------------------
(* The tasks of the gate *)

\* A task may report at any time until it ends, whatever became of the gate.
report(t) ==
  /\ t \in s.tries
  /\ \E f \in 1 .. Whole - 1 :
       s' = IF s.gate.taking /\ s.gate.task = t /\ ~s.gate.aborted
            THEN emit([s EXCEPT !.gate.frac = IF f > @ THEN f ELSE @])
            ELSE s

\* The attempt of a task settles; it is heard only while it is the one awaited.
TaskEnds(t) ==
  /\ t \in s.tries
  /\ LET x == [s EXCEPT !.tries = @ \ {t}] IN
     \/ s' = IF x.gate.task = t THEN gateTaskOver(x) ELSE x
     \/ /\ s.faults > 0
        /\ s' = IF x.gate.task = t THEN gateThrows(Fault(x)) ELSE x

\* The deadline of the task that is awaited.
runTaskWithDeadline ==
  /\ s.gate.task # 0
  /\ s' = gateThrows(s)

\* The readiness is painted, then the introduction begins.
LaunchPainted ==
  /\ s.launch = "painting"
  /\ s' = IF s.disposed THEN [s EXCEPT !.launch = "over"]
          ELSE IF s.session = "failed" THEN LaunchFails(s)
          ELSE [finishStartupPerformanceMonitor(s) EXCEPT
                  !.launch = "intro", !.shown = "intro"]

-----------------------------------------------------------------------------
(* What happens to the page *)

SessionOpens ==
  /\ s.at = "started" /\ s.session = "none"
  /\ s' = [s EXCEPT !.session = "open"]

InitialSessionTimeout ==
  /\ s.at = "started" /\ s.session = "none" /\ s.launch # "failed"
  /\ s' = failInitialRgsSession(s)

\* pagehide of a page that is not kept, or a replaced module.
PageLeft ==
  /\ "listeners" \in s.held
  /\ s' = [disposeApplication(s) EXCEPT !.left = TRUE]

WindowError ==
  /\ "listeners" \in s.held
  /\ s' = handleRuntimeFailure(s)

Next ==
  \/ takeLaunchHandoff \/ importApplicationModule \/ waitForPaintedFrame
  \/ ControllerLoaded \/ buildPaintedStartupStage
  \/ runStagedComponentConstruction \/ createAndStart
  \/ \E t \in 1 .. Tasks : report(t) \/ TaskEnds(t)
  \/ runTaskWithDeadline \/ LaunchPainted
  \/ SessionOpens \/ InitialSessionTimeout \/ PageLeft \/ WindowError

\* Timers fire and frames are drawn; a task may hang for ever.
Progress ==
  \/ importApplicationModule \/ waitForPaintedFrame \/ buildPaintedStartupStage
  \/ runStagedComponentConstruction \/ createAndStart \/ runTaskWithDeadline
  \/ LaunchPainted

-----------------------------------------------------------------------------
(* Properties *)

(* The types of the fields of the record.                                  *)
TypeOK ==
  /\ s.at \in Places /\ s.boot \in {"open", "done", "failed", "none"}
  /\ s.notices \in 0 .. 2 /\ s.held \subseteq Owned /\ s.gate \in Gates
  /\ s.launch \in Launches /\ s.session \in {"none", "open", "failed"}
  /\ s.tries \subseteq 1 .. Tasks /\ s.built \in 0 .. Parts /\ s.faults \in 0 .. 1

(* Whatever was built when the page was left or the start failed has been  *)
(* given back once the start has run to its end, and nothing twice.        *)
NothingLeftBehind ==
  /\ s.at = "over" => s.held = {}
  /\ ~s.again
  /\ s.armed => "app" \in s.held

(* A start that ends without an application says so, unless the page was   *)
(* left; the introduction is shown only by an application whose tasks have *)
(* all completed.                                                          *)
OutcomeShown ==
  /\ s.at = "over" /\ ~s.left /\ s.boot # "none" => s.shown \in {"failed", "runtime-failed"}
  /\ s.launch = "intro" => s.gate.complete /\ s.gate.done = Tasks
  /\ s.boot = "failed" => s.held = {} /\ s.at = "over"

(* Progress never falls and stops with the gate, and nothing is built once *)
(* the application is disposed of.                                         *)
ProgressForward ==
  /\ s'.gate.told >= s.gate.told
  /\ s'.gate.told # s.gate.told => s.at = "started" /\ ~s.disposed
  /\ s.disposed => s'.held \subseteq s.held

(* A started preload ends, by its tasks or by their deadlines, and what a  *)
(* disposal finds half built is given back.                                *)
Waits == s.launch = "preload"
Ended == s.launch # "preload"
HalfBuilt == s.disposed /\ s.at # "controller"
GivenBack == s.held = {}
=============================================================================
