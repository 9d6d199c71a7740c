-------------------------------- MODULE AppFlow --------------------------------
(***************************************************************************)
(* AppController (web/src/app/AppController.ts): the browser's conductor.  *)
(* It drives three small state machines (game, launch, reel round) from    *)
(* the callbacks of the gateway, the clicks of the player, its own timers  *)
(* and the presentation of a round, which is one long asynchronous task    *)
(* that any of the others may interrupt between two of its awaits.         *)
(*                                                                         *)
(* A handler is an operator from the controller's fields to its fields, so *)
(* that a callback made from inside another one composes as it does in the *)
(* code; an action is one turn of the event loop.  The gateway is seen     *)
(* through its callbacks only: its own protocol is the subject of module   *)
(* ClientRound.  A balance is the number of rounds it includes, feature    *)
(* state is the number of free spins that remain, and what a result holds  *)
(* is its entry of the script the server plays.                            *)
(***************************************************************************)
EXTENDS Integers, Sequences, FiniteSets

CONSTANTS
  MaxRounds,     \* rounds the server plays at most
  Scenarios      \* what a behaviour may bring: see Scenario below

Rounds == 1 .. MaxRounds
NoRound == 0
Outcomes == [wins : BOOLEAN, big : BOOLEAN, wheel : BOOLEAN, free : 0 .. MaxRounds]

\* The rounds the server plays, the times the page is hidden, failing
\* presentations, refused rounds and lost sessions, and whether the feature
\* preview is shown.
Scenario == [script : Seq(Outcomes), toggles : Nat, faults : Nat, preview : BOOLEAN]

ASSUME AppAssumption ==
  /\ MaxRounds \in Nat \ {0} /\ Scenarios \subseteq Scenario
  /\ \A s \in Scenarios :
       /\ Len(s.script) \in 1 .. MaxRounds
       /\ s.script[Len(s.script)].free = 0   \* the script ends no feature half way

VARIABLES
  ctl,     \* the fields of the controller
  launchAt,\* the await at which runLaunch stands
  gw,      \* the gateway as the controller sees it, and the server behind it
  script,  \* the outcome of every round
  told,    \* rounds disclosed, presented, rejected; whether the page was hidden
  budget   \* what is left of the scenario

vars == <<ctl, launchAt, gw, script, told, budget>>

-----------------------------------------------------------------------------
(* The three state machines *)

Phases == {"booting", "connecting", "ready", "requesting", "presenting",
           "recovering", "failed"}

GameMoves ==
  {<<"booting", "START", "connecting">>, <<"connecting", "SESSION_OPENED", "ready">>,
   <<"recovering", "SESSION_OPENED", "ready">>, <<"ready", "SPIN_REQUESTED", "requesting">>,
   <<"requesting", "SPIN_RESULT", "presenting">>, <<"requesting", "SPIN_FAILED", "ready">>,
   <<"presenting", "PRESENTATION_COMPLETE", "ready">>, <<"failed", "RETRY", "connecting">>,
   <<"booting", "CONNECTION_LOST", "booting">>, <<"failed", "CONNECTION_LOST", "failed">>}
  \union {<<p, "FATAL_ERROR", "failed">> : p \in Phases}
  \union {<<p, "CONNECTION_LOST", "recovering">> : p \in Phases \ {"booting", "failed"}}

LaunchPhases == {"boot", "preloading", "intro", "waiting-session", "ready", "failed"}

LaunchMoves ==
  {<<"boot", "START_PRELOAD", "preloading">>, <<"preloading", "PRELOAD_COMPLETE", "intro">>}
  \union {<<p, "FAIL", "failed">> : p \in LaunchPhases}

ReelStates == {"Idle", "Spin_Start", "Spinning", "Spin_Stopping", "Reel_Stop_One_By_One",
               "Result_Show", "Win_Line_Animation"}

ReelMoves ==
  {<<"Idle", "SPIN_ACCEPTED", "Spin_Start">>, <<"Spin_Start", "REELS_STARTED", "Spinning">>,
   <<"Spinning", "RESULT_RECEIVED", "Spin_Stopping">>,
   <<"Spin_Stopping", "REEL_STOP_STARTED", "Reel_Stop_One_By_One">>,
   <<"Reel_Stop_One_By_One", "ALL_REELS_STOPPED", "Result_Show">>,
   <<"Result_Show", "WIN_PRESENTATION_STARTED", "Win_Line_Animation">>,
   <<"Win_Line_Animation", "ROUND_COMPLETE", "Idle">>}

\* An event its machine does not expect is an exception.
After(moves, state, event) ==
  LET targets == {m \in moves : m[1] = state /\ m[2] = event}
  IN IF targets = {} THEN "threw" ELSE (CHOOSE m \in targets : TRUE)[3]

Game(c, event) == [c EXCEPT !.phase = After(GameMoves, @, event)]

LaunchAccepts(c, event) ==
  \/ \E m \in LaunchMoves : m[1] = c.launch /\ m[2] = event
  \/ event = "INTRO_COMPLETE" /\ c.launch = "intro" /\ c.hasSession

Launch(c, event) ==
  IF event = "INTRO_COMPLETE" THEN [c EXCEPT !.launch = "ready"]
  ELSE [c EXCEPT !.launch = After(LaunchMoves, @, event)]

SessionReady(c) ==
  [c EXCEPT !.hasSession = TRUE,
            !.launch = IF @ = "waiting-session" THEN "ready" ELSE @]

Reel_Forgets(c, event) ==
  [c EXCEPT !.reel = After(ReelMoves, @, event),
            !.reelRound = IF event = "ALL_REELS_STOPPED" THEN NoRound ELSE @]


Reel(c, event) ==
  [c EXCEPT !.reel = After(ReelMoves, @, event),
            !.reelRound = IF event = "ROUND_COMPLETE" THEN NoRound ELSE @]

ReelReset(c) == [c EXCEPT !.reel = "Idle", !.reelRound = NoRound]

-----------------------------------------------------------------------------
(* State *)

NoShow == [round |-> NoRound, at |-> "none"]
Stages == {"none", "before", "stopping", "braking", "settled", "bigwin", "wins",
           "features", "summary", "exit"}

Created ==
  [phase |-> "connecting", launch |-> "preloading", hasSession |-> FALSE,
   reel |-> "Idle", reelRound |-> NoRound, connection |-> "idle",
   timedOut |-> FALSE, destroyed |-> FALSE, sessionFailed |-> FALSE,
   opened |-> FALSE, requests |-> 0, preview |-> FALSE,
   buffered |-> NoRound, visualStart |-> FALSE, lastRound |-> NoRound,
   barrier |-> FALSE, balance |-> 0, visible |-> 0, free |-> 0,
   controls |-> FALSE, freeTimer |-> 0, sessionTimer |-> TRUE,
   idle |-> "none", leases |-> {}, queue |-> <<>>,
   show |-> NoShow]

\* committed: rounds the server has settled.  known: those the gateway's
\* session projection includes.  told: it has announced the recovery.
Gateways ==
  [conn : {"parked", "connecting", "connected", "closed"},
   available : BOOLEAN, told : BOOLEAN, pending : 0 .. MaxRounds,
   delivered : BOOLEAN, asked : BOOLEAN, known : 0 .. MaxRounds,
   committed : 0 .. MaxRounds]

Controllers ==
  [phase : Phases \union {"threw"}, launch : LaunchPhases, hasSession : BOOLEAN,
   reel : ReelStates \union {"threw"}, reelRound : 0 .. MaxRounds,
   connection : {"idle", "connecting", "online", "recovering", "offline"},
   timedOut : BOOLEAN, destroyed : BOOLEAN, sessionFailed : BOOLEAN,
   opened : BOOLEAN, requests : 0 .. 2, preview : BOOLEAN,
   buffered : 0 .. MaxRounds, visualStart : BOOLEAN, lastRound : 0 .. MaxRounds,
   barrier : BOOLEAN, balance : 0 .. MaxRounds, visible : 0 .. MaxRounds,
   free : 0 .. MaxRounds, controls : BOOLEAN, freeTimer : 0 .. MaxRounds,
   sessionTimer : BOOLEAN,
   idle : {"none", "armed", "active"},
   leases : SUBSET {"big-win", "free-spins", "wheel"},
   queue : Seq(Rounds), show : [round : 0 .. MaxRounds, at : Stages]]

TypeOK ==
  /\ ctl \in Controllers
  /\ launchAt \in {"preload", "paint", "preview", "session", "intro", "over"}
  /\ gw \in Gateways
  /\ script \in {s.script : s \in Scenarios}
  /\ told \in [disclosed : 0 .. MaxRounds, over : SUBSET Rounds,
               rejected : SUBSET Rounds, hidden : BOOLEAN]
  /\ budget \in [toggles : Nat, faults : Nat, preview : BOOLEAN]

Ended(c) == c.destroyed \/ c.timedOut
FreeAfter(r) == IF r = 0 THEN 0 ELSE script[r].free
Base(r) == FreeAfter(r) = 0

Init ==
  /\ \E s \in Scenarios :
       /\ script = s.script
       /\ budget = [toggles |-> s.toggles, faults |-> s.faults, preview |-> s.preview]
  /\ launchAt = "preload"
  /\ told = [disclosed |-> 0, over |-> {}, rejected |-> {}, hidden |-> FALSE]
  /\ \E available \in BOOLEAN, pending, committed \in {0, 1} :
       /\ committed = 1 => pending = 1
       /\ gw = [conn |-> IF available THEN "connecting" ELSE "parked",
                available |-> available, told |-> ~available, pending |-> pending,
                delivered |-> FALSE, asked |-> FALSE, known |-> 0,
                committed |-> committed]
       /\ ctl = [Created EXCEPT !.connection = IF available THEN "connecting" ELSE "recovering",
                                !.phase = IF available THEN "connecting" ELSE "recovering"]

-----------------------------------------------------------------------------
(* What the controller derives, and its callbacks *)

CanSpin(c, g) ==
  /\ ~c.timedOut /\ c.launch = "ready" /\ c.phase = "ready"
  /\ c.connection = "online" /\ g.pending = NoRound

\* The free-spin timer remembers the count it was set for.
refreshUi(c, g) ==
  [c EXCEPT !.controls = CanSpin(c, g) /\ ~c.destroyed,
            !.freeTimer = IF ~CanSpin(c, g) \/ c.free = 0 THEN 0
                          ELSE IF @ # 0 \/ c.destroyed THEN @ ELSE c.free]

handleStatus_Silent(c, g, status) ==
  IF c.timedOut THEN c
  ELSE IF status = "recovering" /\ c.phase \notin {"booting", "recovering", "failed", "presenting"}
  THEN Game([c EXCEPT !.connection = status], "CONNECTION_LOST")
  ELSE [c EXCEPT !.connection = status]


handleStatus(c, g, status) ==
  LET seen == [c EXCEPT !.connection = status]
  IN IF c.timedOut THEN c
     ELSE IF /\ status = "recovering"
             /\ c.phase \notin {"booting", "recovering", "failed", "presenting"}
          THEN refreshUi(Game(seen, "CONNECTION_LOST"), g)
          ELSE seen

requiresOperatorSessionRecovery(c) == ~c.destroyed /\ ~c.opened

\* A round in flight or on its way to the screen keeps what the player sees:
\* the session may already include it.
handleSession(c, g) ==
  LET pendingRound == g.pending # NoRound \/ c.buffered # NoRound
      seen == [c EXCEPT !.sessionTimer = FALSE, !.opened = TRUE, !.balance = g.known,
                 !.free = IF pendingRound \/ c.phase = "presenting" THEN @ ELSE FreeAfter(g.known),
                 !.visible = IF pendingRound \/ c.barrier THEN @ ELSE g.known]
      entered == IF c.phase \notin {"connecting", "recovering"} THEN seen
                 ELSE IF g.pending = NoRound THEN Game(seen, "SESSION_OPENED")
                 ELSE Game(Game(seen, "SESSION_OPENED"), "SPIN_REQUESTED")
  IN IF c.timedOut \/ (c.sessionFailed /\ requiresOperatorSessionRecovery(c)) THEN c
     ELSE refreshUi(SessionReady(entered), g)

\* The loop of the last win's highlights gives way to a new round.
stopPostWinIdleRepeat(c) == [c EXCEPT !.idle = "none"]

rejectSpinResult(c, g) == refreshUi(Game(ReelReset(c), "SPIN_FAILED"), g)

primeAuthoritativeFeatureAssetLeases(c, r) ==
  [c EXCEPT !.leases = @ \union (IF Base(r - 1) /\ Base(r) THEN {} ELSE {"free-spins"})
                         \union (IF script[r].wheel THEN {"wheel"} ELSE {})]

acceptSpinResult(c, g, r) ==
  LET primed == primeAuthoritativeFeatureAssetLeases(c, r)
      stopping == Reel(primed, IF c.reelRound = r THEN "RESULT_RECEIVED" ELSE "FOREIGN_ROUND")
      presenting == Game([stopping EXCEPT !.lastRound = r], "SPIN_RESULT")
  IN IF r = c.lastRound \/ c.phase # "requesting" THEN c
     ELSE [refreshUi([presenting EXCEPT !.barrier = TRUE, !.balance = r,
                                        !.free = script[r].free], g)
             EXCEPT !.queue = Append(@, r)]

beginRecoveredSpinPresentation(c) == [stopPostWinIdleRepeat(c) EXCEPT !.freeTimer = 0]

releaseBufferedRecoveredSpinResult_Drops(c, g) ==
  LET r == c.buffered
      free == [c EXCEPT !.buffered = NoRound, !.visualStart = FALSE]
      accepted == Reel([free EXCEPT !.reelRound = r], "SPIN_ACCEPTED")
  IN IF c.destroyed \/ c.launch # "ready" \/ r = NoRound THEN free
     ELSE IF ~c.visualStart THEN acceptSpinResult(free, g, r)
     ELSE acceptSpinResult(Reel(accepted, "REELS_STARTED"), g, r)


releaseBufferedRecoveredSpinResult(c, g) ==
  LET r == c.buffered
      free == [c EXCEPT !.buffered = NoRound, !.visualStart = FALSE]
      accepted == Reel([free EXCEPT !.reelRound = r], "SPIN_ACCEPTED")
      started == Reel(beginRecoveredSpinPresentation(accepted), "REELS_STARTED")
  IN IF c.destroyed \/ c.launch # "ready" \/ r = NoRound THEN c
     ELSE IF ~c.visualStart THEN acceptSpinResult(free, g, r)
     ELSE IF c.reel # "Idle" THEN rejectSpinResult(free, g)
     ELSE acceptSpinResult(started, g, r)

bufferRecoveredSpinResult(c, g, r, valid) ==
  IF r = c.lastRound \/ c.buffered # NoRound \/ c.phase # "requesting" THEN c
  ELSE IF ~valid THEN rejectSpinResult(c, g)
  ELSE IF c.reel # "Idle" /\ (c.reel # "Spinning" \/ c.reelRound # r) THEN c
  ELSE releaseBufferedRecoveredSpinResult(
         [c EXCEPT !.buffered = r, !.visualStart = c.reel = "Idle"], g)

\* The failure screen of a launch.
completeLaunchFailure(c, g) == refreshUi([c EXCEPT !.launch = "failed"], g)


requestOperatorSession(c) == [c EXCEPT !.requests = IF @ > 0 THEN @ ELSE @ + 1]

\* RgsGateway.close() as the controller sees it: offline is its last callback.
Closed(g) ==
  IF g.conn = "closed" THEN g
  ELSE [g EXCEPT !.conn = "closed", !.pending = NoRound, !.told = FALSE,
                 !.delivered = FALSE, !.asked = FALSE]

failInitialRgsSession(c, g) ==
  LET closed == handleStatus([c EXCEPT !.sessionFailed = TRUE, !.sessionTimer = FALSE],
                             Closed(g), "offline")
  IN requestOperatorSession(completeLaunchFailure([closed EXCEPT !.preview = FALSE], Closed(g)))

\* A failure that the gateway will not retry.
handleError(c, g) ==
  IF c.timedOut THEN c
  ELSE IF requiresOperatorSessionRecovery(c)
    THEN IF c.sessionFailed THEN c ELSE failInitialRgsSession(c, g)
  ELSE IF c.phase = "requesting"
    THEN refreshUi(Game(ReelReset(c), "SPIN_FAILED"), g)
  ELSE IF c.phase \in {"connecting", "recovering"}
    THEN completeLaunchFailure(Game(c, "FATAL_ERROR"), g)
  ELSE c

handleOperatorSessionRequired(c, g) ==
  LET idle == IF c.phase = "requesting" THEN Game(ReelReset(c), "SPIN_FAILED") ELSE c
  IN IF c.destroyed THEN c ELSE refreshUi(requestOperatorSession(idle), g)

handleSessionTimeout_ReelsSpin(c) ==
  [Game(c, "FATAL_ERROR") EXCEPT
     !.timedOut = TRUE, !.connection = "offline", !.freeTimer = 0, !.leases = {},
     !.controls = FALSE]


handleSessionTimeout(c) ==
  [Game(ReelReset(stopPostWinIdleRepeat(c)), "FATAL_ERROR") EXCEPT
     !.timedOut = TRUE, !.connection = "offline", !.sessionTimer = FALSE,
     !.freeTimer = 0, !.preview = FALSE, !.buffered = NoRound, !.visualStart = FALSE,
     !.leases = @ \ {"wheel", "free-spins"}, !.controls = FALSE]

Destroyed(c) ==
  [ReelReset(stopPostWinIdleRepeat(c)) EXCEPT
     !.destroyed = TRUE, !.sessionTimer = FALSE, !.preview = FALSE,
     !.buffered = NoRound, !.visualStart = FALSE, !.freeTimer = 0,
     !.connection = IF c.timedOut THEN @ ELSE "offline",
     !.leases = @ \ {"wheel", "free-spins"}, !.controls = FALSE]

-----------------------------------------------------------------------------
(* The launch: one task, resumed after each of its awaits *)

\* What runLaunch throws, it catches: the failure screen.
LaunchResumes(at, next, c) ==
  /\ launchAt = at
  /\ IF Ended(ctl)
     THEN launchAt' = "over" /\ ctl' = ctl
     ELSE IF next = "throws"
     THEN launchAt' = "over" /\ ctl' = completeLaunchFailure(ctl, gw)
     ELSE launchAt' = next /\ ctl' = c
  /\ UNCHANGED <<gw, script, told, budget>>

Preloaded ==
  LaunchResumes("preload", IF ctl.sessionFailed THEN "throws" ELSE "paint", ctl)

PreloadFails ==
  /\ budget.faults > 0
  /\ launchAt = "preload" /\ launchAt' = "over"
  /\ ctl' = IF Ended(ctl) THEN ctl ELSE completeLaunchFailure(ctl, gw)
  /\ budget' = [budget EXCEPT !.faults = @ - 1]
  /\ UNCHANGED <<gw, script, told>>

Painted ==
  LET entered == refreshUi(Launch(ctl, "PRELOAD_COMPLETE"), gw)
  IN LaunchResumes("paint",
       IF ~LaunchAccepts(ctl, "PRELOAD_COMPLETE") THEN "throws"
       ELSE IF budget.preview THEN "preview" ELSE "session",
       IF LaunchAccepts(ctl, "PRELOAD_COMPLETE")
       THEN [entered EXCEPT !.preview = budget.preview] ELSE ctl)

continueFeaturePreview ==
  /\ ctl.preview /\ ctl.hasSession
  /\ ctl' = [ctl EXCEPT !.preview = FALSE]
  /\ UNCHANGED <<launchAt, gw, script, told, budget>>

PreviewLeft ==
  /\ ~ctl.preview
  /\ LaunchResumes("preview", IF ctl.sessionFailed THEN "throws" ELSE "intro", ctl)

SessionAwaited ==
  /\ ctl.hasSession \/ ctl.sessionFailed \/ ctl.destroyed
  /\ LaunchResumes("session", IF ctl.sessionFailed THEN "throws" ELSE "intro", ctl)

\* The animation ends, or its wall-clock deadline does.
IntroOver ==
  LaunchResumes("intro",
    IF LaunchAccepts(ctl, "INTRO_COMPLETE") THEN "over" ELSE "throws",
    IF LaunchAccepts(ctl, "INTRO_COMPLETE")
    THEN releaseBufferedRecoveredSpinResult(refreshUi(Launch(ctl, "INTRO_COMPLETE"), gw), gw)
    ELSE ctl)

InitialSessionTimeout ==
  /\ ctl.sessionTimer
  /\ budget.faults > 0
  /\ ctl' = IF requiresOperatorSessionRecovery(ctl) /\ ~ctl.sessionFailed
            THEN failInitialRgsSession(ctl, gw) ELSE [ctl EXCEPT !.sessionTimer = FALSE]
  /\ gw' = IF requiresOperatorSessionRecovery(ctl) THEN Closed(gw) ELSE gw
  /\ budget' = [budget EXCEPT !.faults = @ - 1]
  /\ UNCHANGED <<launchAt, script, told>>

-----------------------------------------------------------------------------
(* The gateway and the server *)

\* The result it may find already waiting is delivered in the same turn.
Connect ==
  \E discovered \in BOOLEAN :
    LET online == [gw EXCEPT !.conn = "connected", !.known = gw.committed]
        seen == IF gw.available
                THEN handleSession(handleStatus(ctl, online, "online"), online) ELSE ctl
        r == gw.pending
    IN /\ gw.conn = "connecting"
       /\ discovered => r # NoRound /\ gw.committed = r /\ gw.available
       /\ ctl' = IF discovered THEN bufferRecoveredSpinResult(seen, online, r, TRUE) ELSE seen
       /\ gw' = [online EXCEPT !.delivered = discovered]
       /\ UNCHANGED <<launchAt, script, told, budget>>

ConnectFails ==
  /\ gw.conn = "connecting"
  /\ budget.faults > 0
  /\ ctl' = handleError(handleStatus(ctl, gw, "offline"), gw)
  /\ gw' = Closed(gw)
  /\ budget' = [budget EXCEPT !.faults = @ - 1]
  /\ UNCHANGED <<launchAt, script, told>>

\* A round whose result is on the screen is not announced as interrupted.
Suspend ==
  LET announced == gw.conn \in {"connecting", "connected"}
                   /\ (gw.pending = NoRound \/ ~gw.delivered)
      hidden == [gw EXCEPT !.available = FALSE, !.told = @ \/ announced]
  IN /\ gw.available /\ budget.toggles > 0
     /\ gw' = hidden
     /\ ctl' = IF announced THEN handleStatus(ctl, hidden, "recovering") ELSE ctl
     /\ budget' = [budget EXCEPT !.toggles = @ - 1]
     /\ told' = [told EXCEPT !.hidden = TRUE]
     /\ UNCHANGED <<launchAt, script>>

Resume ==
  LET back == [gw EXCEPT !.available = TRUE,
                         !.conn = IF @ = "parked" THEN "connecting" ELSE @,
                         !.told = @ /\ gw.conn = "connecting"]
  IN /\ ~gw.available /\ gw.conn # "closed"
     /\ gw' = back
     /\ ctl' = IF gw.conn = "parked" THEN handleStatus(ctl, back, "connecting")
               ELSE IF gw.told /\ gw.conn = "connected"
               THEN handleSession(handleStatus(ctl, back, "online"), back) ELSE ctl
     /\ UNCHANGED <<launchAt, script, told, budget>>

RefreshToken ==
  LET refreshed == [gw EXCEPT !.known = gw.committed]
  IN /\ gw.conn = "connected"
     /\ gw' = refreshed
     /\ ctl' = IF gw.available THEN handleSession(ctl, refreshed) ELSE ctl
     /\ UNCHANGED <<launchAt, script, told, budget>>

Commit ==
  /\ gw.pending > gw.committed
  /\ gw' = [gw EXCEPT !.committed = gw.pending]
  /\ UNCHANGED <<ctl, launchAt, script, told, budget>>

\* handleSpinResult; the gateway books the delivery after the callback.
Deliver ==
  \E valid \in BOOLEAN :
    LET r == gw.pending
    IN /\ gw.conn = "connected" /\ gw.available
       /\ r # NoRound /\ gw.committed = r /\ ~gw.delivered
       /\ valid \/ budget.faults > 0
       /\ ctl' = bufferRecoveredSpinResult(ctl, gw, r, valid)
       /\ gw' = [gw EXCEPT !.delivered = TRUE, !.known = r]
       /\ told' = [told EXCEPT !.rejected = IF valid THEN @ ELSE @ \union {r}]
       /\ budget' = [budget EXCEPT !.faults = IF valid THEN @ ELSE @ - 1]
       /\ UNCHANGED <<launchAt, script>>

RejectRound ==
  LET cleared == [gw EXCEPT !.pending = NoRound]
  IN /\ gw.conn = "connected" /\ gw.available
     /\ gw.pending > gw.committed /\ budget.faults > 0
     /\ gw' = cleared
     /\ ctl' = handleError(ctl, cleared)
     /\ budget' = [budget EXCEPT !.faults = @ - 1]
     /\ UNCHANGED <<launchAt, script, told>>


Acknowledged ==
  LET cleared == [gw EXCEPT !.pending = NoRound, !.delivered = FALSE, !.asked = FALSE]
  IN /\ gw.conn = "connected" /\ gw.asked
     /\ gw' = cleared
     /\ ctl' = refreshUi(ctl, cleared)
     /\ UNCHANGED <<launchAt, script, told, budget>>

OperatorRelaunch ==
  LET ended == [gw EXCEPT !.conn = "closed", !.told = FALSE]
      offline == handleStatus(ctl, ended, "offline")
  IN /\ gw.conn \in {"connecting", "connected"} /\ budget.faults > 0
     /\ gw' = ended
     /\ ctl' = handleOperatorSessionRequired(handleError(offline, ended), ended)
     /\ budget' = [budget EXCEPT !.faults = @ - 1]
     /\ UNCHANGED <<launchAt, script, told>>

SessionTimeout ==
  LET ended == [gw EXCEPT !.conn = "closed", !.told = FALSE]
  IN /\ gw.conn = "connected" /\ budget.faults > 0
     /\ gw' = ended
     /\ ctl' = handleSessionTimeout(handleStatus(ctl, ended, "offline"))
     /\ budget' = [budget EXCEPT !.faults = @ - 1]
     /\ UNCHANGED <<launchAt, script, told>>

\* The button of the timeout notice.
showSessionTimeout ==
  /\ ctl.timedOut /\ ~ctl.destroyed
  /\ ctl' = requestOperatorSession(ctl)
  /\ UNCHANGED <<launchAt, gw, script, told, budget>>

\* The page unloads, or an uncaught exception disposes of the application.
destroy ==
  /\ ~ctl.destroyed /\ budget.faults > 0
  /\ ctl' = Destroyed(ctl)
  /\ gw' = Closed(gw)
  /\ budget' = [budget EXCEPT !.faults = @ - 1]
  /\ UNCHANGED <<launchAt, script, told>>

-----------------------------------------------------------------------------
(* The player *)


SpinAccepted(c, g) ==
  LET accepted == Reel([stopPostWinIdleRepeat(c) EXCEPT !.reelRound = g.pending], "SPIN_ACCEPTED")
      requested == Game([accepted EXCEPT !.freeTimer = 0], "SPIN_REQUESTED")
  IN refreshUi(Reel(requested, "REELS_STARTED"), g)

\* RgsGateway.requestSpin() refuses while the page is hidden.
Requestable(c) ==
  /\ ~c.timedOut /\ c.phase = "ready" /\ c.reel = "Idle" /\ gw.pending = NoRound
  /\ gw.conn = "connected" /\ gw.available /\ gw.committed < Len(script)

Requested == [gw EXCEPT !.pending = gw.committed + 1]

requestSpin ==
  /\ ctl.controls /\ Requestable(ctl)
  /\ gw' = Requested
  /\ ctl' = SpinAccepted(ctl, Requested)
  /\ UNCHANGED <<launchAt, script, told, budget>>

\* The timer checks again what it was set for.
FreeSpinTimer ==
  LET fired == [ctl EXCEPT !.freeTimer = 0]
      due == /\ ctl.free = ctl.freeTimer /\ ctl.connection = "online"
             /\ ctl.phase = "ready" /\ gw.pending = NoRound /\ ~ctl.destroyed
  IN /\ ctl.freeTimer # 0
     /\ IF due /\ Requestable(ctl)
        THEN gw' = Requested /\ ctl' = SpinAccepted(fired, Requested)
        ELSE gw' = gw /\ ctl' = fired
     /\ UNCHANGED <<launchAt, script, told, budget>>

PostWinIdleTimer ==
  /\ ctl.idle = "armed"
  /\ ctl' = [ctl EXCEPT !.idle = IF ctl.destroyed THEN "none" ELSE "active"]
  /\ UNCHANGED <<launchAt, gw, script, told, budget>>

-----------------------------------------------------------------------------
(* The presentation of a round: one task, resumed after each of its awaits *)

Shown == script[ctl.show.round]

\* The big-win assets belong to the task, which gives them back on every path.
Over(c) == [c EXCEPT !.show = NoShow, !.leases = @ \ {"big-win"}]

PresentationQueue ==
  /\ ctl.show = NoShow /\ ctl.queue # <<>>
  /\ ctl' = [ctl EXCEPT !.queue = Tail(@), !.show = [round |-> Head(ctl.queue), at |-> "before"]]
  /\ UNCHANGED <<launchAt, gw, script, told, budget>>

Proceeds_Hangs(at, next, c) ==
  /\ ctl.show.at = at /\ ~Ended(ctl)
  /\ ctl' = [c EXCEPT !.show.at = next]
  /\ UNCHANGED <<launchAt, gw, script, told, budget>>

\* assertRoundPresentationActive: the task of a finished controller is dropped.
Proceeds(at, next, c) ==
  /\ ctl.show.at = at
  /\ ctl' = IF Ended(ctl) THEN Over(ctl) ELSE [c EXCEPT !.show.at = next]
  /\ UNCHANGED <<launchAt, gw, script, told, budget>>

BeforeReels == Proceeds("before", "stopping", ctl)
FirstReelStops == Proceeds("stopping", "braking", Reel(ctl, "REEL_STOP_STARTED"))
AllReelsStopped == Proceeds("braking", "settled", Reel(ctl, "ALL_REELS_STOPPED"))

WinPresentationStarts ==
  LET shown == Reel(ctl, "WIN_PRESENTATION_STARTED")
  IN Proceeds("settled", IF Shown.big THEN "bigwin" ELSE "wins",
              [shown EXCEPT !.leases = IF Shown.big THEN @ \union {"big-win"} ELSE @])

BigWinOver == Proceeds("bigwin", "wins", [ctl EXCEPT !.leases = @ \ {"big-win"}])
WinsOver == Proceeds("wins", "features", Reel(ctl, "ROUND_COMPLETE"))
FeaturesOver == Proceeds("features", "summary", ctl)

\* An announcement is the one await after which nothing asks whether the
\* controller is still alive.
AnnouncedRegardless ==
  /\ Ended(ctl) /\ ctl.show.at = "features"
  /\ ctl' = [ctl EXCEPT !.show.at = "summary"]
  /\ UNCHANGED <<launchAt, gw, script, told, budget>>


applyResultAtBalanceBarrier(c) == [c EXCEPT !.barrier = FALSE, !.visible = c.balance]

Acknowledges(r) == gw.conn = "connected" /\ gw.pending = r /\ gw.delivered


releaseCompletedFeatureAssetLeases(c, r) ==
  [c EXCEPT !.leases = (@ \ IF script[r].wheel THEN {"wheel"} ELSE {})
                          \ IF Base(r) THEN {"free-spins"} ELSE {}]

schedulePostWinIdleRepeat(c, r) ==
  [c EXCEPT !.idle = IF Base(r - 1) /\ Base(r) /\ script[r].wins /\ ~script[r].wheel
                     THEN "armed" ELSE IF @ = "armed" THEN "none" ELSE @]

Completes(c, r) ==
  LET finished == Game(c, "PRESENTATION_COMPLETE")
      released == refreshUi(releaseCompletedFeatureAssetLeases(finished, r), gw)
  IN Over(schedulePostWinIdleRepeat(released, r))

BookOver(r) ==
  told' = [told EXCEPT !.disclosed = IF @ > r THEN @ ELSE r, !.over = @ \union {r}]

\* The balance barrier, and what follows it in the same turn.
BalanceBarrier ==
  LET r == ctl.show.round
      barrier == applyResultAtBalanceBarrier(ctl)
      featureEnded == ~Base(r - 1) /\ Base(r)
  IN /\ ctl.show.at = "summary"
     /\ \/ /\ ~Ended(ctl) /\ featureEnded
           /\ ctl' = [barrier EXCEPT !.show.at = "exit"]
           /\ told' = [told EXCEPT !.disclosed = r]
           /\ UNCHANGED gw
        \/ /\ ~Ended(ctl) /\ ~featureEnded
           /\ ctl' = Completes(barrier, r)
           /\ gw' = [gw EXCEPT !.asked = @ \/ Acknowledges(r)]
           /\ BookOver(r)
        \/ /\ Ended(ctl)
           /\ ctl' = IF ctl.timedOut \/ featureEnded THEN Over(barrier) ELSE Completes(barrier, r)
           /\ told' = [told EXCEPT !.disclosed = r]
           /\ UNCHANGED gw
        \/ Ended(ctl) /\ ctl' = Over(ctl) /\ UNCHANGED <<gw, told>>
     /\ UNCHANGED <<launchAt, script, budget>>

FeatureModeLeft ==
  LET r == ctl.show.round
  IN /\ ctl.show.at = "exit"
     /\ IF Ended(ctl) THEN ctl' = Over(ctl) /\ UNCHANGED <<gw, told>>
        ELSE /\ ctl' = Completes(ctl, r)
             /\ gw' = [gw EXCEPT !.asked = @ \/ Acknowledges(r)]
             /\ BookOver(r)
     /\ UNCHANGED <<launchAt, script, budget>>

\* Whatever step of it throws, the round ends settled on the screen.
PresentationFails ==
  LET r == ctl.show.round
      reset == ReelReset(applyResultAtBalanceBarrier(ctl))
      finished == IF reset.phase = "presenting" THEN Game(reset, "PRESENTATION_COMPLETE") ELSE reset
  IN /\ ctl.show # NoShow /\ ~Ended(ctl) /\ budget.faults > 0
     /\ ctl' = Over(refreshUi(releaseCompletedFeatureAssetLeases(finished, r), gw))
     /\ gw' = [gw EXCEPT !.asked = @ \/ Acknowledges(r)]
     /\ BookOver(r)
     /\ budget' = [budget EXCEPT !.faults = @ - 1]
     /\ UNCHANGED <<launchAt, script>>

Present ==
  \/ PresentationQueue \/ BeforeReels \/ FirstReelStops \/ AllReelsStopped
  \/ WinPresentationStarts \/ BigWinOver \/ WinsOver \/ FeaturesOver
  \/ BalanceBarrier \/ FeatureModeLeft

LaunchTask ==
  Preloaded \/ Painted \/ PreviewLeft \/ SessionAwaited \/ IntroOver

Next ==
  \/ LaunchTask \/ PreloadFails \/ continueFeaturePreview \/ InitialSessionTimeout
  \/ Connect \/ ConnectFails \/ Suspend \/ Resume \/ RefreshToken
  \/ Commit \/ Deliver \/ RejectRound \/ Acknowledged
  \/ OperatorRelaunch \/ SessionTimeout \/ showSessionTimeout \/ destroy
  \/ requestSpin \/ FreeSpinTimer \/ PostWinIdleTimer
  \/ Present \/ AnnouncedRegardless \/ PresentationFails

Spec == Init /\ [][Next]_vars

\* Promises settle, timers fire, the network answers, a hidden page comes
\* back; no click and no failure is due.
FairSpec ==
  /\ Spec
  /\ WF_vars(LaunchTask) /\ WF_vars(Present) /\ WF_vars(FreeSpinTimer)
  /\ WF_vars(Connect) /\ WF_vars(Resume) /\ WF_vars(Commit) /\ WF_vars(Acknowledged)
  /\ SF_vars(Deliver)

-----------------------------------------------------------------------------
(* Properties *)

\* No callback, timer or click meets a state machine in a state that refuses
\* its event: the errors of GameStateMachine and ReelRoundStateMachine are
\* never thrown into the gateway or out of the round's task.
NeverThrows == "threw" \notin {ctl.phase, ctl.reel, ctl.launch}

\* The balance on screen never includes a round whose presentation has not
\* reached the balance barrier, whatever session projections arrive meanwhile.
BalanceWaitsForReels == ctl.visible <= told.disclosed

\* A delivered round that is not yet handed over for acknowledgement is
\* always in some hand: buffered for the launch, queued, on screen, or refused.
NothingStranded ==
  (gw.delivered /\ ~gw.asked /\ ~Ended(ctl) /\ gw.conn = "connected"
     /\ ctl.launch # "failed")
    => \/ gw.pending \in {ctl.buffered, ctl.show.round} \union told.rejected
       \/ \E i \in DOMAIN ctl.queue : ctl.queue[i] = gw.pending

\* "requesting" always means a round that is still on its way to the
\* controller: a confirmed or presented round never turns back into a request,
\* which would lock the controls for good.
RequestingIsInFlight ==
  (ctl.phase = "requesting" /\ gw.conn = "connected" /\ ctl.launch # "failed" /\ ~Ended(ctl))
    => gw.pending # NoRound /\ (gw.delivered => ctl.buffered = gw.pending)

\* The server is asked to confirm a round only when its presentation is over
\* and the player has seen its balance.
AcknowledgedWhenSeen ==
  gw.asked => /\ gw.pending \in told.over /\ ~ctl.barrier
              /\ ctl.visible >= gw.pending \/ Ended(ctl)

\* One round at a time is presented, and the reels are its reels.
OneRoundOnScreen ==
  /\ Len(ctl.queue) + (IF ctl.show = NoShow THEN 0 ELSE 1) <= 1
  /\ (ctl.show.at \in {"before", "stopping", "braking", "settled", "bigwin", "wins"}
        /\ ~Ended(ctl)) => ctl.reelRound = ctl.show.round /\ ctl.phase = "presenting"

\* The spin button says what a spin would find: refreshUi() runs after every
\* change that could make it wrong.
ControlsNeverStale == ~ctl.destroyed => ctl.controls = CanSpin(ctl, gw)

\* Free spins go on by themselves: whenever one could be played, its timer is
\* running.
FreeSpinArmed ==
  (CanSpin(ctl, gw) /\ ctl.free > 0 /\ gw.available /\ ~Ended(ctl)) => ctl.freeTimer = ctl.free

\* Until the page is first hidden: FreeSpinArmed itself fails on a page that
\* hides while a round is on screen.
FreeSpinArmedInView == ~told.hidden => FreeSpinArmed

\* A streamed package is held only while a round or a feature needs it; a
\* finished controller holds none.
LeasesOwned ==
  /\ "big-win" \in ctl.leases => ctl.show.at = "bigwin"
  /\ "wheel" \in ctl.leases => ctl.show # NoShow \/ ctl.queue # <<>>
  /\ "free-spins" \in ctl.leases => ctl.free > 0 \/ ctl.show # NoShow \/ ctl.queue # <<>>
  /\ Ended(ctl) => ctl.leases \subseteq {"big-win"}

\* The loop over the last win's lines runs only between rounds.
IdleRepeatAlone ==
  (ctl.idle # "none" /\ ~Ended(ctl)) => ctl.reel = "Idle" /\ ctl.show = NoShow /\ ctl.queue = <<>>

\* When the session is lost for good, the operator has been asked for
\* another, exactly once; a timed-out player asks with a click.
OperatorAskedOnce ==
  /\ ctl.requests <= 1
  /\ (gw.conn = "closed" /\ ~ctl.destroyed /\ ~ctl.timedOut) => ctl.requests = 1

\* Nothing revives a controller that is destroyed or timed out: no control, no
\* round accepted, no spin requested, no request for a session after destroy.
EndIsFinal ==
  [][Ended(ctl) =>
       /\ Ended(ctl') /\ ~ctl'.controls
       /\ ctl'.lastRound = ctl.lastRound /\ ctl'.reel = "Idle"
       /\ gw'.pending \in {NoRound, gw.pending}
       /\ ctl.destroyed => ctl'.requests = ctl.requests]_vars

\* A presentation, once it began, ends.
PresentationEnds == (ctl.show # NoShow) ~> (ctl.show = NoShow)

\* Unless the session is lost, the free spins that were won are all played.
FreeSpinsPlayed ==
  (ctl.free > 0) ~> (ctl.free = 0 \/ Ended(ctl) \/ gw.conn = "closed" \/ ctl.launch = "failed"
                       \/ told.rejected # {} \/ told.hidden)

\* The three machines, the queue and the idle loop follow one round at a time,
\* whatever callbacks interrupt the long task that presents it.
OneRoundAtATime ==
  NeverThrows /\ OneRoundOnScreen /\ RequestingIsInFlight /\ IdleRepeatAlone

\* One round at a time, of states that have their types.
RoundsRight == TypeOK /\ OneRoundAtATime

\* A delivered result is shown, its balance not before its reels, and
\* confirmed only after that.
ResultsHonoured == NothingStranded /\ BalanceWaitsForReels /\ AcknowledgedWhenSeen

\* The player can always do what the game allows, and a lost session is
\* replaced once.
PlayerCanGoOn == ControlsNeverStale /\ FreeSpinArmedInView /\ OperatorAskedOnce /\ LeasesOwned

\* Every round that is presented comes to an end, and so do the free spins.
RoundsPlayedOut == PresentationEnds /\ FreeSpinsPlayed

-----------------------------------------------------------------------------
(* The scenarios TLC explores: one behaviour, one of them.                  *)

Lost == [wins |-> FALSE, big |-> FALSE, wheel |-> FALSE, free |-> 0]
Won == [Lost EXCEPT !.wins = TRUE]
BigWon == [Won EXCEPT !.big = TRUE]
Wheel == [Lost EXCEPT !.wheel = TRUE]
FreeSpins(n) == [Won EXCEPT !.free = n]

\* Ordinary rounds with a small and a big win, a wheel round, a feature of one
\* free spin, on a page that is hidden and meets failures.
Troubled ==
  [script : {<<Won, BigWon>>, <<Wheel, Won>>, <<FreeSpins(1), BigWon>>},
   toggles : {2}, faults : {2}, preview : {TRUE}]

\* A feature of two free spins, and one with a retrigger.
Features ==
  [script : {<<FreeSpins(2), FreeSpins(1), Won>>, <<FreeSpins(1), FreeSpins(1), BigWon>>},
   toggles : {0}, faults : {2}, preview : {FALSE}]

Everyday == Troubled \union Features

\* A feature of one free spin on a page that is hidden once.
HiddenOnce ==
  [script : {<<FreeSpins(1), BigWon>>}, toggles : {1}, faults : {0}, preview : {FALSE}]
=============================================================================
