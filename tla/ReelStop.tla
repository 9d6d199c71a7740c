------------------------------ MODULE ReelStop ------------------------------
(***************************************************************************)
(* The stop of the three reels (StopSequencer.ts, ReelSetView.ts,           *)
(* ReelView.ts).  The sequencer starts the brake of each reel from timers   *)
(* that count from the click, waits for every impact, then plays the ending *)
(* of the stop; each view runs its own animation from frames; the player    *)
(* may ask for a quick stop at any moment and the application may cancel.   *)
(*                                                                          *)
(* Time is in units chosen by the configuration.  A timer may fire up to    *)
(* Late units after its time, and timers fire in the order of their times.  *)
(* A continuation that a release makes ready (a microtask) runs before any  *)
(* timer, frame or click.                                                   *)
(***************************************************************************)
EXTENDS Integers, FiniteSets

CONSTANTS FirstBrake, FastFirstBrake, ReelGap, FastGap, BrakeTime, SlowBrake,
          Bounce, Transition, CopyLead, Outro,   \* durations
          Late, MaxSpins, \* bounds: how late a timer may fire, spins played
          Scenarios       \* what may happen in a behaviour

Reels == 0..2
Last == 2                       \* PRIMAL_ANTICIPATION_REEL, and the last reel
Never == FirstBrake + 3 * ReelGap + SlowBrake + Transition + Outro + 1
Off == Never                    \* a timer that is not set
Ready == -(Late + 1)            \* a wait that a release has finished
Timers == (-Late)..Never
Modes == {"NORMAL", "FAST", "SLOW"}
Special == {"SURGE", "WILD"}    \* the symbols the stop looks at

VARIABLES seq,      \* the sequencer
          task,     \* its asynchronous task of every reel
          post,     \* the ending of the stop
          view,     \* the three reel views
          loop,     \* the frame loops of stopAt, by the generation they serve
          idle,     \* the idle timer of the reel set and what governs it
          grid,     \* the special symbols of the result of every reel
          heard,    \* what the hooks have reported of this presentation
          alive,
          budget    \* of the scenario: spins, hooks that throw, lateness of
                    \* timers, whether the application may be torn down, and
                    \* the special symbols of the results, by reel

vars == <<seq, task, post, view, loop, idle, grid, heard, alive, budget>>

Gens == 0..(2 * MaxSpins + 1)
NoTask == [at |-> "none", left |-> Off, mode |-> "NORMAL"]
RestView == [gen |-> 0, spinning |-> FALSE, stopping |-> FALSE, mode |-> "NORMAL",
             committed |-> FALSE, requested |-> FALSE, reached |-> FALSE,
             quick |-> FALSE, motion |-> FALSE, symbols |-> TRUE]
Heard == [started |-> {}, impacts |-> {}, stopped |-> FALSE, slow |-> FALSE,
          ended |-> "none", early |-> FALSE]

TypeOK ==
  /\ seq \in [presenting : BOOLEAN, fast : BOOLEAN, ff : BOOLEAN, clock : 0..FirstBrake,
              spun : BOOLEAN, plan : BOOLEAN, tease : BOOLEAN, gen : Gens,
              mine : Gens, release : Timers]
  /\ task \in [Reels -> [at : {"none", "delay", "barrier", "brake", "struck", "quit"},
                         left : Timers \cup {Ready}, mode : Modes]]
  /\ post \in [at : {"none", "hide", "clear", "swap", "outro", "done"},
               left : Timers \cup {Ready}]
  /\ view \in [Reels -> [gen : Gens, spinning : BOOLEAN, stopping : BOOLEAN,
                         mode : Modes, committed : BOOLEAN, requested : BOOLEAN,
                         reached : BOOLEAN, quick : BOOLEAN, motion : BOOLEAN,
                         symbols : BOOLEAN]]
  /\ \A r \in Reels : \A l \in loop[r] : l \in [gen : Gens, left : 0..Never, bounce : BOOLEAN]
  /\ idle \in [active : BOOLEAN, spin : BOOLEAN, dormant : BOOLEAN, win : BOOLEAN,
               rows : BOOLEAN, rage : BOOLEAN]
  /\ grid \in [Reels -> SUBSET Special]
  /\ heard \in [started : SUBSET Reels, impacts : SUBSET Reels, stopped : BOOLEAN,
                slow : BOOLEAN, ended : {"none", "ok", "failed", "cancelled"}, early : BOOLEAN]
  /\ alive \in BOOLEAN
  /\ \E s \in Scenarios :
       /\ budget.spins \in 0..s.spins /\ budget.faults \in 0..s.faults
       /\ budget = [s EXCEPT !.spins = budget.spins, !.faults = budget.faults]

Init ==
  /\ seq = [presenting |-> FALSE, fast |-> FALSE, ff |-> FALSE, clock |-> 0,
            spun |-> FALSE, plan |-> FALSE, tease |-> FALSE, gen |-> 0, mine |-> 0,
            release |-> Off]
  /\ task = [r \in Reels |-> NoTask]
  /\ post = [at |-> "none", left |-> Off]
  /\ view = [r \in Reels |-> RestView]
  /\ loop = [r \in Reels |-> {}]
  /\ idle = [active |-> TRUE, spin |-> FALSE, dormant |-> FALSE, win |-> FALSE,
             rows |-> FALSE, rage |-> FALSE]
  /\ grid = [r \in Reels |-> {}]
  /\ heard = Heard
  /\ alive = TRUE /\ budget \in Scenarios

-----------------------------------------------------------------------------
(* Symbol idle animations run only while nothing else moves.                *)
primalSymbolIdleShouldRun(i) ==
  ~i.dormant /\ ~i.spin /\ ~i.win /\ ~i.rows /\ ~i.rage
syncSymbolIdleState(i) == [i EXCEPT !.active = primalSymbolIdleShouldRun(i)]

(* The plans of a stop.                                                     *)
createAnticipationTriggerPlan == "SURGE" \in grid[0] /\ "SURGE" \in grid[1]
createPostStopActivationPlan ==
  IF \E r \in Reels : "WILD" \in grid[r] THEN "wild-reveal"
  ELSE IF \A r \in Reels : "SURGE" \in grid[r] THEN "surge-feature-activation" ELSE "none"
createStopPlan(fast) ==
  [r \in Reels |-> IF fast THEN FastFirstBrake + r * FastGap ELSE FirstBrake + r * ReelGap]
reelStopMotionConfig(mode) ==
  IF mode = "SLOW" THEN [brake |-> SlowBrake, bounce |-> 0]
  ELSE [brake |-> BrakeTime, bounce |-> Bounce]

(* Waits.  A delay of a reel ends with its timer unless a quick stop has to *)
(* hold it until the floor; a release ends it at once.                       *)
quickStopFloorReached(s) == ~s.spun \/ s.clock >= FastFirstBrake
Waiting(left) == left \notin {Off, Ready}
Armed(ms) == IF ms = 0 THEN Ready ELSE ms
wait(s, ms) == IF s.ff /\ quickStopFloorReached(s) THEN Ready ELSE Armed(ms)

\* releasePendingDelays: of the delays only, or of every wait.
Released(t) == IF t.at \in {"delay", "brake"} THEN [t EXCEPT !.left = Ready] ELSE t
PostReleased == IF Waiting(post.left) THEN [post EXCEPT !.left = Ready] ELSE post
DelaysReleased == [r \in Reels |-> IF task[r].at = "delay" THEN Released(task[r]) ELSE task[r]]
AllReleased == [r \in Reels |-> Released(task[r])]

Microtasks == {r \in Reels : task[r].left = Ready}
Quiet == Microtasks = {} /\ post.left # Ready

\* A due timer none is due before.
Lefts == {task[r].left : r \in Reels} \cup {post.left, seq.release}
Due(left) == Waiting(left) /\ left <= 0 /\ \A other \in Lefts : Waiting(other) => left <= other

-----------------------------------------------------------------------------
(* The views.                                                               *)
resetAfterStop(v) ==
  [RestView EXCEPT !.gen = v.gen, !.committed = v.committed]

\* commitRequestedStopImpact: as soon as the strip has reached its target.
commitRequestedStopImpact(v) ==
  IF v.requested /\ ~v.committed /\ (v.spinning => v.reached)
  THEN [v EXCEPT !.committed = TRUE, !.requested = FALSE, !.motion = FALSE, !.symbols = TRUE]
  ELSE v
commitStopImpact(v) ==
  IF v.committed THEN v ELSE commitRequestedStopImpact([v EXCEPT !.requested = TRUE])

SpinningView(v) ==
  [RestView EXCEPT !.gen = v.gen + 1, !.spinning = TRUE, !.motion = TRUE, !.symbols = FALSE]
cancelSpin(v) == resetAfterStop([v EXCEPT !.gen = @ + 1])

\* stopAt before its first frame.
StopAtStarts(v, mode) ==
  [v EXCEPT !.mode = mode, !.committed = FALSE, !.requested = FALSE, !.reached = FALSE,
            !.quick = FALSE, !.stopping = TRUE, !.motion = TRUE, !.symbols = FALSE]
NewLoop(v, mode) == [gen |-> v.gen, left |-> reelStopMotionConfig(mode).brake, bounce |-> FALSE]

-----------------------------------------------------------------------------
(* The player and the application.                                          *)
\* The click: stops.markSpinStart(), then the views begin to spin.
beginSpin == syncSymbolIdleState([idle EXCEPT !.rage = FALSE, !.spin = TRUE, !.win = FALSE])

markSpinStart ==
  /\ Quiet /\ alive /\ ~seq.presenting /\ ~seq.spun /\ budget.spins > 0
  /\ ~idle.rows
  /\ seq' = [seq EXCEPT !.spun = TRUE, !.clock = 0, !.ff = FALSE, !.release = Off]
  /\ idle' = beginSpin
  /\ view' = [r \in Reels |-> SpinningView(view[r])]
  /\ budget' = [budget EXCEPT !.spins = @ - 1] /\ heard' = Heard
  /\ task' = [r \in Reels |-> NoTask] /\ post' = [at |-> "none", left |-> Off]
  /\ UNCHANGED <<loop, grid, alive>>

\* The result has arrived.
presentWaits(s, fast) ==
  LET plan == createStopPlan(fast)
      lag == IF plan[0] > s.clock THEN plan[0] - s.clock ELSE 0
  IN [r \in Reels |-> [NoTask EXCEPT !.at = "delay", !.left = wait(s, lag + plan[r] - plan[0])]]

present ==
  /\ Quiet /\ alive /\ ~seq.presenting /\ seq.spun /\ heard.ended = "none"
  /\ \E g \in budget.results, fast \in BOOLEAN :
       /\ grid' = g
       /\ seq' = [seq EXCEPT !.presenting = TRUE, !.fast = fast,
                     !.plan = ~fast /\ ~seq.ff /\ createAnticipationTriggerPlan',
                     !.tease = FALSE, !.gen = @ + 1, !.mine = seq.gen + 1]
       /\ task' = presentWaits(seq, fast)
  /\ UNCHANGED <<post, view, loop, idle, heard, alive, budget>>

\* requestFastForward: the waiting reels start at the floor, a slow one ends.
scheduleQuickStopRelease(s) ==
  IF s.ff THEN s ELSE [s EXCEPT !.ff = TRUE,
                 !.release = IF s.clock < FastFirstBrake THEN FastFirstBrake - s.clock ELSE Off]
activeSlowImpactRelease == task[Last].at = "brake" /\ task[Last].mode = "SLOW"

requestFastForward ==
  /\ Quiet /\ alive /\ seq.spun
  /\ ~seq.ff \/ activeSlowImpactRelease
  /\ LET slow == activeSlowImpactRelease
         delays == IF seq.ff \/ seq.clock < FastFirstBrake THEN task ELSE DelaysReleased
     IN /\ seq' = [scheduleQuickStopRelease(seq) EXCEPT !.tease = @ /\ ~slow]
        /\ task' = IF slow THEN [delays EXCEPT ![Last].left = Ready] ELSE delays
        /\ view' = [view EXCEPT ![Last].quick =
                      @ \/ (slow /\ view[Last].stopping /\ view[Last].mode = "SLOW")]
  /\ UNCHANGED <<post, loop, idle, grid, heard, alive, budget>>

\* ReelSetView.cancelPresentation.
cancelPresentation ==
  /\ view' = [r \in Reels |-> cancelSpin(view[r])]
  /\ idle' = syncSymbolIdleState([idle EXCEPT !.spin = FALSE, !.rage = FALSE])

cancel ==
  /\ Quiet /\ alive /\ budget.mayCancel
  /\ alive' = FALSE
  /\ IF seq.presenting
     THEN /\ seq' = [seq EXCEPT !.release = Off, !.spun = FALSE, !.gen = @ + 1, !.tease = FALSE]
          /\ task' = AllReleased /\ post' = PostReleased
          /\ cancelPresentation
     ELSE /\ seq' = [seq EXCEPT !.release = Off, !.spun = FALSE, !.ff = FALSE]
          /\ UNCHANGED <<task, post, view, idle>>
  /\ UNCHANGED <<loop, grid, heard, budget>>

-----------------------------------------------------------------------------
(* Timers.                                                                  *)
\* The time a stop animation has left, at least none.
Drawn(l) == [l EXCEPT !.left = IF @ > 0 THEN @ - 1 ELSE 0]

Tick ==
  /\ Quiet
  /\ \A left \in Lefts : Waiting(left) => left > -budget.late
  /\ \/ \E left \in Lefts : Waiting(left)
     \/ seq.spun /\ seq.clock < FirstBrake
     \/ \E r \in Reels : \E l \in loop[r] : l.left > 0
  /\ LET Down(left) == IF Waiting(left) THEN left - 1 ELSE left
     IN /\ task' = [r \in Reels |-> [task[r] EXCEPT !.left = Down(@)]]
        /\ post' = [post EXCEPT !.left = Down(@)]
        /\ seq' = [seq EXCEPT !.release = Down(@),
                      !.clock = IF @ < FirstBrake THEN @ + 1 ELSE @]
        /\ loop' = [r \in Reels |-> {Drawn(l) : l \in loop[r]}]
  /\ UNCHANGED <<view, idle, grid, heard, alive, budget>>

\* A delay whose time has come is held for the quick-stop floor.
DelayEnds(s) == IF s.ff /\ ~quickStopFloorReached(s) THEN Off ELSE Ready

TaskTimer(r) ==
  /\ Quiet /\ Due(task[r].left)
  /\ \A q \in Reels : q < r => task[q].left # task[r].left
  /\ task' = [task EXCEPT ![r].left = IF task[r].at = "delay" THEN DelayEnds(seq) ELSE Ready]
  /\ UNCHANGED <<seq, post, view, loop, idle, grid, heard, alive, budget>>

PostTimer ==
  /\ Quiet /\ Due(post.left)
  /\ post' = [post EXCEPT !.left = Ready]
  /\ UNCHANGED <<seq, task, view, loop, idle, grid, heard, alive, budget>>

quickStopReleaseTimer ==
  /\ Quiet /\ Due(seq.release)
  /\ seq' = [seq EXCEPT !.release = Off]
  /\ task' = DelaysReleased
  /\ UNCHANGED <<post, view, loop, idle, grid, heard, alive, budget>>

-----------------------------------------------------------------------------
(* The asynchronous task of a reel.                                         *)
Stale_Never == FALSE
Stale == seq.gen # seq.mine
Next1(r) == task[r].left = Ready /\ \A q \in Reels : q < r => task[q].left # Ready

\* The finally block of present().
Finally(s) == [s EXCEPT !.tease = FALSE, !.release = Off, !.ff = FALSE,
                        !.presenting = FALSE, !.spun = FALSE, !.plan = FALSE]

\* A hook throws: the catch block, then the finally block.
Throws(r) ==
  /\ budget.faults > 0 /\ budget' = [budget EXCEPT !.faults = @ - 1]
  /\ seq' = Finally([seq EXCEPT !.gen = @ + 1])
  /\ task' = [AllReleased EXCEPT ![r] = [task[r] EXCEPT !.at = "quit", !.left = Off]]
  /\ post' = PostReleased
  /\ cancelPresentation

Quits(r) ==
  /\ task' = [task EXCEPT ![r].at = "quit", ![r].left = Off]
  /\ UNCHANGED <<seq, post, view, loop, idle, heard, budget>>

StopMode(r) == IF seq.fast \/ seq.ff THEN "FAST" ELSE IF r = Last /\ seq.plan THEN "SLOW" ELSE "NORMAL"

StartBrake(r) ==
  LET mode == StopMode(r)
      started == [heard EXCEPT !.started = @ \cup {r},
                               !.early = @ \/ (seq.spun /\ seq.clock < FastFirstBrake),
                               !.slow = @ \/ (mode = "SLOW" /\ ~seq.tease)]
  IN \/ /\ task' = [task EXCEPT ![r] = [at |-> "brake", mode |-> mode,
                                         left |-> Armed(reelStopMotionConfig(mode).brake)]]
        /\ view' = [view EXCEPT ![r] = StopAtStarts(@, mode)]
        /\ loop' = [loop EXCEPT ![r] = @ \cup {NewLoop(view[r], mode)}]
        /\ heard' = started
        /\ UNCHANGED <<seq, post, idle, budget>>
     \/ /\ heard' = [started EXCEPT !.ended = "failed"]
        /\ Throws(r) /\ UNCHANGED loop

ReelDelayOver(r) ==
  /\ Next1(r) /\ task[r].at = "delay"
  /\ IF Stale THEN Quits(r)
     ELSE IF r = Last /\ seq.plan /\ task[r - 1].at # "struck"
     THEN /\ task' = [task EXCEPT ![r].at = "barrier", ![r].left = Off]
          /\ UNCHANGED <<seq, post, view, loop, idle, heard, budget>>
     ELSE StartBrake(r)
  /\ UNCHANGED <<grid, alive>>

BarrierOver(r) ==
  /\ Next1(r) /\ task[r].at = "barrier"
  /\ IF Stale THEN Quits(r) ELSE StartBrake(r)
  /\ UNCHANGED <<grid, alive>>

\* presentPostStopActivation up to its first wait.
presentPostStopActivation ==
  IF createPostStopActivationPlan = "none"
  THEN IF seq.plan /\ ~seq.ff THEN [at |-> "hide", left |-> Armed(Transition - CopyLead)]
       ELSE [at |-> "done", left |-> Off]
  ELSE IF seq.plan THEN [at |-> "swap", left |-> Armed(Transition)]
  ELSE [at |-> "outro", left |-> Armed(Outro)]

\* ReelSetView.commitReelImpact.
commitReelImpact(r) ==
  /\ view' = [view EXCEPT ![r] = commitStopImpact(@)]
  /\ idle' = IF r = Last THEN syncSymbolIdleState([idle EXCEPT !.spin = FALSE]) ELSE idle

\* The third impact ends the input window and starts the ending.
Teased(r) ==
  IF seq.plan /\ r = Last THEN FALSE
  ELSE seq.tease \/ (r = Last - 1 /\ task[r].mode = "NORMAL" /\ ~seq.ff /\ seq.plan)
Struck_KeepsBarrier(r) == [task EXCEPT ![r].at = "struck", ![r].left = Off]
Struck(r) ==
  LET struck == [task EXCEPT ![r].at = "struck", ![r].left = Off]
  IN IF r + 1 \in Reels /\ task[r + 1].at = "barrier"
     THEN [struck EXCEPT ![r + 1].left = Ready] ELSE struck

Impact(r) ==
  /\ Next1(r) /\ task[r].at = "brake"
  /\ IF Stale THEN Quits(r)
     ELSE LET all == heard.impacts \cup {r} = Reels /\ ~heard.stopped
          IN \/ /\ commitReelImpact(r)
                /\ heard' = [heard EXCEPT !.impacts = @ \cup {r}, !.stopped = @ \/ all]
                /\ seq' = [seq EXCEPT !.tease = Teased(r),
                              !.release = IF all THEN Off ELSE @,
                              !.spun = @ /\ ~all]
                /\ task' = Struck(r)
                /\ post' = IF all THEN presentPostStopActivation ELSE post
                /\ UNCHANGED <<loop, budget>>
             \/ /\ all
                /\ heard' = [heard EXCEPT !.impacts = @ \cup {r}, !.ended = "failed"]
                /\ Throws(r) /\ UNCHANGED loop
  /\ UNCHANGED <<grid, alive>>

EndingGoesOn ==
  /\ post.left = Ready /\ Microtasks = {}
  /\ post' = IF Stale THEN [at |-> "done", left |-> Off]
             ELSE CASE post.at = "hide" -> [at |-> "clear", left |-> Armed(CopyLead)]
                    [] post.at = "swap" -> [at |-> "outro", left |-> Armed(Outro)]
                    [] OTHER -> [at |-> "done", left |-> Off]
  /\ UNCHANGED <<seq, task, view, loop, idle, grid, heard, alive, budget>>

\* Every task and the ending are over: present() settles.
AllSettled == \A r \in Reels : task[r].at \in {"quit", "struck"} /\ loop[r] = {}

PresentSettles ==
  /\ Quiet /\ seq.presenting
  /\ AllSettled
  /\ post.at \in {"none", "done"}
  /\ seq' = Finally(seq)
  /\ heard' = [heard EXCEPT !.ended = IF Stale THEN "cancelled" ELSE "ok"]
  /\ UNCHANGED <<task, post, view, loop, idle, grid, alive, budget>>

-----------------------------------------------------------------------------
(* A frame of the stop animation of a reel that changes something.          *)
LoopGoesOn(r, l) ==
  LET v == view[r]
      reached == commitRequestedStopImpact([v EXCEPT !.reached = TRUE, !.quick = FALSE])
      others == loop[r] \ {l}
  IN \/ /\ v.mode = "SLOW" /\ v.quick /\ ~l.bounce
        /\ view' = [view EXCEPT ![r] = reached]
        /\ loop' = [loop EXCEPT ![r] = others \cup {[l EXCEPT !.bounce = TRUE, !.left = Bounce]}]
     \/ /\ ~v.quick /\ l.left = 0 /\ ~l.bounce /\ v.mode # "SLOW"
        /\ view' = [view EXCEPT ![r] = reached]
        /\ loop' = [loop EXCEPT ![r] = others \cup {[l EXCEPT !.bounce = TRUE, !.left = Bounce]}]
     \/ /\ l.left = 0 /\ (l.bounce \/ (v.mode = "SLOW" /\ ~v.quick))
        /\ view' = [view EXCEPT ![r] = resetAfterStop(reached)]
        /\ loop' = [loop EXCEPT ![r] = others]

stopAt_AnyGeneration(r, l) == LoopGoesOn(r, l)
stopAt(r, l) ==
  IF l.gen # view[r].gen
  THEN loop' = [loop EXCEPT ![r] = @ \ {l}] /\ UNCHANGED view
  ELSE LoopGoesOn(r, l)

Frame(r) ==
  /\ Quiet
  /\ \E l \in loop[r] : stopAt(r, l)
  /\ UNCHANGED <<seq, task, post, idle, grid, heard, alive, budget>>

-----------------------------------------------------------------------------
(* What the round shows after its reels have stopped.                       *)
Shows(flag, on) ==
  /\ Quiet /\ alive /\ heard.ended = "ok" /\ ~seq.presenting /\ ~seq.spun
  /\ idle[flag] # on
  /\ idle' = syncSymbolIdleState([idle EXCEPT ![flag] = on])
  /\ UNCHANGED <<seq, task, post, view, loop, grid, heard, alive, budget>>
WinPresentation == \E on \in BOOLEAN : Shows("win", on)
RageCascade == \E on \in BOOLEAN : Shows("rage", on)
setRowsTransition == \E on \in BOOLEAN : Shows("rows", on)

\* A round that failed shows its result at once.
setGrid ==
  /\ Quiet /\ alive /\ heard.ended = "failed" /\ ~seq.presenting /\ ~seq.spun
  /\ idle' = syncSymbolIdleState([idle EXCEPT !.spin = FALSE, !.win = FALSE, !.rows = FALSE,
                                              !.dormant = FALSE])
  /\ UNCHANGED <<seq, task, post, view, loop, grid, heard, alive, budget>>

Next ==
  \/ markSpinStart \/ present \/ requestFastForward \/ cancel
  \/ Tick \/ PostTimer \/ quickStopReleaseTimer \/ EndingGoesOn \/ PresentSettles
  \/ \E r \in Reels : TaskTimer(r) \/ ReelDelayOver(r) \/ BarrierOver(r) \/ Impact(r) \/ Frame(r)
  \/ WinPresentation \/ RageCascade \/ setRowsTransition \/ setGrid

Spec == Init /\ [][Next]_vars

\* Timers fire, frames are drawn and the answer of a spin arrives.
Progress ==
  \/ Tick \/ PostTimer \/ quickStopReleaseTimer \/ EndingGoesOn \/ PresentSettles
  \/ \E r \in Reels : TaskTimer(r) \/ ReelDelayOver(r) \/ BarrierOver(r) \/ Impact(r) \/ Frame(r)

FairSpec == Spec /\ WF_vars(Progress)

-----------------------------------------------------------------------------
(* A reel never shows its moving strip and its settled symbols together,    *)
(* and never neither (ReelView's motionLayer and symbols).                  *)
OneLayer == \A r \in Reels : view[r].motion # view[r].symbols

(* A view that brakes has the frame loop of its own generation, and no loop *)
(* of an older one ever ends a newer spin.                                  *)
LoopOfItsOwn == \A r \in Reels : view[r].stopping <=> \E l \in loop[r] : l.gen = view[r].gen

(* No reel brakes within the quick-stop floor of the click, however early   *)
(* the player asks and however late the timers fire.                        *)
QuickStopFloor == ~heard.early

(* The third reel is slow only while the suspense is shown, the suspense    *)
(* ends with its impact, and it never outlives the presentation.            *)
SuspenseClosed ==
  /\ ~heard.slow
  /\ seq.tease => seq.presenting /\ seq.plan /\ Last \notin heard.impacts

(* The reels strike from left to right: the impact of the last one stands   *)
(* for the end of the spin (ReelSetView.commitReelImpact).                  *)
LeftToRight == \A r \in heard.impacts : \A q \in Reels : q < r => q \in heard.impacts

(* Until all reels have struck no idle animation is timed.                  *)
NoIdleInSpin == seq.spun => ~idle.active

(* A presentation that resolves has shown every impact and left every reel  *)
(* at rest on its settled symbols.                                          *)
ResolvedMeansSettled ==
  heard.ended = "ok" =>
    /\ heard.stopped /\ heard.impacts = Reels
    /\ \A r \in Reels : ~view[r].spinning /\ view[r].symbols /\ view[r].committed

(* After a failed or cancelled presentation no reel of it starts, strikes   *)
(* or reports.                                                              *)
SilentAfterEnd ==
  [][ (heard.ended # "none" \/ ~alive) /\ heard' # Heard =>
        heard'.started = heard.started /\ heard'.impacts = heard.impacts ]_vars

(* Every presentation settles while the application lives.                  *)
PresentationSettles == seq.presenting /\ alive ~> ~seq.presenting \/ ~alive
=============================================================================
