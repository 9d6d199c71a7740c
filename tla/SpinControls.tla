---------------------------- MODULE SpinControls ----------------------------
(***************************************************************************)
(* DomOverlay.ts: the spin control, autoplay and the panels of the page,   *)
(* driven by the player and by AppController.  Autoplay is a run of paid   *)
(* spins the overlay requests by itself: a timer presses the control when  *)
(* the game is ready, and presses it through the prompts of a feature;     *)
(* a spin is taken from the run when the gateway accepts it and given back *)
(* when its result is refused; the player, a panel, a stop boundary of the *)
(* round or the end of the session holds it back or ends it.               *)
(* A call made inside a call (closing the other panels, queueing the next  *)
(* press) happens where the code makes it, so the order of them counts.    *)
(***************************************************************************)
EXTENDS Integers

CONSTANTS
  Counts,      \* spins a run may be chosen to have
  Boundaries,  \* that may stop a run: "any-win", "bonus"
  Rounds       \* rounds started, at most

VARIABLE s

Panels == {"bet", "auto", "menu"}
Prompts == {"continue", "wheel"}              \* answered by autoplay too
FeatureModes == Prompts \cup {"popup", "turn"}
Modes == {"ready", "waiting", "stop"} \cup FeatureModes
None == [kind |-> "none"]

TypeOK ==
  /\ s.mode \in Modes /\ s.open \subseteq Panels
  /\ {s.canSpin, s.canBet, s.eligible, s.hud, s.preview, s.timedOut, s.inert, s.active,
      s.stopped, s.lost, s.gone} \subseteq BOOLEAN
  /\ s.remaining \in Nat /\ s.chosen \in Counts \cup {0} /\ s.spent \in Nat
  /\ s.pending = None \/ s.pending.remaining \in Nat \ {0}
  /\ s.timer \in {"none", "paid"} \cup Prompts
  /\ s.settings \subseteq Boundaries /\ s.hits \subseteq Boundaries
  /\ s.armed = None \/ s.armed.settings \subseteq Boundaries
  /\ s.round \in {"idle", "sent", "shown", "failed"} /\ s.free \in 0..1
  /\ s.rounds \in 0..Rounds

Init ==
  \E settings \in SUBSET Boundaries :
    s = [mode |-> "waiting", canSpin |-> FALSE, canBet |-> FALSE, eligible |-> FALSE,
         open |-> {}, hud |-> FALSE, preview |-> FALSE,
         timedOut |-> FALSE, inert |-> TRUE, active |-> FALSE, remaining |-> 0,
         pending |-> None, timer |-> "none", settings |-> settings, armed |-> None,
         hits |-> {}, round |-> "idle", free |-> 0, rounds |-> 0, chosen |-> 0,
         spent |-> 0, stopped |-> FALSE, lost |-> FALSE, gone |-> FALSE]

-----------------------------------------------------------------------------
(* Panels.  activeDialog: what covers the page.                            *)
anyControlPanelOpen(t) == t.timedOut \/ t.open # {}
activeDialog(t) == t.timedOut \/ t.preview \/ t.open # {}
syncModalBackgroundInert(t) == [t EXCEPT !.inert = ~t.hud \/ activeDialog(t)]
clearAutoplayTimer(t) == [t EXCEPT !.timer = "none"]

queueAutoplaySpin(t) ==
  IF ~t.active \/ t.timer # "none" \/ anyControlPanelOpen(t) THEN t
  ELSE IF t.mode \in Prompts THEN [t EXCEPT !.timer = t.mode, !.lost = FALSE]
  ELSE IF t.eligible /\ t.canSpin /\ t.mode = "ready" THEN [t EXCEPT !.timer = "paid", !.lost = FALSE]
  ELSE t

Close(t, panel) ==
  queueAutoplaySpin(syncModalBackgroundInert([t EXCEPT !.open = @ \ {panel}]))
Open(t, panel) ==
  LET others == Panels \ {panel}
      a == CHOOSE p \in others : TRUE
      b == CHOOSE p \in others : p # a
      u == clearAutoplayTimer(Close(Close(t, a), b))
  IN  syncModalBackgroundInert([u EXCEPT !.open = @ \cup {panel}])
setBetPopupOpen(t, open) == IF open /\ t.canBet THEN Open(t, "bet") ELSE Close(t, "bet")

stopAutoplay(t) ==
  LET u == [clearAutoplayTimer(t) EXCEPT !.pending = None, !.active = FALSE, !.remaining = 0,
              !.stopped = t.active \/ t.pending # None \/ @]
  IN  IF "auto" \in u.open THEN Close(u, "auto") ELSE u

-----------------------------------------------------------------------------
(* What AppController tells the overlay.                                   *)
setSpinMode(t, mode) == queueAutoplaySpin([t EXCEPT !.mode = mode])
setAutoplayPaidSpinEligible(t, eligible) ==
  IF t.eligible = eligible THEN t
  ELSE LET u == [t EXCEPT !.eligible = eligible]
       IN  queueAutoplaySpin(IF ~eligible /\ u.mode = "ready" THEN clearAutoplayTimer(u) ELSE u)
setControls(t, canSpin, canBet) ==
  LET u == [t EXCEPT !.canSpin = canSpin /\ ~t.timedOut, !.canBet = canBet /\ ~t.timedOut]
  IN  queueAutoplaySpin(IF u.canBet THEN u ELSE Close(u, "bet"))
refreshUi(t, can) ==
  LET u == setControls(setAutoplayPaidSpinEligible(t, t.free = 0), can, can /\ t.free = 0)
  IN  IF t.round = "shown" THEN u ELSE setSpinMode(u, IF can THEN "ready" ELSE "waiting")

commitAcceptedPaidAutoplaySpin(t) ==
  IF t.pending # None \/ ~t.active \/ t.remaining = 0 THEN t
  ELSE [t EXCEPT !.pending = [remaining |-> t.remaining], !.remaining = @ - 1,
                 !.active = t.remaining > 1]
rollbackAcceptedPaidAutoplaySpin_Drops(t) == [t EXCEPT !.pending = None]
rollbackAcceptedPaidAutoplaySpin(t) ==
  IF t.pending = None THEN t
  ELSE [t EXCEPT !.pending = None, !.active = TRUE, !.remaining = t.pending.remaining]
finalizeAcceptedPaidAutoplaySpin(t) ==
  [t EXCEPT !.pending = None, !.spent = IF t.pending = None THEN @ ELSE @ + 1]

armAutoplayStopRound(t, win) ==
  [t EXCEPT !.armed = [win |-> win, settings |-> t.settings, reached |-> {}, stop |-> FALSE],
            !.hits = {}]
reachAutoplayStopBoundary(t, boundary) ==
  IF \/ t.armed = None \/ (boundary = "any-win" /\ ~t.armed.win)
     \/ boundary \in t.armed.reached
  THEN t
  ELSE LET u == [t EXCEPT !.armed.reached = @ \cup {boundary}]
       IN  IF t.armed.stop \/ boundary \notin t.armed.settings THEN u
           ELSE LET v == [u EXCEPT !.armed.stop = TRUE]
                IN  IF v.active THEN stopAutoplay(v) ELSE v
\* An any-win nothing reported is looked at when the round completes.
completeAutoplayStopRound(t) ==
  LET u == IF t.armed # None /\ t.armed.win
           THEN reachAutoplayStopBoundary([t EXCEPT !.hits = @ \cup {"any-win"}], "any-win")
           ELSE t
  IN  [u EXCEPT !.armed = None]

-----------------------------------------------------------------------------
(* A press of the control: a prompt is answered or a spin requested.       *)
requestSpin(t) ==
  IF t.mode \in {"continue", "popup"} THEN setSpinMode(t, "waiting")
  ELSE IF t.mode = "wheel" THEN setSpinMode(t, "turn")
  ELSE IF t.canSpin /\ t.round = "idle" /\ t.rounds < Rounds
       THEN LET u == IF t.free = 0 THEN commitAcceptedPaidAutoplaySpin(t) ELSE t
            IN  refreshUi(setSpinMode([u EXCEPT !.round = "sent", !.rounds = @ + 1],
                                      "waiting"), FALSE)
       ELSE t
\* The control's own action of a mode; those of a stop only hurry the show.
Presses(t) == t.mode \in {"continue", "wheel", "popup"} \/ (t.mode = "ready" /\ t.canSpin)

Alive == ~s.gone
handlePrimarySpinAction ==
  /\ Alive /\ ~s.inert
  /\ s' = IF s.active /\ s.mode \in FeatureModes
          THEN LET t == clearAutoplayTimer(s) IN IF Presses(t) THEN requestSpin(t) ELSE t
          ELSE IF s.active THEN stopAutoplay(s)
          ELSE IF Presses(s) THEN requestSpin(s) ELSE s
SpaceKey ==
  /\ Alive /\ ~anyControlPanelOpen(s) /\ ~s.preview /\ s.canSpin /\ s.mode = "ready"
  /\ s' = requestSpin(s)
OpenPanel(panel) ==
  /\ Alive /\ ~s.inert
  /\ s' = IF panel = "bet" THEN setBetPopupOpen(s, TRUE) ELSE Open(s, panel)
ClosePanel(panel) ==
  /\ Alive /\ panel \in s.open /\ ~s.timedOut
  /\ s' = Close(s, panel)
startAutoplay(count) ==
  /\ Alive /\ "auto" \in s.open /\ ~s.active /\ s.canSpin /\ s.mode = "ready"
  /\ s' = queueAutoplaySpin(Close([s EXCEPT !.pending = None, !.active = TRUE,
            !.remaining = count, !.chosen = count, !.spent = 0, !.stopped = FALSE,
            !.lost = FALSE], "auto"))
StopAutoplay ==
  /\ Alive /\ "auto" \in s.open /\ s.active
  /\ s' = stopAutoplay(s)
setAutoplayStopSettings(boundary) ==
  /\ Alive /\ "auto" \in s.open /\ ~s.active
  /\ s' = [s EXCEPT !.settings = IF boundary \in @ THEN @ \ {boundary} ELSE @ \cup {boundary}]

\* The timer looks at everything again; a prompt that went away under it
\* leaves autoplay without a timer.
TimerFires ==
  /\ Alive /\ s.timer # "none"
  /\ LET t == clearAutoplayTimer(s) IN
     s' = IF s.timer = "paid"
          THEN IF /\ t.active /\ t.eligible /\ t.canSpin /\ t.mode = "ready"
                  /\ ~anyControlPanelOpen(t)
               THEN requestSpin(t) ELSE t
          ELSE IF t.active /\ t.mode = s.timer /\ ~anyControlPanelOpen(t) THEN requestSpin(t)
          ELSE [t EXCEPT !.lost = t.active /\ t.mode # s.timer]

-----------------------------------------------------------------------------
(* The round, as AppController runs it.                                    *)
setLaunchPhase(accessible) ==
  /\ Alive /\ s.round = "idle" /\ ~s.timedOut
  /\ s.hud # accessible
  /\ LET t == [s EXCEPT !.hud = accessible]
         u == IF accessible THEN t
              ELSE stopAutoplay(Close(Close(Close(t, "bet"), "auto"), "menu"))
     IN  s' = refreshUi(syncModalBackgroundInert(u), accessible)
setFeaturePreviewVisible ==
  /\ Alive /\ ~s.timedOut
  /\ s.preview \/ ~s.hud
  /\ s' = syncModalBackgroundInert([s EXCEPT !.preview = ~@])
StatusChanges(online) ==
  /\ Alive /\ s.hud /\ s.round \in {"idle", "failed"} /\ s.canSpin # online
  /\ s' = refreshUi([s EXCEPT !.round = "idle"], online)
freeSpinTimer ==
  /\ Alive /\ s.free > 0 /\ s.canSpin /\ s.round = "idle" /\ s.rounds < Rounds
  /\ s' = requestSpin(s)
ResultAccepted(win, free) ==
  /\ Alive /\ s.round = "sent"
  /\ LET t == armAutoplayStopRound(finalizeAcceptedPaidAutoplaySpin(s), win)
     IN  s' = refreshUi([t EXCEPT !.round = "shown", !.free = free], FALSE)
rejectSpinResult ==
  /\ Alive /\ s.round = "sent"
  /\ s' = refreshUi([rollbackAcceptedPaidAutoplaySpin(s) EXCEPT !.round = "failed"], FALSE)
Boundary(boundary) ==
  /\ Alive /\ s.round = "shown" /\ s.armed # None /\ (boundary = "any-win" => s.armed.win)
  /\ s' = reachAutoplayStopBoundary([s EXCEPT !.hits = @ \cup {boundary}], boundary)
ModeOfTheShow(mode) ==
  /\ Alive /\ s.round = "shown" /\ s.mode # mode
  /\ mode \in Prompts => s.mode \notin Prompts
  /\ s' = setSpinMode(s, mode)
RoundOver ==
  /\ Alive /\ s.round = "shown" /\ s.mode \notin Prompts
  /\ s' = refreshUi([completeAutoplayStopRound(s) EXCEPT !.round = "idle"], s.hud)

showSessionTimeout ==
  /\ Alive /\ ~s.timedOut
  /\ LET t == setControls(rollbackAcceptedPaidAutoplaySpin(s), FALSE, FALSE)
         u == stopAutoplay([t EXCEPT !.timedOut = TRUE, !.round = "failed"])
         v == Close(Close(Close(u, "bet"), "auto"), "menu")
     IN  s' = syncModalBackgroundInert([v EXCEPT !.preview = FALSE])
destroy ==
  /\ Alive
  /\ s' = [clearAutoplayTimer(s) EXCEPT !.gone = TRUE]

Next ==
  \/ handlePrimarySpinAction \/ SpaceKey \/ StopAutoplay \/ TimerFires
  \/ \E panel \in Panels : OpenPanel(panel) \/ ClosePanel(panel)
  \/ \E count \in Counts : startAutoplay(count)
  \/ \E boundary \in Boundaries : setAutoplayStopSettings(boundary) \/ Boundary(boundary)
  \/ \E yes \in BOOLEAN : setLaunchPhase(yes) \/ StatusChanges(yes)
  \/ setFeaturePreviewVisible \/ freeSpinTimer
  \/ \E win \in BOOLEAN, free \in 0..1 : ResultAccepted(win, free)
  \/ rejectSpinResult \/ \E mode \in Modes \ {"ready"} : ModeOfTheShow(mode)
  \/ RoundOver \/ showSessionTimeout \/ destroy

Spec == Init /\ [][Next]_s

-----------------------------------------------------------------------------
(* A run spends exactly what the player chose: what it has left, the spin  *)
(* it has out and the results it was shown always make up the choice.      *)
PaidAsChosen ==
  /\ s.spent <= s.chosen
  /\ s.active => s.spent + s.remaining + (IF s.pending = None THEN 0 ELSE 1) = s.chosen

(* A run the player or a stop boundary ended does not come back, not even  *)
(* by the late refusal of a spin it had out.                               *)
StoppedStays == s.stopped => ~s.active

(* A round that met a boundary, as it was set when the result came, has    *)
(* stopped the run; so has a win no one reported, once the round is over.  *)
BoundaryHonoured ==
  s.armed # None /\ s.hits \cap s.armed.settings # {} => ~s.active

(* One panel at most is open; behind a dialog the page takes no input, and *)
(* without one it does; no press of autoplay waits behind a panel.         *)
OnePanel ==
  /\ \A p, q \in s.open : p = q
  /\ s.inert = (~s.hud \/ activeDialog(s))
  /\ s.open # {} => s.timer = "none"

(* Once the session has timed out nothing is offered and nothing runs on.  *)
TimedOutIsFinal ==
  s.timedOut => ~s.active /\ ~s.canSpin /\ s.open = {} /\ s.timer = "none"

(* A win with its boundary set ends the run by the end of its round.       *)
WinStops ==
  (s.round = "shown" /\ s'.round = "idle" /\ s.armed # None) =>
    (s.armed.win /\ "any-win" \in s.armed.settings => ~s'.active)

(* Autoplay that could spin has its press on the way, but for a prompt     *)
(* that vanished unanswered while its timer ran.                           *)
NotForgotten ==
  (/\ s.active /\ s.canSpin /\ s.mode = "ready" /\ s.eligible /\ s.open = {}
   /\ ~s.timedOut /\ s.rounds < Rounds /\ Alive)
    => s.timer # "none" \/ s.lost
=============================================================================
