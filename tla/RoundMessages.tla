---------------------------- MODULE RoundMessages ----------------------------
(***************************************************************************)
(* DomOverlay.ts: the message line and the WIN meter of a round, as        *)
(* AppController drives them.  The line shows what its owners hold: the    *)
(* wheel's summary first, then the ordinary win, else the copy of the      *)
(* phase; a few calls write it directly.  The meter runs up to the total   *)
(* in frames, and whoever waits for it is answered when it ends, is        *)
(* hurried or is replaced.                                                 *)
(***************************************************************************)
EXTENDS Integers

CONSTANTS
  Total,       \* what a winning round pays; a frame shows less or all of it
  Rounds       \* rounds requested, at most

VARIABLE s

Phases == {"ready", "requesting", "presenting", "recovering"}
Texts == {"press", "spin", "blank", "counting", "settled", "wheel", "bigwin", "conclusion"}
None == [running |-> FALSE]

TypeOK ==
  /\ s.phase \in Phases /\ s.text \in Texts /\ s.meter \in 0..Total
  /\ s.wheel \in BOOLEAN /\ s.ordinary \in {"none", "counting", "settled"}
  /\ {s.suppress, s.failed} \subseteq BOOLEAN
  /\ s.anim = None \/ s.anim.total \in 1..Total
  /\ s.asked \in 0..Rounds /\ s.answered \in 0..Rounds
  /\ s.step \in {"none", "reels", "wins", "counter", "features", "over"}
  /\ s.win \in 0..Total /\ s.big \in BOOLEAN /\ s.bonus \in 0..1 /\ s.rounds \in 0..Rounds

Init ==
  s = [phase |-> "ready", text |-> "press", meter |-> 0, wheel |-> FALSE,
       ordinary |-> "none", suppress |-> FALSE, failed |-> FALSE, anim |-> None,
       asked |-> 0, answered |-> 0, step |-> "none", win |-> 0, big |-> FALSE,
       bonus |-> 0, rounds |-> 0]

-----------------------------------------------------------------------------
(* The line.                                                               *)
roundStatePresentation(t) ==
  CASE t.phase = "ready" -> "press"
    [] t.phase = "requesting" -> "spin"
    [] t.phase = "presenting" -> IF t.suppress THEN "blank" ELSE "spin"
    [] OTHER -> "blank"
applyCurrentRoundState(t) ==
  [t EXCEPT !.text = IF t.wheel THEN "wheel"
                     ELSE IF t.ordinary # "none" THEN t.ordinary
                     ELSE roundStatePresentation(t)]
publishOrdinaryWinInformation(t, state) ==
  LET u == [t EXCEPT !.ordinary = state, !.suppress = TRUE]
  IN  IF t.wheel THEN u ELSE [u EXCEPT !.text = state]
setPhase(t, phase) ==
  LET fresh == phase \in {"requesting", "recovering"} IN
  applyCurrentRoundState([t EXCEPT !.phase = phase,
    !.wheel = @ /\ ~fresh, !.ordinary = IF fresh THEN "none" ELSE @,
    !.suppress = @ /\ ~fresh /\ phase # "ready"])

(* The meter.                                                              *)
cancelWinCounter(t) ==
  IF t.anim = None THEN t ELSE [t EXCEPT !.anim = None, !.answered = @ + 1]
resetWinCounter(t, amount) ==
  [cancelWinCounter(t) EXCEPT !.ordinary = "none", !.suppress = FALSE, !.meter = amount]
presentWinCounter(t, total) ==
  publishOrdinaryWinInformation(
    [cancelWinCounter(t) EXCEPT !.asked = @ + 1, !.meter = 0,
                                !.anim = [running |-> TRUE, total |-> total]], "counting")
finishWinCounter(t) ==
  IF t.anim = None THEN t
  ELSE publishOrdinaryWinInformation(
         [t EXCEPT !.meter = t.anim.total, !.anim = None, !.answered = @ + 1], "settled")

applyResult(t) == [cancelWinCounter(t) EXCEPT !.meter = t.win + t.bonus]

-----------------------------------------------------------------------------
(* The round.                                                              *)
requestSpin ==
  /\ s.phase = "ready" /\ s.rounds < Rounds
  /\ s' = setPhase([resetWinCounter(s, 0) EXCEPT !.rounds = @ + 1, !.failed = FALSE],
                   "requesting")
ResultAccepted(win, big, bonus) ==
  /\ s.phase = "requesting" /\ win + bonus <= Total /\ (big => win > 0)
  /\ s' = [s EXCEPT !.phase = "presenting", !.step = "reels", !.win = win, !.big = big,
                    !.bonus = bonus]
beginRecoveredRound(win, bonus) ==
  /\ s.phase = "recovering" /\ win + bonus <= Total /\ s.rounds < Rounds
  /\ s' = [resetWinCounter(s, 0) EXCEPT !.rounds = @ + 1, !.phase = "presenting",
                    !.step = "reels", !.win = win, !.big = FALSE, !.bonus = bonus]
refreshUi == s' = setPhase(s, s.phase)
handleStatus ==
  LET t == applyCurrentRoundState([s EXCEPT !.wheel = FALSE]) IN
  s' = IF s.phase \in {"ready", "requesting"} THEN setPhase(t, "recovering") ELSE t
Recovered ==
  /\ s.phase = "recovering"
  /\ s' = setPhase(s, "ready")
clearTransientSpinMessage ==
  /\ s.step = "reels"
  /\ s' = applyCurrentRoundState([s EXCEPT !.suppress = TRUE])
beginResultPresentation ==
  /\ s.step = "reels"
  /\ LET t == [s EXCEPT !.suppress = s.win = 0,
                        !.step = IF s.win > 0 THEN "wins" ELSE "features"]
     IN  s' = IF s.win > 0 \/ s.wheel \/ s.ordinary # "none" THEN t
              ELSE [t EXCEPT !.text = "blank"]
showBigWinCongratulations ==
  /\ s.step = "wins" /\ s.big /\ s.text # "bigwin" /\ s.meter = 0
  /\ s' = [s EXCEPT !.ordinary = "none", !.text = "bigwin"]
BigWinOver ==
  /\ s.step = "wins" /\ s.big /\ s.text = "bigwin"
  /\ s' = [resetWinCounter(s, s.win) EXCEPT !.step = "counter"]
presentNormalWinCounter(timed) ==
  /\ s.step = "wins" /\ ~s.big
  /\ s' = [IF timed THEN presentWinCounter(s, s.win) ELSE s EXCEPT !.step = "counter"]
CounterFrame ==
  /\ s.anim # None
  /\ \E value \in 0..Total :
       /\ value >= s.meter /\ value < s.anim.total
       /\ s' = publishOrdinaryWinInformation([s EXCEPT !.meter = value], "counting")
\* Its last frame, or the player hurries it.
CounterFinishes ==
  /\ s.anim # None
  /\ s' = finishWinCounter(s)
\* The wins are over once whoever waits for the counter was answered.
WinsOver ==
  /\ s.step = "counter" /\ s.asked = s.answered
  /\ s' = [s EXCEPT !.step = "features"]
showWheelBonusRoundSummary ==
  /\ s.step = "features" /\ s.bonus > 0
  /\ s' = [s EXCEPT !.ordinary = "none", !.wheel = TRUE, !.text = "wheel"]
roundComplete(conclusion) ==
  /\ s.step = "features"
  /\ LET t == setPhase([applyResult(s) EXCEPT !.step = "none"], "ready")
     IN  s' = IF conclusion THEN [t EXCEPT !.ordinary = "none", !.text = "conclusion"] ELSE t
presentationFailed ==
  /\ s.phase = "presenting"
  /\ LET t == applyCurrentRoundState([applyResult(s) EXCEPT !.wheel = FALSE])
     IN  s' = setPhase([t EXCEPT !.step = "none", !.failed = TRUE], "ready")

Next ==
  \/ requestSpin \/ refreshUi \/ handleStatus \/ Recovered \/ clearTransientSpinMessage
  \/ \E win \in 0..Total, big \in BOOLEAN, bonus \in 0..1 : ResultAccepted(win, big, bonus)
  \/ \E win \in 0..Total, bonus \in 0..1 : beginRecoveredRound(win, bonus)
  \/ beginResultPresentation \/ showBigWinCongratulations \/ BigWinOver
  \/ \E timed \in BOOLEAN : presentNormalWinCounter(timed)
  \/ CounterFrame \/ CounterFinishes \/ WinsOver \/ showWheelBonusRoundSummary
  \/ \E yes \in BOOLEAN : roundComplete(yes)
  \/ presentationFailed

Spec == Init /\ [][Next]_s

-----------------------------------------------------------------------------
(* Whoever waited for a counter has been answered exactly once, or the     *)
(* counter still runs; it never runs outside the show of its own round.    *)
AnsweredOnce ==
  /\ s.asked = s.answered + (IF s.anim = None THEN 0 ELSE 1)
  /\ s.anim # None => s.phase = "presenting" /\ s.anim.total = s.win

(* The meter: nothing of the last round once a spin is asked for, never    *)
(* more than the round won while it is shown, its whole win afterwards,    *)
(* whether the show ended, was hurried or failed.                          *)
MeterTrue ==
  /\ s.phase = "requesting" => s.meter = 0
  /\ s.phase = "presenting" => s.meter <= s.win
  /\ s.phase = "ready" /\ s.rounds > 0 => s.meter \in {0, s.win + s.bonus}

(* The line of a new round says nothing of the last one; the summary of a  *)
(* wheel is not replaced by a counter; once a round is over without a      *)
(* failure the line shows no amount that is still counting.                *)
LineTrue ==
  /\ s.phase = "requesting" => s.text = "spin"
  /\ s.wheel => s.text \in {"wheel", "conclusion", "bigwin"}
  /\ s.phase = "ready" /\ ~s.failed => s.text # "counting"
  /\ s.text = "settled" /\ s.phase = "presenting" => s.meter = s.win
=============================================================================
