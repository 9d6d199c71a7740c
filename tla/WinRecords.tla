----------------------------- MODULE WinRecords -----------------------------
(***************************************************************************)
(* The winning records of a round, one after the other, and their repeat    *)
(* while the machine is idle (web/src/renderer/WinCelebration.ts and the    *)
(* normal win of web/src/app/AppController.ts).  One resident scene shows   *)
(* every record; the end of a record is a tail that may still run when the  *)
(* next record takes the scene over, when the player continues, or when the *)
(* next spin begins.                                                        *)
(*                                                                         *)
(* Times are ticks of a frame, which may be late.  A milestone is its       *)
(* place in the order of the captured presentation.  Gates of milestones    *)
(* are only asked for by the visual fixtures and are left out.              *)
(***************************************************************************)
EXTENDS Integers, Sequences

CONSTANTS
  Plays,             \* [n, merge, big, count]: the records of a round that won
  ShowDone, MergeEnd, MergeDone, HideTime,   \* boundaries of the label
  PlainHold, MultiplierHold, RepeatHold,     \* how long one of several is held
  Late,              \* the most ticks between two frames
  MaxGen,            \* bound on the presentations and on the repeats
  Stalls             \* whether an attempt to load may outlast what waits for it

VARIABLE s

Never == 99
None == [at |-> "none"]
NoPlay == [n |-> 0, merge |-> FALSE, big |-> FALSE, count |-> 0]
Visible == 1
ShowComplete == 2
MergeStart == 3
MergeSettled == 4
HoldComplete == 5
HideStart == 6
Hidden == 7

Init ==
  \E loaded \in BOOLEAN :
    s = [phase |-> "idle", play |-> NoPlay, cont |-> FALSE, counter |-> "done",
         records |-> "done", timer |-> FALSE, repeat |-> 0, active |-> FALSE,
         loaded |-> loaded, presenting |-> FALSE, finish |-> FALSE, rec |-> None,
         tail |-> None, gen |-> 0, dimGen |-> 0, last |-> 0, owner |-> 0,
         scene |-> FALSE, dim |-> FALSE, high |-> FALSE, said |-> <<>>, stray |-> FALSE,
         fault |-> TRUE, hung |-> FALSE, destroyed |-> FALSE]

-----------------------------------------------------------------------------
(* The resident scene *)

primalWinRecordHoldDurationMs(play, repeat) ==
  CASE play.n = 1 -> IF repeat THEN Never ELSE play.count
    [] play.n > 1 /\ play.merge -> MultiplierHold
    [] play.n > 1 /\ ~play.merge /\ (repeat \/ play.big) -> RepeatHold
    [] OTHER -> PlainHold

notify(x, g, m) ==
  IF g = x.gen THEN [x EXCEPT !.said = Append(@, m)] ELSE [x EXCEPT !.stray = TRUE]

\* An older generation, or one that is over, has nothing left to hide.
finalizeResidentGeneration(x, f) ==
  IF f.gen <= x.last \/ x.owner # f.gen THEN x
  ELSE LET y == [x EXCEPT !.last = f.gen, !.owner = 0, !.scene = FALSE,
                          !.dim = IF x.dimGen = f.dimGen /\ ~f.restored THEN FALSE ELSE @]
       IN IF f.publish THEN notify(y, f.gen, Hidden) ELSE y

\* The next record takes the scene of a tail that still runs.
cancelResidentHideTail(x) == [x EXCEPT !.tail = None]

startResidentHideTail(x, restored) ==
  [notify(x, x.rec.gen, HideStart) EXCEPT
     !.tail = [at |-> "hiding", gen |-> x.rec.gen, dimGen |-> x.rec.dimGen,
               restored |-> restored, publish |-> TRUE, left |-> HideTime]]

Show(x) ==
  LET y == [cancelResidentHideTail(x) EXCEPT
              !.gen = @ + 1, !.dimGen = @ + 1, !.owner = x.gen + 1, !.scene = TRUE,
              !.dim = TRUE, !.high = @ \/ x.rec.of = 0,
              !.rec = [x.rec EXCEPT !.at = "hold", !.gen = x.gen + 1,
                                    !.dimGen = x.dimGen + 1]]
  IN [y EXCEPT !.said = <<Visible>>]

-----------------------------------------------------------------------------
(* Who presents *)

\* Another call that still presents makes this one return at once: the round goes
\* on without its records, and the loop of the repeat never yields again.
present(x, of, index) ==
  CASE x.presenting /\ of = 0 -> [x EXCEPT !.records = "done"]
    [] x.presenting /\ of # 0 /\ x.play.n = 1 -> [x EXCEPT !.active = FALSE]
    [] x.presenting /\ of # 0 /\ x.play.n > 1 -> [x EXCEPT !.hung = TRUE]
    [] OTHER ->
         [x EXCEPT !.presenting = TRUE, !.finish = FALSE,
            !.rec = [at |-> "start", of |-> of, index |-> index, gen |-> 0, dimGen |-> 0, t |-> 0,
                     stage |-> 0, merge |-> x.play.merge,
                     hold |-> primalWinRecordHoldDurationMs(x.play, of # 0),
                     restore |-> IF of # 0 THEN x.play.n > 1
                                 ELSE ~x.play.big /\ x.play.n = 1 /\ ~x.play.merge]]

\* The call returns to the round, or to the repeat that may be over.
Returned(x) ==
  LET y == [x EXCEPT !.rec = None, !.presenting = FALSE, !.finish = FALSE]
      over == x.rec.of # x.repeat \/ x.destroyed
  IN CASE x.rec.of = 0 /\ (x.cont \/ x.rec.index = x.play.n \/ x.destroyed) ->
            [y EXCEPT !.records = "done"]
       [] x.rec.of = 0 /\ ~(x.cont \/ x.rec.index = x.play.n \/ x.destroyed) ->
            present(y, 0, x.rec.index + 1)
       [] x.rec.of # 0 /\ over -> y
       [] x.rec.of # 0 /\ ~over /\ x.play.n = 1 -> [y EXCEPT !.active = FALSE]
       [] OTHER -> present(y, x.rec.of, (x.rec.index % x.play.n) + 1)

\* A record that is left without its tail is finalised by its finally block.
Left(x, publish) ==
  Returned(finalizeResidentGeneration(x,
    [gen |-> x.rec.gen, dimGen |-> x.rec.dimGen, restored |-> FALSE, publish |-> publish]))

\* The hold that the player ended, or that ended by itself.
Finished(x) ==
  Returned(startResidentHideTail([x EXCEPT !.high = FALSE, !.dim = FALSE], TRUE))

HoldOver(x) ==
  LET y == notify(x, x.rec.gen, HoldComplete)
  IN Returned(startResidentHideTail(
       IF x.rec.restore THEN [y EXCEPT !.high = FALSE, !.dim = FALSE] ELSE y, x.rec.restore))

requestFinish(x) ==
  CASE x.tail # None -> [x EXCEPT !.finish = @ \/ x.presenting]
    [] x.tail = None /\ (~x.presenting \/ x.finish) -> x
    [] OTHER -> IF x.rec.at = "hold" THEN Finished([x EXCEPT !.finish = TRUE])
                ELSE [x EXCEPT !.finish = TRUE]

-----------------------------------------------------------------------------
(* Actions.  A record that starts does so in the turn of its caller.  *)

Turn == s.rec.at # "start" /\ ~s.hung /\ (Stalls \/ s.rec.at # "load")

presentRecord ==
  /\ s.rec.at = "start" /\ (s.rec.of = 0 \/ s.gen < MaxGen)
  /\ IF s.loaded THEN s' = Show(s) ELSE s' = [s EXCEPT !.rec.at = "load"]

\* Building the scene fails before anything is seen.
ShowFails ==
  /\ s.rec.at = "start" /\ (s.rec.of = 0 \/ s.gen < MaxGen) /\ s.loaded /\ s.fault
  /\ LET y == [cancelResidentHideTail(s) EXCEPT
                 !.gen = @ + 1, !.dimGen = @ + 1, !.owner = s.gen + 1, !.said = <<>>,
                 !.scene = TRUE, !.fault = FALSE, !.rec.gen = s.gen + 1, !.rec.dimGen = s.dimGen + 1]
     IN s' = IF s.rec.of = 0 THEN Left(y, FALSE)
             ELSE [Left([y EXCEPT !.repeat = @ + 1], FALSE) EXCEPT
                     !.repeat = s.repeat, !.active = FALSE]

\* The records are shown without artwork when it cannot be loaded.
LoadSettles ==
  /\ s.rec.at = "load" /\ ~s.hung
  /\ \E ok \in BOOLEAN :
       LET x == [s EXCEPT !.loaded = ok]
       IN s' = IF s.destroyed \/ s.finish THEN Returned(x) ELSE Show(x)

\* The milestones of the merge that this frame passes, each in its order.
Boundaries(x) ==
  LET r == x.rec
      steps == << <<ShowComplete, ShowDone>>, <<MergeStart, ShowDone>>,
                  <<0, MergeEnd>>, <<MergeSettled, MergeDone>> >>
      due(i) == /\ i > r.stage /\ r.t >= steps[i][2] /\ steps[i][2] < r.hold
                /\ \A j \in r.stage + 1 .. i : steps[j][2] < r.hold
      last == IF ~r.merge THEN r.stage
              ELSE CHOOSE k \in r.stage .. 4 :
                     /\ k = r.stage \/ due(k)
                     /\ \A i \in r.stage + 1 .. 4 : due(i) => i <= k
      told(i) == IF i > r.stage /\ i <= last /\ steps[i][1] # 0 THEN <<steps[i][1]>> ELSE <<>>
  IN [x EXCEPT !.rec.stage = last, !.said = @ \o told(1) \o told(2) \o told(3) \o told(4)]

\* A frame of the record that is held and of the tail, if one still runs.
Frame ==
  /\ Turn /\ ~s.destroyed /\ s.rec.at = "hold"
  /\ \E d \in 1 .. Late :
       LET x == Boundaries([s EXCEPT !.rec.t = IF @ + d > s.rec.hold THEN s.rec.hold
                                               ELSE IF @ + d > MergeDone + 1 /\ s.rec.hold = Never
                                               THEN MergeDone + 1 ELSE @ + d])
       IN s' = IF x.rec.t = x.rec.hold THEN HoldOver(x) ELSE x

completeResidentHideTail ==
  /\ Turn /\ s.tail # None
  /\ s' = IF s.tail.left > 0 THEN [s EXCEPT !.tail.left = @ - 1]
          ELSE finalizeResidentGeneration([s EXCEPT !.tail = None], s.tail)

stopPostWinIdleRepeat(x) ==
  LET y == [x EXCEPT !.repeat = @ + 1, !.timer = FALSE]
  IN IF x.active THEN requestFinish([y EXCEPT !.active = FALSE]) ELSE y

requestSpin ==
  /\ Turn /\ ~s.destroyed /\ s.phase = "idle" /\ s.gen < MaxGen /\ s.repeat < MaxGen
  /\ s' = [stopPostWinIdleRepeat(s) EXCEPT !.phase = "spin", !.high = FALSE]

\* The counter runs along; after a big win only its tail is left.
AcceptWins ==
  /\ Turn /\ ~s.destroyed /\ s.phase = "spin"
  /\ \E play \in Plays :
       s' = present([s EXCEPT !.phase = "wins", !.play = play, !.cont = FALSE,
                              !.records = "running",
                              !.counter = IF play.big THEN "tail" ELSE "count"], 0, 1)

AcceptNothing ==
  /\ Turn /\ s.phase = "spin"
  /\ s' = [s EXCEPT !.phase = "idle"]

presentNormalWinCounter ==
  /\ Turn /\ s.counter # "done"
  /\ s' = [s EXCEPT !.counter = IF @ = "count" THEN "tail" ELSE "done"]

\* Continue ends the counter, its delay and the record that is shown.
requestFastStop ==
  /\ Turn /\ s.phase = "wins" /\ ~s.cont /\ ~s.destroyed
  /\ s' = requestFinish([s EXCEPT !.cont = TRUE, !.counter = "done"])

\* The round is over; a win of the base game is repeated after a while.
schedulePostWinIdleRepeat ==
  /\ Turn /\ s.phase = "wins" /\ s.counter = "done" /\ s.records = "done"
  /\ LET x == [s EXCEPT !.phase = "idle", !.high = FALSE, !.cont = FALSE]
     IN \/ s' = x
        \/ ~s.destroyed /\ s' = [x EXCEPT !.repeat = @ + 1, !.timer = TRUE]

runPostWinIdleRepeat ==
  /\ Turn /\ s.timer /\ ~s.destroyed /\ s.gen < MaxGen
  /\ s' = present([s EXCEPT !.timer = FALSE, !.active = TRUE], s.repeat, 1)

destroy ==
  /\ Turn /\ ~s.destroyed
  /\ LET x == [s EXCEPT !.destroyed = TRUE, !.repeat = @ + 1, !.timer = FALSE,
                         !.active = FALSE]
         y == IF x.tail = None THEN x
              ELSE finalizeResidentGeneration([x EXCEPT !.tail = None], x.tail)
         z == IF y.rec.at = "hold" THEN Left(y, TRUE) ELSE y
     IN s' = [z EXCEPT !.dim = FALSE, !.scene = FALSE]

Next ==
  \/ presentRecord \/ ShowFails \/ LoadSettles \/ Frame \/ completeResidentHideTail
  \/ requestSpin \/ AcceptWins \/ AcceptNothing \/ presentNormalWinCounter
  \/ requestFastStop \/ schedulePostWinIdleRepeat \/ runPostWinIdleRepeat \/ destroy

\* Frames are drawn, timers fire and an attempt to load settles.
Progress ==
  presentRecord \/ LoadSettles \/ Frame \/ completeResidentHideTail
  \/ presentNormalWinCounter \/ schedulePostWinIdleRepeat

-----------------------------------------------------------------------------
(* Properties *)

(* The types of the fields of the record.                                  *)
TypeOK ==
  /\ s.phase \in {"idle", "spin", "wins"} /\ s.play \in Plays \union {NoPlay}
  /\ s.counter \in {"count", "tail", "done"} /\ s.records \in {"running", "done"}
  /\ s.rec.at \in {"none", "start", "load", "hold"} /\ s.tail.at \in {"none", "hiding"}
  /\ s.presenting <=> s.rec # None

(* The milestones of a record come in their order and each once, and none of *)
(* them comes from a record whose scene was taken over.                     *)
InOrder ==
  /\ ~s.stray
  /\ \A i, j \in DOMAIN s.said : i < j => s.said[i] < s.said[j]
  /\ s.rec.at = "hold" => s.said # <<>> /\ s.said[Len(s.said)] < HoldComplete

(* A record that is held is seen, and the other symbols are dimmed, whatever *)
(* tail ran before; when nothing is presented nothing is left of it.        *)
SceneOwned ==
  /\ s.rec.at = "hold" /\ ~s.destroyed => s.scene /\ s.dim /\ s.owner = s.gen
  /\ s.rec = None /\ s.tail = None => ~s.scene /\ ~s.dim /\ s.owner = 0
  /\ s.phase = "idle" /\ s.rec = None => ~s.high

(* Continue ends the record that is held and no further one is shown, and a *)
(* repeat that was stopped shows no further record.                         *)
Quiet ==
  /\ s.cont /\ s'.cont => s'.gen = s.gen
  /\ s'.cont => s'.rec.at # "hold"
  /\ s.phase = "spin" /\ s'.phase = "spin" => s'.gen = s.gen

(* The repeat never keeps the page from running anything else.              *)
Responsive == ~s.hung

\* The wins of a round are presented in the end.
Waits == s.phase = "wins" /\ ~s.destroyed
Ended == s.phase # "wins" \/ s.destroyed
=============================================================================
