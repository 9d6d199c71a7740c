----------------------------- MODULE LaunchIntro -----------------------------
(***************************************************************************)
(* The introduction (web/src/startup/IntroDirector.ts and Timeline.ts, and *)
(* the wall deadline of AppController): frames drive a timeline whose      *)
(* clock follows the wall or the audio, cues fire on the way, and a        *)
(* wall-clock deadline ends an introduction whose audio clock stands       *)
(* still.                                                                  *)
(***************************************************************************)
EXTENDS Integers, Sequences

CONSTANTS Duration,   \* of the introduction
          Cues,       \* the times of its cues, in order
          Grace,      \* what the wall deadline adds
          MaxWall     \* bound on the wall clock

VARIABLE s

Sources == {"wall", "audio"}

Init ==
  s = [at |-> "waiting", wall |-> 0, audio |-> 0, source |-> "wall",
       sourceEpoch |-> 0, logicalEpoch |-> 0,
       timeline |-> "none", startedAt |-> 0, frame |-> FALSE, shown |-> 0, cue |-> 0,
       fired |-> <<>>, deadline |-> 0, notified |-> 0,
       skipped |-> FALSE, destroyed |-> FALSE, unlocks |-> 1, lost |-> FALSE]

-----------------------------------------------------------------------------
(* SwitchableLaunchClock *)

Reading(x, source) == IF source = "wall" THEN x.wall ELSE x.audio
Above(n) == IF n > 0 THEN n ELSE 0
clockNow(x) == x.logicalEpoch + Above(Reading(x, x.source) - x.sourceEpoch)

\* The logical time goes on from where it is.
switchSource(x, source) ==
  [x EXCEPT !.source = source, !.sourceEpoch = Reading(x, source),
            !.logicalEpoch = clockNow(x)]

-----------------------------------------------------------------------------
(* Timeline and IntroDirector *)

RECURSIVE apply(_, _, _)
apply(x, time, includeZero) ==
  IF x.cue >= Len(Cues) \/ Cues[x.cue + 1] > time \/ (~includeZero /\ time = 0)
  THEN [x EXCEPT !.shown = time]
  ELSE apply([x EXCEPT !.cue = @ + 1, !.fired = Append(@, x.cue + 1)], time, includeZero)

notifyComplete(x) ==
  IF x.destroyed \/ x.notified > 0 THEN x ELSE [x EXCEPT !.notified = @ + 1]

\* The race of the introduction and its deadline is over; runLaunch goes on.
clearLaunchIntroWallDeadline(x) ==
  [x EXCEPT !.deadline = 0]
RaceOver(x) ==
  IF x.at = "playing" THEN [clearLaunchIntroWallDeadline(x) EXCEPT !.at = "over"] ELSE x

finish(x) ==
  RaceOver(notifyComplete([x EXCEPT !.timeline = "complete", !.frame = FALSE]))

play(x) ==
  apply([x EXCEPT !.timeline = "running", !.startedAt = clockNow(x), !.frame = TRUE],
        0, TRUE)

skipTimeline(x) ==
  IF x.timeline # "running" THEN x
  ELSE finish([x EXCEPT !.frame = FALSE, !.cue = Len(Cues), !.shown = Duration])

\* The page offers the player no way to skip: only the wall deadline does.
skip(x) ==
  IF x.notified > 0 THEN x
  ELSE notifyComplete(skipTimeline([x EXCEPT !.skipped = TRUE]))

destroyIntro(x) == skipTimeline([x EXCEPT !.destroyed = TRUE])

-----------------------------------------------------------------------------
(* AppController *)

armLaunchIntroWallDeadline(x) ==
  [clearLaunchIntroWallDeadline(x) EXCEPT !.deadline = x.wall + Duration + Grace]

playLaunchIntroWithinWallDeadline ==
  /\ s.at = "waiting" /\ ~s.destroyed
  /\ s' = play(armLaunchIntroWallDeadline([s EXCEPT !.at = "playing"]))

\* The player leaves the preview: the clock follows the audio, which may or
\* may not be unlocked in the end.
continueFeaturePreview ==
  /\ s.at = "waiting" /\ s.unlocks > 0
  /\ s' = [switchSource(s, "audio") EXCEPT !.unlocks = @ - 1]

UnlockFails ==
  /\ s.source = "audio" /\ ~s.destroyed /\ s.at # "over"
  /\ s' = switchSource(s, "wall")

\* tick: the time that is shown never passes the end, where the timeline stops.
onFrame ==
  /\ s.frame
  /\ LET elapsed == Above(clockNow(s) - s.startedAt)
         time == IF elapsed < Duration THEN elapsed ELSE Duration
         y == apply(s, time, FALSE)
     IN s' = IF time >= Duration THEN finish(y) ELSE y

\* The deadline skips the introduction; the race is over in any case.
WallDeadline ==
  /\ s.deadline # 0 /\ s.wall >= s.deadline
  /\ s' = RaceOver(IF s.destroyed \/ s.timeline # "running" THEN [s EXCEPT !.deadline = 0]
                   ELSE skip([s EXCEPT !.deadline = 0]))

\* AppController.destroy: the deadline is cleared before the intro goes.
destroy ==
  /\ ~s.destroyed
  /\ s' = destroyIntro(IF s.at = "playing" THEN RaceOver(s)
                       ELSE clearLaunchIntroWallDeadline(s))

\* The audio clock follows the wall or stands still.
Tick ==
  /\ IF s.at = "waiting" THEN s.wall + Duration + Grace < MaxWall
     ELSE s.at = "playing" /\ s.wall < s.deadline
  /\ \E advance \in {0, 1} :
       s' = [s EXCEPT !.wall = @ + 1, !.audio = IF s.lost THEN @ ELSE @ + advance]

\* A clock whose audio context is gone reads what it read at first.
getLaunchPlaybackClock ==
  /\ s.source = "audio" /\ ~s.lost /\ s.at # "over"
  /\ s' = [s EXCEPT !.lost = TRUE, !.audio = s.sourceEpoch]

Next ==
  \/ playLaunchIntroWithinWallDeadline \/ continueFeaturePreview \/ UnlockFails
  \/ onFrame \/ WallDeadline \/ destroy \/ Tick \/ getLaunchPlaybackClock

Progress == Tick \/ WallDeadline

-----------------------------------------------------------------------------
(* Properties *)

(* The types of the fields of the record.                                  *)
TypeOK ==
  /\ s.at \in {"waiting", "playing", "over"} /\ s.wall \in 0 .. MaxWall
  /\ s.source \in Sources /\ s.shown \in 0 .. Duration /\ s.cue \in 0 .. Len(Cues)
  /\ s.timeline \in {"none", "running", "complete"} /\ s.notified \in 0 .. 1

(* Cues fire once and in order, all of them unless the deadline skipped;   *)
(* the end is announced once and on the last picture, never to what is     *)
(* destroyed; nothing stays armed after the end.                           *)
IntroRight ==
  /\ \A i \in DOMAIN s.fired : s.fired[i] = i
  /\ s.timeline = "complete" /\ ~s.skipped /\ ~s.destroyed => Len(s.fired) = Len(Cues)
  /\ s.at = "over" /\ ~s.destroyed => s.notified = 1 /\ s.shown = Duration
  /\ s.at = "over" => ~s.frame /\ s.deadline = 0
  /\ s.skipped => s.notified = 1

(* Switching the source never moves the clock, a frame never shows an      *)
(* earlier time unless the audio was lost, and the end is final.           *)
ClockContinuous ==
  /\ s'.source # s.source => clockNow(s') = clockNow(s)
  /\ s'.shown >= s.shown \/ s.lost
  /\ s.timeline = "complete" => s'.timeline = "complete" /\ s'.fired = s.fired

(* The introduction ends, even on an audio clock that never moves.         *)
Waits == s.at = "playing"
Ended == s.at = "over"
=============================================================================
