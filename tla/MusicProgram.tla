---------------------------- MODULE MusicProgram ----------------------------
(***************************************************************************)
(* AudioManager.ts and the music calls of AppController.ts: the base music *)
(* with its two stems, the music of the free spins and of a big win, which *)
(* replace one another as the rounds, the feature and the celebration go   *)
(* on, and the counters and reel loops that end with what started them.    *)
(***************************************************************************)
EXTENDS Integers, FiniteSets

CONSTANT MaxSteps   \* bound: presentation steps

VARIABLE s

Music == {"ambient", "free", "big"}
Silent == 2   \* the null of a stem level: neither stem is heard

Init ==
  s = [app |-> "lobby", desired |-> {}, active |-> {}, docked |-> FALSE, level |-> 0,
       target |-> 0, ticker |-> FALSE, counting |-> "none", timers |-> {}, cues |-> {},
       round |-> "none", dead |-> FALSE, steps |-> 0]

(* Types of the state. *)
TypeOK ==
  /\ s.active \subseteq s.desired /\ {s.docked, s.ticker, s.dead} \subseteq BOOLEAN
  /\ s.desired \subseteq Music \union {"generic", "common", "bigcount", "reel"}
  /\ s.level \in {0, 1} /\ s.target \in 0..Silent /\ s.counting \in {"none", "normal", "bigcount"}
  /\ s.timers \union s.cues \subseteq {"normal", "bigcount"} /\ s.steps \in 0..MaxSteps
  /\ s.app \in {"lobby", "base", "free", "summary", "big-base", "big-free"}
  /\ s.round \in {"none", "spinning", "shown", "counting", "counted"}

-----------------------------------------------------------------------------
(* The loops the manager wants and those it has handed to the backend.     *)

startLoopNow(r, l) ==
  IF r.dead \/ l \in r.active THEN r
  ELSE [r EXCEPT !.active = @ \union {l},
                 !.target = IF l = "ambient" THEN IF r.docked THEN Silent ELSE r.level ELSE @]
stopLoopNow(r, l) == [r EXCEPT !.active = @ \ {l}]
Want(r, l) == startLoopNow([r EXCEPT !.desired = @ \union {l}], l)
Drop(r, l) == stopLoopNow([r EXCEPT !.desired = @ \ {l}], l)

applyBaseMusicStem(r) ==
  IF r.dead \/ "ambient" \notin r.active THEN r
  ELSE [r EXCEPT !.target = IF r.docked THEN Silent ELSE r.level]

Dock(r) == [r EXCEPT !.docked = TRUE, !.ticker = FALSE]
Undock(r) == [r EXCEPT !.docked = FALSE, !.ticker = ~r.dead]

endFreeSpinsLoop(r) == Drop(r, "free")

beginBigWin(r, inFreeSpins) ==
  Want(IF inFreeSpins THEN endFreeSpinsLoop(r) ELSE applyBaseMusicStem(Dock(r)), "big")

Counters == {"generic", "common", "bigcount"}
StopCounters(r) ==
  [r EXCEPT !.counting = "none", !.timers = {}, !.desired = @ \ Counters, !.active = @ \ Counters]
endBigWinCounter(r) == StopCounters(r)
beginBigWinCounter(r) ==
  Want([r EXCEPT !.counting = "bigcount", !.timers = @ \union {"bigcount"}], "bigcount")
beginNormalWinCounter(r) ==
  IF r.counting = "normal" THEN r
  ELSE Want(Want([r EXCEPT !.counting = "normal", !.timers = @ \union {"normal"}], "generic"), "common")
endNormalWinCounter(r) == StopCounters(r)

endBigWin(r, resume) ==
  LET over == Drop(endBigWinCounter(r), "big")
  IN  IF resume = "free-spins" THEN Want(over, "free") ELSE applyBaseMusicStem(Undock(over))

(* Turns the base music on; one that was docked while it ran is raised.    *)
RaiseBase(r) ==
  LET on == Want(Undock(r), "ambient")
  IN  IF "ambient" \in r.active /\ r.docked THEN applyBaseMusicStem(on) ELSE on
setAmbientEnabled(r) == RaiseBase(Drop(r, "free"))
endFreeSpinsMode(r) == RaiseBase(r)

(* The stems are handed over by enterFreeSpinsBaseMusic of the backend.    *)
setFreeSpinsMusicEnabled(r) ==
  LET had == "ambient" \in r.desired \union r.active
      off == Dock([r EXCEPT !.desired = @ \ {"ambient"}, !.active = @ \ {"ambient"}])
  IN  Want([off EXCEPT !.target = IF had THEN Silent ELSE @], "free")

-----------------------------------------------------------------------------
(* What the controller presents, in the order of a round.                  *)

Step(app, r) == s' = [r EXCEPT !.app = app, !.steps = @ + 1]
Presents == ~s.dead /\ s.steps < MaxSteps

(* The session is in: also after a reconnection with no round under way.   *)
syncGameMusic(mode) ==
  /\ Presents /\ s.round = "none" /\ s.app \in {"lobby", "base", "free"}
  /\ s.app # "lobby" => mode = s.app
  /\ Step(mode, IF mode = "free" THEN setFreeSpinsMusicEnabled(s) ELSE setAmbientEnabled(s))

requestSpin ==
  /\ Presents /\ s.round = "none" /\ s.app \in {"base", "free"}
  /\ Step(s.app, Want([s EXCEPT !.round = "spinning"], "reel"))
(* Every exit of the spin stops its loop: at once or by its own tail.      *)
ReelsStop == Presents /\ s.round = "spinning" /\ Step(s.app, Drop([s EXCEPT !.round = "shown"], "reel"))

ShowBigWin ==
  /\ Presents /\ s.round = "shown" /\ s.app \in {"base", "free"}
  /\ Step(IF s.app = "base" THEN "big-base" ELSE "big-free", beginBigWin(s, s.app = "free"))
CountStart == /\ Presents /\ s.app \in {"big-base", "big-free"} /\ s.counting = "none"
              /\ Step(s.app, beginBigWinCounter(s))
(* A quick view hides the celebration without waiting for its count.       *)
HideBigWin ==
  /\ Presents /\ s.app \in {"big-base", "big-free"}
  /\ Step(IF s.app = "big-base" THEN "base" ELSE "free",
          endBigWin([s EXCEPT !.round = "counted"], IF s.app = "big-base" THEN "ambient" ELSE "free-spins"))
NormalWin == /\ Presents /\ s.round = "shown" /\ s.app \in {"base", "free"}
             /\ Step(s.app, beginNormalWinCounter([s EXCEPT !.round = "counting"]))
NormalWinOver == Presents /\ s.round = "counting" /\ Step(s.app, endNormalWinCounter([s EXCEPT !.round = "counted"]))

FeatureStarts ==
  /\ Presents /\ s.round = "counted" /\ s.app = "base"
  /\ Step("free", setFreeSpinsMusicEnabled(s))
FeatureCompleted ==
  /\ Presents /\ s.round = "counted" /\ s.app = "free" /\ Step("summary", endFreeSpinsLoop(s))
(* The summary hides; without one, both calls come at once.                *)
beginFreeSpinsExitOnce ==
  /\ Presents /\ s.round = "counted"
  /\ \/ s.app = "summary" /\ Step("base", endFreeSpinsMode(s))
     \/ s.app = "free" /\ Step("base", endFreeSpinsLoop(endFreeSpinsMode(s)))

RoundOver == Presents /\ s.round = "counted" /\ s.app # "summary" /\ Step(s.app, [s EXCEPT !.round = "none"])

(* The pot changes the level, by a win of the round or by its own clock.   *)
onLevelChange ==
  /\ Presents /\ s.app # "lobby" /\ ~s.docked
  /\ s' = applyBaseMusicStem([s EXCEPT !.level = 1 - @, !.steps = @ + 1])

(* A sweetener of a counter; each plans the next one.                      *)
Sweetener(c) == /\ c \in s.timers /\ c \notin s.cues
                /\ s' = [s EXCEPT !.cues = @ \union {c}, !.timers = IF s.counting = c /\ ~s.dead THEN @ ELSE @ \ {c}]

destroy ==
  /\ ~s.dead
  /\ s' = [StopCounters(s) EXCEPT !.dead = TRUE, !.desired = {}, !.active = {}, !.ticker = FALSE, !.round = "none"]

Next ==
  \/ \E mode \in {"base", "free"} : syncGameMusic(mode)
  \/ requestSpin \/ ReelsStop \/ ShowBigWin \/ CountStart \/ HideBigWin \/ NormalWin \/ NormalWinOver
  \/ FeatureStarts \/ FeatureCompleted \/ beginFreeSpinsExitOnce \/ RoundOver
  \/ onLevelChange \/ destroy
  \/ \E c \in {"bigcount", "normal"} : Sweetener(c)

-----------------------------------------------------------------------------
Heard == {m \in Music \intersect s.active : m = "ambient" => s.target # Silent}

(* Exactly the music of the moment is heard, whatever order the feature,   *)
(* the celebration, its quick view and a reconnection came in.             *)
MusicFits ==
  Heard = IF s.dead THEN {}
          ELSE CASE s.app = "base" -> {"ambient"} [] s.app = "free" -> {"free"}
                 [] s.app \in {"big-base", "big-free"} -> {"big"} [] OTHER -> {}

(* The base music that is heard is at the level of the pot, also after a   *)
(* change that came while something else played, and its clock runs then   *)
(* and only then.                                                          *)
StemFits ==
  ~s.dead /\ s.app # "lobby" =>
    /\ "ambient" \in Heard => s.target = s.level
    /\ s.ticker = ("ambient" \in Heard)

(* A loop or a timer of a counter, and the loop of the reels, does not     *)
(* outlive what it belongs to.                                             *)
LoopsEnd ==
  /\ s.active \intersect {"generic", "common"} # {} => s.counting = "normal"
  /\ "bigcount" \in s.active => s.app \in {"big-base", "big-free"}
  /\ "reel" \in s.active => s.round = "spinning"
  /\ s.timers # {} => s.counting # "none"
  /\ s.desired = s.active
=============================================================================
