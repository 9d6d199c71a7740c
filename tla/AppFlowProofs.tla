---------------------------- MODULE AppFlowProofs ----------------------------
(***************************************************************************)
(* The safety of AppFlow: for any script of rounds, any faults and any     *)
(* number of times the page is hidden, the controller presents one round   *)
(* at a time, honours every result, leaves the player able to go on and    *)
(* stays ended once it has ended.                                          *)
(***************************************************************************)
EXTENDS AppFlow, TLAPS

-----------------------------------------------------------------------------
(* The inductive invariant *)

\* A round is queued or on screen.
Presenting == ctl.queue # <<>> \/ ctl.show.at # "none"

Live == gw.conn = "connected" /\ ~Ended(ctl)

\* The gateway has not connected yet.
Early == gw.conn \in {"parked", "connecting"}

GatewayOK ==
  /\ gw.pending # NoRound => gw.pending \in {gw.committed, gw.committed + 1}
  /\ gw.committed <= Len(script) /\ gw.pending <= Len(script)
  /\ gw.known <= gw.committed
  /\ gw.delivered => /\ gw.pending # NoRound /\ gw.pending = gw.committed
                     /\ gw.known = gw.committed
  /\ gw.asked => gw.delivered
  /\ gw.conn = "connected" /\ (gw.pending = NoRound \/ gw.pending = gw.committed + 1)
       => gw.known = gw.committed
  /\ gw.conn = "parked" => ~gw.available
  /\ Early => /\ ~gw.delivered /\ ~ctl.opened /\ ~Ended(ctl)
              /\ gw.committed # 0 => gw.pending = gw.committed
              /\ ctl.phase \in {"connecting", "recovering"} /\ ctl.free = 0
              /\ ctl.reel = "Idle"
              /\ ~gw.available => ctl.phase = "recovering" /\ gw.told
  /\ Ended(ctl) \/ ctl.sessionFailed => gw.conn = "closed"
  /\ ctl.connection = "online" => gw.conn = "connected"

LaunchOK ==
  /\ ctl.hasSession = ctl.opened
  /\ ctl.launch \in {"preloading", "intro", "ready", "failed"}
  /\ launchAt \in {"preload", "paint"} => ctl.launch \in {"preloading", "failed"}
  /\ launchAt \in {"preview", "session", "intro"} => ctl.launch \in {"intro", "failed"}
  /\ ctl.launch = "ready" => ctl.opened
  /\ ctl.sessionTimer => ~ctl.opened /\ ~Ended(ctl) /\ ~ctl.sessionFailed

\* The game machine goes with the gateway's round.
PhaseOK ==
  /\ ctl.phase \notin {"booting", "threw"}
  /\ ctl.phase \in {"ready", "requesting", "presenting"} => ctl.opened
  /\ ctl.timedOut => ctl.phase = "failed"
  /\ Live /\ ctl.phase \in {"connecting", "recovering", "failed"} =>
       ctl.phase = "recovering" /\ gw.told /\ ~gw.available /\ ~gw.delivered
  /\ Live /\ gw.pending # NoRound /\ ~gw.delivered =>
       ctl.phase \in {"requesting", "recovering"}
  /\ ctl.phase = "requesting" /\ ~Ended(ctl) =>
       /\ gw.conn = "connected" /\ gw.pending # NoRound
       /\ gw.delivered => ctl.buffered = gw.pending
  /\ ctl.phase = "presenting" /\ ~Ended(ctl) => Presenting
  /\ Presenting /\ ~ctl.timedOut => ctl.phase = "presenting"

\* Where the reels stand at each stage of a presentation.
ReelAt(at) ==
  CASE at \in {"before", "stopping"} -> "Spin_Stopping"
    [] at = "braking" -> "Reel_Stop_One_By_One"
    [] at = "settled" -> "Result_Show"
    [] at \in {"bigwin", "wins"} -> "Win_Line_Animation"
    [] OTHER -> "Idle"

Turning == {"before", "stopping", "braking", "settled", "bigwin", "wins"}

ReelOK ==
  /\ Ended(ctl) => ctl.reel = "Idle"
  /\ ~Ended(ctl) =>
       /\ ctl.queue # <<>> => ctl.reel = "Spin_Stopping" /\ ctl.reelRound = ctl.lastRound
       /\ ctl.show.at # "none" => ctl.reel = ReelAt(ctl.show.at)
       /\ ctl.show.at \in Turning => ctl.reelRound = ctl.lastRound
       /\ ~Presenting => ctl.reel \in {"Idle", "Spinning"}
       /\ ctl.idle # "none" => ctl.reel = "Idle"
  /\ Presenting => ctl.idle = "none"
  /\ Live /\ ~Presenting /\ ctl.reel = "Spinning" =>
       /\ ctl.phase \in {"requesting", "recovering"} /\ ctl.launch = "ready"
       /\ ctl.reelRound = gw.pending /\ gw.pending # NoRound /\ ~gw.delivered

\* The round that is presented is the last one, and the gateway's.
RoundOK ==
  /\ ctl.queue = <<>> \/ ctl.queue = <<ctl.lastRound>>
  /\ ctl.show.at = "none" => ctl.show = NoShow
  /\ ctl.show.at # "none" => ctl.show.round = ctl.lastRound /\ ctl.queue = <<>>
  /\ ctl.lastRound <= gw.committed
  /\ gw.pending # NoRound /\ ~gw.delivered => ctl.lastRound < gw.pending
  /\ Presenting =>
       /\ ctl.lastRound # NoRound /\ gw.committed = ctl.lastRound
       /\ ctl.balance = ctl.lastRound /\ ctl.free = FreeAfter(ctl.lastRound)
       /\ ~gw.asked /\ gw.pending \in {NoRound, ctl.lastRound}
       /\ gw.conn # "closed" => gw.pending = ctl.lastRound /\ gw.delivered
  /\ Live /\ gw.delivered /\ ~gw.asked =>
       ctl.buffered = gw.pending \/ Presenting \/ gw.pending \in told.rejected

\* A result that waits for the launch.
BufferOK ==
  ctl.buffered # NoRound =>
    /\ ~Ended(ctl) /\ ctl.launch # "ready" /\ ctl.visualStart /\ ctl.reel = "Idle"
    /\ ctl.lastRound < ctl.buffered /\ ~Presenting
    /\ ctl.phase \in {"requesting", "ready"}
    /\ Live => /\ ctl.phase = "requesting" /\ ctl.buffered = gw.pending
               /\ gw.delivered /\ ~gw.asked

\* What the player has been told of the balance and of the free spins.
MoneyOK ==
  /\ ctl.visible <= told.disclosed /\ told.disclosed <= gw.committed
  /\ \A r \in told.over : r <= told.disclosed
  /\ ctl.balance <= gw.committed
  /\ gw.conn # "closed" => gw.committed <= told.disclosed \/ gw.pending = gw.committed
  /\ gw.asked => /\ gw.pending \in told.over /\ ~ctl.barrier /\ ctl.visible >= gw.pending
                 /\ ctl.free = FreeAfter(gw.pending) /\ ctl.phase # "requesting"
  /\ gw.conn # "closed" /\ (gw.pending = NoRound \/ gw.pending = gw.committed + 1)
       => ctl.free = FreeAfter(gw.committed)
  /\ ctl.barrier /\ ~Ended(ctl) => Presenting /\ ctl.show.at # "exit"
  /\ ctl.show.at = "exit" /\ ~Ended(ctl) => ctl.visible = ctl.lastRound

ControlsOK ==
  /\ ctl.controls <=> CanSpin(ctl, gw) /\ ~ctl.destroyed
  /\ ctl.freeTimer # 0 => CanSpin(ctl, gw) /\ ctl.freeTimer = ctl.free
  /\ Ended(ctl) => ctl.freeTimer = 0
  /\ ~told.hidden /\ CanSpin(ctl, gw) /\ gw.available /\ ~Ended(ctl) => ctl.freeTimer = ctl.free
  /\ ~told.hidden /\ ~gw.available => gw.conn \in {"parked", "closed"}

HeldOK ==
  /\ "big-win" \in ctl.leases => ctl.show.at = "bigwin"
  /\ "wheel" \in ctl.leases => Presenting /\ script[ctl.lastRound].wheel
  /\ "free-spins" \in ctl.leases => ctl.free > 0 \/ Presenting
  /\ Ended(ctl) => ctl.leases \subseteq {"big-win"}
  /\ ctl.requests <= 1
  /\ gw.conn = "closed" /\ ~Ended(ctl) => ctl.requests = 1

FlowOK ==
  /\ TypeOK /\ GatewayOK /\ LaunchOK /\ PhaseOK /\ ReelOK /\ RoundOK /\ BufferOK
  /\ MoneyOK /\ ControlsOK /\ HeldOK

-----------------------------------------------------------------------------
(* The three machines *)

LEMMA Moved ==
  ASSUME NEW moves, NEW s, NEW e, NEW t, <<s, e, t>> \in moves,
         \A m \in moves : m[1] = s /\ m[2] = e => m[3] = t
  PROVE  After(moves, s, e) = t
<1> DEFINE targets == {m \in moves : m[1] = s /\ m[2] = e}
<1>1. <<s, e, t>> \in targets
  OBVIOUS
<1>2. \A m \in targets : m[3] = t
  OBVIOUS
<1>3. (CHOOSE m \in targets : TRUE) \in targets
  BY <1>1, Zenon
<1>4. (CHOOSE m \in targets : TRUE)[3] = t
  BY <1>2, <1>3
<1>5. QED
  BY <1>1, <1>4, Zenon DEF After

LEMMA GameAfter ==
  /\ After(GameMoves, "connecting", "SESSION_OPENED") = "ready"
  /\ After(GameMoves, "recovering", "SESSION_OPENED") = "ready"
  /\ After(GameMoves, "ready", "SPIN_REQUESTED") = "requesting"
  /\ After(GameMoves, "requesting", "SPIN_RESULT") = "presenting"
  /\ After(GameMoves, "requesting", "SPIN_FAILED") = "ready"
  /\ After(GameMoves, "presenting", "PRESENTATION_COMPLETE") = "ready"
  /\ \A p \in Phases : After(GameMoves, p, "FATAL_ERROR") = "failed"
  /\ \A p \in Phases \ {"booting", "failed"} :
       After(GameMoves, p, "CONNECTION_LOST") = "recovering"
<1> DEFINE Goes(s, e, t) == /\ <<s, e, t>> \in GameMoves
                            /\ \A m \in GameMoves : m[1] = s /\ m[2] = e => m[3] = t
<1>1. Goes("connecting", "SESSION_OPENED", "ready")
  BY DEF GameMoves
<1>2. Goes("recovering", "SESSION_OPENED", "ready")
  BY DEF GameMoves
<1>3. Goes("ready", "SPIN_REQUESTED", "requesting")
  BY DEF GameMoves
<1>4. Goes("requesting", "SPIN_RESULT", "presenting")
  BY DEF GameMoves
<1>5. Goes("requesting", "SPIN_FAILED", "ready")
  BY DEF GameMoves
<1>6. Goes("presenting", "PRESENTATION_COMPLETE", "ready")
  BY DEF GameMoves
<1>7. \A p \in Phases : Goes(p, "FATAL_ERROR", "failed")
  BY DEF GameMoves
<1>8. \A p \in Phases \ {"booting", "failed"} : Goes(p, "CONNECTION_LOST", "recovering")
  BY DEF GameMoves
<1>9. \A s, e, t : Goes(s, e, t) => After(GameMoves, s, e) = t
  BY Moved
<1> HIDE DEF Goes
<1>10. QED
  BY <1>1, <1>2, <1>3, <1>4, <1>5, <1>6, <1>7, <1>8, <1>9

LEMMA ReelAfter ==
  /\ After(ReelMoves, "Idle", "SPIN_ACCEPTED") = "Spin_Start"
  /\ After(ReelMoves, "Spin_Start", "REELS_STARTED") = "Spinning"
  /\ After(ReelMoves, "Spinning", "RESULT_RECEIVED") = "Spin_Stopping"
  /\ After(ReelMoves, "Spin_Stopping", "REEL_STOP_STARTED") = "Reel_Stop_One_By_One"
  /\ After(ReelMoves, "Reel_Stop_One_By_One", "ALL_REELS_STOPPED") = "Result_Show"
  /\ After(ReelMoves, "Result_Show", "WIN_PRESENTATION_STARTED") = "Win_Line_Animation"
  /\ After(ReelMoves, "Win_Line_Animation", "ROUND_COMPLETE") = "Idle"
<1> DEFINE Goes(s, e, t) == /\ <<s, e, t>> \in ReelMoves
                            /\ \A m \in ReelMoves : m[1] = s /\ m[2] = e => m[3] = t
<1>1. /\ Goes("Idle", "SPIN_ACCEPTED", "Spin_Start")
      /\ Goes("Spin_Start", "REELS_STARTED", "Spinning")
  BY DEF ReelMoves
<1>2. /\ Goes("Spinning", "RESULT_RECEIVED", "Spin_Stopping")
      /\ Goes("Spin_Stopping", "REEL_STOP_STARTED", "Reel_Stop_One_By_One")
  BY DEF ReelMoves
<1>3. /\ Goes("Reel_Stop_One_By_One", "ALL_REELS_STOPPED", "Result_Show")
      /\ Goes("Result_Show", "WIN_PRESENTATION_STARTED", "Win_Line_Animation")
      /\ Goes("Win_Line_Animation", "ROUND_COMPLETE", "Idle")
  BY DEF ReelMoves
<1>4. \A s, e, t : Goes(s, e, t) => After(ReelMoves, s, e) = t
  BY Moved
<1> HIDE DEF Goes
<1>5. QED
  BY <1>1, <1>2, <1>3, <1>4

LEMMA LaunchAfter ==
  After(LaunchMoves, "preloading", "PRELOAD_COMPLETE") = "intro"
<1>1. <<"preloading", "PRELOAD_COMPLETE", "intro">> \in LaunchMoves
  BY DEF LaunchMoves
<1>2. \A m \in LaunchMoves : m[1] = "preloading" /\ m[2] = "PRELOAD_COMPLETE" => m[3] = "intro"
  BY DEF LaunchMoves
<1>3. QED
  BY <1>1, <1>2, Moved

LEMMA LaunchAccepted ==
  ASSUME NEW c
  PROVE  /\ LaunchAccepts(c, "PRELOAD_COMPLETE") <=> c.launch = "preloading"
         /\ LaunchAccepts(c, "INTRO_COMPLETE") <=> c.launch = "intro" /\ c.hasSession
<1>1. \A m \in LaunchMoves : m[2] = "PRELOAD_COMPLETE" <=> m = <<"preloading", "PRELOAD_COMPLETE", "intro">>
  BY DEF LaunchMoves
<1>2. <<"preloading", "PRELOAD_COMPLETE", "intro">> \in LaunchMoves
  BY DEF LaunchMoves
<1>3. \A m \in LaunchMoves : m[2] # "INTRO_COMPLETE"
  BY DEF LaunchMoves
<1>4. QED
  BY <1>1, <1>2, <1>3 DEF LaunchAccepts

-----------------------------------------------------------------------------
(* Updates of the controller, field by field *)

Fields ==
  {"phase", "launch", "hasSession", "reel", "reelRound", "connection", "timedOut",
   "destroyed", "sessionFailed", "opened", "requests", "preview", "buffered",
   "visualStart", "lastRound", "barrier", "balance", "visible", "free", "controls",
   "freeTimer", "sessionTimer", "idle", "leases", "queue", "show"}

\* d differs from c in fields of F at most.
Only(c, d, F) == \A f \in Fields \ F : d[f] = c[f]

\* d is c after refreshUi().
Refreshed(c, d, g) ==
  /\ d.controls <=> CanSpin(d, g) /\ ~d.destroyed
  /\ d.freeTimer = IF ~CanSpin(d, g) \/ d.free = 0 THEN 0
                   ELSE IF c.freeTimer # 0 \/ d.destroyed THEN c.freeTimer ELSE d.free

LEMMA Bounds == MaxRounds \in Nat /\ 0 \in 0 .. MaxRounds
  BY AppAssumption

\* A field that is given a value of its type leaves a controller.
LEMMA Put ==
  ASSUME NEW c \in Controllers
  PROVE  /\ \A a \in Phases \union {"threw"} :
              [c EXCEPT !.phase = a] \in Controllers
         /\ \A a \in LaunchPhases :
              [c EXCEPT !.launch = a] \in Controllers
         /\ \A a \in BOOLEAN :
              /\ [c EXCEPT !.hasSession = a] \in Controllers
              /\ [c EXCEPT !.timedOut = a] \in Controllers
              /\ [c EXCEPT !.destroyed = a] \in Controllers
              /\ [c EXCEPT !.sessionFailed = a] \in Controllers
              /\ [c EXCEPT !.opened = a] \in Controllers
              /\ [c EXCEPT !.preview = a] \in Controllers
              /\ [c EXCEPT !.visualStart = a] \in Controllers
              /\ [c EXCEPT !.barrier = a] \in Controllers
              /\ [c EXCEPT !.controls = a] \in Controllers
              /\ [c EXCEPT !.sessionTimer = a] \in Controllers
         /\ \A a \in ReelStates \union {"threw"} :
              [c EXCEPT !.reel = a] \in Controllers
         /\ \A a \in 0 .. MaxRounds :
              /\ [c EXCEPT !.reelRound = a] \in Controllers
              /\ [c EXCEPT !.buffered = a] \in Controllers
              /\ [c EXCEPT !.lastRound = a] \in Controllers
              /\ [c EXCEPT !.balance = a] \in Controllers
              /\ [c EXCEPT !.visible = a] \in Controllers
              /\ [c EXCEPT !.free = a] \in Controllers
              /\ [c EXCEPT !.freeTimer = a] \in Controllers
         /\ \A a \in {"idle", "connecting", "online", "recovering", "offline"} :
              [c EXCEPT !.connection = a] \in Controllers
         /\ \A a \in 0 .. 2 :
              [c EXCEPT !.requests = a] \in Controllers
         /\ \A a \in {"none", "armed", "active"} :
              [c EXCEPT !.idle = a] \in Controllers
         /\ \A a \in SUBSET {"big-win", "free-spins", "wheel"} :
              [c EXCEPT !.leases = a] \in Controllers
         /\ \A a \in Seq(Rounds) :
              [c EXCEPT !.queue = a] \in Controllers
         /\ \A a \in [round : 0 .. MaxRounds, at : Stages] :
              [c EXCEPT !.show = a] \in Controllers
<1>1. ASSUME NEW a \in Phases \union {"threw"}
      PROVE  [c EXCEPT !.phase = a] \in Controllers
  BY DEF Controllers
<1>2. ASSUME NEW a \in LaunchPhases
      PROVE  [c EXCEPT !.launch = a] \in Controllers
  BY DEF Controllers
<1>3. ASSUME NEW a \in BOOLEAN
      PROVE  /\ [c EXCEPT !.hasSession = a] \in Controllers
             /\ [c EXCEPT !.timedOut = a] \in Controllers
             /\ [c EXCEPT !.destroyed = a] \in Controllers
  BY DEF Controllers
<1>4. ASSUME NEW a \in BOOLEAN
      PROVE  /\ [c EXCEPT !.sessionFailed = a] \in Controllers
             /\ [c EXCEPT !.opened = a] \in Controllers
             /\ [c EXCEPT !.preview = a] \in Controllers
  BY DEF Controllers
<1>5. ASSUME NEW a \in BOOLEAN
      PROVE  /\ [c EXCEPT !.visualStart = a] \in Controllers
             /\ [c EXCEPT !.barrier = a] \in Controllers
             /\ [c EXCEPT !.controls = a] \in Controllers
  BY DEF Controllers
<1>6. ASSUME NEW a \in BOOLEAN
      PROVE  [c EXCEPT !.sessionTimer = a] \in Controllers
  BY DEF Controllers
<1>7. ASSUME NEW a \in ReelStates \union {"threw"}
      PROVE  [c EXCEPT !.reel = a] \in Controllers
  BY DEF Controllers
<1>8. ASSUME NEW a \in 0 .. MaxRounds
      PROVE  /\ [c EXCEPT !.reelRound = a] \in Controllers
             /\ [c EXCEPT !.buffered = a] \in Controllers
             /\ [c EXCEPT !.lastRound = a] \in Controllers
  BY DEF Controllers
<1>9. ASSUME NEW a \in 0 .. MaxRounds
      PROVE  /\ [c EXCEPT !.balance = a] \in Controllers
             /\ [c EXCEPT !.visible = a] \in Controllers
             /\ [c EXCEPT !.free = a] \in Controllers
  BY DEF Controllers
<1>10. ASSUME NEW a \in 0 .. MaxRounds
      PROVE  [c EXCEPT !.freeTimer = a] \in Controllers
  BY DEF Controllers
<1>11. ASSUME NEW a \in {"idle", "connecting", "online", "recovering", "offline"}
      PROVE  [c EXCEPT !.connection = a] \in Controllers
  BY DEF Controllers
<1>12. ASSUME NEW a \in 0 .. 2
      PROVE  [c EXCEPT !.requests = a] \in Controllers
  BY DEF Controllers
<1>13. ASSUME NEW a \in {"none", "armed", "active"}
      PROVE  [c EXCEPT !.idle = a] \in Controllers
  BY DEF Controllers
<1>14. ASSUME NEW a \in SUBSET {"big-win", "free-spins", "wheel"}
      PROVE  [c EXCEPT !.leases = a] \in Controllers
  BY DEF Controllers
<1>15. ASSUME NEW a \in Seq(Rounds)
      PROVE  [c EXCEPT !.queue = a] \in Controllers
  BY DEF Controllers
<1>16. ASSUME NEW a \in [round : 0 .. MaxRounds, at : Stages]
      PROVE  [c EXCEPT !.show = a] \in Controllers
  BY DEF Controllers
<1>17. QED
  BY <1>1, <1>2, <1>3, <1>4, <1>5, <1>6, <1>7, <1>8, <1>9, <1>10, <1>11, <1>12, <1>13, <1>14, <1>15, <1>16

\* The script, as the behaviours may bring it.
LEMMA ScriptFacts ==
  ASSUME script \in {s.script : s \in Scenarios}
  PROVE  /\ script \in Seq(Outcomes) /\ Len(script) \in 1 .. MaxRounds
         /\ script[Len(script)].free = 0
         /\ \A r \in 1 .. Len(script) :
              /\ script[r].free \in 0 .. MaxRounds /\ script[r].big \in BOOLEAN
              /\ script[r].wheel \in BOOLEAN /\ script[r].wins \in BOOLEAN
         /\ \A r \in 0 .. Len(script) : FreeAfter(r) \in 0 .. MaxRounds
<1>1. PICK s \in Scenarios : script = s.script
  OBVIOUS
<1>2. s \in Scenario /\ Len(s.script) \in 1 .. MaxRounds /\ s.script[Len(s.script)].free = 0
  BY AppAssumption
<1>3. script \in Seq(Outcomes) /\ Len(script) \in 1 .. MaxRounds /\ script[Len(script)].free = 0
  BY <1>1, <1>2 DEF Scenario
<1>4. \A r \in 1 .. Len(script) : script[r] \in Outcomes
  BY <1>3
<1>5. \A o \in Outcomes : /\ o.free \in 0 .. MaxRounds /\ o.big \in BOOLEAN
                          /\ o.wheel \in BOOLEAN /\ o.wins \in BOOLEAN
  BY DEF Outcomes
<1>6. \A r \in 0 .. Len(script) : FreeAfter(r) \in 0 .. MaxRounds
  BY <1>3, <1>4, <1>5, Bounds DEF FreeAfter
<1>7. QED
  BY <1>3, <1>4, <1>5, <1>6

LEMMA RefreshFields ==
  ASSUME NEW c \in Controllers, NEW g \in Gateways, NEW d, d = refreshUi(c, g)
  PROVE  d \in Controllers /\ Only(c, d, {"controls", "freeTimer"}) /\ Refreshed(c, d, g)
<1> DEFINE can == CanSpin(c, g) /\ ~c.destroyed
           timer == IF ~CanSpin(c, g) \/ c.free = 0 THEN 0
                    ELSE IF c.freeTimer # 0 \/ c.destroyed THEN c.freeTimer ELSE c.free
<1>1. can \in BOOLEAN
  BY DEF CanSpin
<1>2. timer \in 0 .. MaxRounds
  BY Bounds DEF Controllers
<1>3. d = [c EXCEPT !.controls = can, !.freeTimer = timer]
  BY DEF refreshUi
<1>4. PICK a \in BOOLEAN, b \in 0 .. MaxRounds : a = can /\ b = timer
  BY <1>1, <1>2
<1> HIDE DEF can, timer
<1>5. d = [c EXCEPT !.controls = a, !.freeTimer = b]
  BY <1>3, <1>4
<1>6. [c EXCEPT !.controls = a, !.freeTimer = b] \in Controllers
  BY Put
<1>7. /\ Only(c, d, {"controls", "freeTimer"})
      /\ d.controls = can /\ d.freeTimer = timer
  BY <1>4, <1>5 DEF Controllers, Only, Fields
<1>8. CanSpin(d, g) = CanSpin(c, g) /\ d.free = c.free /\ d.destroyed = c.destroyed
  BY <1>7 DEF Only, Fields, CanSpin
<1>9. Refreshed(c, d, g)
  BY <1>7, <1>8 DEF Refreshed, can, timer
<1>10. QED
  BY <1>5, <1>6, <1>7, <1>9

LEMMA GameFields ==
  ASSUME NEW c \in Controllers, NEW e, NEW p \in Phases, After(GameMoves, c.phase, e) = p,
         NEW d, d = Game(c, e)
  PROVE  d \in Controllers /\ Only(c, d, {"phase"}) /\ d.phase = p
<1>1. d = [c EXCEPT !.phase = p]
  BY DEF Game
<1>2. [c EXCEPT !.phase = p] \in Controllers
  BY Put
<1>3. Only(c, d, {"phase"}) /\ d.phase = p
  BY <1>1 DEF Controllers, Only, Fields
<1>4. QED
  BY <1>1, <1>2, <1>3

LEMMA ReelFields ==
  ASSUME NEW c \in Controllers, NEW e, NEW p \in ReelStates, After(ReelMoves, c.reel, e) = p,
         NEW d, d = Reel(c, e)
  PROVE  /\ d \in Controllers /\ Only(c, d, {"reel", "reelRound"}) /\ d.reel = p
         /\ d.reelRound = IF e = "ROUND_COMPLETE" THEN 0 ELSE c.reelRound
<1>1. PICK r \in 0 .. MaxRounds : r = IF e = "ROUND_COMPLETE" THEN 0 ELSE c.reelRound
  BY Bounds DEF Controllers
<1>2. d = [c EXCEPT !.reel = p, !.reelRound = r]
  BY <1>1 DEF Reel, NoRound
<1>3. [c EXCEPT !.reel = p, !.reelRound = r] \in Controllers
  BY Put
<1>4. Only(c, d, {"reel", "reelRound"}) /\ d.reel = p /\ d.reelRound = r
  BY <1>2 DEF Controllers, Only, Fields
<1>5. QED
  BY <1>1, <1>2, <1>3, <1>4

LEMMA ReelResetFields ==
  ASSUME NEW c \in Controllers, NEW d, d = ReelReset(c)
  PROVE  /\ d \in Controllers /\ Only(c, d, {"reel", "reelRound"})
         /\ d.reel = "Idle" /\ d.reelRound = 0
<1>1. d = [c EXCEPT !.reel = "Idle", !.reelRound = 0]
  BY DEF ReelReset, NoRound
<1>2. [c EXCEPT !.reel = "Idle", !.reelRound = 0] \in Controllers
  BY Bounds, Put DEF ReelStates
<1>3. Only(c, d, {"reel", "reelRound"}) /\ d.reel = "Idle" /\ d.reelRound = 0
  BY <1>1 DEF Controllers, Only, Fields
<1>4. QED
  BY <1>1, <1>2, <1>3

-----------------------------------------------------------------------------
(* The callbacks *)

LEMMA StatusFields ==
  ASSUME NEW c \in Controllers, ~c.timedOut, NEW g,
         NEW st \in {"connecting", "online", "offline"}, NEW d, d = handleStatus(c, g, st)
  PROVE  d \in Controllers /\ Only(c, d, {"connection"}) /\ d.connection = st
<1>1. d = [c EXCEPT !.connection = st]
  BY DEF handleStatus
<1>2. [c EXCEPT !.connection = st] \in Controllers
  BY Put
<1>3. Only(c, d, {"connection"}) /\ d.connection = st
  BY <1>1 DEF Controllers, Only, Fields
<1>4. QED
  BY <1>1, <1>2, <1>3

Interruptible == Phases \ {"booting", "recovering", "failed", "presenting"}

LEMMA InterruptFields ==
  ASSUME NEW c \in Controllers, ~c.timedOut, NEW g \in Gateways, c.phase \in Phases,
         NEW d, d = handleStatus(c, g, "recovering")
  PROVE  /\ d \in Controllers /\ d.connection = "recovering"
         /\ c.phase \notin Interruptible => Only(c, d, {"connection"})
         /\ c.phase \in Interruptible =>
              /\ Only(c, d, {"connection", "phase", "controls", "freeTimer"})
              /\ d.phase = "recovering" /\ Refreshed(c, d, g)
<1> DEFINE seen == [c EXCEPT !.connection = "recovering"]
<1>1. seen \in Controllers
  BY Put
<1>2. Only(c, seen, {"connection"}) /\ seen.connection = "recovering"
  BY DEF Controllers, Only, Fields
<1>3. CASE c.phase \notin Interruptible
  <2>1. d = seen
    BY <1>3 DEF handleStatus, Interruptible
  <2>2. QED
    BY <1>1, <1>2, <1>3, <2>1
<1>4. CASE c.phase \in Interruptible
  <2>1. PICK e : e = Game(seen, "CONNECTION_LOST")
    OBVIOUS
  <2>2. d = refreshUi(e, g)
    BY <1>4, <2>1 DEF handleStatus, Interruptible
  <2> HIDE DEF seen
  <2>3. seen.phase = c.phase
    BY <1>2 DEF Only, Fields
  <2>4. After(GameMoves, seen.phase, "CONNECTION_LOST") = "recovering"
    BY <1>4, <2>3, GameAfter DEF Interruptible
  <2>5. e \in Controllers /\ Only(seen, e, {"phase"}) /\ e.phase = "recovering"
    BY <1>1, <2>1, <2>4, GameFields DEF Phases
  <2>6. d \in Controllers /\ Only(e, d, {"controls", "freeTimer"}) /\ Refreshed(e, d, g)
    BY <2>2, <2>5, RefreshFields
  <2>7. Only(c, d, {"connection", "phase", "controls", "freeTimer"})
    BY <1>2, <2>5, <2>6 DEF Only, Fields
  <2>8. d.connection = "recovering" /\ d.phase = "recovering" /\ e.freeTimer = c.freeTimer
    BY <1>2, <2>5, <2>6 DEF Only, Fields
  <2>9. QED
    BY <1>4, <2>6, <2>7, <2>8 DEF Refreshed
<1>5. QED
  BY <1>3, <1>4

LEMMA LaunchFailureFields ==
  ASSUME NEW c \in Controllers, NEW g \in Gateways, NEW d, d = completeLaunchFailure(c, g)
  PROVE  /\ d \in Controllers /\ Only(c, d, {"launch", "controls", "freeTimer"})
         /\ d.launch = "failed" /\ Refreshed(c, d, g)
<1>1. PICK e : e = [c EXCEPT !.launch = "failed"]
  OBVIOUS
<1>2. [c EXCEPT !.launch = "failed"] \in Controllers
  BY Put DEF LaunchPhases
<1>3. Only(c, e, {"launch"}) /\ e.launch = "failed"
  BY <1>1 DEF Controllers, Only, Fields
<1>4. d \in Controllers /\ Only(e, d, {"controls", "freeTimer"}) /\ Refreshed(e, d, g)
  BY <1>1, <1>2, RefreshFields DEF completeLaunchFailure
<1>5. Only(c, d, {"launch", "controls", "freeTimer"}) /\ d.launch = "failed"
        /\ e.freeTimer = c.freeTimer
  BY <1>3, <1>4 DEF Only, Fields
<1>6. QED
  BY <1>4, <1>5 DEF Refreshed

LEMMA RequestFields ==
  ASSUME NEW c \in Controllers, c.requests <= 1, NEW d, d = requestOperatorSession(c)
  PROVE  d \in Controllers /\ Only(c, d, {"requests"}) /\ d.requests = 1
<1>1. d = [c EXCEPT !.requests = 1]
  BY DEF requestOperatorSession, Controllers
<1>2. 1 \in 0 .. 2
  OBVIOUS
<1>3. [c EXCEPT !.requests = 1] \in Controllers
  BY <1>2, Put, Zenon
<1>4. Only(c, d, {"requests"}) /\ d.requests = 1
  BY <1>1 DEF Controllers, Only, Fields
<1>5. QED
  BY <1>1, <1>3, <1>4

\* SPIN_FAILED: the reels stand still and the player may ask again.
LEMMA RejectFields ==
  ASSUME NEW c \in Controllers, c.phase = "requesting", NEW g \in Gateways,
         NEW d, d = rejectSpinResult(c, g)
  PROVE  /\ d \in Controllers
         /\ Only(c, d, {"reel", "reelRound", "phase", "controls", "freeTimer"})
         /\ d.reel = "Idle" /\ d.reelRound = 0 /\ d.phase = "ready" /\ Refreshed(c, d, g)
<1>1. PICK e : e = ReelReset(c)
  OBVIOUS
<1>2. /\ e \in Controllers /\ Only(c, e, {"reel", "reelRound"})
      /\ e.reel = "Idle" /\ e.reelRound = 0
  BY <1>1, ReelResetFields
<1>3. PICK f : f = Game(e, "SPIN_FAILED")
  OBVIOUS
<1>4. e.phase = "requesting"
  BY <1>2 DEF Only, Fields
<1>5. f \in Controllers /\ Only(e, f, {"phase"}) /\ f.phase = "ready"
  BY <1>2, <1>3, <1>4, GameAfter, GameFields DEF Phases
<1>6. d = refreshUi(f, g)
  BY <1>1, <1>3 DEF rejectSpinResult
<1>7. d \in Controllers /\ Only(f, d, {"controls", "freeTimer"}) /\ Refreshed(f, d, g)
  BY <1>5, <1>6, RefreshFields
<1>8. /\ Only(c, d, {"reel", "reelRound", "phase", "controls", "freeTimer"})
      /\ d.reel = "Idle" /\ d.reelRound = 0 /\ d.phase = "ready" /\ f.freeTimer = c.freeTimer
  BY <1>2, <1>5, <1>7 DEF Only, Fields
<1>9. QED
  BY <1>7, <1>8 DEF Refreshed

LEMMA ClosedGateway ==
  ASSUME NEW g \in Gateways
  PROVE  Closed(g) \in Gateways /\ Closed(g).conn = "closed"
  BY Bounds DEF Closed, Gateways, NoRound

\* The first session never came: the launch fails and the operator is asked.
LEMMA InitialFailureFields ==
  ASSUME NEW c \in Controllers, ~c.timedOut, c.requests <= 1, NEW g \in Gateways,
         NEW d, d = failInitialRgsSession(c, g)
  PROVE  /\ d \in Controllers
         /\ Only(c, d, {"sessionFailed", "sessionTimer", "connection", "preview", "launch",
                        "controls", "freeTimer", "requests"})
         /\ d.sessionFailed = TRUE /\ d.sessionTimer = FALSE /\ d.connection = "offline"
         /\ d.preview = FALSE /\ d.launch = "failed" /\ d.requests = 1
         /\ Refreshed(c, d, Closed(g))
<1>1. PICK c1 : c1 = [c EXCEPT !.sessionFailed = TRUE, !.sessionTimer = FALSE]
  OBVIOUS
<1>2. [c EXCEPT !.sessionFailed = TRUE, !.sessionTimer = FALSE] \in Controllers
  BY Put
<1>3. /\ c1 \in Controllers /\ Only(c, c1, {"sessionFailed", "sessionTimer"})
      /\ c1.sessionFailed = TRUE /\ c1.sessionTimer = FALSE
  <2>1. c1 \in Controllers
    BY <1>1, <1>2
  <2>2. /\ Only(c, c1, {"sessionFailed", "sessionTimer"})
        /\ c1.sessionFailed = TRUE /\ c1.sessionTimer = FALSE
    BY <1>1 DEF Controllers, Only, Fields
  <2>3. QED
    BY <2>1, <2>2
<1>4. PICK c2 : c2 = handleStatus(c1, Closed(g), "offline")
  OBVIOUS
<1>5. c2 \in Controllers /\ Only(c1, c2, {"connection"}) /\ c2.connection = "offline"
  <2>1. ~c1.timedOut
    BY <1>3 DEF Only, Fields
  <2>2. QED
    BY <1>3, <1>4, <2>1, StatusFields
<1>6. PICK c3 : c3 = [c2 EXCEPT !.preview = FALSE]
  OBVIOUS
<1>7. [c2 EXCEPT !.preview = FALSE] \in Controllers
  BY <1>5, Put
<1>8. c3 \in Controllers /\ Only(c2, c3, {"preview"}) /\ c3.preview = FALSE
  <2>1. c3 \in Controllers
    BY <1>6, <1>7
  <2>2. Only(c2, c3, {"preview"}) /\ c3.preview = FALSE
    BY <1>5, <1>6 DEF Controllers, Only, Fields
  <2>3. QED
    BY <2>1, <2>2
<1>9. PICK c4 : c4 = completeLaunchFailure(c3, Closed(g))
  OBVIOUS
<1>10. /\ c4 \in Controllers /\ Only(c3, c4, {"launch", "controls", "freeTimer"})
       /\ c4.launch = "failed" /\ Refreshed(c3, c4, Closed(g))
  BY <1>8, <1>9, LaunchFailureFields, ClosedGateway
<1>11. d = requestOperatorSession(c4)
  BY <1>1, <1>4, <1>6, <1>9 DEF failInitialRgsSession
<1>12. c4.requests <= 1
  BY <1>3, <1>5, <1>8, <1>10 DEF Only, Fields
<1>13. d \in Controllers /\ Only(c4, d, {"requests"}) /\ d.requests = 1
  BY <1>10, <1>11, <1>12, RequestFields
<1>14. Only(c, c3, {"sessionFailed", "sessionTimer", "connection", "preview"})
         /\ c3.freeTimer = c.freeTimer
         /\ c3.sessionFailed = TRUE /\ c3.sessionTimer = FALSE /\ c3.connection = "offline"
         /\ c3.preview = FALSE
  BY <1>3, <1>5, <1>8 DEF Only, Fields
<1>15. /\ Only(c, d, {"sessionFailed", "sessionTimer", "connection", "preview", "launch",
                      "controls", "freeTimer", "requests"})
       /\ d.sessionFailed = TRUE /\ d.sessionTimer = FALSE /\ d.connection = "offline"
       /\ d.preview = FALSE /\ d.launch = "failed"
  BY <1>10, <1>13, <1>14 DEF Only, Fields
<1>16. Refreshed(c, d, Closed(g))
  <2>1. d.controls = c4.controls /\ d.freeTimer = c4.freeTimer /\ d.free = c4.free
          /\ d.destroyed = c4.destroyed
    BY <1>13 DEF Only, Fields
  <2>2. CanSpin(d, Closed(g)) = CanSpin(c4, Closed(g))
    BY <1>13 DEF Only, Fields, CanSpin
  <2>3. QED
    BY <1>10, <1>14, <2>1, <2>2 DEF Refreshed
<1>17. QED
  BY <1>13, <1>15, <1>16

LEMMA ErrorFields ==
  ASSUME NEW c \in Controllers, ~Ended(c), ~c.sessionFailed, c.requests <= 1,
         c.phase \in Phases, NEW g \in Gateways, NEW d, d = handleError(c, g)
  PROVE  /\ ~c.opened => d = failInitialRgsSession(c, g)
         /\ c.opened /\ c.phase = "requesting" => d = rejectSpinResult(c, g)
         /\ c.opened /\ c.phase \in {"connecting", "recovering"} =>
              /\ d \in Controllers /\ Only(c, d, {"phase", "launch", "controls", "freeTimer"})
              /\ d.phase = "failed" /\ d.launch = "failed" /\ Refreshed(c, d, g)
         /\ c.opened /\ c.phase \notin {"connecting", "recovering", "requesting"} => d = c
<1>1. ~c.opened => d = failInitialRgsSession(c, g)
  BY DEF handleError, Ended, requiresOperatorSessionRecovery
<1>2. c.opened /\ c.phase = "requesting" => d = rejectSpinResult(c, g)
  BY DEF handleError, Ended, requiresOperatorSessionRecovery, rejectSpinResult
<1>3. c.opened /\ c.phase \notin {"connecting", "recovering", "requesting"} => d = c
  BY DEF handleError, Ended, requiresOperatorSessionRecovery
<1>4. ASSUME c.opened, c.phase \in {"connecting", "recovering"}
      PROVE  /\ d \in Controllers /\ Only(c, d, {"phase", "launch", "controls", "freeTimer"})
             /\ d.phase = "failed" /\ d.launch = "failed" /\ Refreshed(c, d, g)
  <2>1. PICK e : e = Game(c, "FATAL_ERROR")
    OBVIOUS
  <2>2. e \in Controllers /\ Only(c, e, {"phase"}) /\ e.phase = "failed"
    BY <2>1, GameAfter, GameFields DEF Phases
  <2>3. d = completeLaunchFailure(e, g)
    BY <1>4, <2>1 DEF handleError, Ended, requiresOperatorSessionRecovery
  <2>4. /\ d \in Controllers /\ Only(e, d, {"launch", "controls", "freeTimer"})
        /\ d.launch = "failed" /\ Refreshed(e, d, g)
    BY <2>2, <2>3, LaunchFailureFields
  <2>5. /\ Only(c, d, {"phase", "launch", "controls", "freeTimer"})
        /\ d.phase = "failed" /\ e.freeTimer = c.freeTimer
    BY <2>2, <2>4 DEF Only, Fields
  <2>6. QED
    BY <2>4, <2>5 DEF Refreshed
<1>5. QED
  BY <1>1, <1>2, <1>3, <1>4

\* The operator is asked while no round is being requested.
LEMMA OperatorFields ==
  ASSUME NEW c \in Controllers, ~c.destroyed, c.requests <= 1, c.phase # "requesting",
         NEW g \in Gateways, NEW d, d = handleOperatorSessionRequired(c, g)
  PROVE  /\ d \in Controllers /\ Only(c, d, {"requests", "controls", "freeTimer"})
         /\ d.requests = 1 /\ Refreshed(c, d, g)
<1>1. PICK e : e = requestOperatorSession(c)
  OBVIOUS
<1>2. e \in Controllers /\ Only(c, e, {"requests"}) /\ e.requests = 1
  BY <1>1, RequestFields
<1>3. d = refreshUi(e, g)
  BY <1>1 DEF handleOperatorSessionRequired
<1>4. d \in Controllers /\ Only(e, d, {"controls", "freeTimer"}) /\ Refreshed(e, d, g)
  BY <1>2, <1>3, RefreshFields
<1>5. /\ Only(c, d, {"requests", "controls", "freeTimer"})
      /\ d.requests = 1 /\ e.freeTimer = c.freeTimer
  BY <1>2, <1>4 DEF Only, Fields
<1>6. QED
  BY <1>4, <1>5 DEF Refreshed

EndFields ==
  {"reel", "reelRound", "idle", "sessionTimer", "freeTimer", "preview", "buffered",
   "visualStart", "leases", "controls", "connection"}

LEMMA TimeoutFields ==
  ASSUME NEW c \in Controllers, c.phase \in Phases, NEW d, d = handleSessionTimeout(c)
  PROVE  /\ d \in Controllers /\ Only(c, d, EndFields \union {"phase", "timedOut"})
         /\ d.phase = "failed" /\ d.timedOut = TRUE /\ d.connection = "offline"
         /\ d.reel = "Idle" /\ d.reelRound = 0 /\ d.idle = "none" /\ d.sessionTimer = FALSE
         /\ d.freeTimer = 0 /\ d.preview = FALSE /\ d.buffered = 0 /\ d.visualStart = FALSE
         /\ d.leases = c.leases \ {"wheel", "free-spins"} /\ d.controls = FALSE
<1>1. PICK c1 : c1 = [c EXCEPT !.idle = "none"]
  OBVIOUS
<1>2. c1 \in Controllers
  <2>1. [c EXCEPT !.idle = "none"] \in Controllers
    BY Put
  <2>2. QED
    BY <1>1, <2>1
<1>3. Only(c, c1, {"idle"}) /\ c1.idle = "none"
  BY <1>1 DEF Controllers, Only, Fields
<1>4. PICK c2 : c2 = ReelReset(c1)
  OBVIOUS
<1>5. /\ c2 \in Controllers /\ Only(c1, c2, {"reel", "reelRound"})
      /\ c2.reel = "Idle" /\ c2.reelRound = 0
  BY <1>2, <1>4, ReelResetFields
<1>6. PICK c3 : c3 = Game(c2, "FATAL_ERROR")
  OBVIOUS
<1>7. c2.phase = c.phase
  BY <1>3, <1>5 DEF Only, Fields
<1>8. c3 \in Controllers /\ Only(c2, c3, {"phase"}) /\ c3.phase = "failed"
  BY <1>5, <1>6, <1>7, GameAfter, GameFields DEF Phases
<1>9. PICK l \in SUBSET {"big-win", "free-spins", "wheel"} : l = c3.leases \ {"wheel", "free-spins"}
  BY <1>8 DEF Controllers
<1>10. d = [c3 EXCEPT !.timedOut = TRUE, !.connection = "offline", !.sessionTimer = FALSE,
              !.freeTimer = 0, !.preview = FALSE, !.buffered = 0, !.visualStart = FALSE,
              !.leases = l, !.controls = FALSE]
  BY <1>1, <1>4, <1>6, <1>9 DEF handleSessionTimeout, stopPostWinIdleRepeat, NoRound
<1>11. PICK c4 : c4 = [c3 EXCEPT !.timedOut = TRUE, !.connection = "offline",
                                 !.sessionTimer = FALSE, !.freeTimer = 0]
  OBVIOUS
<1>12. c4 \in Controllers
  <2>1. [c3 EXCEPT !.timedOut = TRUE, !.connection = "offline",
                   !.sessionTimer = FALSE, !.freeTimer = 0] \in Controllers
    BY <1>8, Bounds, Put
  <2>2. QED
    BY <1>11, <2>1
<1>13. d = [c4 EXCEPT !.preview = FALSE, !.buffered = 0, !.visualStart = FALSE,
                      !.leases = l, !.controls = FALSE]
  BY <1>10, <1>11
<1>14. d \in Controllers
  <2>1. [c4 EXCEPT !.preview = FALSE, !.buffered = 0, !.visualStart = FALSE,
                   !.leases = l, !.controls = FALSE] \in Controllers
    BY <1>12, Bounds, Put
  <2>2. QED
    BY <1>13, <2>1
<1>15. /\ Only(c3, d, EndFields \union {"timedOut"})
       /\ d.timedOut = TRUE /\ d.connection = "offline" /\ d.sessionTimer = FALSE
       /\ d.freeTimer = 0 /\ d.preview = FALSE /\ d.buffered = 0 /\ d.visualStart = FALSE
       /\ d.leases = l /\ d.controls = FALSE /\ d.reel = c3.reel /\ d.reelRound = c3.reelRound
       /\ d.idle = c3.idle
  BY <1>8, <1>10 DEF Controllers, Only, Fields, EndFields
<1>16. /\ Only(c, c3, {"idle", "reel", "reelRound", "phase"}) /\ c3.leases = c.leases
       /\ c3.reel = "Idle" /\ c3.reelRound = 0 /\ c3.idle = "none"
  BY <1>3, <1>5, <1>8 DEF Only, Fields
<1>17. Only(c, d, EndFields \union {"phase", "timedOut"}) /\ d.phase = "failed"
  BY <1>8, <1>15, <1>16 DEF Only, Fields, EndFields
<1>18. QED
  BY <1>9, <1>14, <1>15, <1>16, <1>17

LEMMA DestroyedFields ==
  ASSUME NEW c \in Controllers, NEW d, d = Destroyed(c)
  PROVE  /\ d \in Controllers /\ Only(c, d, EndFields \union {"destroyed"})
         /\ d.destroyed = TRUE
         /\ d.connection = IF c.timedOut THEN c.connection ELSE "offline"
         /\ d.reel = "Idle" /\ d.reelRound = 0 /\ d.idle = "none" /\ d.sessionTimer = FALSE
         /\ d.freeTimer = 0 /\ d.preview = FALSE /\ d.buffered = 0 /\ d.visualStart = FALSE
         /\ d.leases = c.leases \ {"wheel", "free-spins"} /\ d.controls = FALSE
<1>1. PICK c1 : c1 = [c EXCEPT !.idle = "none"]
  OBVIOUS
<1>2. c1 \in Controllers
  <2>1. [c EXCEPT !.idle = "none"] \in Controllers
    BY Put
  <2>2. QED
    BY <1>1, <2>1
<1>3. Only(c, c1, {"idle"}) /\ c1.idle = "none"
  BY <1>1 DEF Controllers, Only, Fields
<1>4. PICK c2 : c2 = ReelReset(c1)
  OBVIOUS
<1>5. /\ c2 \in Controllers /\ Only(c1, c2, {"reel", "reelRound"})
      /\ c2.reel = "Idle" /\ c2.reelRound = 0
  BY <1>2, <1>4, ReelResetFields
<1>6. PICK l \in SUBSET {"big-win", "free-spins", "wheel"} : l = c2.leases \ {"wheel", "free-spins"}
  BY <1>5 DEF Controllers
<1>7. PICK n \in {"idle", "connecting", "online", "recovering", "offline"} :
        n = IF c.timedOut THEN c2.connection ELSE "offline"
  BY <1>5 DEF Controllers
<1>8. d = [c2 EXCEPT !.destroyed = TRUE, !.sessionTimer = FALSE, !.preview = FALSE,
              !.buffered = 0, !.visualStart = FALSE, !.freeTimer = 0, !.connection = n,
              !.leases = l, !.controls = FALSE]
  BY <1>1, <1>4, <1>6, <1>7 DEF Destroyed, stopPostWinIdleRepeat, NoRound
<1>9. PICK c4 : c4 = [c2 EXCEPT !.destroyed = TRUE, !.sessionTimer = FALSE, !.preview = FALSE,
                                !.buffered = 0]
  OBVIOUS
<1>10. c4 \in Controllers
  <2>1. [c2 EXCEPT !.destroyed = TRUE, !.sessionTimer = FALSE, !.preview = FALSE,
                   !.buffered = 0] \in Controllers
    BY <1>5, Bounds, Put
  <2>2. QED
    BY <1>9, <2>1
<1>11. d = [c4 EXCEPT !.visualStart = FALSE, !.freeTimer = 0, !.connection = n,
                      !.leases = l, !.controls = FALSE]
  BY <1>8, <1>9
<1>12. d \in Controllers
  <2>1. [c4 EXCEPT !.visualStart = FALSE, !.freeTimer = 0, !.connection = n,
                   !.leases = l, !.controls = FALSE] \in Controllers
    BY <1>10, Bounds, Put
  <2>2. QED
    BY <1>11, <2>1
<1>13. /\ Only(c2, d, EndFields \union {"destroyed"})
       /\ d.destroyed = TRUE /\ d.connection = n /\ d.sessionTimer = FALSE
       /\ d.freeTimer = 0 /\ d.preview = FALSE /\ d.buffered = 0 /\ d.visualStart = FALSE
       /\ d.leases = l /\ d.controls = FALSE /\ d.reel = c2.reel /\ d.reelRound = c2.reelRound
       /\ d.idle = c2.idle
  <2>1. DOMAIN c2 = Fields
    BY <1>5 DEF Controllers, Fields
  <2>2. Only(c2, d, EndFields \union {"destroyed"})
    BY <1>8, <2>1 DEF Only, Fields, EndFields
  <2>3. /\ d.destroyed = TRUE /\ d.connection = n /\ d.sessionTimer = FALSE
        /\ d.freeTimer = 0 /\ d.preview = FALSE /\ d.buffered = 0 /\ d.visualStart = FALSE
        /\ d.leases = l /\ d.controls = FALSE /\ d.reel = c2.reel /\ d.reelRound = c2.reelRound
        /\ d.idle = c2.idle
    BY <1>8, <2>1 DEF Fields
  <2>4. QED
    BY <2>2, <2>3
<1>14. /\ Only(c, c2, {"idle", "reel", "reelRound"}) /\ c2.leases = c.leases
       /\ c2.reel = "Idle" /\ c2.reelRound = 0 /\ c2.idle = "none"
       /\ c2.timedOut = c.timedOut /\ c2.connection = c.connection
  BY <1>3, <1>5 DEF Only, Fields
<1>15. Only(c, d, EndFields \union {"destroyed"})
  BY <1>13, <1>14 DEF Only, Fields, EndFields
<1>16. QED
  BY <1>6, <1>7, <1>12, <1>13, <1>14, <1>15

LEMMA Shape ==
  ASSUME NEW c \in Controllers
  PROVE  DOMAIN c = Fields
  BY DEF Controllers, Fields

SessionChanges ==
  {"sessionTimer", "opened", "balance", "free", "visible", "phase", "hasSession",
   "controls", "freeTimer"}

LEMMA SessionFields ==
  ASSUME NEW c \in Controllers, ~c.timedOut, ~c.sessionFailed, c.launch # "waiting-session",
         c.phase \in Phases, NEW g \in Gateways,
         script \in {s.script : s \in Scenarios}, g.known <= Len(script),
         NEW d, d = handleSession(c, g)
  PROVE  /\ d \in Controllers /\ Only(c, d, SessionChanges)
         /\ d.sessionTimer = FALSE /\ d.opened = TRUE /\ d.hasSession = TRUE
         /\ d.balance = g.known
         /\ d.free = IF g.pending # 0 \/ c.buffered # 0 \/ c.phase = "presenting"
                     THEN c.free ELSE FreeAfter(g.known)
         /\ d.visible = IF g.pending # 0 \/ c.buffered # 0 \/ c.barrier
                        THEN c.visible ELSE g.known
         /\ d.phase = IF c.phase \notin {"connecting", "recovering"} THEN c.phase
                      ELSE IF g.pending = 0 THEN "ready" ELSE "requesting"
         /\ Refreshed(c, d, g)
<1> DEFINE pendingRound == g.pending # 0 \/ c.buffered # 0
<1>1. g.known \in 0 .. MaxRounds /\ g.known \in 0 .. Len(script)
  BY ScriptFacts DEF Gateways
<1>2. PICK f \in 0 .. MaxRounds :
        f = IF pendingRound \/ c.phase = "presenting" THEN c.free ELSE FreeAfter(g.known)
  BY <1>1, ScriptFacts DEF Controllers
<1>3. PICK v \in 0 .. MaxRounds :
        v = IF pendingRound \/ c.barrier THEN c.visible ELSE g.known
  BY <1>1 DEF Controllers
<1>4. PICK seen : seen = [c EXCEPT !.sessionTimer = FALSE, !.opened = TRUE,
                                   !.balance = g.known, !.free = f, !.visible = v]
  OBVIOUS
<1>5. seen \in Controllers
  <2>1. [c EXCEPT !.sessionTimer = FALSE, !.opened = TRUE, !.balance = g.known, !.free = f,
                  !.visible = v] \in Controllers
    BY <1>1, Put
  <2>2. QED
    BY <1>4, <2>1
<1>6. /\ Only(c, seen, {"sessionTimer", "opened", "balance", "free", "visible"})
      /\ seen.sessionTimer = FALSE /\ seen.opened = TRUE /\ seen.balance = g.known
      /\ seen.free = f /\ seen.visible = v
  BY <1>4, Shape DEF Only, Fields
<1> DEFINE p == IF c.phase \notin {"connecting", "recovering"} THEN c.phase
                ELSE IF g.pending = 0 THEN "ready" ELSE "requesting"
<1>7. PICK entered : entered = IF c.phase \notin {"connecting", "recovering"} THEN seen
                 ELSE IF g.pending = 0 THEN Game(seen, "SESSION_OPENED")
                 ELSE Game(Game(seen, "SESSION_OPENED"), "SPIN_REQUESTED")
  OBVIOUS
<1>8. entered \in Controllers /\ Only(seen, entered, {"phase"}) /\ entered.phase = p
  <2>1. seen.phase = c.phase
    BY <1>6 DEF Only, Fields
  <2>2. CASE c.phase \notin {"connecting", "recovering"}
    BY <1>5, <1>7, <2>1, <2>2 DEF Only, Fields
  <2>3. CASE c.phase \in {"connecting", "recovering"}
    <3>1. PICK e : e = Game(seen, "SESSION_OPENED")
      OBVIOUS
    <3>2. e \in Controllers /\ Only(seen, e, {"phase"}) /\ e.phase = "ready"
      BY <1>5, <2>1, <2>3, <3>1, GameAfter, GameFields DEF Phases
    <3>3. CASE g.pending = 0
      BY <1>7, <2>3, <3>1, <3>2, <3>3
    <3>4. CASE g.pending # 0
      <4>1. entered = Game(e, "SPIN_REQUESTED")
        BY <1>7, <2>3, <3>1, <3>4
      <4>2. entered \in Controllers /\ Only(e, entered, {"phase"}) /\ entered.phase = "requesting"
        BY <3>2, <4>1, GameAfter, GameFields DEF Phases
      <4>3. QED
        BY <2>3, <3>2, <3>4, <4>2 DEF Only, Fields
    <3>5. QED
      BY <3>3, <3>4
  <2>4. QED
    BY <2>2, <2>3
<1>9. PICK up : up = [entered EXCEPT !.hasSession = TRUE]
  OBVIOUS
<1>10. up \in Controllers /\ Only(entered, up, {"hasSession"}) /\ up.hasSession = TRUE
  <2>1. [entered EXCEPT !.hasSession = TRUE] \in Controllers
    BY <1>8, Put
  <2>2. Only(entered, up, {"hasSession"}) /\ up.hasSession = TRUE
    BY <1>8, <1>9, Shape DEF Only, Fields
  <2>3. QED
    BY <1>9, <2>1, <2>2
<1>11. up = SessionReady(entered)
  <2>1. entered.launch # "waiting-session"
    BY <1>6, <1>8 DEF Only, Fields
  <2>2. [entered EXCEPT !.launch = entered.launch] = entered
    BY <1>8 DEF Controllers
  <2>3. SessionReady(entered) = [entered EXCEPT !.hasSession = TRUE, !.launch = entered.launch]
    BY <2>1 DEF SessionReady
  <2>4. QED
    BY <1>8, <1>9, <2>3 DEF Controllers
<1>12. d = refreshUi(up, g)
  <2>1. pendingRound = (g.pending # 0 \/ c.buffered # 0)
    OBVIOUS
  <2>2. seen = [c EXCEPT !.sessionTimer = FALSE, !.opened = TRUE, !.balance = g.known,
                 !.free = IF pendingRound \/ c.phase = "presenting" THEN c.free
                          ELSE FreeAfter(g.known),
                 !.visible = IF pendingRound \/ c.barrier THEN c.visible ELSE g.known]
    BY <1>2, <1>3, <1>4
  <2>3. QED
    BY <1>7, <1>11, <2>2 DEF handleSession, NoRound
<1>13. d \in Controllers /\ Only(up, d, {"controls", "freeTimer"}) /\ Refreshed(up, d, g)
  BY <1>10, <1>12, RefreshFields
<1>14. /\ Only(c, up, SessionChanges \ {"controls", "freeTimer"})
       /\ up.sessionTimer = FALSE /\ up.opened = TRUE /\ up.balance = g.known
       /\ up.free = f /\ up.visible = v /\ up.phase = p /\ up.hasSession = TRUE
  BY <1>6, <1>8, <1>10 DEF Only, Fields, SessionChanges
<1>15. /\ Only(c, d, SessionChanges) /\ up.freeTimer = c.freeTimer
       /\ d.sessionTimer = FALSE /\ d.opened = TRUE /\ d.balance = g.known
       /\ d.free = f /\ d.visible = v /\ d.phase = p /\ d.hasSession = TRUE
  BY <1>13, <1>14 DEF Only, Fields, SessionChanges
<1>16. Refreshed(c, d, g)
  BY <1>13, <1>15 DEF Refreshed
<1>17. QED
  BY <1>2, <1>3, <1>13, <1>15, <1>16

AcceptChanges ==
  {"leases", "reel", "reelRound", "lastRound", "phase", "barrier", "balance", "free",
   "controls", "freeTimer", "queue"}

\* The packages that the presentation of round r may need.
Primed(r) == (IF Base(r - 1) /\ Base(r) THEN {} ELSE {"free-spins"})
               \union (IF script[r].wheel THEN {"wheel"} ELSE {})

\* d is c with round r on its way to the screen.
Presents(c, d, r) ==
  /\ d \in Controllers /\ Only(c, d, AcceptChanges)
  /\ d.reel = "Spin_Stopping" /\ d.reelRound = r /\ d.lastRound = r
  /\ d.phase = "presenting" /\ d.barrier = TRUE /\ d.balance = r
  /\ d.free = script[r].free /\ d.queue = <<r>> /\ d.controls = FALSE /\ d.freeTimer = 0
  /\ d.leases = c.leases \union Primed(r)

LEMMA AcceptFields ==
  ASSUME NEW c \in Controllers, NEW r \in Rounds, c.phase = "requesting", r # c.lastRound,
         c.reel = "Spinning", c.reelRound = r, c.queue = <<>>, NEW g \in Gateways,
         script \in {s.script : s \in Scenarios}, r <= Len(script),
         NEW d, d = acceptSpinResult(c, g, r)
  PROVE  Presents(c, d, r)
<1>1. r \in 1 .. Len(script) /\ r \in 0 .. MaxRounds
  BY ScriptFacts DEF Rounds
<1>2. Primed(r) \subseteq {"big-win", "free-spins", "wheel"}
  BY DEF Primed
<1>3. PICK l \in SUBSET {"big-win", "free-spins", "wheel"} : l = c.leases \union Primed(r)
  <2>1. c.leases \in SUBSET {"big-win", "free-spins", "wheel"}
    BY DEF Controllers
  <2>2. QED
    BY <1>2, <2>1, Zenon
<1>4. PICK c1 : c1 = [c EXCEPT !.leases = l]
  OBVIOUS
<1>5. c1 \in Controllers /\ Only(c, c1, {"leases"}) /\ c1.leases = l
  <2>1. [c EXCEPT !.leases = l] \in Controllers
    BY Put
  <2>2. Only(c, c1, {"leases"}) /\ c1.leases = l
    BY <1>4, Shape DEF Only, Fields
  <2>3. QED
    BY <1>4, <2>1, <2>2
<1>6. c1 = primeAuthoritativeFeatureAssetLeases(c, r)
  <2>1. c1 = [c EXCEPT !.leases = c.leases \union Primed(r)]
    BY <1>3, <1>4
  <2>2. c.leases \union Primed(r)
          = c.leases \union (IF Base(r - 1) /\ Base(r) THEN {} ELSE {"free-spins"})
                     \union (IF script[r].wheel THEN {"wheel"} ELSE {})
    BY DEF Primed
  <2>3. QED
    BY <2>1, <2>2 DEF primeAuthoritativeFeatureAssetLeases
<1>7. PICK c2 : c2 = Reel(c1, "RESULT_RECEIVED")
  OBVIOUS
<1>8. /\ c2 \in Controllers /\ Only(c1, c2, {"reel", "reelRound"})
      /\ c2.reel = "Spin_Stopping" /\ c2.reelRound = r
  <2>1. c1.reel = "Spinning" /\ c1.reelRound = r
    BY <1>5 DEF Only, Fields
  <2>2. QED
    BY <1>5, <1>7, <2>1, ReelAfter, ReelFields DEF ReelStates
<1>9. PICK c3 : c3 = [c2 EXCEPT !.lastRound = r]
  OBVIOUS
<1>10. c3 \in Controllers /\ Only(c2, c3, {"lastRound"}) /\ c3.lastRound = r
  <2>1. [c2 EXCEPT !.lastRound = r] \in Controllers
    BY <1>1, <1>8, Put
  <2>2. Only(c2, c3, {"lastRound"}) /\ c3.lastRound = r
    BY <1>8, <1>9, Shape DEF Only, Fields
  <2>3. QED
    BY <1>9, <2>1, <2>2
<1>11. PICK c4 : c4 = Game(c3, "SPIN_RESULT")
  OBVIOUS
<1>12. c4 \in Controllers /\ Only(c3, c4, {"phase"}) /\ c4.phase = "presenting"
  <2>1. c3.phase = "requesting"
    BY <1>5, <1>8, <1>10 DEF Only, Fields
  <2>2. QED
    BY <1>10, <1>11, <2>1, GameAfter, GameFields DEF Phases
<1>13. PICK f \in 0 .. MaxRounds : f = script[r].free
  BY <1>1, ScriptFacts
<1>14. PICK c5 : c5 = [c4 EXCEPT !.barrier = TRUE, !.balance = r, !.free = f]
  OBVIOUS
<1>15. /\ c5 \in Controllers /\ Only(c4, c5, {"barrier", "balance", "free"})
       /\ c5.barrier = TRUE /\ c5.balance = r /\ c5.free = f
  <2>1. [c4 EXCEPT !.barrier = TRUE, !.balance = r, !.free = f] \in Controllers
    BY <1>1, <1>12, Put
  <2>2. /\ Only(c4, c5, {"barrier", "balance", "free"})
        /\ c5.barrier = TRUE /\ c5.balance = r /\ c5.free = f
    BY <1>12, <1>14, Shape DEF Only, Fields
  <2>3. QED
    BY <1>14, <2>1, <2>2
<1>16. PICK c6 : c6 = refreshUi(c5, g)
  OBVIOUS
<1>17. c6 \in Controllers /\ Only(c5, c6, {"controls", "freeTimer"}) /\ Refreshed(c5, c6, g)
  BY <1>15, <1>16, RefreshFields
<1>18. /\ Only(c, c6, AcceptChanges \ {"queue"}) /\ c6.reel = "Spin_Stopping"
       /\ c6.reelRound = r /\ c6.lastRound = r /\ c6.phase = "presenting"
       /\ c6.barrier = TRUE /\ c6.balance = r /\ c6.free = f /\ c6.leases = l
       /\ c6.queue = <<>>
  BY <1>5, <1>8, <1>10, <1>12, <1>15, <1>17 DEF Only, Fields, AcceptChanges
<1>19. c6.controls = FALSE /\ c6.freeTimer = 0
  BY <1>17, <1>18 DEF Refreshed, CanSpin
<1>20. d = [c6 EXCEPT !.queue = <<r>>]
  <2>1. ~(r = c.lastRound \/ c.phase # "requesting")
    OBVIOUS
  <2>2. d = [c6 EXCEPT !.queue = Append(c6.queue, r)]
    BY <2>1, <1>6, <1>7, <1>9, <1>11, <1>13, <1>14, <1>16 DEF acceptSpinResult
  <2>3. Append(c6.queue, r) = <<r>>
    BY <1>18
  <2>4. QED
    BY <2>2, <2>3
<1>21. d \in Controllers
  <2>1. <<r>> \in Seq(Rounds)
    OBVIOUS
  <2>2. [c6 EXCEPT !.queue = <<r>>] \in Controllers
    BY <1>17, <2>1, Put
  <2>3. QED
    BY <1>20, <2>2
<1>22. Only(c6, d, {"queue"}) /\ d.queue = <<r>>
  BY <1>17, <1>20, Shape DEF Only, Fields
<1>23. /\ Only(c, d, AcceptChanges) /\ d.reel = "Spin_Stopping"
       /\ d.reelRound = r /\ d.lastRound = r /\ d.phase = "presenting"
       /\ d.barrier = TRUE /\ d.balance = r /\ d.free = f /\ d.leases = l
       /\ d.controls = FALSE /\ d.freeTimer = 0
  BY <1>18, <1>19, <1>22 DEF Only, Fields, AcceptChanges
<1>24. QED
  BY <1>3, <1>13, <1>21, <1>22, <1>23 DEF Presents

\* A round that starts on reels that stand still.
ReelsStart(c, d, r) ==
  /\ d \in Controllers /\ Only(c, d, {"reel", "reelRound", "idle", "freeTimer"})
  /\ d.reel = "Spinning" /\ d.reelRound = r /\ d.idle = "none" /\ d.freeTimer = 0

LEMMA RecoveredFields ==
  ASSUME NEW c \in Controllers, NEW r \in Rounds, c.reel = "Idle", NEW d,
         d = Reel(beginRecoveredSpinPresentation(
                    Reel([c EXCEPT !.reelRound = r], "SPIN_ACCEPTED")), "REELS_STARTED")
  PROVE  ReelsStart(c, d, r)
<1>1. r \in 0 .. MaxRounds
  BY Bounds DEF Rounds
<1>2. PICK c1 : c1 = [c EXCEPT !.reelRound = r]
  OBVIOUS
<1>3. c1 \in Controllers /\ Only(c, c1, {"reelRound"}) /\ c1.reelRound = r
  <2>1. [c EXCEPT !.reelRound = r] \in Controllers
    BY <1>1, Put
  <2>2. Only(c, c1, {"reelRound"}) /\ c1.reelRound = r
    BY <1>2, Shape DEF Only, Fields
  <2>3. QED
    BY <1>2, <2>1, <2>2
<1>4. PICK c2 : c2 = Reel(c1, "SPIN_ACCEPTED")
  OBVIOUS
<1>5. c1.reel = "Idle"
  BY <1>3 DEF Only, Fields
<1>6. /\ c2 \in Controllers /\ Only(c1, c2, {"reel", "reelRound"}) /\ c2.reel = "Spin_Start"
      /\ c2.reelRound = r
  BY <1>3, <1>4, <1>5, ReelAfter, ReelFields DEF ReelStates
<1>7. PICK c3 : c3 = [c2 EXCEPT !.idle = "none", !.freeTimer = 0]
  OBVIOUS
<1>8. /\ c3 \in Controllers /\ Only(c2, c3, {"idle", "freeTimer"})
      /\ c3.idle = "none" /\ c3.freeTimer = 0
  <2>1. [c2 EXCEPT !.idle = "none", !.freeTimer = 0] \in Controllers
    BY <1>6, Bounds, Put
  <2>2. Only(c2, c3, {"idle", "freeTimer"}) /\ c3.idle = "none" /\ c3.freeTimer = 0
    BY <1>6, <1>7, Shape DEF Only, Fields
  <2>3. QED
    BY <1>7, <2>1, <2>2
<1>9. d = Reel(c3, "REELS_STARTED")
  BY <1>2, <1>4, <1>7 DEF beginRecoveredSpinPresentation, stopPostWinIdleRepeat
<1>10. c3.reel = "Spin_Start" /\ c3.reelRound = r
  BY <1>6, <1>8 DEF Only, Fields
<1>11. /\ d \in Controllers /\ Only(c3, d, {"reel", "reelRound"}) /\ d.reel = "Spinning"
       /\ d.reelRound = r
  BY <1>8, <1>9, <1>10, ReelAfter, ReelFields DEF ReelStates
<1>12. QED
  BY <1>3, <1>6, <1>8, <1>11 DEF Only, Fields, ReelsStart

\* The controller takes round r: it is to be presented next.
Accepted(c, d, r) ==
  /\ d \in Controllers /\ Only(c, d, AcceptChanges \union {"buffered", "visualStart", "idle"})
  /\ d.buffered = 0 /\ d.visualStart = FALSE /\ d.idle = "none"
  /\ d.reel = "Spin_Stopping" /\ d.reelRound = r /\ d.lastRound = r
  /\ d.phase = "presenting" /\ d.barrier = TRUE /\ d.balance = r
  /\ d.free = script[r].free /\ d.queue = <<r>> /\ d.controls = FALSE /\ d.freeTimer = 0
  /\ d.leases = c.leases \union Primed(r)

\* What the reels do while a round waits for its result.
ReelsReadyFor(c, r) ==
  \/ c.visualStart /\ c.reel = "Idle"
  \/ ~c.visualStart /\ c.reel = "Spinning" /\ c.reelRound = r /\ c.idle = "none"

\* A result whose round is no longer requested leaves the reels spinning.
LeftSpinning(c, d) ==
  /\ d \in Controllers
  /\ Only(c, d, {"reel", "reelRound", "idle", "freeTimer", "buffered", "visualStart"})
  /\ d.reel = "Spinning" /\ d.idle = "none"
  /\ d.freeTimer = 0 /\ d.buffered = 0 /\ d.visualStart = FALSE

LEMMA ReleaseFields ==
  ASSUME NEW c \in Controllers, c.queue = <<>>, ~c.destroyed, NEW g \in Gateways,
         script \in {s.script : s \in Scenarios}, NEW d,
         d = releaseBufferedRecoveredSpinResult(c, g)
  PROVE  /\ c.launch # "ready" \/ c.buffered = 0 => d = c
         /\ (/\ c.launch = "ready" /\ c.buffered # 0 /\ c.phase = "requesting"
             /\ c.buffered # c.lastRound /\ c.buffered <= Len(script)
             /\ ReelsReadyFor(c, c.buffered)) => Accepted(c, d, c.buffered)
         /\ (/\ c.launch = "ready" /\ c.buffered # 0 /\ c.phase = "ready"
             /\ c.visualStart /\ c.reel = "Idle") => LeftSpinning(c, d)
<1>1. c.launch # "ready" \/ c.buffered = 0 => d = c
  BY DEF releaseBufferedRecoveredSpinResult, NoRound
<1> PICK r : r = c.buffered
  OBVIOUS
<1> SUFFICES ASSUME c.launch = "ready", r # 0
             PROVE  /\ (/\ c.phase = "requesting" /\ r # c.lastRound /\ r <= Len(script)
                        /\ ReelsReadyFor(c, r)) => Accepted(c, d, r)
                    /\ (/\ c.phase = "ready" /\ c.visualStart
                        /\ c.reel = "Idle") => LeftSpinning(c, d)
  BY <1>1, Zenon
<1>2. r \in Rounds
  BY Bounds DEF Controllers, Rounds
<1>3. PICK free : free = [c EXCEPT !.buffered = 0, !.visualStart = FALSE]
  OBVIOUS
<1>4. /\ free \in Controllers /\ Only(c, free, {"buffered", "visualStart"})
      /\ free.buffered = 0 /\ free.visualStart = FALSE
  <2>1. [c EXCEPT !.buffered = 0, !.visualStart = FALSE] \in Controllers
    BY Bounds, Put
  <2>2. /\ Only(c, free, {"buffered", "visualStart"})
        /\ free.buffered = 0 /\ free.visualStart = FALSE
    BY <1>3, Shape DEF Only, Fields
  <2>3. QED
    BY <1>3, <2>1, <2>2
<1>5. PICK started : started =
        Reel(beginRecoveredSpinPresentation(
               Reel([free EXCEPT !.reelRound = r], "SPIN_ACCEPTED")), "REELS_STARTED")
  OBVIOUS
<1>6. /\ ~c.visualStart => d = acceptSpinResult(free, g, r)
      /\ c.visualStart /\ c.reel = "Idle" => d = acceptSpinResult(started, g, r)
  BY <1>3, <1>5 DEF releaseBufferedRecoveredSpinResult, NoRound
<1>7. c.reel = "Idle" => ReelsStart(free, started, r)
  <2>1. free.reel = c.reel
    BY <1>4 DEF Only, Fields
  <2>2. QED
    BY <1>2, <1>4, <1>5, <2>1, RecoveredFields
<1>8. ASSUME c.phase = "requesting", r # c.lastRound, r <= Len(script), ReelsReadyFor(c, r)
      PROVE  Accepted(c, d, r)
  <2>1. PICK e : e = IF c.visualStart THEN started ELSE free
    OBVIOUS
  <2>2. /\ e \in Controllers
        /\ Only(c, e, {"reel", "reelRound", "idle", "freeTimer", "buffered", "visualStart"})
        /\ e.reel = "Spinning" /\ e.reelRound = r /\ e.idle = "none"
        /\ e.buffered = 0 /\ e.visualStart = FALSE
    <3>1. CASE c.visualStart
      BY <1>4, <1>7, <1>8, <2>1, <3>1 DEF ReelsStart, ReelsReadyFor, Only, Fields
    <3>2. CASE ~c.visualStart
      BY <1>4, <1>8, <2>1, <3>2 DEF ReelsReadyFor, Only, Fields
    <3>3. QED
      BY <3>1, <3>2
  <2>3. e.phase = "requesting" /\ r # e.lastRound /\ e.queue = <<>> /\ e.leases = c.leases
    BY <1>8, <2>2 DEF Only, Fields
  <2>4. PICK q : q = acceptSpinResult(e, g, r)
    OBVIOUS
  <2>5. Presents(e, q, r)
    <3>1. /\ script \in {z.script : z \in Scenarios} /\ r <= Len(script)
          /\ e.phase = "requesting" /\ r # e.lastRound
          /\ e.reel = "Spinning" /\ e.reelRound = r /\ e.queue = <<>>
      BY <1>8, <2>2, <2>3
    <3>2. e \in Controllers /\ r \in Rounds /\ g \in Gateways
      BY <1>2, <2>2
    <3>3. QED
      BY <2>4, <3>1, <3>2, AcceptFields
  <2>6. d = q
    BY <1>6, <1>8, <2>1, <2>4 DEF ReelsReadyFor
  <2>7. /\ Only(c, d, AcceptChanges \union {"buffered", "visualStart", "idle"})
        /\ d.buffered = 0 /\ d.visualStart = FALSE /\ d.idle = "none"
    BY <2>2, <2>5, <2>6 DEF Only, Fields, AcceptChanges, Presents
  <2>8. QED
    BY <2>3, <2>5, <2>6, <2>7 DEF Accepted, Presents
<1>9. ASSUME c.phase = "ready", c.visualStart, c.reel = "Idle"
      PROVE  LeftSpinning(c, d)
  <2>1. LeftSpinning(c, started)
    BY <1>4, <1>7, <1>9 DEF LeftSpinning, ReelsStart, Only, Fields
  <2>2. started.phase = "ready"
    BY <1>9, <2>1 DEF LeftSpinning, Only, Fields
  <2>3. d = started
    BY <1>6, <1>9, <2>2 DEF acceptSpinResult
  <2>4. QED
    BY <2>1, <2>3
<1>10. QED
  BY <1>8, <1>9

\* Round r waits for the launch.
Buffered(c, d, r) ==
  /\ d \in Controllers /\ Only(c, d, {"buffered", "visualStart"})
  /\ d.buffered = r /\ d.visualStart = (c.reel = "Idle")

LEMMA BufferFields ==
  ASSUME NEW c \in Controllers, c.queue = <<>>, ~c.destroyed, NEW g \in Gateways,
         script \in {s.script : s \in Scenarios}, NEW r \in Rounds, r <= Len(script),
         c.phase = "requesting", r # c.lastRound, c.buffered = 0,
         c.reel = "Idle" \/ (c.reel = "Spinning" /\ c.reelRound = r /\ c.idle = "none"),
         NEW d, d = bufferRecoveredSpinResult(c, g, r, TRUE)
  PROVE  /\ c.launch = "ready" => Accepted(c, d, r)
         /\ c.launch # "ready" => Buffered(c, d, r)
<1>1. r \in 0 .. MaxRounds /\ r # 0
  BY Bounds DEF Rounds
<1>2. PICK v \in BOOLEAN : v = (c.reel = "Idle")
  BY Zenon
<1>3. PICK e : e = [c EXCEPT !.buffered = r, !.visualStart = v]
  OBVIOUS
<1>4. /\ e \in Controllers /\ Only(c, e, {"buffered", "visualStart"})
      /\ e.buffered = r /\ e.visualStart = v
  <2>1. [c EXCEPT !.buffered = r, !.visualStart = v] \in Controllers
    BY <1>1, Put
  <2>2. Only(c, e, {"buffered", "visualStart"}) /\ e.buffered = r /\ e.visualStart = v
    BY <1>3, Shape DEF Only, Fields
  <2>3. QED
    BY <1>3, <2>1, <2>2
<1>5. d = releaseBufferedRecoveredSpinResult(e, g)
  BY <1>2, <1>3, Zenon DEF bufferRecoveredSpinResult, NoRound
<1>6. /\ e.queue = <<>> /\ ~e.destroyed /\ e.launch = c.launch /\ e.phase = "requesting"
      /\ e.lastRound = c.lastRound /\ e.reel = c.reel /\ e.reelRound = c.reelRound
      /\ e.idle = c.idle /\ e.leases = c.leases
  BY <1>4 DEF Only, Fields
<1>7. ASSUME c.launch = "ready"
      PROVE  Accepted(c, d, r)
  <2>1. ReelsReadyFor(e, r)
    BY <1>2, <1>4, <1>6 DEF ReelsReadyFor
  <2>2. Accepted(e, d, r)
    BY <1>1, <1>4, <1>5, <1>6, <1>7, <2>1, ReleaseFields
  <2>3. Only(c, d, AcceptChanges \union {"buffered", "visualStart", "idle"})
    BY <1>4, <2>2 DEF Only, Fields, AcceptChanges, Accepted
  <2>4. QED
    BY <1>6, <2>2, <2>3 DEF Accepted
<1>8. ASSUME c.launch # "ready"
      PROVE  d = e
  BY <1>4, <1>5, <1>6, <1>8, ReleaseFields
<1>9. QED
  BY <1>2, <1>4, <1>7, <1>8 DEF Buffered

LEMMA RefusedFields ==
  ASSUME NEW c \in Controllers, NEW g, NEW r, c.phase = "requesting", r # c.lastRound,
         c.buffered = 0, NEW d, d = bufferRecoveredSpinResult(c, g, r, FALSE)
  PROVE  d = rejectSpinResult(c, g)
  BY DEF bufferRecoveredSpinResult, NoRound

\* The player's round is requested and the reels turn for it.
SpinsFor(c, d, r) ==
  /\ d \in Controllers
  /\ Only(c, d, {"idle", "reel", "reelRound", "freeTimer", "phase", "controls"})
  /\ d.idle = "none" /\ d.reel = "Spinning" /\ d.reelRound = r /\ d.freeTimer = 0
  /\ d.phase = "requesting" /\ d.controls = FALSE

LEMMA SpinFields ==
  ASSUME NEW c \in Controllers, c.reel = "Idle", c.phase = "ready", NEW g \in Gateways,
         NEW d, d = SpinAccepted(c, g)
  PROVE  SpinsFor(c, d, g.pending)
<1>1. PICK r \in 0 .. MaxRounds : r = g.pending
  BY DEF Gateways
<1>2. PICK c1 : c1 = [c EXCEPT !.idle = "none", !.reelRound = r]
  OBVIOUS
<1>3. /\ c1 \in Controllers /\ Only(c, c1, {"idle", "reelRound"})
      /\ c1.idle = "none" /\ c1.reelRound = r
  <2>1. [c EXCEPT !.idle = "none", !.reelRound = r] \in Controllers
    BY Put
  <2>2. Only(c, c1, {"idle", "reelRound"}) /\ c1.idle = "none" /\ c1.reelRound = r
    BY <1>2, Shape DEF Only, Fields
  <2>3. QED
    BY <1>2, <2>1, <2>2
<1>4. PICK c2 : c2 = Reel(c1, "SPIN_ACCEPTED")
  OBVIOUS
<1>5. c1.reel = "Idle"
  BY <1>3 DEF Only, Fields
<1>6. /\ c2 \in Controllers /\ Only(c1, c2, {"reel", "reelRound"}) /\ c2.reel = "Spin_Start"
      /\ c2.reelRound = r
  BY <1>3, <1>4, <1>5, ReelAfter, ReelFields DEF ReelStates
<1>7. PICK c3 : c3 = [c2 EXCEPT !.freeTimer = 0]
  OBVIOUS
<1>8. c3 \in Controllers /\ Only(c2, c3, {"freeTimer"}) /\ c3.freeTimer = 0
  <2>1. [c2 EXCEPT !.freeTimer = 0] \in Controllers
    BY <1>6, Bounds, Put
  <2>2. Only(c2, c3, {"freeTimer"}) /\ c3.freeTimer = 0
    BY <1>6, <1>7, Shape DEF Only, Fields
  <2>3. QED
    BY <1>7, <2>1, <2>2
<1>9. PICK c4 : c4 = Game(c3, "SPIN_REQUESTED")
  OBVIOUS
<1>10. c3.phase = "ready"
  BY <1>3, <1>6, <1>8 DEF Only, Fields
<1>11. c4 \in Controllers /\ Only(c3, c4, {"phase"}) /\ c4.phase = "requesting"
  BY <1>8, <1>9, <1>10, GameAfter, GameFields DEF Phases
<1>12. PICK c5 : c5 = Reel(c4, "REELS_STARTED")
  OBVIOUS
<1>13. c4.reel = "Spin_Start" /\ c4.reelRound = r
  BY <1>6, <1>8, <1>11 DEF Only, Fields
<1>14. /\ c5 \in Controllers /\ Only(c4, c5, {"reel", "reelRound"}) /\ c5.reel = "Spinning"
       /\ c5.reelRound = r
  BY <1>11, <1>12, <1>13, ReelAfter, ReelFields DEF ReelStates
<1>15. d = refreshUi(c5, g)
  <2>1. [stopPostWinIdleRepeat(c) EXCEPT !.reelRound = g.pending] = c1
    BY <1>1, <1>2 DEF stopPostWinIdleRepeat
  <2>2. QED
    BY <2>1, <1>4, <1>7, <1>9, <1>12 DEF SpinAccepted
<1>16. d \in Controllers /\ Only(c5, d, {"controls", "freeTimer"}) /\ Refreshed(c5, d, g)
  BY <1>14, <1>15, RefreshFields
<1>17. /\ Only(c, d, {"idle", "reel", "reelRound", "freeTimer", "phase", "controls"})
       /\ d.idle = "none" /\ d.reel = "Spinning" /\ d.reelRound = r
       /\ d.phase = "requesting"
  BY <1>3, <1>6, <1>8, <1>11, <1>14, <1>16 DEF Only, Fields
<1>18. d.freeTimer = 0 /\ d.controls = FALSE
  BY <1>16, <1>17 DEF Refreshed, CanSpin
<1>19. QED
  BY <1>1, <1>16, <1>17, <1>18 DEF SpinsFor

\* The task of a presentation ends and gives the big-win assets back.
TaskEnds(c, d) ==
  /\ d \in Controllers /\ Only(c, d, {"show", "leases"})
  /\ d.show = NoShow /\ d.leases = c.leases \ {"big-win"}

LEMMA OverFields ==
  ASSUME NEW c \in Controllers, NEW d, d = Over(c)
  PROVE  TaskEnds(c, d)
<1>1. PICK l \in SUBSET {"big-win", "free-spins", "wheel"} : l = c.leases \ {"big-win"}
  BY DEF Controllers
<1>2. PICK w \in [round : 0 .. MaxRounds, at : Stages] : w = NoShow
  BY Bounds DEF NoShow, NoRound, Stages
<1>3. d = [c EXCEPT !.show = w, !.leases = l]
  BY <1>1, <1>2 DEF Over
<1>4. [c EXCEPT !.show = w, !.leases = l] \in Controllers
  BY Put
<1>5. Only(c, d, {"show", "leases"}) /\ d.show = w /\ d.leases = l
  BY <1>3, Shape DEF Only, Fields
<1>6. QED
  BY <1>1, <1>2, <1>3, <1>4, <1>5 DEF TaskEnds

\* What releaseCompletedFeatureAssetLeases() and the task leave of the packages.
Kept(l, r) ==
  ((l \ IF script[r].wheel THEN {"wheel"} ELSE {}) \ IF Base(r) THEN {"free-spins"} ELSE {})
    \ {"big-win"}

\* d is c after round r is completed.
Completed(c, d, r) ==
  /\ d \in Controllers
  /\ Only(c, d, {"phase", "leases", "controls", "freeTimer", "idle", "show"})
  /\ d.phase = "ready" /\ d.show = NoShow /\ d.leases = Kept(c.leases, r)
  /\ d.idle = "none" \/ (d.idle = "armed" /\ Base(r))
  /\ Refreshed(c, d, gw)

LEMMA CompletesFields ==
  ASSUME NEW c \in Controllers, c.phase = "presenting", c.idle = "none", gw \in Gateways,
         NEW r \in Rounds, NEW d, d = Completes(c, r)
  PROVE  Completed(c, d, r)
<1>1. PICK c1 : c1 = Game(c, "PRESENTATION_COMPLETE")
  OBVIOUS
<1>2. c1 \in Controllers /\ Only(c, c1, {"phase"}) /\ c1.phase = "ready"
  BY <1>1, GameAfter, GameFields DEF Phases
<1>3. PICK l \in SUBSET {"big-win", "free-spins", "wheel"} :
        l = (c1.leases \ IF script[r].wheel THEN {"wheel"} ELSE {})
              \ IF Base(r) THEN {"free-spins"} ELSE {}
  <2>1. c1.leases \in SUBSET {"big-win", "free-spins", "wheel"}
    BY <1>2 DEF Controllers
  <2>2. QED
    BY <2>1
<1>4. PICK c2 : c2 = [c1 EXCEPT !.leases = l]
  OBVIOUS
<1>5. c2 \in Controllers /\ Only(c1, c2, {"leases"}) /\ c2.leases = l
  <2>1. [c1 EXCEPT !.leases = l] \in Controllers
    BY <1>2, Put
  <2>2. Only(c1, c2, {"leases"}) /\ c2.leases = l
    BY <1>2, <1>4, Shape DEF Only, Fields
  <2>3. QED
    BY <1>4, <2>1, <2>2
<1>6. PICK c3 : c3 = refreshUi(c2, gw)
  OBVIOUS
<1>7. c3 \in Controllers /\ Only(c2, c3, {"controls", "freeTimer"}) /\ Refreshed(c2, c3, gw)
  BY <1>5, <1>6, RefreshFields
<1>8. PICK i \in {"none", "armed", "active"} :
        i = IF Base(r - 1) /\ Base(r) /\ script[r].wins /\ ~script[r].wheel
            THEN "armed" ELSE IF c3.idle = "armed" THEN "none" ELSE c3.idle
  BY <1>7 DEF Controllers
<1>9. c3.idle = "none"
  BY <1>2, <1>5, <1>7 DEF Only, Fields
<1>10. i = "none" \/ (i = "armed" /\ Base(r))
  BY <1>8, <1>9
<1>11. PICK c4 : c4 = [c3 EXCEPT !.idle = i]
  OBVIOUS
<1>12. c4 \in Controllers /\ Only(c3, c4, {"idle"}) /\ c4.idle = i
  <2>1. [c3 EXCEPT !.idle = i] \in Controllers
    BY <1>7, Put
  <2>2. Only(c3, c4, {"idle"}) /\ c4.idle = i
    BY <1>7, <1>11, Shape DEF Only, Fields
  <2>3. QED
    BY <1>11, <2>1, <2>2
<1>13. d = Over(c4)
  <2>1. c2 = releaseCompletedFeatureAssetLeases(c1, r)
    BY <1>3, <1>4 DEF releaseCompletedFeatureAssetLeases
  <2>2. c4 = schedulePostWinIdleRepeat(c3, r)
    BY <1>8, <1>11 DEF schedulePostWinIdleRepeat
  <2>3. QED
    BY <1>1, <1>6, <2>1, <2>2 DEF Completes
<1>14. TaskEnds(c4, d)
  BY <1>12, <1>13, OverFields
<1>15. /\ Only(c, d, {"phase", "leases", "controls", "freeTimer", "idle", "show"})
       /\ d.phase = "ready" /\ d.idle = i /\ d.controls = c3.controls /\ d.freeTimer = c3.freeTimer
       /\ d.free = c3.free /\ d.destroyed = c3.destroyed /\ c2.freeTimer = c.freeTimer
       /\ c1.leases = c.leases /\ c4.leases = l
  BY <1>2, <1>5, <1>7, <1>12, <1>14 DEF Only, Fields, TaskEnds
<1>16. CanSpin(d, gw) = CanSpin(c3, gw)
  BY <1>12, <1>14 DEF Only, Fields, TaskEnds, CanSpin
<1>17. Refreshed(c, d, gw)
  BY <1>7, <1>15, <1>16 DEF Refreshed
<1>18. d.leases = Kept(c.leases, r)
  BY <1>3, <1>14, <1>15 DEF TaskEnds, Kept
<1>19. QED
  BY <1>10, <1>14, <1>15, <1>17, <1>18 DEF Completed, TaskEnds

-----------------------------------------------------------------------------
(* What a step keeps *)

\* What EndIsFinal says of a step.
Final ==
  Ended(ctl) =>
    /\ Ended(ctl') /\ ~ctl'.controls
    /\ ctl'.lastRound = ctl.lastRound /\ ctl'.reel = "Idle"
    /\ gw'.pending \in {NoRound, gw.pending}
    /\ ctl.destroyed => ctl'.requests = ctl.requests

LEMMA Numbers ==
  ASSUME FlowOK
  PROVE  /\ ctl \in Controllers /\ gw \in Gateways /\ script \in {s.script : s \in Scenarios}
         /\ gw.pending \in Nat /\ gw.committed \in Nat /\ gw.known \in Nat
         /\ ctl.buffered \in Nat /\ ctl.lastRound \in Nat /\ ctl.balance \in Nat
         /\ ctl.visible \in Nat /\ ctl.free \in Nat /\ ctl.freeTimer \in Nat
         /\ ctl.reelRound \in Nat /\ ctl.show.round \in Nat
         /\ told.disclosed \in Nat /\ ctl.requests \in Nat
  BY DEF FlowOK, TypeOK, Controllers, Gateways

\* The launch task goes on, and the controller is as it was.
LEMMA LaunchResumed ==
  ASSUME FlowOK, ctl' = ctl, UNCHANGED <<gw, script, told>>,
         budget' \in [toggles : Nat, faults : Nat, preview : BOOLEAN],
         \/ launchAt' = "over"
         \/ launchAt = "preload" /\ launchAt' = "paint"
         \/ launchAt \in {"preview", "session"} /\ launchAt' = "intro"
  PROVE  FlowOK' /\ Final
<1>1. TypeOK'
  BY Numbers DEF FlowOK, TypeOK
<1> USE DEF FlowOK, GatewayOK, LaunchOK, PhaseOK, ReelOK, RoundOK, BufferOK, MoneyOK, ControlsOK,
         HeldOK, Final, Early, Ended, Live, Presenting, NoRound, NoShow, CanSpin, ReelAt, Turning,
         FreeAfter, Only, Fields
<1>2. (GatewayOK /\ LaunchOK /\ PhaseOK /\ ReelOK)'
  BY Numbers
<1>3. (RoundOK /\ BufferOK /\ MoneyOK /\ ControlsOK /\ HeldOK)' /\ Final
  BY Numbers
<1>4. QED
  BY <1>1, <1>2, <1>3

\* What it throws ends in the failure screen.
LEMMA LaunchThrows ==
  ASSUME FlowOK, ~Ended(ctl), launchAt # "over", launchAt' = "over",
         ctl' = completeLaunchFailure(ctl, gw), UNCHANGED <<gw, script, told>>,
         budget' \in [toggles : Nat, faults : Nat, preview : BOOLEAN]
  PROVE  FlowOK' /\ Final
<1>1. ctl \in Controllers /\ gw \in Gateways
  BY Numbers
<1>2. /\ ctl' \in Controllers /\ Only(ctl, ctl', {"launch", "controls", "freeTimer"})
      /\ ctl'.launch = "failed" /\ Refreshed(ctl, ctl', gw)
  BY <1>1, LaunchFailureFields
<1>3. ctl.launch # "ready"
  BY DEF FlowOK, LaunchOK, TypeOK
<1>4. TypeOK'
  BY <1>2, <1>3 DEF FlowOK, TypeOK
<1> USE DEF FlowOK, GatewayOK, LaunchOK, PhaseOK, ReelOK, RoundOK, BufferOK, MoneyOK, ControlsOK,
         HeldOK, Final, Early, Ended, Live, Presenting, NoRound, NoShow, CanSpin, ReelAt, Turning,
         FreeAfter, Only, Fields, Refreshed
<1>5. (GatewayOK /\ LaunchOK /\ PhaseOK /\ ReelOK)'
  BY <1>2, <1>3
<1>6. (RoundOK /\ BufferOK /\ MoneyOK /\ ControlsOK /\ HeldOK)' /\ Final
  BY <1>2, <1>3
<1>7. QED
  BY <1>4, <1>5, <1>6

LEMMA PreloadedStep ==
  ASSUME FlowOK, Preloaded
  PROVE  FlowOK' /\ Final
<1>1. /\ launchAt = "preload" /\ UNCHANGED <<gw, script, told, budget>>
      /\ \/ ctl' = ctl /\ launchAt' \in {"over", "paint"}
         \/ ~Ended(ctl) /\ launchAt' = "over" /\ ctl' = completeLaunchFailure(ctl, gw)
  BY DEF Preloaded, LaunchResumes
<1>2. budget' \in [toggles : Nat, faults : Nat, preview : BOOLEAN]
  BY <1>1 DEF FlowOK, TypeOK
<1>3. CASE ctl' = ctl /\ launchAt' \in {"over", "paint"}
  BY <1>1, <1>2, <1>3, LaunchResumed
<1>4. CASE ~Ended(ctl) /\ launchAt' = "over" /\ ctl' = completeLaunchFailure(ctl, gw)
  BY <1>1, <1>2, <1>4, LaunchThrows
<1>5. QED
  BY <1>1, <1>3, <1>4

LEMMA PreloadFailsStep ==
  ASSUME FlowOK, PreloadFails
  PROVE  FlowOK' /\ Final
<1>1. /\ launchAt = "preload" /\ launchAt' = "over" /\ UNCHANGED <<gw, script, told>>
      /\ budget.faults > 0 /\ budget' = [budget EXCEPT !.faults = @ - 1]
      /\ ctl' = IF Ended(ctl) THEN ctl ELSE completeLaunchFailure(ctl, gw)
  BY DEF PreloadFails
<1>2. budget' \in [toggles : Nat, faults : Nat, preview : BOOLEAN]
  BY <1>1 DEF FlowOK, TypeOK
<1>3. CASE Ended(ctl)
  BY <1>1, <1>2, <1>3, LaunchResumed
<1>4. CASE ~Ended(ctl)
  BY <1>1, <1>2, <1>4, LaunchThrows
<1>5. QED
  BY <1>3, <1>4

LEMMA AwaitedStep ==
  ASSUME FlowOK, PreviewLeft \/ SessionAwaited
  PROVE  FlowOK' /\ Final
<1>1. /\ launchAt \in {"preview", "session"} /\ UNCHANGED <<gw, script, told, budget>>
      /\ \/ ctl' = ctl /\ launchAt' \in {"over", "intro"}
         \/ ~Ended(ctl) /\ launchAt' = "over" /\ ctl' = completeLaunchFailure(ctl, gw)
  BY DEF PreviewLeft, SessionAwaited, LaunchResumes
<1>2. budget' \in [toggles : Nat, faults : Nat, preview : BOOLEAN]
  BY <1>1 DEF FlowOK, TypeOK
<1>3. CASE ctl' = ctl /\ launchAt' \in {"over", "intro"}
  BY <1>1, <1>2, <1>3, LaunchResumed
<1>4. CASE ~Ended(ctl) /\ launchAt' = "over" /\ ctl' = completeLaunchFailure(ctl, gw)
  BY <1>1, <1>2, <1>4, LaunchThrows
<1>5. QED
  BY <1>1, <1>3, <1>4

\* The opening screen appears.
LEMMA IntroShown ==
  ASSUME FlowOK, Painted, ~Ended(ctl), ctl.launch = "preloading"
  PROVE  FlowOK' /\ Final
<1>1. ctl \in Controllers /\ gw \in Gateways /\ launchAt = "paint"
        /\ launchAt' \in {"preview", "session"} /\ UNCHANGED <<gw, script, told, budget>>
  BY Numbers, LaunchAccepted DEF Painted, LaunchResumes
<1>2. PICK c1 : c1 = Launch(ctl, "PRELOAD_COMPLETE")
  OBVIOUS
<1>3. c1 \in Controllers /\ Only(ctl, c1, {"launch"}) /\ c1.launch = "intro"
  <2>1. c1 = [ctl EXCEPT !.launch = "intro"]
    BY <1>2, LaunchAfter DEF Launch
  <2>2. [ctl EXCEPT !.launch = "intro"] \in Controllers
    BY <1>1, Put DEF LaunchPhases
  <2>3. Only(ctl, c1, {"launch"}) /\ c1.launch = "intro"
    BY <1>1, <2>1, Shape DEF Only, Fields
  <2>4. QED
    BY <2>1, <2>2, <2>3
<1>4. PICK c2 : c2 = refreshUi(c1, gw)
  OBVIOUS
<1>5. c2 \in Controllers /\ Only(c1, c2, {"controls", "freeTimer"}) /\ Refreshed(c1, c2, gw)
  BY <1>1, <1>3, <1>4, RefreshFields
<1>6. PICK v \in BOOLEAN : v = budget.preview
  BY DEF FlowOK, TypeOK
<1>7. ctl' = [c2 EXCEPT !.preview = v]
  BY <1>2, <1>4, <1>6, LaunchAccepted DEF Painted, LaunchResumes
<1>8. ctl' \in Controllers /\ Only(c2, ctl', {"preview"})
  <2>1. [c2 EXCEPT !.preview = v] \in Controllers
    BY <1>5, Put
  <2>2. Only(c2, ctl', {"preview"})
    BY <1>5, <1>7, Shape DEF Only, Fields
  <2>3. QED
    BY <1>7, <2>1, <2>2
<1>9. /\ Only(ctl, ctl', {"launch", "controls", "freeTimer", "preview"})
      /\ ctl'.launch = "intro" /\ ctl'.controls = c2.controls /\ ctl'.freeTimer = c2.freeTimer
      /\ c1.freeTimer = ctl.freeTimer /\ c2.free = ctl.free /\ c2.destroyed = ctl.destroyed
      /\ c2.launch = "intro"
  BY <1>3, <1>5, <1>8 DEF Only, Fields
<1>10. ctl'.freeTimer = 0 /\ ~ctl'.controls
  BY <1>5, <1>9 DEF Refreshed, CanSpin
<1>11. TypeOK'
  BY <1>1, <1>8, <1>9, <1>10 DEF FlowOK, TypeOK
<1> USE DEF FlowOK, GatewayOK, LaunchOK, PhaseOK, ReelOK, RoundOK, BufferOK, MoneyOK, ControlsOK,
         HeldOK, Final, Early, Ended, Live, Presenting, NoRound, NoShow, CanSpin, ReelAt, Turning,
         FreeAfter, Only, Fields
<1>12. (GatewayOK /\ LaunchOK /\ PhaseOK /\ ReelOK)'
  BY <1>1, <1>8, <1>9, <1>10
<1>13. (RoundOK /\ BufferOK /\ MoneyOK /\ ControlsOK /\ HeldOK)' /\ Final
  BY <1>1, <1>8, <1>9, <1>10
<1>14. QED
  BY <1>11, <1>12, <1>13

LEMMA PaintedStep ==
  ASSUME FlowOK, Painted
  PROVE  FlowOK' /\ Final
<1>1. /\ launchAt = "paint" /\ UNCHANGED <<gw, script, told, budget>>
      /\ \/ Ended(ctl) /\ ctl' = ctl /\ launchAt' = "over"
         \/ ~Ended(ctl) /\ ctl.launch = "preloading"
         \/ ~Ended(ctl) /\ launchAt' = "over" /\ ctl' = completeLaunchFailure(ctl, gw)
  BY LaunchAccepted DEF Painted, LaunchResumes
<1>2. budget' \in [toggles : Nat, faults : Nat, preview : BOOLEAN]
  BY <1>1 DEF FlowOK, TypeOK
<1>3. CASE Ended(ctl) /\ ctl' = ctl /\ launchAt' = "over"
  BY <1>1, <1>2, <1>3, LaunchResumed
<1>4. CASE ~Ended(ctl) /\ ctl.launch = "preloading"
  BY <1>4, IntroShown
<1>5. CASE ~Ended(ctl) /\ launchAt' = "over" /\ ctl' = completeLaunchFailure(ctl, gw)
  BY <1>1, <1>2, <1>5, LaunchThrows
<1>6. QED
  BY <1>1, <1>3, <1>4, <1>5

LEMMA PreviewStep ==
  ASSUME FlowOK, continueFeaturePreview
  PROVE  FlowOK' /\ Final
<1>1. /\ ctl \in Controllers /\ ctl' = [ctl EXCEPT !.preview = FALSE]
      /\ UNCHANGED <<launchAt, gw, script, told, budget>>
  BY Numbers DEF continueFeaturePreview
<1>2. [ctl EXCEPT !.preview = FALSE] \in Controllers
  BY <1>1, Put
<1>3. ctl' \in Controllers /\ Only(ctl, ctl', {"preview"})
  BY <1>1, <1>2, Shape DEF Only, Fields
<1>4. TypeOK'
  BY <1>1, <1>3 DEF FlowOK, TypeOK
<1> USE DEF FlowOK, GatewayOK, LaunchOK, PhaseOK, ReelOK, RoundOK, BufferOK, MoneyOK, ControlsOK,
         HeldOK, Final, Early, Ended, Live, Presenting, NoRound, NoShow, CanSpin, ReelAt, Turning,
         FreeAfter, Only, Fields
<1>5. (GatewayOK /\ LaunchOK /\ PhaseOK /\ ReelOK)'
  BY <1>1, <1>3
<1>6. (RoundOK /\ BufferOK /\ MoneyOK /\ ControlsOK /\ HeldOK)' /\ Final
  BY <1>1, <1>3
<1>7. QED
  BY <1>4, <1>5, <1>6

LEMMA NoticeStep ==
  ASSUME FlowOK, showSessionTimeout
  PROVE  FlowOK' /\ Final
<1>1. ctl \in Controllers /\ ctl.requests <= 1
  BY Numbers DEF FlowOK, HeldOK
<1>2. /\ ctl' = requestOperatorSession(ctl) /\ ctl.timedOut /\ ~ctl.destroyed
      /\ UNCHANGED <<launchAt, gw, script, told, budget>>
  BY DEF showSessionTimeout
<1>3. ctl' \in Controllers /\ Only(ctl, ctl', {"requests"}) /\ ctl'.requests = 1
  BY <1>1, <1>2, RequestFields
<1>4. TypeOK'
  BY <1>2, <1>3 DEF FlowOK, TypeOK
<1> USE DEF FlowOK, GatewayOK, LaunchOK, PhaseOK, ReelOK, RoundOK, BufferOK, MoneyOK, ControlsOK,
         HeldOK, Final, Early, Ended, Live, Presenting, NoRound, NoShow, CanSpin, ReelAt, Turning,
         FreeAfter, Only, Fields
<1>5. (GatewayOK /\ LaunchOK /\ PhaseOK /\ ReelOK)'
  BY <1>2, <1>3
<1>6. (RoundOK /\ BufferOK /\ MoneyOK /\ ControlsOK /\ HeldOK)' /\ Final
  BY <1>2, <1>3
<1>7. QED
  BY <1>4, <1>5, <1>6

LEMMA IdleStep ==
  ASSUME FlowOK, PostWinIdleTimer
  PROVE  FlowOK' /\ Final
<1>1. PICK i \in {"none", "armed", "active"} : i = IF ctl.destroyed THEN "none" ELSE "active"
  OBVIOUS
<1>2. /\ ctl \in Controllers /\ ctl.idle = "armed" /\ ctl' = [ctl EXCEPT !.idle = i]
      /\ UNCHANGED <<launchAt, gw, script, told, budget>>
  BY <1>1, Numbers DEF PostWinIdleTimer
<1>3. [ctl EXCEPT !.idle = i] \in Controllers
  BY <1>2, Put
<1>4. ctl' \in Controllers /\ Only(ctl, ctl', {"idle"})
  <2>1. Only(ctl, ctl', {"idle"})
    BY <1>2, Shape DEF Only, Fields
  <2>2. QED
    BY <1>2, <1>3, <2>1
<1>5. TypeOK'
  BY <1>2, <1>4 DEF FlowOK, TypeOK
<1> USE DEF FlowOK, GatewayOK, LaunchOK, PhaseOK, ReelOK, RoundOK, BufferOK, MoneyOK, ControlsOK,
         HeldOK, Final, Early, Ended, Live, Presenting, NoRound, NoShow, CanSpin, ReelAt, Turning,
         FreeAfter, Only, Fields
<1>6. (GatewayOK /\ LaunchOK /\ PhaseOK /\ ReelOK)'
  BY <1>2, <1>4
<1>7. (RoundOK /\ BufferOK /\ MoneyOK /\ ControlsOK /\ HeldOK)' /\ Final
  BY <1>2, <1>4
<1>8. QED
  BY <1>5, <1>6, <1>7

\* The round is on its way to the screen, through a launch that may just be over.
LEMMA RoundTaken ==
  ASSUME FlowOK, ~Ended(ctl), ~Presenting, ctl.opened, NEW r \in Rounds, r <= Len(script),
         ctl.lastRound < r,
         NEW c, Only(ctl, c, {"launch", "controls", "freeTimer"}), c.launch = "ready",
         Accepted(c, ctl', r),
         \/ launchAt' = "over"
         \/ launchAt' = launchAt /\ ctl.launch = "ready",
         gw.conn = "connected", gw.pending = r, gw.committed = r, ~gw.asked,
         gw' \in Gateways, gw'.conn = "connected", gw'.pending = r, gw'.committed = r,
         gw'.delivered, ~gw'.asked, gw'.known = r, gw'.available = gw.available,
         script' = script, told' = told, budget' = budget
  PROVE  FlowOK' /\ Final
<1>1. /\ ctl' \in Controllers /\ r \in Nat /\ r # 0
  BY Bounds DEF Accepted, Rounds
<1>2. /\ Only(ctl, ctl', AcceptChanges \union {"buffered", "visualStart", "idle", "launch"})
      /\ ctl'.launch = "ready" /\ ctl'.leases = ctl.leases \union Primed(r)
  BY DEF Accepted, AcceptChanges, Only, Fields
<1>3. /\ ctl'.buffered = 0 /\ ctl'.visualStart = FALSE /\ ctl'.idle = "none"
      /\ ctl'.reel = "Spin_Stopping" /\ ctl'.reelRound = r /\ ctl'.lastRound = r
      /\ ctl'.phase = "presenting" /\ ctl'.barrier = TRUE /\ ctl'.balance = r
      /\ ctl'.free = script[r].free /\ ctl'.queue = <<r>> /\ ctl'.controls = FALSE
      /\ ctl'.freeTimer = 0
  BY DEF Accepted
<1>4. /\ "big-win" \notin ctl'.leases
      /\ "wheel" \in ctl'.leases => script[r].wheel
  BY <1>2 DEF FlowOK, HeldOK, Primed, Presenting
<1>5. /\ ctl'.destroyed = ctl.destroyed /\ ctl'.timedOut = ctl.timedOut
      /\ ctl'.show = ctl.show /\ ctl'.visible = ctl.visible /\ ctl'.hasSession = ctl.hasSession
      /\ ctl'.opened = ctl.opened /\ ctl'.sessionTimer = ctl.sessionTimer
      /\ ctl'.sessionFailed = ctl.sessionFailed /\ ctl'.requests = ctl.requests
      /\ ctl'.connection = ctl.connection /\ ctl'.launch = "ready"
  BY <1>2 DEF AcceptChanges, Only, Fields
<1>6. <<r>> # <<>>
  OBVIOUS
<1>7. TypeOK'
  BY <1>1, <1>3, <1>4, <1>5, <1>6, Numbers DEF FlowOK, TypeOK
<1> USE DEF FlowOK, GatewayOK, LaunchOK, PhaseOK, ReelOK, RoundOK, BufferOK, MoneyOK, ControlsOK,
         HeldOK, Final, Early, Ended, Live, Presenting, NoRound, NoShow, CanSpin, ReelAt, Turning,
         FreeAfter, Only, Fields
<1>8. GatewayOK'
  BY <1>1, <1>3, <1>4, <1>5, <1>6, Numbers
<1>9. LaunchOK'
  BY <1>1, <1>3, <1>4, <1>5, <1>6, Numbers
<1>10. PhaseOK'
  BY <1>1, <1>3, <1>4, <1>5, <1>6, Numbers
<1>11. ReelOK'
  BY <1>1, <1>3, <1>4, <1>5, <1>6, Numbers
<1>12. RoundOK'
  BY <1>1, <1>3, <1>4, <1>5, <1>6, Numbers
<1>13. BufferOK'
  BY <1>1, <1>3, <1>4, <1>5, <1>6, Numbers
<1>14. MoneyOK'
  BY <1>1, <1>3, <1>4, <1>5, <1>6, Numbers
<1>15. ControlsOK'
  BY <1>1, <1>3, <1>4, <1>5, <1>6, Numbers
<1>16. HeldOK' /\ Final
  BY <1>1, <1>3, <1>4, <1>5, <1>6, Numbers
<1>17. QED
  BY <1>7, <1>8, <1>9, <1>10, <1>11, <1>12, <1>13, <1>14, <1>15, <1>16

LEMMA IntroEnds ==
  ASSUME FlowOK, IntroOver, ~Ended(ctl), ctl.launch = "intro", ctl.hasSession
  PROVE  FlowOK' /\ Final
<1>1. /\ ctl \in Controllers /\ gw \in Gateways /\ script \in {s.script : s \in Scenarios}
      /\ launchAt = "intro" /\ launchAt' = "over" /\ UNCHANGED <<gw, script, told, budget>>
      /\ ctl' = releaseBufferedRecoveredSpinResult(refreshUi(Launch(ctl, "INTRO_COMPLETE"), gw), gw)
      /\ ctl.buffered \in Nat /\ ctl.opened
  BY Numbers, LaunchAccepted DEF IntroOver, LaunchResumes, FlowOK, LaunchOK
<1>2. PICK c1 : c1 = Launch(ctl, "INTRO_COMPLETE")
  OBVIOUS
<1>3. c1 \in Controllers /\ Only(ctl, c1, {"launch"}) /\ c1.launch = "ready"
  <2>1. c1 = [ctl EXCEPT !.launch = "ready"]
    BY <1>2 DEF Launch
  <2>2. [ctl EXCEPT !.launch = "ready"] \in Controllers
    BY <1>1, Put DEF LaunchPhases
  <2>3. Only(ctl, c1, {"launch"}) /\ c1.launch = "ready"
    BY <1>1, <2>1, Shape DEF Only, Fields
  <2>4. QED
    BY <2>1, <2>2, <2>3
<1>4. PICK c2 : c2 = refreshUi(c1, gw)
  OBVIOUS
<1>5. c2 \in Controllers /\ Only(c1, c2, {"controls", "freeTimer"}) /\ Refreshed(c1, c2, gw)
  BY <1>1, <1>3, <1>4, RefreshFields
<1>6. /\ Only(ctl, c2, {"launch", "controls", "freeTimer"}) /\ c2.launch = "ready"
      /\ c1.freeTimer = ctl.freeTimer /\ c2.queue = ctl.queue /\ c2.destroyed = ctl.destroyed
      /\ c2.buffered = ctl.buffered /\ c2.phase = ctl.phase /\ c2.lastRound = ctl.lastRound
      /\ c2.visualStart = ctl.visualStart /\ c2.reel = ctl.reel
  BY <1>3, <1>5 DEF Only, Fields
<1>7. Refreshed(ctl, c2, gw)
  BY <1>5, <1>6 DEF Refreshed
<1>8. PICK d : d = releaseBufferedRecoveredSpinResult(c2, gw)
  OBVIOUS
<1>9. ctl' = d
  BY <1>1, <1>2, <1>4, <1>8
<1>10. /\ launchAt' = "over" /\ UNCHANGED <<gw, script, told, budget>>
       /\ ctl.buffered \in Nat /\ ctl.opened
  BY <1>1
<1>11. CASE ctl.buffered = 0
  <2>1. ctl' = c2
    BY <1>5, <1>6, <1>8, <1>9, <1>11 DEF releaseBufferedRecoveredSpinResult, NoRound
  <2>2. ctl' \in Controllers /\ Only(ctl, ctl', {"launch", "controls", "freeTimer"})
          /\ ctl'.launch = "ready" /\ Refreshed(ctl, ctl', gw)
    BY <1>5, <1>6, <1>7, <2>1
  <2>3. TypeOK'
    BY <1>10, <2>2 DEF FlowOK, TypeOK
  <2>4. /\ ctl'.opened = ctl.opened /\ ctl'.hasSession = ctl.hasSession
        /\ ctl'.sessionTimer = ctl.sessionTimer
    BY <2>2 DEF Only, Fields
  <2> USE DEF FlowOK, GatewayOK, LaunchOK, PhaseOK, ReelOK, RoundOK, BufferOK, MoneyOK,
           ControlsOK, HeldOK, Final, Early, Ended, Live, Presenting, NoRound, NoShow, CanSpin,
           ReelAt, Turning, FreeAfter, Only, Fields, Refreshed
  <2>5. GatewayOK'
    BY <1>10, <1>11, <2>2
  <2>6. LaunchOK'
    BY <1>10, <2>2, <2>4
  <2>7. (PhaseOK /\ ReelOK)'
    BY <1>10, <1>11, <2>2
  <2>8. (RoundOK /\ BufferOK /\ MoneyOK /\ ControlsOK /\ HeldOK)' /\ Final
    BY <1>10, <1>11, <2>2
  <2>9. QED
    BY <2>3, <2>5, <2>7, <2>8, <2>6
<1>12. CASE ctl.buffered # 0
  <2>1. /\ ctl.queue = <<>> /\ ctl.lastRound < ctl.buffered /\ ctl.visualStart
        /\ ctl.reel = "Idle" /\ ~Presenting /\ ~ctl.destroyed
    BY <1>12 DEF FlowOK, BufferOK, NoRound, Presenting, Ended
  <2>2. ctl.buffered # ctl.lastRound
    BY <2>1, Numbers
  <2>3. /\ c2.queue = <<>> /\ ~c2.destroyed /\ c2.buffered # 0 /\ c2.buffered # c2.lastRound
        /\ c2.visualStart /\ c2.reel = "Idle"
    BY <1>6, <1>12, <2>1, <2>2
  <2>4. CASE gw.conn = "connected"
    <3>1. /\ ctl.phase = "requesting" /\ ctl.buffered = gw.pending /\ gw.delivered /\ ~gw.asked
          /\ gw.committed = gw.pending /\ gw.known = gw.pending /\ gw.pending <= Len(script)
      BY <1>12, <2>4 DEF FlowOK, BufferOK, NoRound, Live, GatewayOK
    <3>2. ReelsReadyFor(c2, c2.buffered)
      BY <2>3 DEF ReelsReadyFor
    <3>3. Accepted(c2, d, c2.buffered)
      BY <1>1, <1>5, <1>6, <1>8, <2>3, <3>1, <3>2, ReleaseFields
    <3>4. PICK r \in Rounds : r = gw.pending
      BY <1>1, <1>12, <3>1 DEF Gateways, Rounds
    <3>5. Accepted(c2, ctl', r)
      BY <1>6, <1>9, <3>1, <3>3, <3>4
    <3>6. QED
      BY <1>1, <1>6, <2>1, <2>4, <3>1, <3>4, <3>5, RoundTaken
  <2>5. CASE gw.conn # "connected"
    <3>1. ctl.phase = "ready"
      BY <1>12, <2>5 DEF FlowOK, BufferOK, NoRound, PhaseOK
    <3>2. LeftSpinning(c2, ctl')
      BY <1>1, <1>5, <1>6, <1>8, <1>9, <2>3, <3>1, ReleaseFields
    <3>3. /\ ctl' \in Controllers
          /\ Only(ctl, ctl', {"reel", "reelRound", "idle", "freeTimer", "buffered", "visualStart",
                              "launch", "controls"})
          /\ ctl'.reel = "Spinning" /\ ctl'.idle = "none" /\ ctl'.freeTimer = 0
          /\ ctl'.buffered = 0 /\ ctl'.visualStart = FALSE /\ ctl'.launch = "ready"
          /\ ctl'.controls = c2.controls
      BY <1>6, <3>2 DEF LeftSpinning, Only, Fields
    <3>4. ctl.connection # "online" /\ c2.connection = ctl.connection
      BY <1>6, <2>5 DEF FlowOK, GatewayOK, Only, Fields
    <3>5. ~ctl'.controls
      BY <1>7, <3>3, <3>4 DEF Refreshed, CanSpin
    <3>6. /\ ctl'.opened = ctl.opened /\ ctl'.hasSession = ctl.hasSession
           /\ ctl'.sessionTimer = ctl.sessionTimer
      BY <3>3 DEF Only, Fields
    <3>7. TypeOK'
      BY <1>10, <3>3 DEF FlowOK, TypeOK
    <3> USE DEF FlowOK, GatewayOK, LaunchOK, PhaseOK, ReelOK, RoundOK, BufferOK, MoneyOK,
             ControlsOK, HeldOK, Final, Early, Ended, Live, Presenting, NoRound, NoShow, CanSpin,
             ReelAt, Turning, FreeAfter, Only, Fields
    <3>8. GatewayOK'
      BY <1>10, <2>1, <2>5, <3>1, <3>3, <3>4
    <3>9. LaunchOK'
      BY <1>10, <3>3, <3>6
    <3>10. PhaseOK'
      BY <1>10, <2>1, <2>5, <3>1, <3>3, <3>4
    <3>11. ReelOK'
      BY <1>10, <2>1, <2>5, <3>1, <3>3, <3>4
    <3>12. (RoundOK /\ BufferOK /\ MoneyOK /\ ControlsOK /\ HeldOK)' /\ Final
      BY <1>10, <2>1, <2>5, <3>1, <3>3, <3>4, <3>5
    <3>13. QED
      BY <3>7, <3>8, <3>9, <3>10, <3>11, <3>12
  <2>6. QED
    BY <2>4, <2>5
<1>13. QED
  BY <1>1, <1>11, <1>12

LEMMA IntroStep ==
  ASSUME FlowOK, IntroOver
  PROVE  FlowOK' /\ Final
<1>1. /\ launchAt = "intro" /\ UNCHANGED <<gw, script, told, budget>>
      /\ \/ Ended(ctl) /\ ctl' = ctl /\ launchAt' = "over"
         \/ ~Ended(ctl) /\ ctl.launch = "intro" /\ ctl.hasSession
         \/ ~Ended(ctl) /\ launchAt' = "over" /\ ctl' = completeLaunchFailure(ctl, gw)
  BY LaunchAccepted DEF IntroOver, LaunchResumes
<1>2. budget' \in [toggles : Nat, faults : Nat, preview : BOOLEAN]
  BY <1>1 DEF FlowOK, TypeOK
<1>3. CASE Ended(ctl) /\ ctl' = ctl /\ launchAt' = "over"
  BY <1>1, <1>2, <1>3, LaunchResumed
<1>4. CASE ~Ended(ctl) /\ ctl.launch = "intro" /\ ctl.hasSession
  BY <1>4, IntroEnds
<1>5. CASE ~Ended(ctl) /\ launchAt' = "over" /\ ctl' = completeLaunchFailure(ctl, gw)
  BY <1>1, <1>2, <1>5, LaunchThrows
<1>6. QED
  BY <1>1, <1>3, <1>4, <1>5

-----------------------------------------------------------------------------
(* The presentation of a round *)

LEMMA QueueStep ==
  ASSUME FlowOK, PresentationQueue
  PROVE  FlowOK' /\ Final
<1>1. ctl \in Controllers
  BY Numbers
<1>2. /\ ctl.show = NoShow /\ ctl.queue = <<ctl.lastRound>>
      /\ UNCHANGED <<launchAt, gw, script, told, budget>>
  BY DEF FlowOK, RoundOK, PresentationQueue
<1>3. PICK w \in [round : 0 .. MaxRounds, at : Stages] : w = [round |-> ctl.lastRound, at |-> "before"]
  BY <1>1 DEF Controllers, Stages
<1>4. <<>> \in Seq(Rounds)
  OBVIOUS
<1>5. ctl' = [ctl EXCEPT !.queue = <<>>, !.show = w]
  BY <1>2, <1>3 DEF PresentationQueue
<1>6. ctl' \in Controllers
  <2>1. [ctl EXCEPT !.queue = <<>>, !.show = w] \in Controllers
    BY <1>1, <1>4, Put, Zenon
  <2>2. QED
    BY <1>5, <2>1
<1>7. Only(ctl, ctl', {"queue", "show"}) /\ ctl'.queue = <<>> /\ ctl'.show = w
  BY <1>1, <1>5, Shape DEF Only, Fields
<1>8. /\ ctl.show.at = "none" /\ ctl.queue # <<>>
      /\ ctl'.show.at = "before" /\ ctl'.show.round = ctl.lastRound
  BY <1>2, <1>3, <1>7 DEF NoShow
<1>9. TypeOK'
  BY <1>2, <1>6, <1>7, <1>8 DEF FlowOK, TypeOK
<1> USE DEF FlowOK, GatewayOK, LaunchOK, PhaseOK, ReelOK, RoundOK, BufferOK, MoneyOK, ControlsOK,
         HeldOK, Final, Early, Ended, Live, Presenting, NoRound, NoShow, CanSpin, ReelAt, Turning,
         FreeAfter, Only, Fields
<1>10. (GatewayOK /\ LaunchOK /\ PhaseOK /\ ReelOK)'
  BY <1>2, <1>6, <1>7, <1>8
<1>11. (RoundOK /\ BufferOK /\ MoneyOK /\ ControlsOK /\ HeldOK)' /\ Final
  BY <1>2, <1>6, <1>7, <1>8
<1>12. QED
  BY <1>9, <1>10, <1>11

\* The task of a controller that has ended is dropped where it stands.
LEMMA TaskDropped ==
  ASSUME FlowOK, Ended(ctl), ctl.show.at # "none", TaskEnds(ctl, ctl'),
         UNCHANGED <<launchAt, gw, script, told, budget>>
  PROVE  FlowOK' /\ Final
<1>1. /\ ctl' \in Controllers /\ Only(ctl, ctl', {"show", "leases"})
      /\ ctl'.show = NoShow /\ ctl'.show.at = "none" /\ ctl'.leases = ctl.leases \ {"big-win"}
  BY DEF TaskEnds, NoShow
<1>2. ctl.queue = <<>>
  BY DEF FlowOK, RoundOK
<1>3. /\ ctl'.opened = ctl.opened /\ ctl'.hasSession = ctl.hasSession
      /\ ctl'.sessionTimer = ctl.sessionTimer
  BY <1>1 DEF Only, Fields
<1>4. /\ ctl'.destroyed = ctl.destroyed /\ ctl'.timedOut = ctl.timedOut /\ ctl'.queue = <<>>
  BY <1>1, <1>2 DEF Only, Fields
<1>5. TypeOK'
  BY <1>1, <1>2, <1>3, <1>4 DEF FlowOK, TypeOK
<1> USE DEF FlowOK, GatewayOK, LaunchOK, PhaseOK, ReelOK, RoundOK, BufferOK, MoneyOK, ControlsOK,
         HeldOK, Final, Early, Ended, Live, Presenting, NoRound, NoShow, CanSpin, ReelAt, Turning,
         FreeAfter, Only, Fields
<1>6. GatewayOK'
  BY <1>1, <1>2, <1>3, <1>4
<1>7. LaunchOK'
  BY <1>1, <1>2, <1>3, <1>4
<1>8. PhaseOK'
  BY <1>1, <1>2, <1>3, <1>4
<1>9. ReelOK'
  BY <1>1, <1>2, <1>3, <1>4
<1>10. RoundOK'
  BY <1>1, <1>2, <1>3, <1>4
<1>11. BufferOK'
  BY <1>1, <1>2, <1>3, <1>4
<1>12. MoneyOK'
  BY <1>1, <1>2, <1>3, <1>4
<1>13. ControlsOK'
  BY <1>1, <1>2, <1>3, <1>4
<1>14. HeldOK' /\ Final
  BY <1>1, <1>2, <1>3, <1>4
<1>15. QED
  BY <1>5, <1>6, <1>7, <1>8, <1>9, <1>10, <1>11, <1>12, <1>13, <1>14

\* A presentation goes from one of its awaits to the next.
Stage(c, d, next) ==
  /\ d \in Controllers /\ Only(c, d, {"reel", "reelRound", "leases", "show"})
  /\ d.show.at = next /\ d.show.round = c.show.round /\ d.reel = ReelAt(next)
  /\ next \in Turning => d.reelRound = c.reelRound /\ c.show.at \in Turning
  /\ "big-win" \in d.leases => next = "bigwin"
  /\ "wheel" \in d.leases => "wheel" \in c.leases

LEMMA StageFields ==
  ASSUME NEW a \in Controllers, NEW c \in Controllers, Only(a, c, {"reel", "reelRound", "leases"}),
         NEW next \in Stages, c.reel = ReelAt(next),
         next \in Turning => c.reelRound = a.reelRound /\ a.show.at \in Turning,
         "big-win" \in c.leases => next = "bigwin",
         "wheel" \in c.leases => "wheel" \in a.leases,
         NEW d, d = [c EXCEPT !.show.at = next]
  PROVE  Stage(a, d, next)
<1>1. PICK w \in [round : 0 .. MaxRounds, at : Stages] : w = [c.show EXCEPT !.at = next]
  BY DEF Controllers
<1>2. d = [c EXCEPT !.show = w]
  BY <1>1
<1>3. [c EXCEPT !.show = w] \in Controllers
  BY Put
<1>4. Only(c, d, {"show"}) /\ d.show = w
  BY <1>2, Shape DEF Only, Fields
<1>5. w.at = next /\ w.round = c.show.round
  BY <1>1 DEF Controllers
<1>6. c.show = a.show
  BY DEF Only, Fields
<1>7. /\ Only(a, d, {"reel", "reelRound", "leases", "show"})
      /\ d.reel = ReelAt(next) /\ d.reelRound = c.reelRound /\ d.leases = c.leases
  BY <1>4 DEF Only, Fields
<1>8. QED
  BY <1>2, <1>3, <1>4, <1>5, <1>6, <1>7 DEF Stage

LEMMA StageStep ==
  ASSUME FlowOK, ~Ended(ctl), ctl.show.at # "none", NEW next \in Stages \ {"none", "exit"},
         Stage(ctl, ctl', next), UNCHANGED <<launchAt, gw, script, told, budget>>
  PROVE  FlowOK' /\ Final
<1>1. /\ ctl' \in Controllers /\ Only(ctl, ctl', {"reel", "reelRound", "leases", "show"})
      /\ ctl'.show.at = next /\ ctl'.show.round = ctl.show.round /\ ctl'.reel = ReelAt(next)
      /\ next \in Turning => ctl'.reelRound = ctl.reelRound /\ ctl.show.at \in Turning
      /\ "big-win" \in ctl'.leases => next = "bigwin"
      /\ "wheel" \in ctl'.leases => "wheel" \in ctl.leases
  BY DEF Stage
<1>2. ctl.queue = <<>> /\ next # "none" /\ next # "exit" /\ Presenting
  BY DEF FlowOK, RoundOK, Presenting
<1>3. /\ ctl'.opened = ctl.opened /\ ctl'.hasSession = ctl.hasSession
      /\ ctl'.sessionTimer = ctl.sessionTimer
      /\ ctl'.destroyed = ctl.destroyed /\ ctl'.timedOut = ctl.timedOut /\ ctl'.queue = <<>>
  BY <1>1, <1>2 DEF Only, Fields
<1>4. TypeOK'
  BY <1>1, <1>2, <1>3, Numbers DEF FlowOK, TypeOK
<1> USE DEF FlowOK, GatewayOK, LaunchOK, PhaseOK, ReelOK, RoundOK, BufferOK, MoneyOK, ControlsOK,
         HeldOK, Final, Early, Ended, Live, Presenting, NoRound, NoShow, CanSpin, ReelAt, Turning,
         FreeAfter, Only, Fields
<1>5. GatewayOK'
  BY <1>1, <1>2, <1>3, Numbers
<1>6. LaunchOK'
  BY <1>1, <1>2, <1>3, Numbers
<1>7. PhaseOK'
  BY <1>1, <1>2, <1>3, Numbers
<1>8. ReelOK'
  BY <1>1, <1>2, <1>3, Numbers
<1>9. RoundOK'
  BY <1>1, <1>2, <1>3, Numbers
<1>10. BufferOK'
  BY <1>1, <1>2, <1>3, Numbers
<1>11. MoneyOK'
  BY <1>1, <1>2, <1>3, Numbers
<1>12. ControlsOK'
  BY SMTT(60), <1>1, <1>2, <1>3, Numbers
<1>13. HeldOK' /\ Final
  BY <1>1, <1>2, <1>3, Numbers
<1>14. QED
  BY <1>4, <1>5, <1>6, <1>7, <1>8, <1>9, <1>10, <1>11, <1>12, <1>13

\* What Proceeds() leaves to show of a stage.
LEMMA Proceeding ==
  ASSUME FlowOK, NEW at \in Stages \ {"none"}, NEW next \in Stages \ {"none", "exit"}, NEW c,
         Proceeds(at, next, c),
         ~Ended(ctl) /\ ctl.show.at = at => Stage(ctl, [c EXCEPT !.show.at = next], next)
  PROVE  FlowOK' /\ Final
<1>1. ctl.show.at = at /\ at # "none" /\ UNCHANGED <<launchAt, gw, script, told, budget>>
  BY DEF Proceeds
<1>2. CASE Ended(ctl)
  <2>1. PICK d : d = Over(ctl)
    OBVIOUS
  <2>2. TaskEnds(ctl, d)
    BY <2>1, Numbers, OverFields
  <2>3. ctl' = d
    BY <1>2, <2>1 DEF Proceeds
  <2>4. QED
    BY <1>1, <1>2, <2>2, <2>3, TaskDropped
<1>3. CASE ~Ended(ctl)
  <2>1. ctl' = [c EXCEPT !.show.at = next]
    BY <1>3 DEF Proceeds
  <2>2. Stage(ctl, ctl', next)
    BY <1>1, <1>3, <2>1
  <2>3. QED
    BY <1>1, <1>3, <2>2, StageStep
<1>4. QED
  BY <1>2, <1>3

\* The reels of a presentation stand where its stage says.
LEMMA StageReel ==
  ASSUME FlowOK, ~Ended(ctl), NEW at \in Stages \ {"none"}, ctl.show.at = at
  PROVE  /\ ctl \in Controllers /\ ctl.reel = ReelAt(at)
         /\ "big-win" \in ctl.leases => at = "bigwin"
  BY Numbers DEF FlowOK, ReelOK, HeldOK

LEMMA BeforeReelsStep ==
  ASSUME FlowOK, BeforeReels
  PROVE  FlowOK' /\ Final
<1>1. ASSUME ~Ended(ctl), ctl.show.at = "before"
      PROVE  Stage(ctl, [ctl EXCEPT !.show.at = "stopping"], "stopping")
  <2>1. ctl \in Controllers /\ ctl.reel = ReelAt("before") /\ "big-win" \notin ctl.leases
    BY <1>1, StageReel DEF Stages
  <2>2. Only(ctl, ctl, {"reel", "reelRound", "leases"})
    BY DEF Only
  <2>3. ctl.reel = ReelAt("stopping") /\ "stopping" \in Stages /\ ctl.show.at \in Turning
    BY <1>1, <2>1 DEF ReelAt, Stages, Turning
  <2>4. QED
    BY <2>1, <2>2, <2>3, StageFields
<1>2. "before" \in Stages \ {"none"} /\ "stopping" \in Stages \ {"none", "exit"}
  BY DEF Stages
<1>3. QED
  BY <1>1, <1>2, Proceeding DEF BeforeReels

\* A stage that the reels reach with an event of theirs.
LEMMA ReelStage ==
  ASSUME FlowOK, ~Ended(ctl), NEW at \in Turning, ctl.show.at = at,
         NEW next \in Stages, NEW e, After(ReelMoves, ReelAt(at), e) = ReelAt(next),
         e = "ROUND_COMPLETE" => next \notin Turning, at = "bigwin" => next = "bigwin"
  PROVE  Stage(ctl, [Reel(ctl, e) EXCEPT !.show.at = next], next)
<1>1. ctl \in Controllers /\ ctl.reel = ReelAt(at) /\ ("big-win" \in ctl.leases => at = "bigwin")
  <2>1. at \in Stages \ {"none"}
    BY DEF Stages, Turning
  <2>2. QED
    BY <2>1, StageReel
<1>2. PICK c : c = Reel(ctl, e)
  OBVIOUS
<1>3. PICK p \in ReelStates : p = ReelAt(next)
  BY DEF ReelAt, ReelStates
<1>4. After(ReelMoves, ctl.reel, e) = p
  BY <1>1, <1>3
<1>5. /\ c \in Controllers /\ Only(ctl, c, {"reel", "reelRound"}) /\ c.reel = p
      /\ c.reelRound = IF e = "ROUND_COMPLETE" THEN 0 ELSE ctl.reelRound
  BY <1>1, <1>2, <1>4, ReelFields
<1>6. Only(ctl, c, {"reel", "reelRound", "leases"}) /\ c.leases = ctl.leases
  BY <1>5 DEF Only, Fields
<1>7. /\ next \in Turning => c.reelRound = ctl.reelRound /\ ctl.show.at \in Turning
      /\ "big-win" \in c.leases => next = "bigwin"
      /\ "wheel" \in c.leases => "wheel" \in ctl.leases
  BY <1>1, <1>5, <1>6
<1>8. Stage(ctl, [c EXCEPT !.show.at = next], next)
  BY <1>1, <1>3, <1>5, <1>6, <1>7, StageFields
<1>9. QED
  BY <1>2, <1>8

LEMMA FirstReelStep ==
  ASSUME FlowOK, FirstReelStops
  PROVE  FlowOK' /\ Final
<1>1. /\ "stopping" \in Turning /\ "stopping" \in Stages \ {"none"}
      /\ "braking" \in Stages \ {"none", "exit"}
      /\ After(ReelMoves, ReelAt("stopping"), "REEL_STOP_STARTED") = ReelAt("braking")
  BY ReelAfter DEF Stages, Turning, ReelAt
<1>2. QED
  BY <1>1, ReelStage, Proceeding DEF FirstReelStops

LEMMA AllReelsStep ==
  ASSUME FlowOK, AllReelsStopped
  PROVE  FlowOK' /\ Final
<1>1. /\ "braking" \in Turning /\ "braking" \in Stages \ {"none"}
      /\ "settled" \in Stages \ {"none", "exit"}
      /\ After(ReelMoves, ReelAt("braking"), "ALL_REELS_STOPPED") = ReelAt("settled")
  BY ReelAfter DEF Stages, Turning, ReelAt
<1>2. QED
  BY <1>1, ReelStage, Proceeding DEF AllReelsStopped

LEMMA WinsOverStep ==
  ASSUME FlowOK, WinsOver
  PROVE  FlowOK' /\ Final
<1>1. /\ "wins" \in Turning /\ "wins" \in Stages \ {"none"}
      /\ "features" \in Stages \ {"none", "exit"} /\ "features" \notin Turning
      /\ After(ReelMoves, ReelAt("wins"), "ROUND_COMPLETE") = ReelAt("features")
  BY ReelAfter DEF Stages, Turning, ReelAt
<1>2. QED
  BY <1>1, ReelStage, Proceeding DEF WinsOver

LEMMA FeaturesStep ==
  ASSUME FlowOK, FeaturesOver
  PROVE  FlowOK' /\ Final
<1>1. ASSUME ~Ended(ctl), ctl.show.at = "features"
      PROVE  Stage(ctl, [ctl EXCEPT !.show.at = "summary"], "summary")
  <2>1. ctl \in Controllers /\ ctl.reel = ReelAt("features") /\ "big-win" \notin ctl.leases
    BY <1>1, StageReel DEF Stages
  <2>2. Only(ctl, ctl, {"reel", "reelRound", "leases"})
    BY DEF Only
  <2>3. ctl.reel = ReelAt("summary") /\ "summary" \in Stages /\ "summary" \notin Turning
    BY <1>1, <2>1 DEF ReelAt, Stages, Turning
  <2>4. QED
    BY <2>1, <2>2, <2>3, StageFields
<1>2. "features" \in Stages \ {"none"} /\ "summary" \in Stages \ {"none", "exit"}
  BY DEF Stages
<1>3. QED
  BY <1>1, <1>2, Proceeding DEF FeaturesOver

\* The round that is presented is one of the script.
LEMMA ShownFacts ==
  ASSUME FlowOK, ctl.show.at # "none"
  PROVE  /\ ctl.show.round = ctl.lastRound /\ ctl.queue = <<>>
         /\ ctl.lastRound \in 1 .. Len(script) /\ ctl.lastRound \in Rounds
         /\ ctl.lastRound = gw.committed /\ ctl.balance = ctl.lastRound
         /\ script[ctl.lastRound].big \in BOOLEAN /\ script[ctl.lastRound].wheel \in BOOLEAN
         /\ ctl.free = FreeAfter(ctl.lastRound) /\ ctl.idle = "none"
         /\ ~ctl.timedOut => ctl.phase = "presenting"
         /\ "wheel" \in ctl.leases => script[ctl.lastRound].wheel
<1>1. Presenting
  BY DEF Presenting
<1>2. /\ ctl.show.round = ctl.lastRound /\ ctl.queue = <<>> /\ ctl.lastRound # 0
      /\ gw.committed = ctl.lastRound /\ ctl.balance = ctl.lastRound
      /\ ctl.free = FreeAfter(ctl.lastRound)
  BY <1>1 DEF FlowOK, RoundOK, NoRound
<1>3. ctl.idle = "none" /\ (~ctl.timedOut => ctl.phase = "presenting")
  BY <1>1 DEF FlowOK, ReelOK, PhaseOK
<1>4. gw.committed <= Len(script) /\ ("wheel" \in ctl.leases => script[ctl.lastRound].wheel)
  BY DEF FlowOK, GatewayOK, HeldOK
<1>5. Len(script) \in 1 .. MaxRounds
  BY Numbers, ScriptFacts
<1>6. ctl.lastRound \in 1 .. Len(script) /\ ctl.lastRound \in Rounds
  BY <1>2, <1>4, <1>5, Numbers, Bounds DEF Rounds
<1>7. script[ctl.lastRound].big \in BOOLEAN /\ script[ctl.lastRound].wheel \in BOOLEAN
  BY <1>6, Numbers, ScriptFacts
<1>8. QED
  BY <1>2, <1>3, <1>4, <1>6, <1>7

LEMMA WinStartStep ==
  ASSUME FlowOK, WinPresentationStarts
  PROVE  FlowOK' /\ Final
<1>1. /\ "settled" \in Turning /\ "settled" \in Stages \ {"none"} /\ "Win_Line_Animation" \in ReelStates
      /\ {"bigwin", "wins"} \subseteq Stages \ {"none", "exit"} /\ {"bigwin", "wins"} \subseteq Turning
      /\ After(ReelMoves, ReelAt("settled"), "WIN_PRESENTATION_STARTED") = "Win_Line_Animation"
      /\ ReelAt("bigwin") = "Win_Line_Animation" /\ ReelAt("wins") = "Win_Line_Animation"
  BY ReelAfter DEF Stages, Turning, ReelAt, ReelStates
<1>2. PICK next \in {"bigwin", "wins"} : next = IF Shown.big THEN "bigwin" ELSE "wins"
  OBVIOUS
<1>3. PICK e : e = Reel(ctl, "WIN_PRESENTATION_STARTED")
  OBVIOUS
<1>4. PICK c : c = [e EXCEPT !.leases = IF Shown.big THEN @ \union {"big-win"} ELSE @]
  OBVIOUS
<1>5. Proceeds("settled", next, c)
  BY <1>2, <1>3, <1>4 DEF WinPresentationStarts
<1>6. ASSUME ~Ended(ctl), ctl.show.at = "settled"
      PROVE  Stage(ctl, [c EXCEPT !.show.at = next], next)
  <2>1. ctl \in Controllers /\ ctl.reel = ReelAt("settled") /\ "big-win" \notin ctl.leases
    BY <1>1, <1>6, StageReel
  <2>2. /\ e \in Controllers /\ Only(ctl, e, {"reel", "reelRound"})
        /\ e.reel = "Win_Line_Animation" /\ e.reelRound = ctl.reelRound
    BY <1>1, <1>3, <2>1, ReelFields
  <2>3. e.leases = ctl.leases
    BY <2>2 DEF Only, Fields
  <2>4. PICK l \in SUBSET {"big-win", "free-spins", "wheel"} :
          l = IF Shown.big THEN e.leases \union {"big-win"} ELSE e.leases
    BY <2>2 DEF Controllers
  <2>5. c = [e EXCEPT !.leases = l]
    BY <1>4, <2>4
  <2>6. c \in Controllers
    <3>1. [e EXCEPT !.leases = l] \in Controllers
      BY <2>2, Put
    <3>2. QED
      BY <2>5, <3>1
  <2>7. Only(e, c, {"leases"}) /\ c.leases = l
    BY <2>2, <2>5, Shape DEF Only, Fields
  <2>8. /\ Only(ctl, c, {"reel", "reelRound", "leases"})
        /\ c.reel = "Win_Line_Animation" /\ c.reelRound = ctl.reelRound
    BY <2>2, <2>7 DEF Only, Fields
  <2>9. /\ "big-win" \in c.leases => next = "bigwin"
        /\ "wheel" \in c.leases => "wheel" \in ctl.leases
    BY <1>2, <2>1, <2>3, <2>4, <2>7
  <2>10. /\ c.reel = ReelAt(next) /\ next \in Stages
         /\ next \in Turning => c.reelRound = ctl.reelRound /\ ctl.show.at \in Turning
    BY <1>1, <1>6, <2>8
  <2>11. QED
    BY <2>1, <2>6, <2>8, <2>9, <2>10, StageFields
<1>7. next \in Stages \ {"none", "exit"}
  BY <1>1
<1>8. QED
  BY <1>1, <1>5, <1>6, <1>7, Proceeding

LEMMA BigWinStep ==
  ASSUME FlowOK, BigWinOver
  PROVE  FlowOK' /\ Final
<1>1. /\ "bigwin" \in Turning /\ "bigwin" \in Stages \ {"none"}
      /\ "wins" \in Stages \ {"none", "exit"} /\ ReelAt("bigwin") = ReelAt("wins")
  BY DEF Stages, Turning, ReelAt
<1>2. PICK c : c = [ctl EXCEPT !.leases = @ \ {"big-win"}]
  OBVIOUS
<1>3. Proceeds("bigwin", "wins", c)
  BY <1>2 DEF BigWinOver
<1>4. ASSUME ~Ended(ctl), ctl.show.at = "bigwin"
      PROVE  Stage(ctl, [c EXCEPT !.show.at = "wins"], "wins")
  <2>1. ctl \in Controllers /\ ctl.reel = ReelAt("bigwin")
    BY <1>1, <1>4, StageReel
  <2>2. PICK l \in SUBSET {"big-win", "free-spins", "wheel"} : l = ctl.leases \ {"big-win"}
    BY <2>1 DEF Controllers
  <2>3. c = [ctl EXCEPT !.leases = l]
    BY <1>2, <2>2
  <2>4. c \in Controllers
    <3>1. [ctl EXCEPT !.leases = l] \in Controllers
      BY <2>1, Put
    <3>2. QED
      BY <2>3, <3>1
  <2>5. Only(ctl, c, {"leases"}) /\ c.leases = l
    BY <2>1, <2>3, Shape DEF Only, Fields
  <2>6. Only(ctl, c, {"reel", "reelRound", "leases"}) /\ c.reel = ctl.reel
          /\ c.reelRound = ctl.reelRound
    BY <2>5 DEF Only, Fields
  <2>7. /\ "big-win" \in c.leases => "wins" = "bigwin"
        /\ "wheel" \in c.leases => "wheel" \in ctl.leases
    BY <2>2, <2>5
  <2>8. c.reel = ReelAt("wins") /\ "wins" \in Stages
          /\ ("wins" \in Turning => c.reelRound = ctl.reelRound /\ ctl.show.at \in Turning)
    BY <1>1, <1>4, <2>1, <2>6
  <2>9. QED
    BY <2>1, <2>4, <2>6, <2>7, <2>8, StageFields
<1>5. QED
  BY <1>1, <1>3, <1>4, Proceeding

LEMMA AnnouncedStep ==
  ASSUME FlowOK, AnnouncedRegardless
  PROVE  FlowOK' /\ Final
<1>1. /\ ctl \in Controllers /\ Ended(ctl) /\ ctl.show.at = "features"
      /\ UNCHANGED <<launchAt, gw, script, told, budget>>
  BY Numbers DEF AnnouncedRegardless
<1>2. PICK w \in [round : 0 .. MaxRounds, at : Stages] : w = [ctl.show EXCEPT !.at = "summary"]
  BY <1>1 DEF Controllers, Stages
<1>3. ctl' = [ctl EXCEPT !.show = w]
  BY <1>2 DEF AnnouncedRegardless
<1>4. [ctl EXCEPT !.show = w] \in Controllers
  BY <1>1, Put
<1>5. Only(ctl, ctl', {"show"}) /\ ctl'.show = w
  BY <1>1, <1>3, Shape DEF Only, Fields
<1>6. w.at = "summary" /\ w.round = ctl.show.round
  BY <1>1, <1>2 DEF Controllers
<1>7. /\ ctl' \in Controllers /\ ctl'.show.at = "summary" /\ ctl'.show.round = ctl.show.round
      /\ "big-win" \notin ctl.leases
  BY <1>1, <1>3, <1>4, <1>5, <1>6 DEF FlowOK, HeldOK
<1>8. /\ ctl'.opened = ctl.opened /\ ctl'.hasSession = ctl.hasSession
      /\ ctl'.sessionTimer = ctl.sessionTimer
  BY <1>5 DEF Only, Fields
<1>9. TypeOK'
  BY <1>1, <1>5, <1>7, <1>8 DEF FlowOK, TypeOK
<1> USE DEF FlowOK, GatewayOK, LaunchOK, PhaseOK, ReelOK, RoundOK, BufferOK, MoneyOK, ControlsOK,
         HeldOK, Final, Early, Ended, Live, Presenting, NoRound, NoShow, CanSpin, ReelAt, Turning,
         FreeAfter, Only, Fields
<1>10. (GatewayOK /\ LaunchOK /\ PhaseOK /\ ReelOK)'
  BY <1>1, <1>5, <1>7, <1>8
<1>11. (RoundOK /\ BufferOK /\ MoneyOK /\ ControlsOK /\ HeldOK)' /\ Final
  BY <1>1, <1>5, <1>7, <1>8
<1>12. QED
  BY <1>9, <1>10, <1>11

\* d is c with round r settled on the screen.
RoundShown(c, d, r) ==
  /\ d \in Controllers
  /\ Only(c, d, {"barrier", "visible", "phase", "leases", "controls", "freeTimer", "idle",
                 "show", "reel", "reelRound"})
  /\ d.barrier = FALSE /\ d.visible = r /\ d.phase = "ready" /\ d.show = NoShow
  /\ d.reel = "Idle" /\ d.leases = Kept(c.leases, r) /\ Refreshed(c, d, gw)

\* The server is asked to confirm round r, if it waits for that.
Asks(r) == gw' = [gw EXCEPT !.asked = @ \/ Acknowledges(r)]

LEMMA RoundShownStep ==
  ASSUME FlowOK, ~Ended(ctl), ctl.show.at # "none", RoundShown(ctl, ctl', ctl.lastRound),
         Asks(ctl.lastRound), BookOver(ctl.lastRound), UNCHANGED <<launchAt, script>>,
         budget' \in [toggles : Nat, faults : Nat, preview : BOOLEAN]
  PROVE  FlowOK' /\ Final
<1>1. PICK r \in Rounds : r = ctl.lastRound /\ r = ctl.show.round
  BY ShownFacts
<1>2. /\ ctl.queue = <<>> /\ r \in 1 .. Len(script) /\ r = gw.committed /\ ctl.balance = r
      /\ ctl.lastRound = r
      /\ ctl.free = FreeAfter(r) /\ ctl.phase = "presenting" /\ ctl.idle = "none"
  BY <1>1, ShownFacts DEF Ended
<1>3. /\ ctl' \in Controllers
      /\ Only(ctl, ctl', {"barrier", "visible", "phase", "leases", "controls", "freeTimer",
                          "idle", "show", "reel", "reelRound"})
  BY DEF RoundShown
<1>4. /\ ctl' \in Controllers /\ ctl'.barrier = FALSE /\ ctl'.visible = r
       /\ ctl'.phase = "ready" /\ ctl'.show = NoShow /\ ctl'.reel = "Idle"
  BY <1>1 DEF RoundShown
<1>5. Refreshed(ctl, ctl', gw)
  BY DEF RoundShown
<1>6. /\ "big-win" \notin ctl'.leases
      /\ "wheel" \notin ctl'.leases
      /\ "free-spins" \in ctl'.leases => ctl.free # 0
  BY <1>1, <1>2, ShownFacts DEF RoundShown, Kept, Base
<1>7. gw.pending \in {NoRound, r} /\ ~gw.asked /\ told.disclosed <= r
  BY <1>1, <1>2 DEF FlowOK, RoundOK, MoneyOK, Presenting
<1>8. /\ told'.disclosed = r /\ told'.over = told.over \union {r}
      /\ told'.rejected = told.rejected /\ told'.hidden = told.hidden
      /\ told' \in [disclosed : 0 .. MaxRounds, over : SUBSET Rounds,
                    rejected : SUBSET Rounds, hidden : BOOLEAN]
  <2>1. told \in [disclosed : 0 .. MaxRounds, over : SUBSET Rounds,
                  rejected : SUBSET Rounds, hidden : BOOLEAN]
    BY DEF FlowOK, TypeOK
  <2>2. r \in 0 .. MaxRounds /\ (IF told.disclosed > r THEN told.disclosed ELSE r) = r
    BY <1>2, <1>7, <2>1, Numbers DEF Gateways
  <2>3. told' = [told EXCEPT !.disclosed = r, !.over = told.over \union {r}]
    BY <1>1, <2>2 DEF BookOver
  <2>4. QED
    BY <2>1, <2>2, <2>3
<1>9. /\ gw' \in Gateways /\ gw'.conn = gw.conn /\ gw'.available = gw.available
      /\ gw'.told = gw.told /\ gw'.pending = gw.pending /\ gw'.delivered = gw.delivered
      /\ gw'.known = gw.known /\ gw'.committed = gw.committed
      /\ gw'.asked <=> gw.conn = "connected" /\ gw.pending = r /\ gw.delivered
  <2>1. PICK a \in BOOLEAN : a = (gw.asked \/ Acknowledges(r))
    BY Zenon
  <2>2. gw' = [gw EXCEPT !.asked = a]
    BY <1>1, <2>1 DEF Asks
  <2>3. a <=> gw.conn = "connected" /\ gw.pending = r /\ gw.delivered
    BY <1>7, <2>1 DEF Acknowledges
  <2>4. gw \in Gateways
    BY Numbers
  <2>5. QED
    BY <2>2, <2>3, <2>4 DEF Gateways
<1>10. /\ ctl'.opened = ctl.opened /\ ctl'.hasSession = ctl.hasSession
      /\ ctl'.sessionTimer = ctl.sessionTimer /\ ctl'.launch = ctl.launch
      /\ ctl'.connection = ctl.connection /\ ctl'.timedOut = ctl.timedOut
      /\ ctl'.destroyed = ctl.destroyed /\ ctl'.sessionFailed = ctl.sessionFailed
      /\ ctl'.requests = ctl.requests /\ ctl'.buffered = ctl.buffered
      /\ ctl'.visualStart = ctl.visualStart /\ ctl'.lastRound = ctl.lastRound
      /\ ctl'.balance = ctl.balance /\ ctl'.free = ctl.free /\ ctl'.queue = ctl.queue
  BY <1>3 DEF Only, Fields
<1>11. /\ ctl'.controls <=> (CanSpin(ctl', gw') /\ ~ctl'.destroyed)
       /\ ctl'.freeTimer # 0 => CanSpin(ctl', gw') /\ ctl'.freeTimer = ctl'.free
       /\ CanSpin(ctl', gw') => ctl'.freeTimer = ctl'.free
  <2>1. ~CanSpin(ctl, gw) /\ ctl.freeTimer = 0
    BY <1>2 DEF FlowOK, ControlsOK, CanSpin
  <2>2. CanSpin(ctl', gw') = CanSpin(ctl', gw)
    BY <1>9 DEF CanSpin
  <2>3. ~ctl'.destroyed
    BY <1>3 DEF Only, Fields, Ended
  <2>4. QED
    BY <1>5, <2>1, <2>2, <2>3 DEF Refreshed
<1>12. /\ r \in Nat /\ gw.pending \in Nat /\ gw.committed \in Nat /\ ctl.free \in Nat
       /\ told.disclosed \in Nat /\ \A o \in told.over : o \in Nat
  BY <1>2, Numbers DEF FlowOK, TypeOK, Rounds
<1>13. TypeOK'
  BY <1>2, <1>4, <1>6, <1>7, <1>8, <1>9, <1>10, <1>11, <1>12 DEF FlowOK, TypeOK
<1> USE DEF FlowOK, GatewayOK, LaunchOK, PhaseOK, ReelOK, RoundOK, BufferOK, MoneyOK, ControlsOK,
         HeldOK, Final, Early, Ended, Live, Presenting, NoRound, NoShow, CanSpin, ReelAt, Turning,
         FreeAfter, Only, Fields
<1>14. (GatewayOK /\ LaunchOK /\ PhaseOK /\ ReelOK)'
  BY <1>2, <1>4, <1>6, <1>7, <1>8, <1>9, <1>10, <1>11, <1>12
<1>15. (RoundOK /\ BufferOK /\ MoneyOK /\ ControlsOK /\ HeldOK)' /\ Final
  BY <1>2, <1>4, <1>6, <1>7, <1>8, <1>9, <1>10, <1>11, <1>12
<1>16. QED
  BY <1>13, <1>14, <1>15

LEMMA BarrierFields ==
  ASSUME NEW c \in Controllers, NEW d, d = applyResultAtBalanceBarrier(c)
  PROVE  /\ d \in Controllers /\ Only(c, d, {"barrier", "visible"})
         /\ d.barrier = FALSE /\ d.visible = c.balance
<1>1. PICK b \in 0 .. MaxRounds : b = c.balance
  BY DEF Controllers
<1>2. d = [c EXCEPT !.barrier = FALSE, !.visible = b]
  BY <1>1 DEF applyResultAtBalanceBarrier
<1>3. [c EXCEPT !.barrier = FALSE, !.visible = b] \in Controllers
  BY Put
<1>4. Only(c, d, {"barrier", "visible"}) /\ d.barrier = FALSE /\ d.visible = b
  BY <1>2, Shape DEF Only, Fields
<1>5. QED
  BY <1>1, <1>2, <1>3, <1>4

\* The balance of a round is disclosed.
Discloses(r) == told' = [told EXCEPT !.disclosed = r]

LEMMA Disclosed ==
  ASSUME FlowOK, NEW r \in Rounds, Discloses(r)
  PROVE  /\ told'.disclosed = r /\ told'.over = told.over
         /\ told'.rejected = told.rejected /\ told'.hidden = told.hidden
         /\ told' \in [disclosed : 0 .. MaxRounds, over : SUBSET Rounds,
                       rejected : SUBSET Rounds, hidden : BOOLEAN]
<1>1. told \in [disclosed : 0 .. MaxRounds, over : SUBSET Rounds,
                rejected : SUBSET Rounds, hidden : BOOLEAN]
  BY DEF FlowOK, TypeOK
<1>2. r \in 0 .. MaxRounds
  BY Bounds DEF Rounds
<1>3. QED
  BY <1>1, <1>2 DEF Discloses

\* Free spins end: the player is told of the balance and leaves the feature.
ExitShown(c, d, r) ==
  /\ d \in Controllers /\ Only(c, d, {"barrier", "visible", "show"})
  /\ d.barrier = FALSE /\ d.visible = r /\ d.show.at = "exit" /\ d.show.round = c.show.round

LEMMA ExitShownStep ==
  ASSUME FlowOK, ~Ended(ctl), ctl.show.at = "summary", ExitShown(ctl, ctl', ctl.lastRound),
         Discloses(ctl.lastRound), UNCHANGED <<launchAt, gw, script, budget>>
  PROVE  FlowOK' /\ Final
<1>1. /\ ctl.lastRound \in Rounds /\ ctl.show.round = ctl.lastRound /\ ctl.queue = <<>>
      /\ ctl.lastRound = gw.committed /\ ctl.phase = "presenting" /\ ctl.idle = "none"
  BY ShownFacts DEF Ended
<1>2. /\ told'.disclosed = ctl.lastRound /\ told'.over = told.over
      /\ told'.rejected = told.rejected /\ told'.hidden = told.hidden
      /\ told' \in [disclosed : 0 .. MaxRounds, over : SUBSET Rounds,
                    rejected : SUBSET Rounds, hidden : BOOLEAN]
  BY <1>1, Disclosed
<1>3. Only(ctl, ctl', {"barrier", "visible", "show"})
  BY DEF ExitShown
<1>4. /\ ctl' \in Controllers /\ ctl'.barrier = FALSE /\ ctl'.visible = ctl.lastRound
      /\ ctl'.show.at = "exit" /\ ctl'.show.round = ctl.lastRound
  BY <1>1 DEF ExitShown
<1>5. /\ ctl'.opened = ctl.opened /\ ctl'.hasSession = ctl.hasSession
      /\ ctl'.sessionTimer = ctl.sessionTimer
  BY <1>3 DEF Only, Fields
<1>6. /\ ctl.lastRound \in Nat /\ told.disclosed \in Nat /\ \A o \in told.over : o \in Nat
      /\ told.disclosed <= ctl.lastRound
  BY <1>1, Numbers DEF FlowOK, TypeOK, Rounds, MoneyOK
<1>7. TypeOK'
  BY <1>1, <1>2, <1>3, <1>4, <1>5, <1>6 DEF FlowOK, TypeOK
<1> USE DEF FlowOK, GatewayOK, LaunchOK, PhaseOK, ReelOK, RoundOK, BufferOK, MoneyOK, ControlsOK,
         HeldOK, Final, Early, Ended, Live, Presenting, NoRound, NoShow, CanSpin, ReelAt, Turning,
         FreeAfter, Only, Fields
<1>8. (GatewayOK /\ LaunchOK /\ PhaseOK /\ ReelOK)'
  BY <1>1, <1>2, <1>3, <1>4, <1>5, <1>6
<1>9. (RoundOK /\ BufferOK /\ MoneyOK /\ ControlsOK /\ HeldOK)' /\ Final
  BY <1>1, <1>2, <1>3, <1>4, <1>5, <1>6
<1>10. QED
  BY <1>7, <1>8, <1>9

\* A finished controller's task runs to its end although it is finished.
EndedShown(c, d, r) ==
  /\ d \in Controllers
  /\ Only(c, d, {"barrier", "visible", "phase", "leases", "controls", "freeTimer", "idle", "show"})
  /\ d.barrier = FALSE /\ d.visible = r /\ d.show = NoShow /\ d.leases = {}
  /\ d.controls = FALSE /\ d.freeTimer = 0
  /\ d.phase = c.phase \/ (d.phase = "ready" /\ c.phase = "presenting" /\ ~c.timedOut)

LEMMA EndedShownStep ==
  ASSUME FlowOK, Ended(ctl), ctl.show.at # "none", EndedShown(ctl, ctl', ctl.lastRound),
         Discloses(ctl.lastRound), UNCHANGED <<launchAt, gw, script, budget>>
  PROVE  FlowOK' /\ Final
<1>1. /\ ctl.lastRound \in Rounds /\ ctl.show.round = ctl.lastRound /\ ctl.queue = <<>>
      /\ ctl.lastRound = gw.committed
  BY ShownFacts
<1>2. /\ told'.disclosed = ctl.lastRound /\ told'.over = told.over
      /\ told'.rejected = told.rejected /\ told'.hidden = told.hidden
      /\ told' \in [disclosed : 0 .. MaxRounds, over : SUBSET Rounds,
                    rejected : SUBSET Rounds, hidden : BOOLEAN]
  BY <1>1, Disclosed
<1>3. Only(ctl, ctl', {"barrier", "visible", "phase", "leases", "controls", "freeTimer", "idle",
                       "show"})
  BY DEF EndedShown
<1>4. /\ ctl' \in Controllers /\ ctl'.barrier = FALSE /\ ctl'.visible = ctl.lastRound
      /\ ctl'.show = NoShow /\ ctl'.leases = {} /\ ctl'.controls = FALSE /\ ctl'.freeTimer = 0
      /\ ctl'.phase = ctl.phase
           \/ (ctl'.phase = "ready" /\ ctl.phase = "presenting" /\ ~ctl.timedOut)
  BY DEF EndedShown
<1>5. /\ ctl'.opened = ctl.opened /\ ctl'.hasSession = ctl.hasSession
      /\ ctl'.sessionTimer = ctl.sessionTimer /\ ctl'.launch = ctl.launch
      /\ ctl'.connection = ctl.connection /\ ctl'.timedOut = ctl.timedOut
      /\ ctl'.destroyed = ctl.destroyed /\ ctl'.sessionFailed = ctl.sessionFailed
      /\ ctl'.requests = ctl.requests /\ ctl'.buffered = ctl.buffered
      /\ ctl'.visualStart = ctl.visualStart /\ ctl'.lastRound = ctl.lastRound
      /\ ctl'.balance = ctl.balance /\ ctl'.free = ctl.free /\ ctl'.queue = ctl.queue
      /\ ctl'.reel = ctl.reel
  BY <1>3 DEF Only, Fields
<1>6. /\ ctl.lastRound \in Nat /\ told.disclosed \in Nat /\ \A o \in told.over : o \in Nat
      /\ told.disclosed <= ctl.lastRound /\ ctl.connection # "online"
  BY <1>1, Numbers DEF FlowOK, TypeOK, Rounds, MoneyOK, GatewayOK
<1>7. TypeOK'
  BY <1>1, <1>2, <1>4, <1>5, <1>6 DEF FlowOK, TypeOK
<1> USE DEF FlowOK, GatewayOK, LaunchOK, PhaseOK, ReelOK, RoundOK, BufferOK, MoneyOK, ControlsOK,
         HeldOK, Final, Early, Ended, Live, Presenting, NoRound, NoShow, CanSpin, ReelAt, Turning,
         FreeAfter, Only, Fields
<1>8. (GatewayOK /\ LaunchOK /\ PhaseOK /\ ReelOK)'
  BY <1>1, <1>2, <1>4, <1>5, <1>6
<1>9. (RoundOK /\ BufferOK /\ MoneyOK /\ ControlsOK /\ HeldOK)' /\ Final
  BY <1>1, <1>2, <1>4, <1>5, <1>6
<1>10. QED
  BY <1>7, <1>8, <1>9

LEMMA FeatureModeLeftStep ==
  ASSUME FlowOK, FeatureModeLeft
  PROVE  FlowOK' /\ Final
<1>1. ctl \in Controllers /\ gw \in Gateways /\ ctl.show.at = "exit"
  BY Numbers DEF FeatureModeLeft
<1>2. ctl.show.at # "none"
  BY <1>1
<1>3. PICK r \in Rounds : r = ctl.lastRound /\ r = ctl.show.round
  BY <1>2, ShownFacts
<1>4. CASE Ended(ctl)
  <2>1. /\ ctl' = Over(ctl) /\ UNCHANGED <<launchAt, gw, script, told, budget>>
    BY <1>4 DEF FeatureModeLeft
  <2>2. TaskEnds(ctl, ctl')
    BY <1>1, <2>1, OverFields
  <2>3. QED
    BY <1>2, <1>4, <2>1, <2>2, TaskDropped
<1>5. CASE ~Ended(ctl)
  <2>1. PICK d : d = Completes(ctl, r)
    OBVIOUS
  <2>2. /\ ctl' = d /\ Asks(r) /\ BookOver(r) /\ UNCHANGED <<launchAt, script, budget>>
    BY <1>3, <1>5, <2>1 DEF FeatureModeLeft, Asks
  <2>3. ctl.phase = "presenting" /\ ctl.idle = "none"
    BY <1>2, <1>5, ShownFacts DEF Ended
  <2>4. Completed(ctl, d, r)
    BY <1>1, <2>1, <2>3, CompletesFields
  <2>5. ctl.reel = "Idle" /\ ctl.barrier = FALSE /\ ctl.visible = r
    <3>1. ctl.reel = ReelAt("exit") /\ ctl.visible = ctl.lastRound /\ ~ctl.barrier
      BY <1>1, <1>2, <1>5 DEF FlowOK, ReelOK, MoneyOK
    <3>2. ctl.barrier \in BOOLEAN
      BY <1>1 DEF Controllers
    <3>3. QED
      BY <1>3, <3>1, <3>2 DEF ReelAt
  <2>6. Only(ctl, d, {"phase", "leases", "controls", "freeTimer", "idle", "show"})
    BY <2>4 DEF Completed
  <2>7. /\ Only(ctl, d, {"barrier", "visible", "phase", "leases", "controls", "freeTimer",
                         "idle", "show", "reel", "reelRound"})
        /\ d.barrier = ctl.barrier /\ d.visible = ctl.visible /\ d.reel = ctl.reel
    BY <2>6 DEF Only, Fields
  <2>8. RoundShown(ctl, d, r)
    BY <2>4, <2>5, <2>7 DEF Completed, RoundShown
  <2>9. /\ RoundShown(ctl, ctl', ctl.lastRound) /\ Asks(ctl.lastRound)
        /\ BookOver(ctl.lastRound)
    BY <1>3, <2>2, <2>8
  <2>10. budget' \in [toggles : Nat, faults : Nat, preview : BOOLEAN]
    BY <2>2 DEF FlowOK, TypeOK
  <2>11. QED
    BY <1>2, <1>5, <2>2, <2>9, <2>10, RoundShownStep
<1>6. QED
  BY <1>4, <1>5

LEMMA PresentationFailsStep ==
  ASSUME FlowOK, PresentationFails
  PROVE  FlowOK' /\ Final
<1>1. /\ ctl \in Controllers /\ gw \in Gateways /\ ~Ended(ctl)
      /\ UNCHANGED <<launchAt, script>>
  BY Numbers DEF PresentationFails
<1>2. ctl.show.at # "none"
  BY DEF PresentationFails, FlowOK, RoundOK
<1>3. PICK r \in Rounds : r = ctl.lastRound /\ r = ctl.show.round
  BY <1>2, ShownFacts
<1>4. ctl.phase = "presenting" /\ ctl.balance = r
  BY <1>1, <1>2, <1>3, ShownFacts DEF Ended
<1>5. PICK a : a = applyResultAtBalanceBarrier(ctl)
  OBVIOUS
<1>6. /\ a \in Controllers /\ Only(ctl, a, {"barrier", "visible"})
      /\ a.barrier = FALSE /\ a.visible = r
  BY <1>1, <1>4, <1>5, BarrierFields
<1>7. PICK b : b = ReelReset(a)
  OBVIOUS
<1>8. b \in Controllers /\ Only(a, b, {"reel", "reelRound"}) /\ b.reel = "Idle"
  BY <1>6, <1>7, ReelResetFields
<1>9. b.phase = "presenting"
  BY <1>4, <1>6, <1>8 DEF Only, Fields
<1>10. PICK c : c = Game(b, "PRESENTATION_COMPLETE")
  OBVIOUS
<1>11. c \in Controllers /\ Only(b, c, {"phase"}) /\ c.phase = "ready"
  BY <1>8, <1>9, <1>10, GameAfter, GameFields DEF Phases
<1>12. PICK l \in SUBSET {"big-win", "free-spins", "wheel"} :
         l = (c.leases \ IF script[r].wheel THEN {"wheel"} ELSE {})
               \ IF Base(r) THEN {"free-spins"} ELSE {}
  <2>1. c.leases \in SUBSET {"big-win", "free-spins", "wheel"}
    BY <1>11 DEF Controllers
  <2>2. QED
    BY <2>1
<1>13. PICK e : e = [c EXCEPT !.leases = l]
  OBVIOUS
<1>14. e \in Controllers /\ Only(c, e, {"leases"}) /\ e.leases = l
  <2>1. [c EXCEPT !.leases = l] \in Controllers
    BY <1>11, Put
  <2>2. Only(c, e, {"leases"}) /\ e.leases = l
    BY <1>11, <1>13, Shape DEF Only, Fields
  <2>3. QED
    BY <1>13, <2>1, <2>2
<1>15. PICK f : f = refreshUi(e, gw)
  OBVIOUS
<1>16. f \in Controllers /\ Only(e, f, {"controls", "freeTimer"}) /\ Refreshed(e, f, gw)
  BY <1>1, <1>14, <1>15, RefreshFields
<1>17. PICK d : d = Over(f)
  OBVIOUS
<1>18. TaskEnds(f, d)
  BY <1>16, <1>17, OverFields
<1>19. ctl' = d
  <2>1. e = releaseCompletedFeatureAssetLeases(c, r)
    BY <1>12, <1>13 DEF releaseCompletedFeatureAssetLeases
  <2>2. QED
    BY <1>3, <1>5, <1>7, <1>9, <1>10, <1>15, <1>17, <2>1 DEF PresentationFails
<1>20. /\ Only(ctl, d, {"barrier", "visible", "phase", "leases", "controls", "freeTimer", "idle",
                        "show", "reel", "reelRound"})
       /\ d.barrier = FALSE /\ d.visible = r /\ d.phase = "ready" /\ d.reel = "Idle"
       /\ d.controls = f.controls /\ d.freeTimer = f.freeTimer /\ d.free = f.free
       /\ d.destroyed = f.destroyed /\ e.freeTimer = ctl.freeTimer
       /\ c.leases = ctl.leases /\ f.leases = l
  BY <1>6, <1>8, <1>11, <1>14, <1>16, <1>18 DEF Only, Fields, TaskEnds
<1>21. CanSpin(d, gw) = CanSpin(f, gw)
  BY <1>18 DEF Only, Fields, TaskEnds, CanSpin
<1>22. Refreshed(ctl, d, gw)
  BY <1>16, <1>20, <1>21 DEF Refreshed
<1>23. RoundShown(ctl, d, r)
  BY <1>12, <1>18, <1>20, <1>22 DEF RoundShown, TaskEnds, Kept
<1>24. Asks(r) /\ BookOver(r)
  BY <1>3 DEF PresentationFails, Asks
<1>25. budget' \in [toggles : Nat, faults : Nat, preview : BOOLEAN]
  BY DEF FlowOK, TypeOK, PresentationFails
<1>26. /\ RoundShown(ctl, ctl', ctl.lastRound) /\ Asks(ctl.lastRound)
       /\ BookOver(ctl.lastRound)
  BY <1>3, <1>19, <1>23, <1>24
<1>27. QED
  BY <1>1, <1>2, <1>25, <1>26, RoundShownStep

LEMMA BalanceBarrierStep ==
  ASSUME FlowOK, BalanceBarrier
  PROVE  FlowOK' /\ Final
<1>1. /\ ctl \in Controllers /\ gw \in Gateways /\ ctl.show.at = "summary"
      /\ UNCHANGED <<launchAt, script, budget>>
  BY Numbers DEF BalanceBarrier
<1>2. ctl.show.at # "none"
  BY <1>1
<1>3. PICK r \in Rounds : r = ctl.lastRound /\ r = ctl.show.round
  BY <1>2, ShownFacts
<1>4. ctl.balance = r /\ ctl.idle = "none" /\ (~ctl.timedOut => ctl.phase = "presenting")
  BY <1>2, <1>3, ShownFacts
<1>5. PICK b : b = applyResultAtBalanceBarrier(ctl)
  OBVIOUS
<1>6. /\ b \in Controllers /\ Only(ctl, b, {"barrier", "visible"})
      /\ b.barrier = FALSE /\ b.visible = r
  BY <1>1, <1>4, <1>5, BarrierFields
<1>7. b.idle = "none" /\ (~ctl.timedOut => b.phase = "presenting") /\ b.show = ctl.show
  BY <1>4, <1>6 DEF Only, Fields
<1>8. PICK w \in [round : 0 .. MaxRounds, at : Stages] : w = [ctl.show EXCEPT !.at = "exit"]
  BY <1>1 DEF Controllers, Stages
<1>9. PICK c : c = [b EXCEPT !.show = w]
  OBVIOUS
<1>10. PICK d : d = Completes(b, r)
  OBVIOUS
<1>11. ~ctl.timedOut => Completed(b, d, r)
  BY <1>1, <1>6, <1>7, <1>10, CompletesFields
<1>12. PICK e : e = Over(b)
  OBVIOUS
<1>13. TaskEnds(b, e)
  BY <1>6, <1>12, OverFields
<1>14. \/ ~Ended(ctl) /\ ctl' = c /\ Discloses(r) /\ UNCHANGED gw
       \/ ~Ended(ctl) /\ ctl' = d /\ Asks(r) /\ BookOver(r)
       \/ Ended(ctl) /\ (ctl' = e \/ (~ctl.timedOut /\ ctl' = d)) /\ Discloses(r) /\ UNCHANGED gw
       \/ Ended(ctl) /\ ctl' = Over(ctl) /\ UNCHANGED <<gw, told>>
  <2>1. c = [b EXCEPT !.show.at = "exit"]
    BY <1>7, <1>8, <1>9
  <2>2. QED
    BY <1>3, <1>5, <1>10, <1>12, <2>1 DEF BalanceBarrier, Discloses, Asks
<1>15. CASE ~Ended(ctl) /\ ctl' = c /\ Discloses(r) /\ UNCHANGED gw
  <2>1. c \in Controllers
    <3>1. [b EXCEPT !.show = w] \in Controllers
      BY <1>6, Put
    <3>2. QED
      BY <1>9, <3>1
  <2>2. Only(b, c, {"show"}) /\ c.show = w
    BY <1>6, <1>9, Shape DEF Only, Fields
  <2>3. w.at = "exit" /\ w.round = ctl.show.round
    BY <1>1, <1>8 DEF Controllers
  <2>4. Only(ctl, c, {"barrier", "visible", "show"}) /\ c.barrier = FALSE /\ c.visible = r
    BY <1>6, <2>2 DEF Only, Fields
  <2>5. ExitShown(ctl, c, r)
    BY <2>1, <2>2, <2>3, <2>4 DEF ExitShown
  <2>6. ExitShown(ctl, ctl', ctl.lastRound) /\ Discloses(ctl.lastRound)
    BY <1>3, <1>15, <2>5
  <2>7. QED
    BY <1>1, <1>15, <2>6, ExitShownStep
<1>16. CASE ~Ended(ctl) /\ ctl' = d /\ Asks(r) /\ BookOver(r)
  <2>1. Completed(b, d, r)
    BY <1>11, <1>16 DEF Ended
  <2>2. ctl.reel = "Idle"
    <3>1. ctl.reel = ReelAt("summary")
      BY <1>1, <1>2, <1>16 DEF FlowOK, ReelOK
    <3>2. QED
      BY <3>1 DEF ReelAt
  <2>3. Only(b, d, {"phase", "leases", "controls", "freeTimer", "idle", "show"})
    BY <2>1 DEF Completed
  <2>4. /\ Only(ctl, d, {"barrier", "visible", "phase", "leases", "controls", "freeTimer",
                         "idle", "show", "reel", "reelRound"})
        /\ d.barrier = FALSE /\ d.visible = r /\ d.reel = ctl.reel
        /\ b.leases = ctl.leases /\ b.freeTimer = ctl.freeTimer
    BY <1>6, <2>3 DEF Only, Fields
  <2>5. Refreshed(ctl, d, gw)
    BY <2>1, <2>4 DEF Completed, Refreshed
  <2>6. RoundShown(ctl, d, r)
    BY <2>1, <2>2, <2>4, <2>5 DEF Completed, RoundShown
  <2>7. /\ RoundShown(ctl, ctl', ctl.lastRound) /\ Asks(ctl.lastRound)
        /\ BookOver(ctl.lastRound)
    BY <1>3, <1>16, <2>6
  <2>8. budget' \in [toggles : Nat, faults : Nat, preview : BOOLEAN]
    BY <1>1 DEF FlowOK, TypeOK
  <2>9. QED
    BY <1>1, <1>2, <1>16, <2>7, <2>8, RoundShownStep
<1>17. CASE /\ Ended(ctl) /\ (ctl' = e \/ (~ctl.timedOut /\ ctl' = d))
            /\ Discloses(r) /\ UNCHANGED gw
  <2>1. ctl.leases \subseteq {"big-win"} /\ ctl.freeTimer = 0 /\ ~ctl.controls
          /\ ctl.connection # "online"
    BY <1>17 DEF FlowOK, HeldOK, ControlsOK, GatewayOK, CanSpin, Ended
  <2>2. ctl.controls = FALSE
    BY <1>1, <2>1 DEF Controllers
  <2>3. ASSUME ctl' = e
        PROVE  EndedShown(ctl, e, r)
    <3>1. Only(b, e, {"show", "leases"}) /\ e.show = NoShow /\ e.leases = b.leases \ {"big-win"}
            /\ e \in Controllers
      BY <1>13 DEF TaskEnds
    <3>2. /\ Only(ctl, e, {"barrier", "visible", "phase", "leases", "controls", "freeTimer",
                           "idle", "show"})
          /\ e.barrier = FALSE /\ e.visible = r /\ b.leases = ctl.leases
          /\ e.controls = ctl.controls /\ e.freeTimer = ctl.freeTimer /\ e.phase = ctl.phase
      BY <1>6, <3>1 DEF Only, Fields
    <3>3. e.leases = {}
      BY <2>1, <3>1, <3>2
    <3>4. QED
      BY <2>1, <2>2, <3>1, <3>2, <3>3 DEF EndedShown
  <2>4. ASSUME ~ctl.timedOut, ctl' = d
        PROVE  EndedShown(ctl, d, r)
    <3>1. /\ Only(b, d, {"phase", "leases", "controls", "freeTimer", "idle", "show"})
          /\ d.phase = "ready" /\ d.show = NoShow /\ d.leases = Kept(b.leases, r)
          /\ d \in Controllers /\ Refreshed(b, d, gw)
      BY <1>11, <2>4 DEF Completed
    <3>2. /\ Only(ctl, d, {"barrier", "visible", "phase", "leases", "controls", "freeTimer",
                           "idle", "show"})
          /\ d.barrier = FALSE /\ d.visible = r /\ b.leases = ctl.leases
          /\ b.freeTimer = ctl.freeTimer /\ d.connection = ctl.connection
      BY <1>6, <3>1 DEF Only, Fields
    <3>3. d.leases = {}
      BY <2>1, <3>1, <3>2 DEF Kept
    <3>4. ~d.controls /\ d.freeTimer = 0
      BY <2>1, <3>1, <3>2 DEF Refreshed, CanSpin
    <3>5. d.controls = FALSE
      BY <3>1, <3>4 DEF Controllers
    <3>6. QED
      BY <1>4, <2>4, <3>1, <3>2, <3>3, <3>4, <3>5 DEF EndedShown
  <2>5. EndedShown(ctl, ctl', ctl.lastRound) /\ Discloses(ctl.lastRound)
    BY <1>3, <1>17, <2>3, <2>4
  <2>6. QED
    BY <1>1, <1>2, <1>17, <2>5, EndedShownStep
<1>18. CASE Ended(ctl) /\ ctl' = Over(ctl) /\ UNCHANGED <<gw, told>>
  <2>1. TaskEnds(ctl, ctl')
    BY <1>1, <1>18, OverFields
  <2>2. QED
    BY <1>1, <1>2, <1>18, <2>1, TaskDropped
<1>19. QED
  BY <1>14, <1>15, <1>16, <1>17, <1>18

-----------------------------------------------------------------------------
(* The gateway *)

\* After refreshUi() the button and the timer are right.
LEMMA RefreshedControls ==
  ASSUME FlowOK, NEW d \in Controllers, NEW g, Refreshed(ctl, d, g), ~d.destroyed,
         ctl.freeTimer # 0 => d.free = ctl.free
  PROVE  /\ d.controls <=> CanSpin(d, g) /\ ~d.destroyed
         /\ d.freeTimer # 0 => CanSpin(d, g) /\ d.freeTimer = d.free
         /\ CanSpin(d, g) => d.freeTimer = d.free
<1>1. ctl.freeTimer # 0 => ctl.freeTimer = ctl.free
  BY DEF FlowOK, ControlsOK
<1>2. QED
  BY <1>1 DEF Refreshed

\* While the gateway is connected, the controller has neither ended nor failed.
LEMMA ConnectedFacts ==
  ASSUME FlowOK, gw.conn \in {"connecting", "connected", "parked"}
  PROVE  /\ ~Ended(ctl) /\ ~ctl.timedOut /\ ~ctl.destroyed /\ ~ctl.sessionFailed
         /\ ctl.phase \in Phases /\ ctl.launch # "waiting-session"
         /\ gw.committed <= Len(script) /\ gw.known <= Len(script)
         /\ ctl.queue = <<>> \/ ctl.phase = "presenting"
         /\ ctl.requests <= 1
<1>1. ~Ended(ctl) /\ ~ctl.timedOut /\ ~ctl.destroyed /\ ~ctl.sessionFailed
  BY DEF FlowOK, GatewayOK, Ended
<1>2. ctl.phase \in Phases /\ ctl.launch # "waiting-session"
  BY Numbers DEF FlowOK, PhaseOK, LaunchOK, Controllers
<1>3. ctl.requests <= 1 /\ gw.committed <= Len(script) /\ gw.known <= gw.committed
  BY DEF FlowOK, HeldOK, GatewayOK
<1>4. gw.known <= Len(script)
  BY <1>3, Numbers, ScriptFacts
<1>5. ctl.queue = <<>> \/ ctl.phase = "presenting"
  BY <1>1 DEF FlowOK, PhaseOK, Presenting
<1>6. QED
  BY <1>1, <1>2, <1>3, <1>4, <1>5

LEMMA CommitStep ==
  ASSUME FlowOK, Commit
  PROVE  FlowOK' /\ Final
<1>1. /\ gw.pending # NoRound /\ gw.pending = gw.committed + 1 /\ ~gw.delivered /\ ~gw.asked
      /\ ~Presenting /\ gw.known <= gw.committed /\ gw.pending <= Len(script)
  BY Numbers DEF Commit, FlowOK, GatewayOK, RoundOK, NoRound
<1>2. PICK p \in 0 .. MaxRounds : p = gw.pending
  BY Numbers DEF Gateways
<1>3. gw' = [gw EXCEPT !.committed = p] /\ gw \in Gateways
  BY <1>2, Numbers DEF Commit
<1>4. /\ gw' \in Gateways /\ gw'.conn = gw.conn /\ gw'.available = gw.available
      /\ gw'.told = gw.told /\ gw'.pending = gw.pending /\ gw'.delivered = gw.delivered
      /\ gw'.known = gw.known /\ gw'.asked = gw.asked /\ gw'.committed = p
  BY <1>3 DEF Gateways
<1>5. gw'.committed = gw.pending
  BY <1>2, <1>4
<1>6. UNCHANGED <<ctl, launchAt, script, told, budget>>
  BY DEF Commit
<1> DEFINE Change == gw' \in Gateways /\ gw'.conn = gw.conn /\ gw'.available = gw.available
                     /\ gw'.told = gw.told /\ gw'.pending = gw.pending
                     /\ gw'.delivered = gw.delivered /\ gw'.known = gw.known
                     /\ gw'.asked = gw.asked
<1>7. Change
  BY <1>4
<1>8. TypeOK'
  BY <1>1, <1>5, <1>6, <1>7, Numbers DEF FlowOK, TypeOK
<1> USE DEF FlowOK, GatewayOK, LaunchOK, PhaseOK, ReelOK, RoundOK, BufferOK, MoneyOK, ControlsOK,
         HeldOK, Final, Early, Ended, Live, Presenting, NoRound, NoShow, CanSpin, ReelAt, Turning,
         FreeAfter, Only, Fields
<1>9. (GatewayOK /\ LaunchOK /\ PhaseOK /\ ReelOK)'
  BY <1>1, <1>5, <1>6, <1>7, Numbers
<1>10. (RoundOK /\ BufferOK /\ MoneyOK /\ ControlsOK /\ HeldOK)' /\ Final
  BY SMTT(60), <1>1, <1>5, <1>6, <1>7, Numbers
<1>11. QED
  BY <1>8, <1>9, <1>10

\* The confirmation of the round is acknowledged: the next one may be asked for.
LEMMA AcknowledgedStep ==
  ASSUME FlowOK, Acknowledged
  PROVE  FlowOK' /\ Final
<1>1. gw \in Gateways /\ ctl \in Controllers /\ gw.conn = "connected" /\ gw.asked
  BY Numbers DEF Acknowledged
<1>2. /\ ~Ended(ctl) /\ ~ctl.timedOut /\ ~ctl.destroyed /\ ~ctl.sessionFailed
  BY <1>1, ConnectedFacts
<1>3. /\ gw.delivered /\ gw.pending # NoRound /\ gw.pending = gw.committed
      /\ gw.known = gw.committed /\ ctl.free = FreeAfter(gw.committed)
      /\ ctl.phase # "requesting" /\ ~Presenting /\ gw.pending \in told.over
  BY <1>1 DEF FlowOK, GatewayOK, MoneyOK, RoundOK
<1>4. /\ ctl.phase = "ready" /\ ctl.buffered = NoRound /\ ctl.reel = "Idle" /\ ctl.freeTimer = 0
  <2>1. ctl.phase = "ready"
    BY <1>1, <1>2, <1>3, Numbers DEF FlowOK, PhaseOK, Live, Phases, Controllers
  <2>2. ctl.buffered = NoRound /\ ctl.reel = "Idle"
    BY <1>1, <1>2, <1>3 DEF FlowOK, BufferOK, ReelOK, Live
  <2>3. ctl.freeTimer = 0
    BY <1>3 DEF FlowOK, ControlsOK, CanSpin
  <2>4. QED
    BY <2>1, <2>2, <2>3
<1>5. gw.pending <= told.disclosed /\ gw.committed <= told.disclosed
  BY <1>3 DEF FlowOK, MoneyOK
<1>6. PICK g : g = [gw EXCEPT !.pending = 0, !.delivered = FALSE, !.asked = FALSE]
  OBVIOUS
<1>7. /\ g \in Gateways /\ g.conn = gw.conn /\ g.available = gw.available
      /\ g.told = gw.told /\ g.pending = 0 /\ g.delivered = FALSE
      /\ g.known = gw.known /\ g.asked = FALSE /\ g.committed = gw.committed
  BY <1>1, <1>6, Bounds DEF Gateways
<1>8. /\ gw' = g /\ UNCHANGED <<launchAt, script, told, budget>>
  BY <1>6 DEF Acknowledged, NoRound
<1>9. PICK d : d = refreshUi(ctl, g)
  OBVIOUS
<1>10. ctl' = d
  BY <1>6, <1>9 DEF Acknowledged, NoRound
<1>11. /\ d \in Controllers /\ Only(ctl, d, {"controls", "freeTimer"}) /\ Refreshed(ctl, d, g)
  BY <1>1, <1>7, <1>9, RefreshFields
<1>12. ~d.destroyed /\ d.free = ctl.free
  BY <1>2, <1>11 DEF Only, Fields
<1>13. /\ d.controls <=> CanSpin(d, g) /\ ~d.destroyed
       /\ d.freeTimer # 0 => CanSpin(d, g) /\ d.freeTimer = d.free
       /\ CanSpin(d, g) => d.freeTimer = d.free
  BY <1>11, <1>12, RefreshedControls
<1>14. Only(ctl, d, {"controls", "freeTimer"})
  BY <1>11
<1>15. /\ ctl' \in Controllers /\ Only(ctl, ctl', {"controls", "freeTimer"})
       /\ gw' \in Gateways /\ gw'.conn = gw.conn /\ gw'.available = gw.available
       /\ gw'.told = gw.told /\ gw'.pending = 0 /\ gw'.delivered = FALSE
       /\ gw'.known = gw.known /\ gw'.asked = FALSE /\ gw'.committed = gw.committed
       /\ UNCHANGED <<launchAt, script, told, budget>>
  BY <1>7, <1>8, <1>10, <1>11
<1>16. /\ ctl'.controls <=> CanSpin(ctl', gw') /\ ~ctl'.destroyed
       /\ ctl'.freeTimer # 0 => CanSpin(ctl', gw') /\ ctl'.freeTimer = ctl'.free
       /\ CanSpin(ctl', gw') => ctl'.freeTimer = ctl'.free
  BY <1>8, <1>10, <1>13
<1>17. /\ ctl'.opened = ctl.opened /\ ctl'.hasSession = ctl.hasSession
       /\ ctl'.sessionTimer = ctl.sessionTimer
  BY <1>15 DEF Only, Fields
<1>18. TypeOK'
  BY <1>1, <1>2, <1>3, <1>4, <1>5, <1>15, <1>16, <1>17 DEF FlowOK, TypeOK
<1> USE DEF FlowOK, GatewayOK, LaunchOK, PhaseOK, ReelOK, RoundOK, BufferOK, MoneyOK, ControlsOK,
         HeldOK, Final, Early, Ended, Live, Presenting, NoRound, NoShow, CanSpin, ReelAt, Turning,
         FreeAfter, Only, Fields
<1>19. (GatewayOK /\ LaunchOK /\ PhaseOK /\ ReelOK)'
  BY <1>1, <1>2, <1>3, <1>4, <1>5, <1>15, <1>16, <1>17
<1>20. (RoundOK /\ BufferOK /\ MoneyOK /\ ControlsOK /\ HeldOK)' /\ Final
  BY <1>1, <1>2, <1>3, <1>4, <1>5, <1>15, <1>16, <1>17
<1>21. QED
  BY <1>18, <1>19, <1>20

\* d is c after handleSession(), with the status that came before it.
SessionTaken(c, d, g) ==
  /\ d \in Controllers /\ Only(c, d, SessionChanges \union {"connection"})
  /\ d.sessionTimer = FALSE /\ d.opened = TRUE /\ d.hasSession = TRUE
  /\ d.balance = g.known
  /\ d.free = IF g.pending # 0 \/ c.buffered # 0 \/ c.phase = "presenting"
              THEN c.free ELSE FreeAfter(g.known)
  /\ d.visible = IF g.pending # 0 \/ c.buffered # 0 \/ c.barrier
                 THEN c.visible ELSE g.known
  /\ d.phase = IF c.phase \notin {"connecting", "recovering"} THEN c.phase
               ELSE IF g.pending = 0 THEN "ready" ELSE "requesting"
  /\ Refreshed(c, d, g)

LEMMA SessionTaking ==
  ASSUME NEW c \in Controllers, ~c.timedOut, ~c.sessionFailed, c.launch # "waiting-session",
         c.phase \in Phases, NEW g \in Gateways,
         script \in {s.script : s \in Scenarios}, g.known <= Len(script), NEW d,
         d = handleSession(c, g) \/ d = handleSession(handleStatus(c, g, "online"), g)
  PROVE  SessionTaken(c, d, g)
<1>1. PICK a : a = IF d = handleSession(c, g) THEN c ELSE handleStatus(c, g, "online")
  OBVIOUS
<1>2. a \in Controllers /\ Only(c, a, {"connection"})
  <2>1. a = handleStatus(c, g, "online")
          => a \in Controllers /\ Only(c, a, {"connection"})
    BY StatusFields
  <2>2. Only(c, c, {"connection"})
    BY DEF Only
  <2>3. QED
    BY <1>1, <2>1, <2>2
<1>3. d = handleSession(a, g)
  BY <1>1
<1>4. /\ ~a.timedOut /\ ~a.sessionFailed /\ a.launch = c.launch /\ a.phase = c.phase
      /\ a.buffered = c.buffered /\ a.barrier = c.barrier /\ a.visible = c.visible
      /\ a.free = c.free /\ a.freeTimer = c.freeTimer
  BY <1>2 DEF Only, Fields
<1>5. /\ d \in Controllers /\ Only(a, d, SessionChanges)
      /\ d.sessionTimer = FALSE /\ d.opened = TRUE /\ d.hasSession = TRUE
      /\ d.balance = g.known
      /\ d.free = IF g.pending # 0 \/ a.buffered # 0 \/ a.phase = "presenting"
                  THEN a.free ELSE FreeAfter(g.known)
      /\ d.visible = IF g.pending # 0 \/ a.buffered # 0 \/ a.barrier
                     THEN a.visible ELSE g.known
      /\ d.phase = IF a.phase \notin {"connecting", "recovering"} THEN a.phase
                   ELSE IF g.pending = 0 THEN "ready" ELSE "requesting"
      /\ Refreshed(a, d, g)
  <2>1. /\ a \in Controllers /\ ~a.timedOut /\ ~a.sessionFailed
        /\ a.launch # "waiting-session" /\ a.phase \in Phases
    BY <1>2, <1>4
  <2>2. QED
    BY <1>3, <2>1, SessionFields, ZenonT(60)
<1>6. Only(c, d, SessionChanges \union {"connection"})
  BY <1>2, <1>5 DEF Only, Fields, SessionChanges
<1>7. Refreshed(c, d, g)
  BY <1>4, <1>5 DEF Refreshed
<1>8. QED
  BY <1>4, <1>5, <1>6, <1>7 DEF SessionTaken

\* A session of a connected gateway leaves the free spins as they are and
\* discloses no balance that was not disclosed.
LEMMA SessionKeeps ==
  ASSUME FlowOK, gw.conn \in {"connecting", "connected"}, NEW g \in Gateways,
         g.pending = gw.pending, g.known \in Nat, g.known <= gw.committed,
         g.pending = NoRound => g.known = gw.committed,
         NEW d, SessionTaken(ctl, d, g)
  PROVE  /\ d.free = ctl.free /\ d.visible <= told.disclosed
         /\ d.visible = ctl.visible \/ (gw.pending = NoRound /\ ~ctl.barrier)
         /\ d.controls <=> CanSpin(d, g) /\ ~d.destroyed
         /\ d.freeTimer # 0 => CanSpin(d, g) /\ d.freeTimer = d.free
         /\ CanSpin(d, g) => d.freeTimer = d.free
<1>1. ~Ended(ctl) /\ ~ctl.destroyed
  BY ConnectedFacts
<1>2. ctl.visible <= told.disclosed
  BY DEF FlowOK, MoneyOK
<1>3. ASSUME gw.pending = NoRound
      PROVE  /\ gw.committed <= told.disclosed /\ ctl.free = FreeAfter(gw.committed)
             /\ g.known = gw.committed
  BY <1>3, Numbers DEF FlowOK, MoneyOK, NoRound, TypeOK
<1>4. d.free = ctl.free
  BY <1>3 DEF SessionTaken, NoRound
<1>5. /\ d.visible <= told.disclosed
      /\ d.visible = ctl.visible \/ (gw.pending = NoRound /\ ~ctl.barrier)
  BY <1>2, <1>3 DEF SessionTaken, NoRound
<1>6. d \in Controllers /\ Refreshed(ctl, d, g) /\ Only(ctl, d, SessionChanges \union {"connection"})
  BY DEF SessionTaken
<1>7. ~d.destroyed
  BY <1>1, <1>6 DEF Only, Fields, SessionChanges
<1>8. /\ d.controls <=> CanSpin(d, g) /\ ~d.destroyed
      /\ d.freeTimer # 0 => CanSpin(d, g) /\ d.freeTimer = d.free
      /\ CanSpin(d, g) => d.freeTimer = d.free
  BY <1>4, <1>6, <1>7, RefreshedControls
<1>9. QED
  BY <1>4, <1>5, <1>8

\* A connected gateway, online, hands its session on.
LEMMA SessionStep ==
  ASSUME FlowOK, gw.conn \in {"connecting", "connected"}, SessionTaken(ctl, ctl', gw'),
         gw' \in Gateways, gw'.conn = "connected", gw'.available = TRUE,
         gw'.pending = gw.pending, gw'.committed = gw.committed,
         gw'.delivered = gw.delivered, gw'.asked = gw.asked,
         gw'.known = gw.committed \/ (gw'.known = gw.known /\ gw.conn = "connected"),
         gw.conn = "connected" /\ gw.available => ctl.phase # "recovering",
         UNCHANGED <<launchAt, script, told, budget>>
  PROVE  FlowOK' /\ Final
<1>1. ~Ended(ctl) /\ ~ctl.timedOut /\ ~ctl.destroyed /\ ~ctl.sessionFailed
  BY ConnectedFacts
<1>2. /\ gw'.known \in Nat /\ gw'.known <= gw.committed
      /\ gw.pending = NoRound \/ gw.pending = gw.committed + 1 \/ gw.delivered
           => gw'.known = gw.committed
  BY Numbers DEF FlowOK, GatewayOK
<1>3. /\ ctl'.free = ctl.free /\ ctl'.visible <= told.disclosed
      /\ ctl'.visible = ctl.visible \/ (gw.pending = NoRound /\ ~ctl.barrier)
      /\ ctl'.controls <=> CanSpin(ctl', gw') /\ ~ctl'.destroyed
      /\ ctl'.freeTimer # 0 => CanSpin(ctl', gw') /\ ctl'.freeTimer = ctl'.free
      /\ CanSpin(ctl', gw') => ctl'.freeTimer = ctl'.free
  BY <1>2, SessionKeeps
<1>4. /\ ctl' \in Controllers /\ ctl'.sessionTimer = FALSE /\ ctl'.opened = TRUE
      /\ ctl'.hasSession = TRUE /\ ctl'.balance = gw'.known
      /\ Only(ctl, ctl', SessionChanges \union {"connection"})
      /\ ctl.phase \notin {"connecting", "recovering"} => ctl'.phase = ctl.phase
      /\ ctl.phase \in {"connecting", "recovering"} =>
           ctl'.phase = IF gw.pending = NoRound THEN "ready" ELSE "requesting"
  BY DEF SessionTaken, NoRound
<1>5. /\ ctl'.launch = ctl.launch /\ ctl'.reel = ctl.reel /\ ctl'.reelRound = ctl.reelRound
      /\ ctl'.timedOut = ctl.timedOut /\ ctl'.destroyed = ctl.destroyed
      /\ ctl'.sessionFailed = ctl.sessionFailed /\ ctl'.requests = ctl.requests
      /\ ctl'.buffered = ctl.buffered /\ ctl'.visualStart = ctl.visualStart
      /\ ctl'.lastRound = ctl.lastRound /\ ctl'.barrier = ctl.barrier
      /\ ctl'.idle = ctl.idle /\ ctl'.leases = ctl.leases /\ ctl'.queue = ctl.queue
      /\ ctl'.show = ctl.show
  BY <1>4 DEF Only, Fields, SessionChanges
<1>6. /\ gw' \in Gateways /\ gw'.conn = "connected" /\ gw'.available = TRUE
      /\ gw'.pending = gw.pending /\ gw'.committed = gw.committed
      /\ gw'.delivered = gw.delivered /\ gw'.asked = gw.asked
      /\ UNCHANGED <<launchAt, script, told, budget>>
  OBVIOUS
<1>7. /\ ctl' \in Controllers /\ ctl'.sessionTimer = FALSE /\ ctl'.opened = TRUE
      /\ ctl'.hasSession = TRUE /\ ctl'.balance = gw'.known
  BY <1>4
<1>8. \/ ctl.phase \notin {"connecting", "recovering"} /\ ctl'.phase = ctl.phase
      \/ gw.pending = NoRound /\ ctl'.phase = "ready" /\ ctl.phase \in {"connecting", "recovering"}
      \/ /\ gw.pending # NoRound /\ ctl'.phase = "requesting"
         /\ ctl.phase \in {"connecting", "recovering"}
  BY <1>4
<1>9. TypeOK'
  BY <1>1, <1>2, <1>3, <1>5, <1>6, <1>7, <1>8, Numbers DEF FlowOK, TypeOK
<1> USE DEF FlowOK, GatewayOK, LaunchOK, PhaseOK, ReelOK, RoundOK, BufferOK, MoneyOK, ControlsOK,
         HeldOK, Final, Early, Ended, Live, Presenting, NoRound, NoShow, CanSpin, ReelAt, Turning,
         FreeAfter, Only, Fields
<1>10. GatewayOK'
  BY <1>1, <1>2, <1>3, <1>5, <1>6, <1>7, <1>8, Numbers
<1>11. LaunchOK'
  BY <1>1, <1>2, <1>3, <1>5, <1>6, <1>7, <1>8, Numbers
<1>12. PhaseOK'
  BY <1>1, <1>2, <1>3, <1>5, <1>6, <1>7, <1>8, Numbers
<1>13. ReelOK'
  BY <1>1, <1>2, <1>3, <1>5, <1>6, <1>7, <1>8, Numbers
<1>14. RoundOK'
  BY <1>1, <1>2, <1>3, <1>5, <1>6, <1>7, <1>8, Numbers
<1>15. BufferOK'
  BY <1>1, <1>2, <1>3, <1>5, <1>6, <1>7, <1>8, Numbers
<1>16. MoneyOK'
  BY <1>1, <1>2, <1>3, <1>5, <1>6, <1>7, <1>8, Numbers
<1>17. ControlsOK'
  BY <1>1, <1>2, <1>3, <1>5, <1>6, <1>7, <1>8, Numbers
<1>18. HeldOK' /\ Final
  BY <1>1, <1>2, <1>3, <1>5, <1>6, <1>7, <1>8, Numbers
<1>19. QED
  BY <1>9, <1>10, <1>11, <1>12, <1>13, <1>14, <1>15, <1>16, <1>17, <1>18

\* The projection alone is renewed while the page is hidden.
LEMMA ProjectionStep ==
  ASSUME FlowOK, ctl' = ctl, UNCHANGED <<launchAt, script, told, budget>>,
         gw.conn = "connected", gw' \in Gateways, gw'.conn = gw.conn,
         gw'.available = gw.available, gw'.told = gw.told, gw'.pending = gw.pending,
         gw'.delivered = gw.delivered, gw'.known = gw.committed, gw'.asked = gw.asked,
         gw'.committed = gw.committed
  PROVE  FlowOK' /\ Final
<1>1. TypeOK'
  BY Numbers DEF FlowOK, TypeOK
<1> USE DEF FlowOK, GatewayOK, LaunchOK, PhaseOK, ReelOK, RoundOK, BufferOK, MoneyOK, ControlsOK,
         HeldOK, Final, Early, Ended, Live, Presenting, NoRound, NoShow, CanSpin, ReelAt, Turning,
         FreeAfter, Only, Fields
<1>2. (GatewayOK /\ LaunchOK /\ PhaseOK /\ ReelOK)'
  BY Numbers
<1>3. (RoundOK /\ BufferOK /\ MoneyOK /\ ControlsOK /\ HeldOK)' /\ Final
  BY Numbers
<1>4. QED
  BY <1>1, <1>2, <1>3

LEMMA RefreshTokenStep ==
  ASSUME FlowOK, RefreshToken
  PROVE  FlowOK' /\ Final
<1>1. gw \in Gateways /\ ctl \in Controllers /\ gw.conn = "connected"
  BY Numbers DEF RefreshToken
<1>2. /\ ~Ended(ctl) /\ ~ctl.timedOut /\ ~ctl.destroyed /\ ~ctl.sessionFailed
      /\ ctl.phase \in Phases /\ ctl.launch # "waiting-session"
      /\ gw.committed <= Len(script)
  BY <1>1, ConnectedFacts
<1>3. PICK k \in 0 .. MaxRounds : k = gw.committed
  BY <1>1 DEF Gateways
<1>4. PICK g : g = [gw EXCEPT !.known = k]
  OBVIOUS
<1>5. /\ g \in Gateways /\ g.conn = gw.conn /\ g.available = gw.available
      /\ g.told = gw.told /\ g.pending = gw.pending /\ g.delivered = gw.delivered
      /\ g.known = k /\ g.asked = gw.asked /\ g.committed = gw.committed
  BY <1>1, <1>4 DEF Gateways
<1>6. /\ gw' = g /\ UNCHANGED <<launchAt, script, told, budget>>
      /\ ctl' = IF gw.available THEN handleSession(ctl, g) ELSE ctl
  BY <1>3, <1>4 DEF RefreshToken
<1>7. CASE gw.available
  <2>1. PICK d : d = handleSession(ctl, g)
    OBVIOUS
  <2>2. SessionTaken(ctl, d, g)
    BY <1>1, <1>2, <1>3, <1>5, <2>1, Numbers, SessionTaking
  <2>3. SessionTaken(ctl, ctl', gw')
    BY <1>6, <1>7, <2>1, <2>2
  <2>4. /\ gw' \in Gateways /\ gw'.conn = "connected" /\ gw'.available = TRUE
        /\ gw'.pending = gw.pending /\ gw'.committed = gw.committed
        /\ gw'.delivered = gw.delivered /\ gw'.asked = gw.asked
        /\ gw'.known = gw.committed
    BY <1>1, <1>3, <1>5, <1>6, <1>7 DEF Gateways
  <2>5. ctl.phase # "recovering"
    BY <1>1, <1>2, <1>7 DEF FlowOK, PhaseOK, Live
  <2>6. QED
    BY <1>1, <1>6, <2>3, <2>4, <2>5, SessionStep
<1>8. CASE ~gw.available
  <2>1. ctl' = ctl /\ UNCHANGED <<launchAt, script, told, budget>>
    BY <1>6, <1>8
  <2>2. /\ gw' \in Gateways /\ gw'.conn = gw.conn /\ gw'.available = gw.available
        /\ gw'.told = gw.told /\ gw'.pending = gw.pending /\ gw'.delivered = gw.delivered
        /\ gw'.known = gw.committed /\ gw'.asked = gw.asked /\ gw'.committed = gw.committed
    BY <1>3, <1>5, <1>6
  <2>3. QED
    BY <1>1, <2>1, <2>2, ProjectionStep
<1>9. QED
  BY <1>7, <1>8


\* The page is visible again and the gateway had said nothing of an interruption,
\* or it has yet to connect.
BackQuietly ==
  /\ ctl' \in Controllers /\ Only(ctl, ctl', {"connection"})
  /\ \/ gw.conn = "parked" /\ gw'.conn = "connecting" /\ ctl'.connection = "connecting"
     \/ gw.conn # "parked" /\ gw'.conn = gw.conn /\ ctl'.connection = ctl.connection
  /\ gw.conn = "connected" => ~gw.told
  /\ gw' \in Gateways /\ gw'.available = TRUE /\ (gw'.told => gw.told)
  /\ gw'.pending = gw.pending /\ gw'.delivered = gw.delivered /\ gw'.known = gw.known
  /\ gw'.asked = gw.asked /\ gw'.committed = gw.committed

LEMMA BackQuietStep ==
  ASSUME FlowOK, ~gw.available, gw.conn # "closed", BackQuietly,
         UNCHANGED <<launchAt, script, told, budget>>
  PROVE  FlowOK' /\ Final
<1>1. /\ ~Ended(ctl) /\ ~ctl.sessionFailed /\ ~ctl.timedOut /\ ~ctl.destroyed
      /\ gw.conn \in {"parked", "connecting", "connected"}
  BY Numbers DEF FlowOK, GatewayOK, Gateways, Ended
<1>2. /\ ctl'.phase = ctl.phase /\ ctl'.launch = ctl.launch
      /\ ctl'.hasSession = ctl.hasSession /\ ctl'.reel = ctl.reel
      /\ ctl'.reelRound = ctl.reelRound /\ ctl'.timedOut = ctl.timedOut
      /\ ctl'.destroyed = ctl.destroyed /\ ctl'.sessionFailed = ctl.sessionFailed
      /\ ctl'.opened = ctl.opened /\ ctl'.requests = ctl.requests
      /\ ctl'.preview = ctl.preview /\ ctl'.buffered = ctl.buffered
      /\ ctl'.visualStart = ctl.visualStart /\ ctl'.lastRound = ctl.lastRound
      /\ ctl'.barrier = ctl.barrier /\ ctl'.balance = ctl.balance
      /\ ctl'.visible = ctl.visible /\ ctl'.free = ctl.free
      /\ ctl'.controls = ctl.controls /\ ctl'.freeTimer = ctl.freeTimer
      /\ ctl'.sessionTimer = ctl.sessionTimer /\ ctl'.idle = ctl.idle
      /\ ctl'.leases = ctl.leases /\ ctl'.queue = ctl.queue /\ ctl'.show = ctl.show
  BY DEF Only, Fields, BackQuietly
<1>3. /\ ctl' \in Controllers /\ gw' \in Gateways /\ gw'.available = TRUE
      /\ gw'.told => gw.told
      /\ gw'.pending = gw.pending /\ gw'.delivered = gw.delivered /\ gw'.known = gw.known
      /\ gw'.asked = gw.asked /\ gw'.committed = gw.committed
      /\ gw.conn = "connected" => ~gw.told
  BY DEF BackQuietly
<1>4. gw.conn = "connected" =>
        /\ gw'.conn = "connected" /\ ctl'.connection = ctl.connection /\ ctl.phase # "recovering"
  BY <1>1, <1>3 DEF BackQuietly, FlowOK, PhaseOK, Live
<1>5. gw.conn # "connected" =>
        gw'.conn = "connecting" /\ ctl'.connection # "online" /\ ctl.connection # "online"
  <2>1. ASSUME gw.conn # "connected"
        PROVE  ctl.connection # "online"
    BY <2>1 DEF FlowOK, GatewayOK
  <2>2. gw.conn # "connected" => gw.conn \in {"parked", "connecting"}
    BY <1>1
  <2>3. \/ gw.conn = "parked" /\ gw'.conn = "connecting" /\ ctl'.connection = "connecting"
        \/ gw.conn # "parked" /\ gw'.conn = gw.conn /\ ctl'.connection = ctl.connection
    BY DEF BackQuietly
  <2>4. QED
    BY <2>1, <2>2, <2>3
<1>6. TypeOK'
  BY <1>1, <1>2, <1>3, <1>4, <1>5 DEF FlowOK, TypeOK
<1> USE DEF FlowOK, GatewayOK, LaunchOK, PhaseOK, ReelOK, RoundOK, BufferOK, MoneyOK, ControlsOK,
         HeldOK, Final, Early, Ended, Live, Presenting, NoRound, NoShow, CanSpin, ReelAt, Turning,
         FreeAfter, Only, Fields
<1>7. GatewayOK'
  BY <1>1, <1>2, <1>3, <1>4, <1>5
<1>8. LaunchOK'
  BY <1>1, <1>2, <1>3, <1>4, <1>5
<1>9. PhaseOK'
  BY <1>1, <1>2, <1>3, <1>4, <1>5
<1>10. ReelOK'
  BY <1>1, <1>2, <1>3, <1>4, <1>5
<1>11. RoundOK'
  BY <1>1, <1>2, <1>3, <1>4, <1>5
<1>12. BufferOK'
  BY <1>1, <1>2, <1>3, <1>4, <1>5
<1>13. MoneyOK'
  BY <1>1, <1>2, <1>3, <1>4, <1>5
<1>14. ControlsOK'
  BY <1>1, <1>2, <1>3, <1>4, <1>5
<1>15. HeldOK' /\ Final
  BY <1>1, <1>2, <1>3, <1>4, <1>5
<1>16. QED
  BY <1>6, <1>7, <1>8, <1>9, <1>10, <1>11, <1>12, <1>13, <1>14, <1>15

LEMMA ResumeStep ==
  ASSUME FlowOK, Resume
  PROVE  FlowOK' /\ Final
<1>1. gw \in Gateways /\ ctl \in Controllers /\ ~gw.available /\ gw.conn # "closed"
  BY Numbers DEF Resume
<1>2. gw.conn \in {"connecting", "connected", "parked"}
  BY <1>1 DEF Gateways
<1>3. /\ ~Ended(ctl) /\ ~ctl.timedOut /\ ~ctl.destroyed /\ ~ctl.sessionFailed
      /\ ctl.phase \in Phases /\ ctl.launch # "waiting-session"
      /\ gw.known <= Len(script)
  BY <1>2, ConnectedFacts
<1>4. PICK n \in {"connecting", "connected"} :
        n = IF gw.conn = "parked" THEN "connecting" ELSE gw.conn
  BY <1>2
<1>5. PICK t \in BOOLEAN : t <=> gw.told /\ gw.conn = "connecting"
  BY Zenon
<1>6. PICK g : g = [gw EXCEPT !.available = TRUE, !.conn = n, !.told = t]
  OBVIOUS
<1>7. /\ g \in Gateways /\ g.conn = n /\ g.available = TRUE
      /\ g.told = t /\ g.pending = gw.pending /\ g.delivered = gw.delivered
      /\ g.known = gw.known /\ g.asked = gw.asked /\ g.committed = gw.committed
  BY <1>1, <1>6 DEF Gateways
<1>8. g = [gw EXCEPT !.available = TRUE, !.conn = IF @ = "parked" THEN "connecting" ELSE @,
                     !.told = @ /\ gw.conn = "connecting"]
  <2>1. t = (gw.told /\ gw.conn = "connecting")
    BY <1>1, <1>5 DEF Gateways
  <2>2. QED
    BY <1>4, <1>6, <2>1
<1>9. /\ gw' = g /\ UNCHANGED <<launchAt, script, told, budget>>
      /\ gw.conn = "parked" => ctl' = handleStatus(ctl, g, "connecting")
      /\ gw.conn = "connected" /\ gw.told
           => ctl' = handleSession(handleStatus(ctl, g, "online"), g)
      /\ gw.conn # "parked" /\ ~(gw.conn = "connected" /\ gw.told) => ctl' = ctl
  BY <1>8 DEF Resume
<1>10. CASE gw.conn = "connected" /\ gw.told
  <2>1. PICK d : d = handleSession(handleStatus(ctl, g, "online"), g)
    OBVIOUS
  <2>2. SessionTaken(ctl, d, g)
    BY <1>1, <1>3, <1>7, <2>1, Numbers, SessionTaking
  <2>3. SessionTaken(ctl, ctl', gw')
    BY <1>9, <1>10, <2>1, <2>2
  <2>4. /\ gw' \in Gateways /\ gw'.conn = "connected" /\ gw'.available = TRUE
        /\ gw'.pending = gw.pending /\ gw'.committed = gw.committed
        /\ gw'.delivered = gw.delivered /\ gw'.asked = gw.asked
        /\ gw'.known = gw.known
    BY <1>4, <1>7, <1>9, <1>10
  <2>5. QED
    BY <1>1, <1>9, <1>10, <2>3, <2>4, SessionStep
<1>11. CASE ~(gw.conn = "connected" /\ gw.told)
  <2>1. PICK d : d = IF gw.conn = "parked" THEN handleStatus(ctl, g, "connecting") ELSE ctl
    OBVIOUS
  <2>2. /\ d \in Controllers /\ Only(ctl, d, {"connection"})
        /\ d.connection = IF gw.conn = "parked" THEN "connecting" ELSE ctl.connection
    <3>1. CASE gw.conn = "parked"
      BY <1>1, <1>3, <2>1, <3>1, StatusFields
    <3>2. CASE gw.conn # "parked"
      BY <1>1, <2>1, <3>2 DEF Only
    <3>3. QED
      BY <3>1, <3>2
  <2>3. ctl' = d
    BY <1>9, <1>11, <2>1
  <2>4. /\ gw' \in Gateways /\ gw'.available = TRUE /\ (gw'.told => gw.told)
        /\ gw'.pending = gw.pending /\ gw'.delivered = gw.delivered /\ gw'.known = gw.known
        /\ gw'.asked = gw.asked /\ gw'.committed = gw.committed
    BY <1>5, <1>7, <1>9
  <2>5. /\ ctl' \in Controllers /\ Only(ctl, ctl', {"connection"})
        /\ \/ gw.conn = "parked" /\ gw'.conn = "connecting" /\ ctl'.connection = "connecting"
           \/ gw.conn # "parked" /\ gw'.conn = gw.conn /\ ctl'.connection = ctl.connection
    BY <1>4, <1>7, <1>9, <2>2, <2>3
  <2>6. QED
    BY <1>1, <1>9, <1>11, <2>4, <2>5, BackQuietStep DEF BackQuietly
<1>12. QED
  BY <1>10, <1>11

\* A gateway that has not connected yet has brought the controller nothing.
LEMMA EarlyFacts ==
  ASSUME FlowOK, gw.conn \in {"connecting", "parked"}
  PROVE  /\ ~gw.delivered /\ ~gw.asked /\ ~ctl.opened /\ ~Presenting /\ ctl.queue = <<>>
         /\ gw.committed # NoRound => gw.pending = gw.committed
         /\ ctl.phase \in {"connecting", "recovering"} /\ ctl.free = 0 /\ ctl.reel = "Idle"
         /\ ctl.launch # "ready" /\ ctl.buffered = NoRound /\ ctl.visible <= told.disclosed
         /\ ~gw.available => ctl.phase = "recovering" /\ gw.told
         /\ gw.pending # NoRound => ctl.lastRound < gw.pending
<1>1. Early /\ ~Ended(ctl)
  BY ConnectedFacts DEF Early
<1>2. /\ ~gw.delivered /\ ~ctl.opened
      /\ gw.committed # NoRound => gw.pending = gw.committed
      /\ ctl.phase \in {"connecting", "recovering"} /\ ctl.free = 0 /\ ctl.reel = "Idle"
      /\ ~gw.available => ctl.phase = "recovering" /\ gw.told
      /\ ~gw.asked
  BY <1>1 DEF FlowOK, GatewayOK, NoRound
<1>3. ~Presenting /\ ctl.queue = <<>>
  BY <1>1, <1>2 DEF FlowOK, PhaseOK, Presenting, Ended
<1>4. ctl.launch # "ready" /\ ctl.buffered = NoRound /\ ctl.visible <= told.disclosed
  BY <1>2 DEF FlowOK, LaunchOK, BufferOK, MoneyOK
<1>5. gw.pending # NoRound => ctl.lastRound < gw.pending
  BY <1>2 DEF FlowOK, RoundOK
<1>6. QED
  BY <1>2, <1>3, <1>4, <1>5

\* The connection opens while the page is hidden.
LEMMA ConnectHidden ==
  ASSUME FlowOK, gw.conn = "connecting", ~gw.available, ctl' = ctl,
         UNCHANGED <<launchAt, script, told, budget>>,
         gw' \in Gateways, gw'.conn = "connected", gw'.available = gw.available,
         gw'.told = gw.told, gw'.pending = gw.pending, gw'.delivered = gw.delivered,
         gw'.known = gw.committed, gw'.asked = gw.asked, gw'.committed = gw.committed
  PROVE  FlowOK' /\ Final
<1>1. /\ ~gw.delivered /\ ~gw.asked /\ ~ctl.opened /\ ~Presenting /\ ctl.queue = <<>>
      /\ gw.committed # NoRound => gw.pending = gw.committed
      /\ ctl.phase = "recovering" /\ ctl.free = 0 /\ ctl.reel = "Idle" /\ gw.told
      /\ ctl.launch # "ready" /\ ctl.buffered = NoRound
  BY EarlyFacts
<1>2. ~Ended(ctl) /\ ~ctl.sessionFailed
  BY ConnectedFacts
<1>3. TypeOK'
  BY <1>1, <1>2, Numbers DEF FlowOK, TypeOK
<1> USE DEF FlowOK, GatewayOK, LaunchOK, PhaseOK, ReelOK, RoundOK, BufferOK, MoneyOK, ControlsOK,
         HeldOK, Final, Early, Ended, Live, Presenting, NoRound, NoShow, CanSpin, ReelAt, Turning,
         FreeAfter, Only, Fields
<1>4. (GatewayOK /\ LaunchOK /\ PhaseOK /\ ReelOK)'
  BY <1>1, <1>2, Numbers
<1>5. (RoundOK /\ BufferOK /\ MoneyOK /\ ControlsOK /\ HeldOK)' /\ Final
  BY <1>1, <1>2, Numbers
<1>6. QED
  BY <1>3, <1>4, <1>5

\* The discovered round waits for the launch.
DiscoveredResult ==
  /\ ctl' \in Controllers
  /\ Only(ctl, ctl', SessionChanges \union {"connection", "buffered", "visualStart"})
  /\ ctl'.sessionTimer = FALSE /\ ctl'.opened = TRUE /\ ctl'.hasSession = TRUE
  /\ ctl'.balance = gw.committed /\ ctl'.free = ctl.free /\ ctl'.visible = ctl.visible
  /\ ctl'.phase = "requesting" /\ ctl'.controls = FALSE /\ ctl'.freeTimer = 0
  /\ ctl'.buffered = gw.pending /\ ctl'.visualStart = TRUE
  /\ gw' \in Gateways /\ gw'.conn = "connected" /\ gw'.available = TRUE
  /\ gw'.told = gw.told /\ gw'.pending = gw.pending /\ gw'.delivered = TRUE
  /\ gw'.known = gw.committed /\ gw'.asked = FALSE /\ gw'.committed = gw.committed

LEMMA DiscoveredStep ==
  ASSUME FlowOK, gw.conn = "connecting", gw.available, gw.pending # NoRound,
         gw.committed = gw.pending, DiscoveredResult, UNCHANGED <<launchAt, script, told, budget>>
  PROVE  FlowOK' /\ Final
<1>1. /\ ~Presenting /\ ctl.queue = <<>> /\ ctl.show.at = "none"
      /\ ctl.free = 0 /\ ctl.reel = "Idle" /\ ctl.launch # "ready"
      /\ ctl.visible <= told.disclosed /\ ctl.lastRound < gw.pending
  BY EarlyFacts DEF Presenting
<1>2. ~Ended(ctl) /\ ~ctl.timedOut /\ ~ctl.destroyed /\ ~ctl.sessionFailed
  BY ConnectedFacts
<1>3. Only(ctl, ctl', SessionChanges \union {"connection", "buffered", "visualStart"})
  BY DEF DiscoveredResult
<1>4. /\ ctl'.launch = ctl.launch /\ ctl'.reel = ctl.reel /\ ctl'.reelRound = ctl.reelRound
      /\ ctl'.timedOut = ctl.timedOut /\ ctl'.destroyed = ctl.destroyed
      /\ ctl'.sessionFailed = ctl.sessionFailed /\ ctl'.requests = ctl.requests
      /\ ctl'.lastRound = ctl.lastRound /\ ctl'.barrier = ctl.barrier
      /\ ctl'.idle = ctl.idle /\ ctl'.leases = ctl.leases /\ ctl'.queue = ctl.queue
      /\ ctl'.show = ctl.show
  BY <1>3 DEF Only, Fields, SessionChanges
<1>5. /\ ctl' \in Controllers /\ ctl'.sessionTimer = FALSE /\ ctl'.opened = TRUE
      /\ ctl'.hasSession = TRUE
      /\ ctl'.balance = gw.committed /\ ctl'.free = ctl.free /\ ctl'.visible = ctl.visible
      /\ ctl'.phase = "requesting" /\ ctl'.controls = FALSE /\ ctl'.freeTimer = 0
      /\ ctl'.buffered = gw.pending /\ ctl'.visualStart = TRUE
  BY DEF DiscoveredResult
<1>6. /\ gw' \in Gateways /\ gw'.conn = "connected" /\ gw'.available = TRUE
      /\ gw'.pending = gw.pending /\ gw'.delivered = TRUE
      /\ gw'.known = gw.committed /\ gw'.asked = FALSE /\ gw'.committed = gw.committed
  BY DEF DiscoveredResult
<1>7. UNCHANGED <<launchAt, script, told, budget>>
  OBVIOUS
<1>8. TypeOK'
  BY <1>1, <1>2, <1>4, <1>5, <1>6, <1>7, Numbers DEF FlowOK, TypeOK
<1> USE DEF FlowOK, GatewayOK, LaunchOK, PhaseOK, ReelOK, RoundOK, BufferOK, MoneyOK, ControlsOK,
         HeldOK, Final, Early, Ended, Live, Presenting, NoRound, NoShow, CanSpin, ReelAt, Turning,
         FreeAfter, Only, Fields
<1>9. GatewayOK'
  BY <1>1, <1>2, <1>4, <1>5, <1>6, <1>7, Numbers
<1>10. LaunchOK'
  BY <1>1, <1>2, <1>4, <1>5, <1>6, <1>7, Numbers
<1>11. PhaseOK'
  BY <1>1, <1>2, <1>4, <1>5, <1>6, <1>7, Numbers
<1>12. ReelOK'
  BY <1>1, <1>2, <1>4, <1>5, <1>6, <1>7, Numbers
<1>13. RoundOK'
  BY <1>1, <1>2, <1>4, <1>5, <1>6, <1>7, Numbers
<1>14. BufferOK'
  BY <1>1, <1>2, <1>4, <1>5, <1>6, <1>7, Numbers
<1>15. MoneyOK'
  BY <1>1, <1>2, <1>4, <1>5, <1>6, <1>7, Numbers
<1>16. ControlsOK'
  BY <1>1, <1>2, <1>4, <1>5, <1>6, <1>7, Numbers
<1>17. HeldOK' /\ Final
  BY <1>1, <1>2, <1>4, <1>5, <1>6, <1>7, Numbers
<1>18. QED
  BY <1>8, <1>9, <1>10, <1>11, <1>12, <1>13, <1>14, <1>15, <1>16, <1>17

LEMMA ConnectStep ==
  ASSUME FlowOK, Connect
  PROVE  FlowOK' /\ Final
<1>1. gw \in Gateways /\ ctl \in Controllers /\ gw.conn = "connecting"
  BY Numbers DEF Connect
<1>2. /\ ~Ended(ctl) /\ ~ctl.timedOut /\ ~ctl.destroyed /\ ~ctl.sessionFailed
      /\ ctl.phase \in Phases /\ ctl.launch # "waiting-session"
      /\ gw.committed <= Len(script)
  BY <1>1, ConnectedFacts
<1>3. PICK k \in 0 .. MaxRounds : k = gw.committed
  BY <1>1 DEF Gateways
<1>4. PICK g : g = [gw EXCEPT !.conn = "connected", !.known = k]
  OBVIOUS
<1>5. /\ g \in Gateways /\ g.conn = "connected" /\ g.available = gw.available
      /\ g.told = gw.told /\ g.pending = gw.pending /\ g.delivered = gw.delivered
      /\ g.known = k /\ g.asked = gw.asked /\ g.committed = gw.committed
  BY <1>1, <1>4 DEF Gateways
<1>6. PICK s : s = IF gw.available THEN handleSession(handleStatus(ctl, g, "online"), g) ELSE ctl
  OBVIOUS
<1>7. PICK discovered \in BOOLEAN :
        /\ discovered => gw.pending # NoRound /\ gw.committed = gw.pending /\ gw.available
        /\ ctl' = IF discovered THEN bufferRecoveredSpinResult(s, g, gw.pending, TRUE) ELSE s
        /\ gw' = [g EXCEPT !.delivered = discovered]
        /\ UNCHANGED <<launchAt, script, told, budget>>
  BY <1>3, <1>4, <1>6 DEF Connect
<1>8. /\ gw' \in Gateways /\ gw'.conn = "connected" /\ gw'.available = gw.available
      /\ gw'.told = gw.told /\ gw'.pending = gw.pending /\ gw'.delivered = discovered
      /\ gw'.known = gw.committed /\ gw'.asked = gw.asked /\ gw'.committed = gw.committed
  BY <1>3, <1>5, <1>7 DEF Gateways
<1>9. ~gw.delivered /\ ~gw.asked
  BY <1>1, EarlyFacts
<1>10. gw.available => SessionTaken(ctl, s, g)
  <2>1. PICK e : e = handleSession(handleStatus(ctl, g, "online"), g)
    OBVIOUS
  <2>2. SessionTaken(ctl, e, g)
    BY <1>1, <1>2, <1>3, <1>5, <2>1, Numbers, SessionTaking
  <2>3. QED
    BY <1>6, <2>1, <2>2
<1>11. CASE ~gw.available
  <2>1. ctl' = ctl /\ discovered = FALSE
    BY <1>6, <1>7, <1>11
  <2>2. gw.delivered = FALSE
    BY <1>1, <1>9 DEF Gateways
  <2>3. QED
    BY <1>1, <1>7, <1>8, <1>11, <2>1, <2>2, ConnectHidden
<1>12. CASE gw.available /\ ~discovered
  <2>1. /\ discovered = FALSE /\ gw.delivered = FALSE /\ gw.available = TRUE
    BY <1>1, <1>9, <1>12 DEF Gateways
  <2>2. gw' = g
    BY <1>4, <1>5, <1>7, <2>1 DEF Gateways
  <2>3. SessionTaken(ctl, ctl', gw')
    BY <1>7, <1>10, <1>12, <2>2
  <2>4. /\ gw' \in Gateways /\ gw'.conn = "connected" /\ gw'.available = TRUE
        /\ gw'.pending = gw.pending /\ gw'.committed = gw.committed
        /\ gw'.delivered = gw.delivered /\ gw'.asked = gw.asked
        /\ gw'.known = gw.committed
    BY <1>8, <2>1
  <2>5. QED
    BY <1>1, <1>7, <2>3, <2>4, SessionStep
<1>13. CASE gw.available /\ discovered
  <2>1. /\ ctl.queue = <<>> /\ ctl.phase \in {"connecting", "recovering"} /\ ctl.reel = "Idle"
        /\ ctl.launch # "ready" /\ ctl.buffered = NoRound
        /\ gw.pending # NoRound /\ gw.committed = gw.pending /\ ctl.lastRound < gw.pending
    BY <1>1, <1>7, <1>13, EarlyFacts
  <2>2. SessionTaken(ctl, s, g)
    BY <1>10, <1>13
  <2>3. /\ s \in Controllers /\ Only(ctl, s, SessionChanges \union {"connection"})
        /\ s.sessionTimer = FALSE /\ s.opened = TRUE /\ s.hasSession = TRUE
        /\ s.balance = gw.committed /\ s.free = ctl.free /\ s.visible = ctl.visible
        /\ s.phase = "requesting"
    BY <1>3, <1>5, <2>1, <2>2 DEF SessionTaken, NoRound
  <2>4. s.controls = FALSE /\ s.freeTimer = 0
    <3>1. Refreshed(ctl, s, g)
      BY <2>2 DEF SessionTaken
    <3>2. ~CanSpin(s, g)
      BY <2>3 DEF CanSpin
    <3>3. s.controls \in BOOLEAN
      BY <2>3 DEF Controllers
    <3>4. QED
      BY <3>1, <3>2, <3>3 DEF Refreshed
  <2>5. /\ s.queue = <<>> /\ ~s.destroyed /\ s.reel = "Idle" /\ s.launch # "ready"
        /\ s.buffered = 0 /\ s.lastRound = ctl.lastRound
    BY <1>2, <2>1, <2>3 DEF Only, Fields, SessionChanges, NoRound
  <2>6. PICK r \in Rounds : r = gw.pending
    BY <1>1, <2>1, Bounds DEF Gateways, Rounds, NoRound
  <2>7. r <= Len(script) /\ r # s.lastRound
    BY <1>2, <2>1, <2>5, <2>6, Numbers
  <2>8. PICK d : d = bufferRecoveredSpinResult(s, g, r, TRUE)
    OBVIOUS
  <2>9. /\ d \in Controllers /\ Only(s, d, {"buffered", "visualStart"})
        /\ d.buffered = r /\ d.visualStart = (s.reel = "Idle")
    <3>1. script \in {z.script : z \in Scenarios}
      BY Numbers
    <3>2. /\ s \in Controllers /\ s.queue = <<>> /\ ~s.destroyed /\ g \in Gateways
          /\ r <= Len(script) /\ s.phase = "requesting" /\ r # s.lastRound /\ s.buffered = 0
          /\ s.reel = "Idle" /\ s.launch # "ready"
      BY <1>5, <2>3, <2>5, <2>7
    <3>3. Buffered(s, d, r)
      BY <2>8, <3>1, <3>2, BufferFields
    <3>4. QED
      BY <3>3 DEF Buffered
  <2>10. d.visualStart = TRUE
    BY <2>5, <2>9
  <2>11. /\ Only(ctl, d, SessionChanges \union {"connection", "buffered", "visualStart"})
         /\ d.sessionTimer = FALSE /\ d.opened = TRUE /\ d.hasSession = TRUE
         /\ d.balance = gw.committed /\ d.free = ctl.free /\ d.visible = ctl.visible
         /\ d.phase = "requesting" /\ d.controls = FALSE /\ d.freeTimer = 0
    BY <2>3, <2>4, <2>9 DEF Only, Fields, SessionChanges
  <2>12. ctl' = d
    BY <1>7, <1>13, <2>6, <2>8
  <2>13. discovered = TRUE /\ gw.available = TRUE /\ gw.asked = FALSE
    BY <1>1, <1>9, <1>13 DEF Gateways
  <2>14. DiscoveredResult
    BY <1>8, <2>6, <2>9, <2>10, <2>11, <2>12, <2>13 DEF DiscoveredResult
  <2>15. QED
    BY <1>1, <1>7, <1>13, <2>1, <2>14, DiscoveredStep
<1>14. QED
  BY <1>11, <1>12, <1>13

-----------------------------------------------------------------------------
(* The session is lost *)

\* The gateway is closed, by the controller or on its own.
GatewayCloses ==
  /\ gw' \in Gateways /\ gw'.conn = "closed" /\ gw'.available = gw.available
  /\ gw'.known = gw.known /\ gw'.committed = gw.committed
  /\ \/ gw'.pending = 0 /\ ~gw'.delivered /\ ~gw'.asked
     \/ gw'.pending = gw.pending /\ gw'.delivered = gw.delivered /\ gw'.asked = gw.asked

LEMMA Closing ==
  ASSUME FlowOK,
         gw' = Closed(gw) \/ gw' = [gw EXCEPT !.conn = "closed", !.told = FALSE]
  PROVE  GatewayCloses
<1>1. gw \in Gateways
  BY Numbers
<1>2. CASE gw' = [gw EXCEPT !.conn = "closed", !.told = FALSE]
  BY <1>1, <1>2 DEF GatewayCloses, Gateways
<1>3. CASE gw' = Closed(gw) /\ gw.conn = "closed"
  BY <1>1, <1>3 DEF GatewayCloses, Closed, Gateways
<1>4. CASE gw' = Closed(gw) /\ gw.conn # "closed"
  BY <1>1, <1>4, Bounds DEF GatewayCloses, Closed, Gateways, NoRound
<1>5. QED
  BY <1>2, <1>3, <1>4

\* d is c after its first session failed to come.
InitialFailure(c, d) ==
  /\ d \in Controllers
  /\ Only(c, d, {"sessionFailed", "sessionTimer", "connection", "preview", "launch",
                 "controls", "freeTimer", "requests"})
  /\ d.sessionFailed = TRUE /\ d.sessionTimer = FALSE /\ d.connection = "offline"
  /\ d.preview = FALSE /\ d.launch = "failed" /\ d.requests = 1
  /\ d.controls = FALSE /\ d.freeTimer = 0

LEMMA InitialFailing ==
  ASSUME NEW c \in Controllers, ~c.timedOut, c.requests <= 1, NEW g \in Gateways,
         NEW d, d = failInitialRgsSession(c, g)
  PROVE  InitialFailure(c, d)
<1>1. /\ d \in Controllers
      /\ Only(c, d, {"sessionFailed", "sessionTimer", "connection", "preview", "launch",
                     "controls", "freeTimer", "requests"})
      /\ d.sessionFailed = TRUE /\ d.sessionTimer = FALSE /\ d.connection = "offline"
      /\ d.preview = FALSE /\ d.launch = "failed" /\ d.requests = 1
      /\ Refreshed(c, d, Closed(g))
  BY InitialFailureFields
<1>2. ~CanSpin(d, Closed(g)) /\ d.controls \in BOOLEAN
  BY <1>1 DEF CanSpin, Controllers
<1>3. d.controls = FALSE /\ d.freeTimer = 0
  BY <1>1, <1>2 DEF Refreshed
<1>4. QED
  BY <1>1, <1>3 DEF InitialFailure

LEMMA InitialFailureStep ==
  ASSUME FlowOK, ~Ended(ctl), ~ctl.opened, InitialFailure(ctl, ctl'), GatewayCloses,
         UNCHANGED <<launchAt, script, told>>,
         budget' \in [toggles : Nat, faults : Nat, preview : BOOLEAN]
  PROVE  FlowOK' /\ Final
<1>1. /\ ctl.phase \notin {"ready", "requesting", "presenting"} /\ ~Presenting
      /\ ctl.queue = <<>> /\ ctl.show.at = "none" /\ ctl.buffered = NoRound
  BY DEF FlowOK, PhaseOK, BufferOK, Presenting, Ended
<1>2. Only(ctl, ctl', {"sessionFailed", "sessionTimer", "connection", "preview", "launch",
                       "controls", "freeTimer", "requests"})
  BY DEF InitialFailure
<1>3. /\ ctl' \in Controllers /\ ctl'.sessionFailed = TRUE /\ ctl'.sessionTimer = FALSE
      /\ ctl'.connection = "offline" /\ ctl'.launch = "failed" /\ ctl'.requests = 1
      /\ ctl'.controls = FALSE /\ ctl'.freeTimer = 0
  BY DEF InitialFailure
<1>4. /\ ctl'.phase = ctl.phase /\ ctl'.hasSession = ctl.hasSession /\ ctl'.opened = ctl.opened
      /\ ctl'.reel = ctl.reel /\ ctl'.reelRound = ctl.reelRound
      /\ ctl'.timedOut = ctl.timedOut /\ ctl'.destroyed = ctl.destroyed
      /\ ctl'.buffered = ctl.buffered /\ ctl'.visualStart = ctl.visualStart
      /\ ctl'.lastRound = ctl.lastRound /\ ctl'.barrier = ctl.barrier
      /\ ctl'.balance = ctl.balance /\ ctl'.visible = ctl.visible /\ ctl'.free = ctl.free
      /\ ctl'.idle = ctl.idle /\ ctl'.leases = ctl.leases /\ ctl'.queue = ctl.queue
      /\ ctl'.show = ctl.show
  BY <1>2 DEF Only, Fields
<1>5. /\ gw' \in Gateways /\ gw'.conn = "closed" /\ gw'.available = gw.available
      /\ gw'.known = gw.known /\ gw'.committed = gw.committed
      /\ \/ gw'.pending = 0 /\ ~gw'.delivered /\ ~gw'.asked
         \/ gw'.pending = gw.pending /\ gw'.delivered = gw.delivered /\ gw'.asked = gw.asked
  BY DEF GatewayCloses
<1>6. UNCHANGED <<launchAt, script, told>>
  OBVIOUS
<1>7. TypeOK'
  BY <1>1, <1>3, <1>4, <1>5, <1>6 DEF FlowOK, TypeOK
<1> USE DEF FlowOK, GatewayOK, LaunchOK, PhaseOK, ReelOK, RoundOK, BufferOK, MoneyOK, ControlsOK,
         HeldOK, Final, Early, Ended, Live, Presenting, NoRound, NoShow, CanSpin, ReelAt, Turning,
         FreeAfter, Only, Fields
<1>8. (GatewayOK /\ LaunchOK /\ PhaseOK /\ ReelOK)'
  BY <1>1, <1>3, <1>4, <1>5, <1>6
<1>9. (RoundOK /\ BufferOK /\ MoneyOK /\ ControlsOK /\ HeldOK)' /\ Final
  BY <1>1, <1>3, <1>4, <1>5, <1>6
<1>10. QED
  BY <1>7, <1>8, <1>9

LEMMA InitialSessionTimeoutStep ==
  ASSUME FlowOK, InitialSessionTimeout
  PROVE  FlowOK' /\ Final
<1>1. ~ctl.opened /\ ~Ended(ctl) /\ ~ctl.sessionFailed /\ ctl.requests <= 1
  BY DEF InitialSessionTimeout, FlowOK, LaunchOK, HeldOK
<1>2. requiresOperatorSessionRecovery(ctl) /\ ~ctl.timedOut
  BY <1>1 DEF requiresOperatorSessionRecovery, Ended
<1>3. /\ ctl' = failInitialRgsSession(ctl, gw) /\ gw' = Closed(gw)
      /\ UNCHANGED <<launchAt, script, told>>
  BY <1>1, <1>2 DEF InitialSessionTimeout
<1>4. budget' \in [toggles : Nat, faults : Nat, preview : BOOLEAN]
  BY DEF FlowOK, TypeOK, InitialSessionTimeout
<1>5. InitialFailure(ctl, ctl')
  BY <1>1, <1>2, <1>3, Numbers, InitialFailing
<1>6. GatewayCloses
  BY <1>3, Closing
<1>7. QED
  BY <1>1, <1>3, <1>4, <1>5, <1>6, InitialFailureStep

LEMMA ConnectFailsStep ==
  ASSUME FlowOK, ConnectFails
  PROVE  FlowOK' /\ Final
<1>1. /\ gw.conn = "connecting" /\ gw' = Closed(gw) /\ UNCHANGED <<launchAt, script, told>>
  BY DEF ConnectFails
<1>2. /\ ctl \in Controllers /\ gw \in Gateways /\ ~Ended(ctl) /\ ~ctl.timedOut
      /\ ~ctl.sessionFailed /\ ~ctl.destroyed /\ ~ctl.opened
      /\ ctl.requests <= 1 /\ ctl.phase \in Phases
  BY <1>1, Numbers, ConnectedFacts, EarlyFacts
<1>3. PICK c : c = handleStatus(ctl, gw, "offline")
  OBVIOUS
<1>4. c \in Controllers /\ Only(ctl, c, {"connection"}) /\ c.connection = "offline"
  BY <1>2, <1>3, StatusFields
<1>5. /\ ~Ended(c) /\ ~c.sessionFailed /\ c.requests <= 1 /\ c.phase \in Phases
      /\ ~c.opened /\ ~c.timedOut
  BY <1>2, <1>4 DEF Only, Fields, Ended
<1>6. PICK d : d = handleError(c, gw)
  OBVIOUS
<1>7. d = failInitialRgsSession(c, gw)
  BY <1>2, <1>4, <1>5, <1>6, ErrorFields
<1>8. InitialFailure(c, d)
  BY <1>2, <1>4, <1>5, <1>7, InitialFailing
<1>9. InitialFailure(ctl, d)
  BY <1>4, <1>8 DEF InitialFailure, Only, Fields
<1>10. ctl' = d
  BY <1>3, <1>6 DEF ConnectFails
<1>11. budget' \in [toggles : Nat, faults : Nat, preview : BOOLEAN]
  BY DEF FlowOK, TypeOK, ConnectFails
<1>12. InitialFailure(ctl, ctl') /\ GatewayCloses
  BY <1>1, <1>9, <1>10, Closing
<1>13. QED
  BY <1>1, <1>2, <1>11, <1>12, InitialFailureStep

\* d is c after its session went for good: the operator is asked for another.
SessionLost(c, d) ==
  /\ d \in Controllers
  /\ Only(c, d, {"connection", "requests", "controls", "freeTimer", "reel", "reelRound",
                 "phase", "launch"})
  /\ d.connection = "offline" /\ d.requests = 1 /\ d.controls = FALSE /\ d.freeTimer = 0
  /\ \/ c.phase = "requesting" /\ d.phase = "ready" /\ d.reel = "Idle" /\ d.launch = c.launch
     \/ /\ c.phase \in {"connecting", "recovering"} /\ d.phase = "failed"
        /\ d.launch = "failed" /\ d.reel = c.reel /\ d.reelRound = c.reelRound
     \/ /\ c.phase \notin {"requesting", "connecting", "recovering"} /\ d.phase = c.phase
        /\ d.launch = c.launch /\ d.reel = c.reel /\ d.reelRound = c.reelRound

LEMMA SessionLostStep ==
  ASSUME FlowOK, gw.conn \in {"connecting", "connected"}, ctl.opened,
         SessionLost(ctl, ctl'), GatewayCloses, UNCHANGED <<launchAt, script, told>>,
         budget' \in [toggles : Nat, faults : Nat, preview : BOOLEAN]
  PROVE  FlowOK' /\ Final
<1>1. /\ ~Ended(ctl) /\ ~ctl.sessionFailed /\ ~ctl.timedOut /\ ~ctl.destroyed
      /\ ctl.opened /\ ~ctl.sessionTimer
  BY ConnectedFacts DEF FlowOK, LaunchOK
<1>2. Only(ctl, ctl', {"connection", "requests", "controls", "freeTimer", "reel", "reelRound",
                       "phase", "launch"})
  BY DEF SessionLost
<1>3. /\ ctl' \in Controllers /\ ctl'.connection = "offline" /\ ctl'.requests = 1
      /\ ctl'.controls = FALSE /\ ctl'.freeTimer = 0
  BY DEF SessionLost
<1>4. /\ ctl'.hasSession = ctl.hasSession /\ ctl'.opened = ctl.opened
      /\ ctl'.timedOut = ctl.timedOut /\ ctl'.destroyed = ctl.destroyed
      /\ ctl'.sessionFailed = ctl.sessionFailed /\ ctl'.sessionTimer = ctl.sessionTimer
      /\ ctl'.buffered = ctl.buffered /\ ctl'.visualStart = ctl.visualStart
      /\ ctl'.lastRound = ctl.lastRound /\ ctl'.barrier = ctl.barrier
      /\ ctl'.balance = ctl.balance /\ ctl'.visible = ctl.visible /\ ctl'.free = ctl.free
      /\ ctl'.idle = ctl.idle /\ ctl'.leases = ctl.leases /\ ctl'.queue = ctl.queue
      /\ ctl'.show = ctl.show
  BY <1>2 DEF Only, Fields
<1>5. /\ gw' \in Gateways /\ gw'.conn = "closed" /\ gw'.available = gw.available
      /\ gw'.known = gw.known /\ gw'.committed = gw.committed
      /\ \/ gw'.pending = 0 /\ ~gw'.delivered /\ ~gw'.asked
         \/ gw'.pending = gw.pending /\ gw'.delivered = gw.delivered /\ gw'.asked = gw.asked
  BY DEF GatewayCloses
<1>6. UNCHANGED <<launchAt, script, told>>
  OBVIOUS
<1>7. \/ ctl.phase = "requesting" /\ ctl'.phase = "ready" /\ ctl'.reel = "Idle"
           /\ ctl'.launch = ctl.launch
      \/ /\ ctl.phase \in {"connecting", "recovering"} /\ ctl'.phase = "failed"
         /\ ctl'.launch = "failed" /\ ctl'.reel = ctl.reel /\ ctl'.reelRound = ctl.reelRound
      \/ /\ ctl.phase \notin {"requesting", "connecting", "recovering"} /\ ctl'.phase = ctl.phase
         /\ ctl'.launch = ctl.launch /\ ctl'.reel = ctl.reel /\ ctl'.reelRound = ctl.reelRound
  BY DEF SessionLost
<1>8. LaunchOK'
  <2>1. ctl'.launch = ctl.launch \/ ctl'.launch = "failed"
    BY <1>7
  <2>2. /\ ctl'.hasSession = ctl.hasSession /\ ctl'.opened = ctl.opened
        /\ ctl'.sessionTimer = ctl.sessionTimer /\ ~ctl.sessionTimer /\ launchAt' = launchAt
    BY <1>1, <1>4, <1>6
  <2>3. LaunchOK
    BY DEF FlowOK
  <2>4. QED
    BY <1>1, <2>1, <2>2, <2>3 DEF LaunchOK
<1>9. TypeOK'
  BY <1>1, <1>3, <1>4, <1>5, <1>6, <1>7, <1>8 DEF FlowOK, TypeOK
<1> USE DEF FlowOK, GatewayOK, LaunchOK, PhaseOK, ReelOK, RoundOK, BufferOK, MoneyOK, ControlsOK,
         HeldOK, Final, Early, Ended, Live, Presenting, NoRound, NoShow, CanSpin, ReelAt, Turning,
         FreeAfter, Only, Fields
<1>10. GatewayOK'
  BY <1>1, <1>3, <1>4, <1>5, <1>6, <1>7, <1>8
<1>11. LaunchOK'
  BY <1>1, <1>3, <1>4, <1>5, <1>6, <1>7, <1>8
<1>12. PhaseOK'
  BY <1>1, <1>3, <1>4, <1>5, <1>6, <1>7, <1>8
<1>13. ReelOK'
  BY <1>1, <1>3, <1>4, <1>5, <1>6, <1>7, <1>8
<1>14. RoundOK'
  BY <1>1, <1>3, <1>4, <1>5, <1>6, <1>7, <1>8
<1>15. BufferOK'
  BY <1>1, <1>3, <1>4, <1>5, <1>6, <1>7, <1>8
<1>16. MoneyOK'
  BY <1>1, <1>3, <1>4, <1>5, <1>6, <1>7, <1>8
<1>17. ControlsOK'
  BY <1>1, <1>3, <1>4, <1>5, <1>6, <1>7, <1>8
<1>18. HeldOK' /\ Final
  BY <1>1, <1>3, <1>4, <1>5, <1>6, <1>7, <1>8
<1>19. QED
  BY <1>9, <1>10, <1>11, <1>12, <1>13, <1>14, <1>15, <1>16, <1>17, <1>18

LEMMA OperatorRelaunchStep ==
  ASSUME FlowOK, OperatorRelaunch
  PROVE  FlowOK' /\ Final
<1>1. gw.conn \in {"connecting", "connected"} /\ UNCHANGED <<launchAt, script, told>>
  BY DEF OperatorRelaunch
<1>2. /\ ctl \in Controllers /\ gw \in Gateways /\ ~Ended(ctl) /\ ~ctl.timedOut
      /\ ~ctl.sessionFailed /\ ~ctl.destroyed /\ ctl.requests <= 1 /\ ctl.phase \in Phases
  BY <1>1, Numbers, ConnectedFacts
<1>3. PICK g : g = [gw EXCEPT !.conn = "closed", !.told = FALSE]
  OBVIOUS
<1>4. g \in Gateways /\ gw' = g
  BY <1>2, <1>3 DEF Gateways, OperatorRelaunch
<1>5. PICK c : c = handleStatus(ctl, g, "offline")
  OBVIOUS
<1>6. c \in Controllers /\ Only(ctl, c, {"connection"}) /\ c.connection = "offline"
  BY <1>2, <1>5, StatusFields
<1>7. /\ ~Ended(c) /\ ~c.sessionFailed /\ c.requests <= 1 /\ c.phase \in Phases
      /\ ~c.timedOut /\ ~c.destroyed /\ c.opened = ctl.opened /\ c.phase = ctl.phase
      /\ c.reel = ctl.reel /\ c.reelRound = ctl.reelRound /\ c.launch = ctl.launch
      /\ c.requests = ctl.requests
  BY <1>2, <1>6 DEF Only, Fields, Ended
<1>8. PICK e : e = handleError(c, g)
  OBVIOUS
<1>9. /\ ~c.opened => e = failInitialRgsSession(c, g)
      /\ c.opened /\ c.phase = "requesting" => e = rejectSpinResult(c, g)
      /\ c.opened /\ c.phase \in {"connecting", "recovering"} =>
           /\ e \in Controllers /\ Only(c, e, {"phase", "launch", "controls", "freeTimer"})
           /\ e.phase = "failed" /\ e.launch = "failed" /\ Refreshed(c, e, g)
      /\ c.opened /\ c.phase \notin {"connecting", "recovering", "requesting"} => e = c
  BY <1>4, <1>6, <1>7, <1>8, ErrorFields
<1>10. PICK d : d = handleOperatorSessionRequired(e, g)
  OBVIOUS
<1>11. ctl' = d
  BY <1>3, <1>5, <1>8, <1>10 DEF OperatorRelaunch
<1>12. ASSUME e \in Controllers, ~e.destroyed, e.requests <= 1, e.phase # "requesting",
              e.connection = "offline"
       PROVE  /\ d \in Controllers /\ Only(e, d, {"requests", "controls", "freeTimer"})
              /\ d.requests = 1 /\ d.controls = FALSE /\ d.freeTimer = 0
  <2>1. /\ d \in Controllers /\ Only(e, d, {"requests", "controls", "freeTimer"})
        /\ d.requests = 1 /\ Refreshed(e, d, g)
    BY <1>4, <1>10, <1>12, OperatorFields
  <2>2. d.connection = "offline" /\ d.controls \in BOOLEAN
    BY <1>12, <2>1 DEF Only, Fields, Controllers
  <2>3. ~CanSpin(d, g)
    BY <2>2 DEF CanSpin
  <2>4. QED
    BY <2>1, <2>2, <2>3 DEF Refreshed
<1>13. budget' \in [toggles : Nat, faults : Nat, preview : BOOLEAN]
  BY DEF FlowOK, TypeOK, OperatorRelaunch
<1>14. GatewayCloses
  BY <1>3, <1>4, Closing
<1>15. CASE ~ctl.opened
  <2>1. InitialFailure(c, e)
    BY <1>4, <1>6, <1>7, <1>9, <1>15, InitialFailing
  <2>2. ctl.phase # "requesting"
    BY <1>2, <1>15 DEF FlowOK, PhaseOK
  <2>3. /\ e \in Controllers /\ ~e.destroyed /\ e.requests <= 1 /\ e.phase # "requesting"
        /\ e.connection = "offline"
    BY <1>7, <2>1, <2>2 DEF InitialFailure, Only, Fields
  <2>4. /\ d \in Controllers /\ Only(e, d, {"requests", "controls", "freeTimer"})
        /\ d.requests = 1 /\ d.controls = FALSE /\ d.freeTimer = 0
    BY <1>12, <2>3
  <2>5. InitialFailure(ctl, d)
    BY <1>6, <2>1, <2>4 DEF InitialFailure, Only, Fields
  <2>6. InitialFailure(ctl, ctl')
    BY <1>11, <2>5
  <2>7. QED
    BY <1>1, <1>2, <1>13, <1>14, <1>15, <2>6, InitialFailureStep
<1>16. CASE ctl.opened
  <2>1. SessionLost(ctl, d)
    <3>1. CASE ctl.phase = "requesting"
      <4>1. e = rejectSpinResult(c, g)
        BY <1>7, <1>9, <1>16, <3>1
      <4>2. /\ e \in Controllers
            /\ Only(c, e, {"reel", "reelRound", "phase", "controls", "freeTimer"})
            /\ e.reel = "Idle" /\ e.phase = "ready"
        BY <1>4, <1>6, <1>7, <3>1, <4>1, RejectFields
      <4>3. ~e.destroyed /\ e.requests <= 1 /\ e.connection = "offline"
        BY <1>6, <1>7, <4>2 DEF Only, Fields
      <4>4. /\ d \in Controllers /\ Only(e, d, {"requests", "controls", "freeTimer"})
            /\ d.requests = 1 /\ d.controls = FALSE /\ d.freeTimer = 0
        BY <1>12, <4>2, <4>3
      <4>5. /\ Only(ctl, d, {"connection", "requests", "controls", "freeTimer", "reel",
                             "reelRound", "phase", "launch"})
            /\ d.phase = "ready" /\ d.reel = "Idle" /\ d.launch = ctl.launch
            /\ d.connection = "offline"
        BY <1>6, <4>2, <4>4 DEF Only, Fields
      <4>6. QED
        BY <3>1, <4>4, <4>5 DEF SessionLost
    <3>2. CASE ctl.phase \in {"connecting", "recovering"}
      <4>1. /\ e \in Controllers /\ Only(c, e, {"phase", "launch", "controls", "freeTimer"})
            /\ e.phase = "failed" /\ e.launch = "failed"
        BY <1>7, <1>9, <1>16, <3>2
      <4>2. ~e.destroyed /\ e.requests <= 1 /\ e.connection = "offline"
        BY <1>6, <1>7, <4>1 DEF Only, Fields
      <4>3. /\ d \in Controllers /\ Only(e, d, {"requests", "controls", "freeTimer"})
            /\ d.requests = 1 /\ d.controls = FALSE /\ d.freeTimer = 0
        BY <1>12, <4>1, <4>2
      <4>4. /\ Only(ctl, d, {"connection", "requests", "controls", "freeTimer", "reel",
                             "reelRound", "phase", "launch"})
            /\ d.phase = "failed" /\ d.launch = "failed" /\ d.connection = "offline"
            /\ d.reel = ctl.reel /\ d.reelRound = ctl.reelRound
        BY <1>6, <4>1, <4>3 DEF Only, Fields
      <4>5. QED
        BY <3>2, <4>3, <4>4 DEF SessionLost
    <3>3. CASE ctl.phase \notin {"requesting", "connecting", "recovering"}
      <4>1. e = c
        BY <1>7, <1>9, <1>16, <3>3
      <4>2. /\ d \in Controllers /\ Only(c, d, {"requests", "controls", "freeTimer"})
            /\ d.requests = 1 /\ d.controls = FALSE /\ d.freeTimer = 0
        BY <1>6, <1>7, <1>12, <3>3, <4>1
      <4>3. /\ Only(ctl, d, {"connection", "requests", "controls", "freeTimer", "reel",
                             "reelRound", "phase", "launch"})
            /\ d.phase = ctl.phase /\ d.launch = ctl.launch /\ d.connection = "offline"
            /\ d.reel = ctl.reel /\ d.reelRound = ctl.reelRound
        BY <1>6, <4>2 DEF Only, Fields
      <4>4. QED
        BY <3>3, <4>2, <4>3 DEF SessionLost
    <3>4. QED
      BY <3>1, <3>2, <3>3
  <2>2. SessionLost(ctl, ctl')
    BY <1>11, <2>1
  <2>3. QED
    BY <1>1, <1>13, <1>14, <1>16, <2>2, SessionLostStep
<1>17. QED
  BY <1>15, <1>16

\* d is c, finished.
Finished(c, d) ==
  /\ d \in Controllers /\ Only(c, d, EndFields \union {"phase", "timedOut", "destroyed"})
  /\ Ended(d) /\ d.connection # "online"
  /\ d.reel = "Idle" /\ d.reelRound = 0 /\ d.idle = "none" /\ d.sessionTimer = FALSE
  /\ d.freeTimer = 0 /\ d.buffered = 0 /\ d.visualStart = FALSE /\ d.controls = FALSE
  /\ d.leases = c.leases \ {"wheel", "free-spins"}
  /\ \/ d.phase = c.phase /\ d.timedOut = c.timedOut
     \/ d.phase = "failed" /\ d.timedOut = TRUE

LEMMA FinishedStep ==
  ASSUME FlowOK, ~ctl.destroyed, Finished(ctl, ctl'), GatewayCloses,
         UNCHANGED <<launchAt, script, told>>,
         budget' \in [toggles : Nat, faults : Nat, preview : BOOLEAN]
  PROVE  FlowOK' /\ Final
<1>1. Only(ctl, ctl', EndFields \union {"phase", "timedOut", "destroyed"})
  BY DEF Finished
<1>2. /\ ctl' \in Controllers
      /\ Ended(ctl') /\ ctl'.connection # "online"
      /\ ctl'.reel = "Idle" /\ ctl'.reelRound = 0 /\ ctl'.idle = "none"
      /\ ctl'.sessionTimer = FALSE /\ ctl'.freeTimer = 0 /\ ctl'.buffered = 0
      /\ ctl'.visualStart = FALSE /\ ctl'.controls = FALSE
      /\ \/ ctl'.phase = ctl.phase /\ ctl'.timedOut = ctl.timedOut
         \/ ctl'.phase = "failed" /\ ctl'.timedOut = TRUE
  BY DEF Finished
<1>3. /\ "wheel" \notin ctl'.leases /\ "free-spins" \notin ctl'.leases
      /\ "big-win" \in ctl'.leases => "big-win" \in ctl.leases
      /\ ctl'.leases \subseteq {"big-win"}
  <2>1. ctl.leases \subseteq {"big-win", "free-spins", "wheel"}
    BY Numbers DEF Controllers
  <2>2. QED
    BY <2>1 DEF Finished
<1>4. /\ ctl'.hasSession = ctl.hasSession /\ ctl'.opened = ctl.opened
      /\ ctl'.sessionFailed = ctl.sessionFailed /\ ctl'.launch = ctl.launch
      /\ ctl'.requests = ctl.requests
      /\ ctl'.lastRound = ctl.lastRound /\ ctl'.barrier = ctl.barrier
      /\ ctl'.balance = ctl.balance /\ ctl'.visible = ctl.visible /\ ctl'.free = ctl.free
      /\ ctl'.queue = ctl.queue /\ ctl'.show = ctl.show
  BY <1>1 DEF Only, Fields, EndFields
<1>5. /\ gw' \in Gateways /\ gw'.conn = "closed" /\ gw'.available = gw.available
      /\ gw'.known = gw.known /\ gw'.committed = gw.committed
      /\ \/ gw'.pending = 0 /\ ~gw'.delivered /\ ~gw'.asked
         \/ gw'.pending = gw.pending /\ gw'.delivered = gw.delivered /\ gw'.asked = gw.asked
  BY DEF GatewayCloses
<1>6. UNCHANGED <<launchAt, script, told>>
  OBVIOUS
<1>7. TypeOK'
  BY <1>2, <1>3, <1>4, <1>5, <1>6 DEF FlowOK, TypeOK
<1> USE DEF FlowOK, GatewayOK, LaunchOK, PhaseOK, ReelOK, RoundOK, BufferOK, MoneyOK, ControlsOK,
         HeldOK, Final, Early, Ended, Live, Presenting, NoRound, NoShow, CanSpin, ReelAt, Turning,
         FreeAfter, Only, Fields
<1>8. GatewayOK'
  BY <1>2, <1>3, <1>4, <1>5, <1>6
<1>9. LaunchOK'
  BY <1>2, <1>3, <1>4, <1>5, <1>6
<1>10. PhaseOK'
  BY <1>2, <1>3, <1>4, <1>5, <1>6
<1>11. ReelOK'
  BY <1>2, <1>3, <1>4, <1>5, <1>6
<1>12. RoundOK'
  BY <1>2, <1>3, <1>4, <1>5, <1>6
<1>13. BufferOK'
  BY <1>2, <1>3, <1>4, <1>5, <1>6
<1>14. MoneyOK'
  BY <1>2, <1>3, <1>4, <1>5, <1>6
<1>15. ControlsOK'
  BY <1>2, <1>3, <1>4, <1>5, <1>6
<1>16. HeldOK' /\ Final
  BY <1>2, <1>3, <1>4, <1>5, <1>6
<1>17. QED
  BY <1>7, <1>8, <1>9, <1>10, <1>11, <1>12, <1>13, <1>14, <1>15, <1>16

LEMMA SessionTimeoutStep ==
  ASSUME FlowOK, SessionTimeout
  PROVE  FlowOK' /\ Final
<1>1. gw.conn = "connected" /\ UNCHANGED <<launchAt, script, told>>
  BY DEF SessionTimeout
<1>2. /\ ctl \in Controllers /\ gw \in Gateways /\ ~ctl.timedOut /\ ~ctl.destroyed
      /\ ctl.phase \in Phases
  BY <1>1, Numbers, ConnectedFacts
<1>3. PICK g : g = [gw EXCEPT !.conn = "closed", !.told = FALSE]
  OBVIOUS
<1>4. PICK c : c = handleStatus(ctl, g, "offline")
  OBVIOUS
<1>5. c \in Controllers /\ Only(ctl, c, {"connection"}) /\ c.connection = "offline"
  BY <1>2, <1>4, StatusFields
<1>6. c.phase \in Phases /\ c.leases = ctl.leases
  BY <1>2, <1>5 DEF Only, Fields
<1>7. PICK d : d = handleSessionTimeout(c)
  OBVIOUS
<1>8. /\ d \in Controllers /\ Only(c, d, EndFields \union {"phase", "timedOut"})
      /\ d.phase = "failed" /\ d.timedOut = TRUE /\ d.connection = "offline"
      /\ d.reel = "Idle" /\ d.reelRound = 0 /\ d.idle = "none" /\ d.sessionTimer = FALSE
      /\ d.freeTimer = 0 /\ d.preview = FALSE /\ d.buffered = 0 /\ d.visualStart = FALSE
      /\ d.leases = c.leases \ {"wheel", "free-spins"} /\ d.controls = FALSE
  BY <1>5, <1>6, <1>7, TimeoutFields
<1>9. Only(ctl, d, EndFields \union {"phase", "timedOut", "destroyed"})
  BY <1>5, <1>8 DEF Only, Fields, EndFields
<1>10. Finished(ctl, d)
  BY <1>6, <1>8, <1>9 DEF Finished, Ended
<1>11. ctl' = d /\ gw' = [gw EXCEPT !.conn = "closed", !.told = FALSE]
  BY <1>3, <1>4, <1>7 DEF SessionTimeout
<1>12. Finished(ctl, ctl') /\ GatewayCloses
  BY <1>10, <1>11, Closing
<1>13. budget' \in [toggles : Nat, faults : Nat, preview : BOOLEAN]
  BY DEF FlowOK, TypeOK, SessionTimeout
<1>14. QED
  BY <1>1, <1>2, <1>12, <1>13, FinishedStep

LEMMA DestroyStep ==
  ASSUME FlowOK, destroy
  PROVE  FlowOK' /\ Final
<1>1. ctl \in Controllers /\ ~ctl.destroyed /\ UNCHANGED <<launchAt, script, told>>
  BY Numbers DEF destroy
<1>2. PICK d : d = Destroyed(ctl)
  OBVIOUS
<1>3. /\ d \in Controllers /\ Only(ctl, d, EndFields \union {"destroyed"})
      /\ d.destroyed = TRUE
      /\ d.connection = IF ctl.timedOut THEN ctl.connection ELSE "offline"
      /\ d.reel = "Idle" /\ d.reelRound = 0 /\ d.idle = "none" /\ d.sessionTimer = FALSE
      /\ d.freeTimer = 0 /\ d.preview = FALSE /\ d.buffered = 0 /\ d.visualStart = FALSE
      /\ d.leases = ctl.leases \ {"wheel", "free-spins"} /\ d.controls = FALSE
  BY <1>1, <1>2, DestroyedFields
<1>4. ctl.timedOut => ctl.connection # "online"
  BY DEF FlowOK, GatewayOK, Ended
<1>5. /\ Only(ctl, d, EndFields \union {"phase", "timedOut", "destroyed"})
      /\ d.phase = ctl.phase /\ d.timedOut = ctl.timedOut
  BY <1>3 DEF Only, Fields, EndFields
<1>6. Finished(ctl, d)
  BY <1>3, <1>4, <1>5 DEF Finished, Ended
<1>7. ctl' = d /\ gw' = Closed(gw)
  BY <1>2 DEF destroy
<1>8. Finished(ctl, ctl') /\ GatewayCloses
  BY <1>6, <1>7, Closing
<1>9. budget' \in [toggles : Nat, faults : Nat, preview : BOOLEAN]
  BY DEF FlowOK, TypeOK, destroy
<1>10. QED
  BY <1>1, <1>8, <1>9, FinishedStep

-----------------------------------------------------------------------------
(* The page is hidden *)

\* The gateway announces that it is interrupted.
Interrupted ==
  /\ ctl' \in Controllers /\ Only(ctl, ctl', {"connection", "phase", "controls", "freeTimer"})
  /\ ctl'.connection = "recovering" /\ ctl'.phase = "recovering"
  /\ ctl'.controls = FALSE /\ ctl'.freeTimer = 0

\* What Suspend leaves of the gateway and of the record.
PageHidden(announced) ==
  /\ gw' \in Gateways /\ gw'.conn = gw.conn /\ gw'.available = FALSE
  /\ gw'.told <=> gw.told \/ announced
  /\ gw'.pending = gw.pending /\ gw'.delivered = gw.delivered
  /\ gw'.known = gw.known /\ gw'.asked = gw.asked /\ gw'.committed = gw.committed
  /\ told'.disclosed = told.disclosed /\ told'.over = told.over
  /\ told'.rejected = told.rejected /\ told'.hidden = TRUE
  /\ told' \in [disclosed : 0 .. MaxRounds, over : SUBSET Rounds,
                rejected : SUBSET Rounds, hidden : BOOLEAN]

LEMMA HidingFields ==
  ASSUME FlowOK, Suspend, NEW a \in BOOLEAN,
         a <=> /\ gw.conn \in {"connecting", "connected"}
               /\ gw.pending = NoRound \/ ~gw.delivered
  PROVE  /\ PageHidden(a) /\ gw' \in Gateways
         /\ a => ctl' = handleStatus(ctl, gw', "recovering")
         /\ ~a => ctl' = ctl
<1>1. gw \in Gateways /\ gw.told \in BOOLEAN
  BY Numbers DEF Gateways
<1>2. PICK t \in BOOLEAN : t = (gw.told \/ (/\ gw.conn \in {"connecting", "connected"}
                                            /\ gw.pending = NoRound \/ ~gw.delivered))
  BY Zenon
<1>3. t <=> gw.told \/ a
  BY <1>2
<1>4. gw' = [gw EXCEPT !.available = FALSE, !.told = t]
  BY <1>2 DEF Suspend
<1>5. /\ gw' \in Gateways /\ gw'.conn = gw.conn /\ gw'.available = FALSE /\ gw'.told = t
      /\ gw'.pending = gw.pending /\ gw'.delivered = gw.delivered
      /\ gw'.known = gw.known /\ gw'.asked = gw.asked /\ gw'.committed = gw.committed
  BY <1>1, <1>4 DEF Gateways
<1>6. told \in [disclosed : 0 .. MaxRounds, over : SUBSET Rounds,
                rejected : SUBSET Rounds, hidden : BOOLEAN]
  BY DEF FlowOK, TypeOK
<1>7. told' = [told EXCEPT !.hidden = TRUE]
  BY DEF Suspend
<1>8. /\ told'.disclosed = told.disclosed /\ told'.over = told.over
      /\ told'.rejected = told.rejected /\ told'.hidden = TRUE
      /\ told' \in [disclosed : 0 .. MaxRounds, over : SUBSET Rounds,
                    rejected : SUBSET Rounds, hidden : BOOLEAN]
  BY <1>6, <1>7
<1>9. PageHidden(a)
  BY <1>3, <1>5, <1>8 DEF PageHidden
<1>10. /\ a => ctl' = handleStatus(ctl, gw', "recovering")
       /\ ~a => ctl' = ctl
  BY DEF Suspend
<1>11. QED
  BY <1>5, <1>9, <1>10

LEMMA InterruptedStep ==
  ASSUME FlowOK, gw.conn \in {"connecting", "connected"}, gw.pending = NoRound \/ ~gw.delivered,
         PageHidden(TRUE), Interrupted, UNCHANGED <<launchAt, script>>,
         budget' \in [toggles : Nat, faults : Nat, preview : BOOLEAN]
  PROVE  FlowOK' /\ Final
<1>1. ~gw.delivered /\ ~gw.asked
  BY DEF FlowOK, GatewayOK
<1>2. ~Ended(ctl) /\ ~ctl.sessionFailed /\ ~ctl.timedOut /\ ~ctl.destroyed
  BY ConnectedFacts
<1>3. ~Presenting /\ ctl.queue = <<>> /\ ctl.show.at = "none"
  BY <1>1 DEF FlowOK, RoundOK, Presenting
<1>4. ctl.buffered = NoRound
  <2>1. CASE gw.conn = "connecting"
    BY <2>1, EarlyFacts
  <2>2. CASE gw.conn = "connected"
    BY <1>1, <1>2, <2>2 DEF FlowOK, BufferOK, Live
  <2>3. QED
    BY <2>1, <2>2
<1>5. gw.conn = "connected" /\ ctl.reel = "Spinning" =>
        /\ ctl.launch = "ready" /\ ctl.reelRound = gw.pending /\ gw.pending # NoRound
  BY <1>2, <1>3 DEF FlowOK, ReelOK, Live
<1>6. Only(ctl, ctl', {"connection", "phase", "controls", "freeTimer"})
  BY DEF Interrupted
<1>7. /\ ctl' \in Controllers /\ ctl'.connection = "recovering" /\ ctl'.phase = "recovering"
      /\ ctl'.controls = FALSE /\ ctl'.freeTimer = 0
  BY DEF Interrupted
<1>8. /\ ctl'.launch = ctl.launch /\ ctl'.hasSession = ctl.hasSession
      /\ ctl'.reel = ctl.reel /\ ctl'.reelRound = ctl.reelRound
      /\ ctl'.timedOut = ctl.timedOut /\ ctl'.destroyed = ctl.destroyed
      /\ ctl'.sessionFailed = ctl.sessionFailed /\ ctl'.opened = ctl.opened
      /\ ctl'.requests = ctl.requests /\ ctl'.buffered = ctl.buffered
      /\ ctl'.visualStart = ctl.visualStart /\ ctl'.lastRound = ctl.lastRound
      /\ ctl'.barrier = ctl.barrier /\ ctl'.balance = ctl.balance
      /\ ctl'.visible = ctl.visible /\ ctl'.free = ctl.free
      /\ ctl'.sessionTimer = ctl.sessionTimer /\ ctl'.idle = ctl.idle
      /\ ctl'.leases = ctl.leases /\ ctl'.queue = ctl.queue /\ ctl'.show = ctl.show
  BY <1>6 DEF Only, Fields
<1>9. /\ gw' \in Gateways /\ gw'.conn = gw.conn /\ gw'.available = FALSE /\ gw'.told
      /\ gw'.pending = gw.pending /\ gw'.delivered = gw.delivered
      /\ gw'.known = gw.known /\ gw'.asked = gw.asked /\ gw'.committed = gw.committed
      /\ told'.disclosed = told.disclosed /\ told'.over = told.over
      /\ told'.rejected = told.rejected /\ told'.hidden = TRUE
      /\ told' \in [disclosed : 0 .. MaxRounds, over : SUBSET Rounds,
                    rejected : SUBSET Rounds, hidden : BOOLEAN]
  BY DEF PageHidden
<1>10. UNCHANGED <<launchAt, script>>
  OBVIOUS
<1>11. TypeOK'
  BY <1>1, <1>2, <1>3, <1>4, <1>5, <1>7, <1>8, <1>9, <1>10 DEF FlowOK, TypeOK
<1> USE DEF FlowOK, GatewayOK, LaunchOK, PhaseOK, ReelOK, RoundOK, BufferOK, MoneyOK, ControlsOK,
         HeldOK, Final, Early, Ended, Live, Presenting, NoRound, NoShow, CanSpin, ReelAt, Turning,
         FreeAfter, Only, Fields
<1>12. GatewayOK'
  BY <1>1, <1>2, <1>3, <1>4, <1>5, <1>7, <1>8, <1>9, <1>10
<1>13. LaunchOK'
  BY <1>1, <1>2, <1>3, <1>4, <1>5, <1>7, <1>8, <1>9, <1>10
<1>14. PhaseOK'
  BY <1>1, <1>2, <1>3, <1>4, <1>5, <1>7, <1>8, <1>9, <1>10
<1>15. ReelOK'
  BY <1>1, <1>2, <1>3, <1>4, <1>5, <1>7, <1>8, <1>9, <1>10
<1>16. RoundOK'
  BY <1>1, <1>2, <1>3, <1>4, <1>5, <1>7, <1>8, <1>9, <1>10
<1>17. BufferOK'
  BY <1>1, <1>2, <1>3, <1>4, <1>5, <1>7, <1>8, <1>9, <1>10
<1>18. MoneyOK'
  BY <1>1, <1>2, <1>3, <1>4, <1>5, <1>7, <1>8, <1>9, <1>10
<1>19. ControlsOK'
  BY <1>1, <1>2, <1>3, <1>4, <1>5, <1>7, <1>8, <1>9, <1>10
<1>20. HeldOK' /\ Final
  BY <1>1, <1>2, <1>3, <1>4, <1>5, <1>7, <1>8, <1>9, <1>10
<1>21. QED
  BY <1>11, <1>12, <1>13, <1>14, <1>15, <1>16, <1>17, <1>18, <1>19, <1>20

\* A round on the screen is not announced as interrupted.
LEMMA HiddenStep ==
  ASSUME FlowOK, ctl' = ctl, PageHidden(FALSE), UNCHANGED <<launchAt, script>>,
         ~(gw.conn \in {"connecting", "connected"} /\ (gw.pending = NoRound \/ ~gw.delivered)),
         budget' \in [toggles : Nat, faults : Nat, preview : BOOLEAN], gw.available
  PROVE  FlowOK' /\ Final
<1>1. /\ gw' \in Gateways /\ gw'.conn = gw.conn /\ gw'.available = FALSE
      /\ gw'.told <=> gw.told
      /\ gw'.pending = gw.pending /\ gw'.delivered = gw.delivered
      /\ gw'.known = gw.known /\ gw'.asked = gw.asked /\ gw'.committed = gw.committed
      /\ told'.disclosed = told.disclosed /\ told'.over = told.over
      /\ told'.rejected = told.rejected /\ told'.hidden = TRUE
      /\ told' \in [disclosed : 0 .. MaxRounds, over : SUBSET Rounds,
                    rejected : SUBSET Rounds, hidden : BOOLEAN]
  BY DEF PageHidden
<1>2. gw.conn # "parked" /\ gw.conn # "connecting"
  <2>1. gw.conn # "parked"
    BY DEF FlowOK, GatewayOK
  <2>2. gw.conn # "connecting"
    BY EarlyFacts
  <2>3. QED
    BY <2>1, <2>2
<1>3. TypeOK'
  BY <1>1, <1>2 DEF FlowOK, TypeOK
<1> USE DEF FlowOK, GatewayOK, LaunchOK, PhaseOK, ReelOK, RoundOK, BufferOK, MoneyOK, ControlsOK,
         HeldOK, Final, Early, Ended, Live, Presenting, NoRound, NoShow, CanSpin, ReelAt, Turning,
         FreeAfter, Only, Fields
<1>4. GatewayOK'
  BY <1>1, <1>2
<1>5. LaunchOK'
  BY <1>1, <1>2
<1>6. PhaseOK'
  BY <1>1, <1>2
<1>7. ReelOK'
  BY <1>1, <1>2
<1>8. RoundOK'
  BY <1>1, <1>2
<1>9. BufferOK'
  BY <1>1, <1>2
<1>10. MoneyOK'
  BY <1>1, <1>2
<1>11. ControlsOK'
  BY <1>1, <1>2
<1>12. HeldOK' /\ Final
  BY <1>1, <1>2
<1>13. QED
  BY <1>3, <1>4, <1>5, <1>6, <1>7, <1>8, <1>9, <1>10, <1>11, <1>12

LEMMA SuspendStep ==
  ASSUME FlowOK, Suspend
  PROVE  FlowOK' /\ Final
<1>1. PICK a \in BOOLEAN :
        a <=> /\ gw.conn \in {"connecting", "connected"}
              /\ gw.pending = NoRound \/ ~gw.delivered
  BY Zenon
<1>2. /\ PageHidden(a) /\ gw' \in Gateways
      /\ a => ctl' = handleStatus(ctl, gw', "recovering")
      /\ ~a => ctl' = ctl
  BY <1>1, HidingFields
<1>3. gw.available /\ UNCHANGED <<launchAt, script>>
  BY DEF Suspend
<1>4. budget' \in [toggles : Nat, faults : Nat, preview : BOOLEAN]
  BY DEF FlowOK, TypeOK, Suspend
<1>5. CASE a
  <2>1. /\ gw.conn \in {"connecting", "connected"} /\ (gw.pending = NoRound \/ ~gw.delivered)
        /\ PageHidden(TRUE)
    BY <1>1, <1>2, <1>5 DEF PageHidden
  <2>2. /\ ctl \in Controllers /\ ~Ended(ctl) /\ ~ctl.timedOut /\ ~ctl.destroyed
        /\ ctl.phase \in Phases
    BY <2>1, Numbers, ConnectedFacts
  <2>3. ~Presenting
    BY <2>1 DEF FlowOK, RoundOK, GatewayOK
  <2>4. ctl.phase \in {"connecting", "ready", "requesting", "recovering"}
    <3>1. CASE gw.conn = "connecting"
      BY <3>1, EarlyFacts
    <3>2. CASE gw.conn = "connected"
      BY <2>2, <2>3, <3>2 DEF FlowOK, PhaseOK, Live, Phases
    <3>3. QED
      BY <2>1, <3>1, <3>2
  <2>5. PICK d : d = handleStatus(ctl, gw', "recovering")
    OBVIOUS
  <2>6. /\ d \in Controllers /\ d.connection = "recovering"
        /\ ctl.phase \notin Interruptible => Only(ctl, d, {"connection"})
        /\ ctl.phase \in Interruptible =>
             /\ Only(ctl, d, {"connection", "phase", "controls", "freeTimer"})
             /\ d.phase = "recovering" /\ Refreshed(ctl, d, gw')
    BY <1>2, <2>2, <2>5, InterruptFields
  <2>7. /\ Only(ctl, d, {"connection", "phase", "controls", "freeTimer"})
        /\ d.phase = "recovering" /\ d.controls = FALSE /\ d.freeTimer = 0
    <3>1. CASE ctl.phase = "recovering"
      <4>1. Only(ctl, d, {"connection"})
        BY <2>6, <3>1 DEF Interruptible
      <4>2. ~ctl.controls /\ ctl.freeTimer = 0
        BY <3>1 DEF FlowOK, ControlsOK, CanSpin
      <4>3. ctl.controls = FALSE
        BY <2>2, <4>2 DEF Controllers
      <4>4. QED
        BY <3>1, <4>1, <4>2, <4>3 DEF Only, Fields
    <3>2. CASE ctl.phase # "recovering"
      <4>1. ctl.phase \in Interruptible
        BY <2>4, <3>2 DEF Interruptible, Phases
      <4>2. /\ Only(ctl, d, {"connection", "phase", "controls", "freeTimer"})
            /\ d.phase = "recovering" /\ Refreshed(ctl, d, gw')
        BY <2>6, <4>1
      <4>3. ~CanSpin(d, gw') /\ d.controls \in BOOLEAN
        BY <2>6, <4>2 DEF CanSpin, Controllers
      <4>4. QED
        BY <4>2, <4>3 DEF Refreshed
    <3>3. QED
      BY <3>1, <3>2
  <2>8. ctl' = d
    BY <1>2, <1>5, <2>5
  <2>9. Interrupted
    BY <2>6, <2>7, <2>8 DEF Interrupted
  <2>10. QED
    BY <1>3, <1>4, <2>1, <2>9, InterruptedStep
<1>6. CASE ~a
  <2>1. PageHidden(FALSE) /\ ctl' = ctl
    BY <1>2, <1>6 DEF PageHidden
  <2>2. ~(gw.conn \in {"connecting", "connected"} /\ (gw.pending = NoRound \/ ~gw.delivered))
    BY <1>1, <1>6
  <2>3. QED
    BY <1>3, <1>4, <2>1, <2>2, HiddenStep
<1>7. QED
  BY <1>5, <1>6

-----------------------------------------------------------------------------
(* A round is answered *)

\* A round that is on its way to a controller in view is a request of its own.
LEMMA AwaitedRound ==
  ASSUME FlowOK, gw.conn = "connected", gw.available, gw.pending # NoRound, ~gw.delivered
  PROVE  /\ ctl.phase = "requesting" /\ ctl.opened /\ ~Presenting
         /\ ctl.queue = <<>> /\ ctl.show.at = "none"
         /\ ctl.buffered = 0 /\ ctl.lastRound < gw.pending /\ ~gw.asked
         /\ \/ ctl.reel = "Idle"
            \/ ctl.reel = "Spinning" /\ ctl.reelRound = gw.pending /\ ctl.idle = "none"
         /\ ctl.freeTimer = 0
<1>1. ~Ended(ctl) /\ ~ctl.timedOut /\ Live /\ ~gw.asked
  BY ConnectedFacts DEF Live, FlowOK, GatewayOK
<1>2. ctl.phase = "requesting" /\ ctl.opened
  BY <1>1 DEF FlowOK, PhaseOK
<1>3. ~Presenting
  BY <1>1, <1>2 DEF FlowOK, PhaseOK
<1>4. ctl.queue = <<>> /\ ctl.show.at = "none"
  BY <1>3 DEF Presenting
<1>5. ctl.buffered = 0 /\ ctl.lastRound < gw.pending
  BY <1>1 DEF FlowOK, BufferOK, RoundOK, NoRound
<1>6. \/ ctl.reel = "Idle"
      \/ ctl.reel = "Spinning" /\ ctl.reelRound = gw.pending /\ ctl.idle = "none"
  <2>1. ctl.reel \in {"Idle", "Spinning"} /\ ctl.idle \in {"none", "armed", "active"}
          /\ (ctl.idle # "none" => ctl.reel = "Idle")
    BY <1>1, <1>3, Numbers DEF FlowOK, ReelOK, Controllers
  <2>2. ctl.reel = "Spinning" => ctl.reelRound = gw.pending
    BY <1>1, <1>3 DEF FlowOK, ReelOK
  <2>3. QED
    BY <2>1, <2>2
<1>7. ctl.freeTimer = 0
  BY <1>2 DEF FlowOK, ControlsOK, CanSpin
<1>8. QED
  BY <1>1, <1>2, <1>3, <1>4, <1>5, <1>6, <1>7

\* The controller lets the round go and is ready for another.
LetGo(c, d, g) ==
  /\ d \in Controllers /\ Only(c, d, {"reel", "reelRound", "phase", "controls", "freeTimer"})
  /\ d.reel = "Idle" /\ d.phase = "ready"
  /\ d.controls <=> CanSpin(d, g) /\ ~d.destroyed
  /\ d.freeTimer # 0 => CanSpin(d, g) /\ d.freeTimer = d.free
  /\ CanSpin(d, g) => d.freeTimer = d.free

LEMMA LettingGo ==
  ASSUME FlowOK, gw.conn = "connected", ctl.phase = "requesting", ctl.freeTimer = 0,
         NEW g \in Gateways, NEW d, d = rejectSpinResult(ctl, g)
  PROVE  LetGo(ctl, d, g)
<1>1. ctl \in Controllers /\ ~ctl.destroyed
  BY Numbers, ConnectedFacts
<1>2. /\ d \in Controllers
      /\ Only(ctl, d, {"reel", "reelRound", "phase", "controls", "freeTimer"})
      /\ d.reel = "Idle" /\ d.reelRound = 0 /\ d.phase = "ready" /\ Refreshed(ctl, d, g)
  BY <1>1, RejectFields
<1>3. ~d.destroyed
  BY <1>1, <1>2 DEF Only, Fields
<1>4. /\ d.controls <=> CanSpin(d, g) /\ ~d.destroyed
      /\ d.freeTimer # 0 => CanSpin(d, g) /\ d.freeTimer = d.free
      /\ CanSpin(d, g) => d.freeTimer = d.free
  BY <1>2, <1>3, RefreshedControls
<1>5. QED
  BY <1>2, <1>4 DEF LetGo

\* The round is refused by the server, or its result by the controller.
LetGoStays ==
  /\ gw' \in Gateways /\ gw'.conn = gw.conn /\ gw'.available = gw.available
  /\ gw'.told = gw.told /\ gw'.committed = gw.committed
  /\ \/ gw.pending = gw.committed + 1 /\ gw'.pending = 0 /\ gw'.delivered = FALSE
          /\ gw'.asked = FALSE /\ gw'.known = gw.known /\ told'.rejected = told.rejected
     \/ gw.pending = gw.committed /\ gw'.pending = gw.pending /\ gw'.delivered = TRUE
          /\ gw'.asked = FALSE /\ gw'.known = gw.committed
          /\ told'.rejected = told.rejected \union {gw.pending}
  /\ told'.disclosed = told.disclosed /\ told'.over = told.over /\ told'.hidden = told.hidden
  /\ told' \in [disclosed : 0 .. MaxRounds, over : SUBSET Rounds,
                rejected : SUBSET Rounds, hidden : BOOLEAN]

LEMMA LetGoStep ==
  ASSUME FlowOK, gw.conn = "connected", gw.available, gw.pending # NoRound, ~gw.delivered,
         LetGo(ctl, ctl', gw'), LetGoStays, UNCHANGED <<launchAt, script>>,
         budget' \in [toggles : Nat, faults : Nat, preview : BOOLEAN]
  PROVE  FlowOK' /\ Final
<1>1. /\ ctl.phase = "requesting" /\ ctl.opened /\ ~Presenting
      /\ ctl.queue = <<>> /\ ctl.show.at = "none"
      /\ ctl.buffered = 0 /\ ctl.lastRound < gw.pending /\ ~gw.asked
  BY AwaitedRound
<1>2. ~Ended(ctl) /\ ~ctl.sessionFailed /\ ~ctl.timedOut /\ ~ctl.destroyed
  BY ConnectedFacts
<1>3. Only(ctl, ctl', {"reel", "reelRound", "phase", "controls", "freeTimer"})
  BY DEF LetGo
<1>4. /\ ctl' \in Controllers /\ ctl'.reel = "Idle" /\ ctl'.phase = "ready"
      /\ ctl'.controls <=> CanSpin(ctl', gw') /\ ~ctl'.destroyed
      /\ ctl'.freeTimer # 0 => CanSpin(ctl', gw') /\ ctl'.freeTimer = ctl'.free
      /\ CanSpin(ctl', gw') => ctl'.freeTimer = ctl'.free
  BY DEF LetGo
<1>5. /\ ctl'.launch = ctl.launch /\ ctl'.hasSession = ctl.hasSession
      /\ ctl'.connection = ctl.connection
      /\ ctl'.timedOut = ctl.timedOut /\ ctl'.destroyed = ctl.destroyed
      /\ ctl'.sessionFailed = ctl.sessionFailed /\ ctl'.opened = ctl.opened
      /\ ctl'.requests = ctl.requests /\ ctl'.buffered = ctl.buffered
      /\ ctl'.visualStart = ctl.visualStart /\ ctl'.lastRound = ctl.lastRound
      /\ ctl'.barrier = ctl.barrier /\ ctl'.balance = ctl.balance
      /\ ctl'.visible = ctl.visible /\ ctl'.free = ctl.free
      /\ ctl'.sessionTimer = ctl.sessionTimer /\ ctl'.idle = ctl.idle
      /\ ctl'.leases = ctl.leases /\ ctl'.queue = ctl.queue /\ ctl'.show = ctl.show
  BY <1>3 DEF Only, Fields
<1>6. /\ gw' \in Gateways /\ gw'.conn = gw.conn /\ gw'.available = gw.available
      /\ gw'.told = gw.told /\ gw'.committed = gw.committed
      /\ told'.disclosed = told.disclosed /\ told'.over = told.over /\ told'.hidden = told.hidden
      /\ told' \in [disclosed : 0 .. MaxRounds, over : SUBSET Rounds,
                    rejected : SUBSET Rounds, hidden : BOOLEAN]
  BY DEF LetGoStays
<1>7. \/ gw.pending = gw.committed + 1 /\ gw'.pending = 0 /\ gw'.delivered = FALSE
           /\ gw'.asked = FALSE /\ gw'.known = gw.known
      \/ gw.pending = gw.committed /\ gw'.pending = gw.pending /\ gw'.delivered = TRUE
           /\ gw'.asked = FALSE /\ gw'.known = gw.committed
           /\ gw.pending \in told'.rejected
  BY DEF LetGoStays
<1>8. UNCHANGED <<launchAt, script>>
  OBVIOUS
<1>9. gw.pending \in Nat /\ gw.committed \in Nat /\ gw.known \in Nat /\ told.disclosed \in Nat
  BY Numbers
<1>10. TypeOK'
  BY <1>1, <1>2, <1>4, <1>5, <1>6, <1>7, <1>8, <1>9 DEF FlowOK, TypeOK
<1> USE DEF FlowOK, GatewayOK, LaunchOK, PhaseOK, ReelOK, RoundOK, BufferOK, MoneyOK, ControlsOK,
         HeldOK, Final, Early, Ended, Live, Presenting, NoRound, NoShow, CanSpin, ReelAt, Turning,
         FreeAfter, Only, Fields
<1>11. GatewayOK'
  BY <1>1, <1>2, <1>4, <1>5, <1>6, <1>7, <1>8, <1>9
<1>12. LaunchOK'
  BY <1>1, <1>2, <1>4, <1>5, <1>6, <1>7, <1>8, <1>9
<1>13. PhaseOK'
  BY <1>1, <1>2, <1>4, <1>5, <1>6, <1>7, <1>8, <1>9
<1>14. ReelOK'
  BY <1>1, <1>2, <1>4, <1>5, <1>6, <1>7, <1>8, <1>9
<1>15. RoundOK'
  BY <1>1, <1>2, <1>4, <1>5, <1>6, <1>7, <1>8, <1>9
<1>16. BufferOK'
  BY <1>1, <1>2, <1>4, <1>5, <1>6, <1>7, <1>8, <1>9
<1>17. MoneyOK'
  BY <1>1, <1>2, <1>4, <1>5, <1>6, <1>7, <1>8, <1>9
<1>18. ControlsOK'
  BY <1>1, <1>2, <1>4, <1>5, <1>6, <1>7, <1>8, <1>9
<1>19. HeldOK' /\ Final
  BY <1>1, <1>2, <1>4, <1>5, <1>6, <1>7, <1>8, <1>9
<1>20. QED
  BY <1>10, <1>11, <1>12, <1>13, <1>14, <1>15, <1>16, <1>17, <1>18, <1>19

LEMMA RejectRoundStep ==
  ASSUME FlowOK, RejectRound
  PROVE  FlowOK' /\ Final
<1>1. /\ gw \in Gateways /\ ctl \in Controllers /\ gw.conn = "connected" /\ gw.available
      /\ gw.pending > gw.committed /\ UNCHANGED <<launchAt, script, told>>
  BY Numbers DEF RejectRound
<1>2. gw.pending # NoRound /\ ~gw.delivered /\ gw.pending = gw.committed + 1 /\ ~gw.asked
  BY <1>1, Numbers DEF FlowOK, GatewayOK, NoRound
<1>3. ctl.phase = "requesting" /\ ctl.opened /\ ctl.freeTimer = 0
  BY <1>1, <1>2, AwaitedRound
<1>4. /\ ~Ended(ctl) /\ ~ctl.sessionFailed /\ ctl.requests <= 1 /\ ctl.phase \in Phases
  BY <1>1, ConnectedFacts
<1>5. PICK g : g = [gw EXCEPT !.pending = 0]
  OBVIOUS
<1>6. /\ g \in Gateways /\ g.conn = gw.conn /\ g.available = gw.available
      /\ g.told = gw.told /\ g.pending = 0 /\ g.delivered = gw.delivered
      /\ g.known = gw.known /\ g.asked = gw.asked /\ g.committed = gw.committed
  BY <1>1, <1>5, Bounds DEF Gateways
<1>7. PICK d : d = handleError(ctl, g)
  OBVIOUS
<1>8. d = rejectSpinResult(ctl, g)
  BY <1>1, <1>3, <1>4, <1>6, <1>7, ErrorFields
<1>9. LetGo(ctl, d, g)
  BY <1>1, <1>3, <1>6, <1>8, LettingGo
<1>10. ctl' = d /\ gw' = g
  BY <1>5, <1>7 DEF RejectRound, NoRound
<1>11. LetGo(ctl, ctl', gw')
  BY <1>9, <1>10
<1>12. gw.delivered = FALSE /\ gw.asked = FALSE
  BY <1>1, <1>2 DEF Gateways
<1>13. LetGoStays
  <2>1. told \in [disclosed : 0 .. MaxRounds, over : SUBSET Rounds,
                  rejected : SUBSET Rounds, hidden : BOOLEAN]
    BY DEF FlowOK, TypeOK
  <2>2. QED
    BY <1>1, <1>2, <1>6, <1>10, <1>12, <2>1 DEF LetGoStays
<1>14. budget' \in [toggles : Nat, faults : Nat, preview : BOOLEAN]
  BY DEF FlowOK, TypeOK, RejectRound
<1>15. QED
  BY <1>1, <1>2, <1>11, <1>13, <1>14, LetGoStep

\* The result waits for the launch.
Waits(r) ==
  /\ Buffered(ctl, ctl', r)
  /\ gw' \in Gateways /\ gw'.conn = gw.conn /\ gw'.available = gw.available
  /\ gw'.told = gw.told /\ gw'.pending = r /\ gw'.delivered = TRUE
  /\ gw'.known = r /\ gw'.asked = FALSE /\ gw'.committed = r

LEMMA WaitsStep ==
  ASSUME FlowOK, gw.conn = "connected", gw.available, gw.pending # NoRound, ~gw.delivered,
         gw.committed = gw.pending, ctl.launch # "ready", Waits(gw.pending),
         UNCHANGED <<launchAt, script, told, budget>>
  PROVE  FlowOK' /\ Final
<1>1. /\ ctl.phase = "requesting" /\ ctl.opened /\ ~Presenting
      /\ ctl.queue = <<>> /\ ctl.show.at = "none"
      /\ ctl.buffered = 0 /\ ctl.lastRound < gw.pending /\ ~gw.asked
  BY AwaitedRound
<1>2. ~Ended(ctl) /\ ~ctl.sessionFailed /\ ~ctl.timedOut /\ ~ctl.destroyed
  BY ConnectedFacts
<1>3. ctl.reel = "Idle"
  <2>1. Live
    BY <1>2 DEF Live
  <2>2. QED
    BY <1>1, <2>1, AwaitedRound DEF FlowOK, ReelOK
<1>4. /\ ctl' \in Controllers /\ Only(ctl, ctl', {"buffered", "visualStart"})
      /\ ctl'.buffered = gw.pending /\ ctl'.visualStart
  BY <1>3 DEF Waits, Buffered
<1>5. /\ ctl' \in Controllers /\ ctl'.buffered = gw.pending /\ ctl'.visualStart
      /\ ctl'.launch = ctl.launch /\ ctl'.hasSession = ctl.hasSession /\ ctl'.phase = ctl.phase
      /\ ctl'.connection = ctl.connection /\ ctl'.reel = ctl.reel
      /\ ctl'.reelRound = ctl.reelRound
      /\ ctl'.timedOut = ctl.timedOut /\ ctl'.destroyed = ctl.destroyed
      /\ ctl'.sessionFailed = ctl.sessionFailed /\ ctl'.opened = ctl.opened
      /\ ctl'.requests = ctl.requests /\ ctl'.lastRound = ctl.lastRound
      /\ ctl'.barrier = ctl.barrier /\ ctl'.balance = ctl.balance
      /\ ctl'.visible = ctl.visible /\ ctl'.free = ctl.free
      /\ ctl'.controls = ctl.controls /\ ctl'.freeTimer = ctl.freeTimer
      /\ ctl'.sessionTimer = ctl.sessionTimer /\ ctl'.idle = ctl.idle
      /\ ctl'.leases = ctl.leases /\ ctl'.queue = ctl.queue /\ ctl'.show = ctl.show
  BY <1>4 DEF Only, Fields
<1>6. /\ gw' \in Gateways /\ gw'.conn = gw.conn /\ gw'.available = gw.available
      /\ gw'.told = gw.told /\ gw'.pending = gw.pending /\ gw'.delivered = TRUE
      /\ gw'.known = gw.pending /\ gw'.asked = FALSE /\ gw'.committed = gw.pending
  BY DEF Waits
<1>7. UNCHANGED <<launchAt, script, told, budget>>
  OBVIOUS
<1>8. gw.committed <= Len(script) /\ gw.pending \in Nat /\ ctl.connection \in {"idle", "connecting", "online", "recovering", "offline"}
  BY Numbers DEF FlowOK, GatewayOK, Controllers
<1>9. GatewayOK'
  <2>1. gw'.conn = "connected" /\ ~Ended(ctl') /\ ~ctl'.sessionFailed
    BY <1>2, <1>5, <1>6 DEF Ended
  <2>2. gw'.committed <= Len(script') /\ gw'.pending <= Len(script') /\ gw'.known <= gw'.committed
    BY <1>6, <1>7, <1>8
  <2>3. QED
    BY <1>6, <2>1, <2>2 DEF GatewayOK, Early
<1>10. TypeOK'
  BY <1>1, <1>2, <1>3, <1>5, <1>6, <1>7, <1>9 DEF FlowOK, TypeOK
<1> USE DEF FlowOK, GatewayOK, LaunchOK, PhaseOK, ReelOK, RoundOK, BufferOK, MoneyOK, ControlsOK,
         HeldOK, Final, Early, Ended, Live, Presenting, NoRound, NoShow, CanSpin, ReelAt, Turning,
         FreeAfter, Only, Fields
<1>11. GatewayOK'
  BY <1>1, <1>2, <1>3, <1>5, <1>6, <1>7, <1>9
<1>12. LaunchOK'
  BY <1>1, <1>2, <1>3, <1>5, <1>6, <1>7, <1>9
<1>13. PhaseOK'
  BY <1>1, <1>2, <1>3, <1>5, <1>6, <1>7, <1>9
<1>14. ReelOK'
  BY <1>1, <1>2, <1>3, <1>5, <1>6, <1>7, <1>9
<1>15. RoundOK'
  BY <1>1, <1>2, <1>3, <1>5, <1>6, <1>7, <1>9
<1>16. BufferOK'
  BY <1>1, <1>2, <1>3, <1>5, <1>6, <1>7, <1>9
<1>17. MoneyOK'
  BY <1>1, <1>2, <1>3, <1>5, <1>6, <1>7, <1>9
<1>18. ControlsOK'
  BY <1>1, <1>2, <1>3, <1>5, <1>6, <1>7, <1>9
<1>19. HeldOK' /\ Final
  BY <1>1, <1>2, <1>3, <1>5, <1>6, <1>7, <1>9
<1>20. QED
  BY <1>10, <1>11, <1>12, <1>13, <1>14, <1>15, <1>16, <1>17, <1>18, <1>19

LEMMA DeliverStep ==
  ASSUME FlowOK, Deliver
  PROVE  FlowOK' /\ Final
<1>1. /\ gw \in Gateways /\ ctl \in Controllers /\ gw.conn = "connected" /\ gw.available
      /\ gw.pending # NoRound /\ gw.committed = gw.pending /\ ~gw.delivered
      /\ UNCHANGED <<launchAt, script>>
  BY Numbers DEF Deliver
<1>2. /\ ctl.phase = "requesting" /\ ctl.opened /\ ~Presenting
      /\ ctl.queue = <<>> /\ ctl.show.at = "none"
      /\ ctl.buffered = 0 /\ ctl.lastRound < gw.pending /\ ~gw.asked
      /\ \/ ctl.reel = "Idle"
         \/ ctl.reel = "Spinning" /\ ctl.reelRound = gw.pending /\ ctl.idle = "none"
      /\ ctl.freeTimer = 0
  BY <1>1, AwaitedRound
<1>3. ~Ended(ctl) /\ ~ctl.destroyed /\ gw.committed <= Len(script)
  BY <1>1, ConnectedFacts
<1>4. PICK r \in Rounds : r = gw.pending
  BY <1>1, Bounds DEF Gateways, Rounds, NoRound
<1>5. r <= Len(script) /\ r # ctl.lastRound /\ gw.asked = FALSE
  BY <1>1, <1>2, <1>3, <1>4, Numbers DEF Gateways
<1>6. gw' = [gw EXCEPT !.delivered = TRUE, !.known = r]
  BY <1>4 DEF Deliver
<1>7. /\ gw' \in Gateways /\ gw'.conn = gw.conn /\ gw'.available = gw.available
      /\ gw'.told = gw.told /\ gw'.pending = gw.pending /\ gw'.delivered = TRUE
      /\ gw'.known = r /\ gw'.asked = gw.asked /\ gw'.committed = gw.committed
  <2>1. r \in 0 .. MaxRounds
    BY Bounds DEF Rounds
  <2>2. QED
    BY <1>1, <1>6, <2>1 DEF Gateways
<1>8. budget' \in [toggles : Nat, faults : Nat, preview : BOOLEAN]
  BY DEF FlowOK, TypeOK, Deliver
<1>9. told \in [disclosed : 0 .. MaxRounds, over : SUBSET Rounds,
                rejected : SUBSET Rounds, hidden : BOOLEAN]
        /\ budget \in [toggles : Nat, faults : Nat, preview : BOOLEAN]
  BY DEF FlowOK, TypeOK
<1>10. \/ /\ ctl' = bufferRecoveredSpinResult(ctl, gw, r, TRUE)
          /\ told' = [told EXCEPT !.rejected = told.rejected]
          /\ budget' = [budget EXCEPT !.faults = budget.faults]
       \/ /\ ctl' = bufferRecoveredSpinResult(ctl, gw, r, FALSE)
          /\ told' = [told EXCEPT !.rejected = @ \union {r}]
  BY <1>4 DEF Deliver
<1>11. CASE /\ ctl' = bufferRecoveredSpinResult(ctl, gw, r, TRUE)
            /\ told' = [told EXCEPT !.rejected = told.rejected]
            /\ budget' = [budget EXCEPT !.faults = budget.faults]
  <2>1. told' = told /\ budget' = budget
    BY <1>9, <1>11
  <2>2. PICK d : d = bufferRecoveredSpinResult(ctl, gw, r, TRUE)
    OBVIOUS
  <2>3. script \in {z.script : z \in Scenarios}
    BY Numbers
  <2>4. /\ ctl \in Controllers /\ ctl.queue = <<>> /\ ~ctl.destroyed /\ gw \in Gateways
        /\ r <= Len(script) /\ ctl.phase = "requesting" /\ r # ctl.lastRound
        /\ ctl.buffered = 0
        /\ ctl.reel = "Idle" \/ (ctl.reel = "Spinning" /\ ctl.reelRound = r /\ ctl.idle = "none")
    BY <1>1, <1>2, <1>3, <1>4, <1>5
  <2>5. /\ ctl.launch = "ready" => Accepted(ctl, d, r)
        /\ ctl.launch # "ready" => Buffered(ctl, d, r)
    BY <2>2, <2>3, <2>4, BufferFields
  <2>6. ctl' = d
    BY <1>11, <2>2
  <2>7. CASE ctl.launch = "ready"
    <3>1. Accepted(ctl, ctl', r)
      BY <2>5, <2>6, <2>7
    <3>2. Only(ctl, ctl, {"launch", "controls", "freeTimer"})
      BY DEF Only
    <3>3. /\ gw.conn = "connected" /\ gw.pending = r /\ gw.committed = r /\ ~gw.asked
          /\ gw' \in Gateways /\ gw'.conn = "connected" /\ gw'.pending = r /\ gw'.committed = r
          /\ gw'.delivered /\ ~gw'.asked /\ gw'.known = r /\ gw'.available = gw.available
      BY <1>1, <1>4, <1>5, <1>7
    <3>4. /\ ~Ended(ctl) /\ ~Presenting /\ ctl.opened /\ r <= Len(script) /\ ctl.lastRound < r
          /\ launchAt' = launchAt /\ script' = script /\ told' = told /\ budget' = budget
      BY <1>1, <1>2, <1>3, <1>4, <1>5, <2>1
    <3>5. QED
      BY <2>7, <3>1, <3>2, <3>3, <3>4, RoundTaken
  <2>8. CASE ctl.launch # "ready"
    <3>1. Waits(gw.pending)
      BY <1>1, <1>4, <1>5, <1>7, <2>5, <2>6, <2>8 DEF Waits
    <3>2. UNCHANGED <<launchAt, script, told, budget>>
      BY <1>1, <2>1
    <3>3. QED
      BY <1>1, <2>8, <3>1, <3>2, WaitsStep
  <2>9. QED
    BY <2>7, <2>8
<1>12. CASE /\ ctl' = bufferRecoveredSpinResult(ctl, gw, r, FALSE)
            /\ told' = [told EXCEPT !.rejected = @ \union {r}]
  <2>1. PICK d : d = bufferRecoveredSpinResult(ctl, gw, r, FALSE)
    OBVIOUS
  <2>2. d = rejectSpinResult(ctl, gw)
    BY <1>1, <1>2, <1>5, <2>1, RefusedFields
  <2>3. LetGo(ctl, d, gw)
    BY <1>1, <1>2, <2>2, LettingGo
  <2>4. CanSpin(d, gw) = CanSpin(d, gw')
    BY <1>7 DEF CanSpin
  <2>5. LetGo(ctl, d, gw')
    BY <2>3, <2>4 DEF LetGo
  <2>6. ctl' = d
    BY <1>12, <2>1
  <2>7. LetGo(ctl, ctl', gw')
    BY <2>5, <2>6
  <2>8. /\ told'.disclosed = told.disclosed /\ told'.over = told.over
        /\ told'.hidden = told.hidden /\ told'.rejected = told.rejected \union {r}
        /\ told' \in [disclosed : 0 .. MaxRounds, over : SUBSET Rounds,
                      rejected : SUBSET Rounds, hidden : BOOLEAN]
    BY <1>9, <1>12
  <2>9. LetGoStays
    BY <1>1, <1>4, <1>5, <1>7, <2>8 DEF LetGoStays
  <2>10. QED
    BY <1>1, <1>8, <2>7, <2>9, LetGoStep
<1>13. QED
  BY <1>10, <1>11, <1>12

-----------------------------------------------------------------------------
(* The player asks for a round *)

\* Where the controller stands when a spin would be taken.
LEMMA SpinFacts ==
  ASSUME FlowOK, CanSpin(ctl, gw)
  PROVE  /\ gw.conn = "connected" /\ gw.pending = 0 /\ ~gw.delivered /\ ~gw.asked
         /\ gw.known = gw.committed /\ ctl.free = FreeAfter(gw.committed)
         /\ ~Ended(ctl) /\ ~ctl.timedOut /\ ~ctl.destroyed /\ ~ctl.sessionFailed
         /\ ctl.phase = "ready" /\ ctl.launch = "ready" /\ ctl.opened /\ ~Presenting
         /\ ctl.queue = <<>> /\ ctl.show.at = "none" /\ ctl.buffered = 0 /\ ctl.reel = "Idle"
         /\ gw.committed <= told.disclosed
<1>1. ctl.phase = "ready" /\ ctl.launch = "ready" /\ ctl.connection = "online" /\ gw.pending = 0
  BY DEF CanSpin, NoRound
<1>2. gw.conn = "connected"
  BY <1>1 DEF FlowOK, GatewayOK
<1>3. ~Ended(ctl) /\ ~ctl.timedOut /\ ~ctl.destroyed /\ ~ctl.sessionFailed
  BY <1>2, ConnectedFacts
<1>4. ~gw.delivered /\ ~gw.asked /\ gw.known = gw.committed
  BY <1>1, <1>2 DEF FlowOK, GatewayOK, NoRound
<1>5. ctl.free = FreeAfter(gw.committed) /\ gw.committed <= told.disclosed
  <2>1. 0 <= told.disclosed
    BY Numbers
  <2>2. QED
    BY <1>1, <1>2, <2>1 DEF FlowOK, MoneyOK, NoRound
<1>6. ctl.opened
  BY <1>1 DEF FlowOK, LaunchOK
<1>7. ~Presenting
  BY <1>1, <1>3 DEF FlowOK, PhaseOK
<1>8. ctl.queue = <<>> /\ ctl.show.at = "none"
  BY <1>7 DEF Presenting
<1>9. ctl.buffered = 0
  BY <1>1 DEF FlowOK, BufferOK, NoRound
<1>10. ctl.reel = "Idle"
  BY <1>1, <1>2, <1>3, <1>7 DEF FlowOK, ReelOK, Live
<1>11. QED
  BY <1>1, <1>2, <1>3, <1>4, <1>5, <1>6, <1>7, <1>8, <1>9, <1>10

\* The round is on its way and the reels turn.
SpinsOff ==
  /\ SpinsFor(ctl, ctl', gw.committed + 1)
  /\ gw' \in Gateways /\ gw'.conn = gw.conn /\ gw'.available = gw.available
  /\ gw'.told = gw.told /\ gw'.pending = gw.committed + 1 /\ gw'.delivered = gw.delivered
  /\ gw'.known = gw.known /\ gw'.asked = gw.asked /\ gw'.committed = gw.committed

LEMMA SpinStep ==
  ASSUME FlowOK, CanSpin(ctl, gw), gw.committed < Len(script), SpinsOff,
         UNCHANGED <<launchAt, script, told, budget>>
  PROVE  FlowOK' /\ Final
<1>1. /\ gw.conn = "connected" /\ gw.pending = 0 /\ ~gw.delivered /\ ~gw.asked
      /\ gw.known = gw.committed /\ ctl.free = FreeAfter(gw.committed)
      /\ gw.committed <= told.disclosed
  BY SpinFacts
<1>2. /\ ~Ended(ctl) /\ ~ctl.timedOut /\ ~ctl.destroyed /\ ~ctl.sessionFailed
      /\ ctl.launch = "ready" /\ ctl.opened /\ ~Presenting
      /\ ctl.queue = <<>> /\ ctl.show.at = "none" /\ ctl.buffered = 0
  BY SpinFacts
<1>3. /\ ctl' \in Controllers
      /\ Only(ctl, ctl', {"idle", "reel", "reelRound", "freeTimer", "phase", "controls"})
      /\ ctl'.idle = "none" /\ ctl'.reel = "Spinning" /\ ctl'.reelRound = gw.committed + 1
      /\ ctl'.freeTimer = 0 /\ ctl'.phase = "requesting" /\ ctl'.controls = FALSE
  BY DEF SpinsOff, SpinsFor
<1>4. /\ ctl'.launch = ctl.launch /\ ctl'.hasSession = ctl.hasSession
      /\ ctl'.connection = ctl.connection
      /\ ctl'.timedOut = ctl.timedOut /\ ctl'.destroyed = ctl.destroyed
      /\ ctl'.sessionFailed = ctl.sessionFailed /\ ctl'.opened = ctl.opened
      /\ ctl'.requests = ctl.requests /\ ctl'.buffered = ctl.buffered
      /\ ctl'.visualStart = ctl.visualStart /\ ctl'.lastRound = ctl.lastRound
      /\ ctl'.barrier = ctl.barrier /\ ctl'.balance = ctl.balance
      /\ ctl'.visible = ctl.visible /\ ctl'.free = ctl.free
      /\ ctl'.sessionTimer = ctl.sessionTimer
      /\ ctl'.leases = ctl.leases /\ ctl'.queue = ctl.queue /\ ctl'.show = ctl.show
  BY <1>3 DEF Only, Fields
<1>5. /\ ctl' \in Controllers
      /\ ctl'.idle = "none" /\ ctl'.reel = "Spinning" /\ ctl'.reelRound = gw.committed + 1
      /\ ctl'.freeTimer = 0 /\ ctl'.phase = "requesting" /\ ~ctl'.controls
  BY <1>3
<1>6. /\ gw' \in Gateways /\ gw'.conn = gw.conn /\ gw'.available = gw.available
      /\ gw'.told = gw.told /\ gw'.pending = gw.committed + 1 /\ gw'.delivered = gw.delivered
      /\ gw'.known = gw.known /\ gw'.asked = gw.asked /\ gw'.committed = gw.committed
  BY DEF SpinsOff
<1>7. UNCHANGED <<launchAt, script, told, budget>>
  OBVIOUS
<1>8. gw.committed < Len(script) /\ gw.committed \in Nat /\ Len(script) \in Nat /\ ctl.lastRound \in Nat
  BY Numbers, ScriptFacts
<1>9. ctl.lastRound <= gw.committed
  BY DEF FlowOK, RoundOK
<1>10. TypeOK'
  BY <1>1, <1>2, <1>4, <1>5, <1>6, <1>7, <1>8, <1>9 DEF FlowOK, TypeOK
<1> USE DEF FlowOK, GatewayOK, LaunchOK, PhaseOK, ReelOK, RoundOK, BufferOK, MoneyOK, ControlsOK,
         HeldOK, Final, Early, Ended, Live, Presenting, NoRound, NoShow, CanSpin, ReelAt, Turning,
         FreeAfter, Only, Fields
<1>11. GatewayOK'
  BY <1>1, <1>2, <1>4, <1>5, <1>6, <1>7, <1>8, <1>9
<1>12. LaunchOK'
  BY <1>1, <1>2, <1>4, <1>5, <1>6, <1>7, <1>8, <1>9
<1>13. PhaseOK'
  BY <1>1, <1>2, <1>4, <1>5, <1>6, <1>7, <1>8, <1>9
<1>14. ReelOK'
  BY <1>1, <1>2, <1>4, <1>5, <1>6, <1>7, <1>8, <1>9
<1>15. RoundOK'
  BY <1>1, <1>2, <1>4, <1>5, <1>6, <1>7, <1>8, <1>9
<1>16. BufferOK'
  BY <1>1, <1>2, <1>4, <1>5, <1>6, <1>7, <1>8, <1>9
<1>17. MoneyOK'
  BY <1>1, <1>2, <1>4, <1>5, <1>6, <1>7, <1>8, <1>9
<1>18. ControlsOK'
  BY <1>1, <1>2, <1>4, <1>5, <1>6, <1>7, <1>8, <1>9
<1>19. HeldOK' /\ Final
  BY <1>1, <1>2, <1>4, <1>5, <1>6, <1>7, <1>8, <1>9
<1>20. QED
  BY <1>10, <1>11, <1>12, <1>13, <1>14, <1>15, <1>16, <1>17, <1>18, <1>19

\* requestSpin(), of the click or of the free-spin timer.
LEMMA SpinTaken ==
  ASSUME FlowOK, CanSpin(ctl, gw), gw.committed < Len(script), gw' = Requested,
         NEW c \in Controllers, Only(ctl, c, {"freeTimer"}), ctl' = SpinAccepted(c, Requested),
         UNCHANGED <<launchAt, script, told, budget>>
  PROVE  FlowOK' /\ Final
<1>1. gw \in Gateways /\ ctl.reel = "Idle" /\ ctl.phase = "ready"
  BY Numbers, SpinFacts
<1>2. gw.committed + 1 \in 0 .. MaxRounds
  <2>1. gw.committed \in Nat /\ MaxRounds \in Nat /\ Len(script) \in 0 .. MaxRounds
    BY Numbers, ScriptFacts, Bounds
  <2>2. QED
    BY <2>1
<1>3. PICK p \in 0 .. MaxRounds : p = gw.committed + 1
  BY <1>2
<1>4. PICK g : g = [gw EXCEPT !.pending = p]
  OBVIOUS
<1>5. /\ g \in Gateways /\ g.conn = gw.conn /\ g.available = gw.available
      /\ g.told = gw.told /\ g.pending = p /\ g.delivered = gw.delivered
      /\ g.known = gw.known /\ g.asked = gw.asked /\ g.committed = gw.committed
  BY <1>1, <1>4 DEF Gateways
<1>6. g = Requested
  BY <1>3, <1>4 DEF Requested
<1>7. PICK d : d = SpinAccepted(c, g)
  OBVIOUS
<1>8. c.reel = "Idle" /\ c.phase = "ready"
  BY <1>1 DEF Only, Fields
<1>9. SpinsFor(c, d, p)
  <2>1. SpinsFor(c, d, g.pending)
    BY <1>5, <1>7, <1>8, SpinFields
  <2>2. QED
    BY <1>5, <2>1
<1>10. ctl' = d /\ gw' = g
  BY <1>6, <1>7
<1>11. SpinsFor(ctl, d, p)
  BY <1>9 DEF SpinsFor, Only, Fields
<1>12. SpinsOff
  BY <1>3, <1>5, <1>10, <1>11 DEF SpinsOff
<1>13. QED
  BY <1>12, SpinStep

LEMMA requestSpinStep ==
  ASSUME FlowOK, requestSpin
  PROVE  FlowOK' /\ Final
<1>1. CanSpin(ctl, gw)
  BY DEF requestSpin, FlowOK, ControlsOK
<1>2. /\ gw.committed < Len(script) /\ gw' = Requested /\ ctl' = SpinAccepted(ctl, Requested)
      /\ UNCHANGED <<launchAt, script, told, budget>>
  BY DEF requestSpin, Requestable
<1>3. ctl \in Controllers /\ Only(ctl, ctl, {"freeTimer"})
  BY Numbers DEF Only
<1>4. QED
  BY <1>1, <1>2, <1>3, SpinTaken

\* On a hidden page the timer finds nothing to do.
LEMMA TimerOutStep ==
  ASSUME FlowOK, CanSpin(ctl, gw), ~gw.available, gw' = gw, ctl' \in Controllers,
         Only(ctl, ctl', {"freeTimer"}), ctl'.freeTimer = 0,
         UNCHANGED <<launchAt, script, told, budget>>
  PROVE  FlowOK' /\ Final
<1>1. /\ ctl'.launch = ctl.launch /\ ctl'.hasSession = ctl.hasSession /\ ctl'.phase = ctl.phase
      /\ ctl'.connection = ctl.connection /\ ctl'.reel = ctl.reel
      /\ ctl'.reelRound = ctl.reelRound /\ ctl'.controls = ctl.controls
      /\ ctl'.timedOut = ctl.timedOut /\ ctl'.destroyed = ctl.destroyed
      /\ ctl'.sessionFailed = ctl.sessionFailed /\ ctl'.opened = ctl.opened
      /\ ctl'.requests = ctl.requests /\ ctl'.buffered = ctl.buffered
      /\ ctl'.visualStart = ctl.visualStart /\ ctl'.lastRound = ctl.lastRound
      /\ ctl'.barrier = ctl.barrier /\ ctl'.balance = ctl.balance
      /\ ctl'.visible = ctl.visible /\ ctl'.free = ctl.free
      /\ ctl'.sessionTimer = ctl.sessionTimer /\ ctl'.idle = ctl.idle
      /\ ctl'.leases = ctl.leases /\ ctl'.queue = ctl.queue /\ ctl'.show = ctl.show
  BY DEF Only, Fields
<1>2. ctl' \in Controllers /\ ctl'.freeTimer = 0 /\ ~gw.available
  OBVIOUS
<1>3. UNCHANGED <<gw, launchAt, script, told, budget>>
  OBVIOUS
<1>4. ~Ended(ctl)
  BY SpinFacts
<1>5. TypeOK'
  BY <1>1, <1>2, <1>3, <1>4 DEF FlowOK, TypeOK
<1> USE DEF FlowOK, GatewayOK, LaunchOK, PhaseOK, ReelOK, RoundOK, BufferOK, MoneyOK, ControlsOK,
         HeldOK, Final, Early, Ended, Live, Presenting, NoRound, NoShow, CanSpin, ReelAt, Turning,
         FreeAfter, Only, Fields
<1>6. GatewayOK'
  BY <1>1, <1>2, <1>3, <1>4
<1>7. LaunchOK'
  BY <1>1, <1>2, <1>3, <1>4
<1>8. PhaseOK'
  BY <1>1, <1>2, <1>3, <1>4
<1>9. ReelOK'
  BY <1>1, <1>2, <1>3, <1>4
<1>10. RoundOK'
  BY <1>1, <1>2, <1>3, <1>4
<1>11. BufferOK'
  BY <1>1, <1>2, <1>3, <1>4
<1>12. MoneyOK'
  BY <1>1, <1>2, <1>3, <1>4
<1>13. ControlsOK'
  BY <1>1, <1>2, <1>3, <1>4
<1>14. HeldOK' /\ Final
  BY <1>1, <1>2, <1>3, <1>4
<1>15. QED
  BY <1>5, <1>6, <1>7, <1>8, <1>9, <1>10, <1>11, <1>12, <1>13, <1>14

LEMMA FreeSpinTimerStep ==
  ASSUME FlowOK, FreeSpinTimer
  PROVE  FlowOK' /\ Final
<1>1. ctl \in Controllers /\ CanSpin(ctl, gw) /\ ctl.freeTimer = ctl.free /\ ctl.freeTimer # 0
  BY Numbers DEF FreeSpinTimer, FlowOK, ControlsOK
<1>2. PICK c : c = [ctl EXCEPT !.freeTimer = 0]
  OBVIOUS
<1>3. c \in Controllers /\ Only(ctl, c, {"freeTimer"}) /\ c.freeTimer = 0
  <2>1. c \in Controllers
    BY <1>1, <1>2, Put, Bounds
  <2>2. Only(ctl, c, {"freeTimer"}) /\ c.freeTimer = 0
    BY <1>1, <1>2, Shape DEF Only, Fields
  <2>3. QED
    BY <2>1, <2>2
<1>4. UNCHANGED <<launchAt, script, told, budget>>
  BY DEF FreeSpinTimer
<1>5. /\ gw.committed \in Nat /\ gw.committed < Len(script)
  <2>1. FreeAfter(gw.committed) # 0 /\ gw.committed \in Nat /\ gw.committed <= Len(script)
    BY <1>1, SpinFacts, Numbers DEF FlowOK, GatewayOK
  <2>2. script[Len(script)].free = 0 /\ Len(script) \in Nat
    BY Numbers, ScriptFacts
  <2>3. gw.committed # Len(script)
    BY <2>1, <2>2 DEF FreeAfter
  <2>4. QED
    BY <2>1, <2>2, <2>3
<1>6. CASE gw.available
  <2>1. /\ ctl.free = ctl.freeTimer /\ ctl.connection = "online"
        /\ ctl.phase = "ready" /\ gw.pending = NoRound /\ ~ctl.destroyed
    BY <1>1, SpinFacts DEF CanSpin, NoRound
  <2>2. Requestable(ctl)
    BY <1>1, <1>5, <1>6, SpinFacts DEF Requestable, NoRound
  <2>3. gw' = Requested /\ ctl' = SpinAccepted(c, Requested)
    BY <1>2, <2>1, <2>2 DEF FreeSpinTimer
  <2>4. QED
    BY <1>1, <1>3, <1>4, <1>5, <2>3, SpinTaken
<1>7. CASE ~gw.available
  <2>1. gw' = gw /\ ctl' = c
    BY <1>2, <1>7 DEF FreeSpinTimer, Requestable
  <2>2. ctl' \in Controllers /\ Only(ctl, ctl', {"freeTimer"}) /\ ctl'.freeTimer = 0
    BY <1>3, <2>1
  <2>3. QED
    BY <1>1, <1>4, <1>7, <2>1, <2>2, TimerOutStep
<1>8. QED
  BY <1>6, <1>7

-----------------------------------------------------------------------------
(* Every step, and what follows *)

LEMMA StartsRight == Init => FlowOK
<1> SUFFICES ASSUME Init PROVE FlowOK
  OBVIOUS
<1>1. PICK s \in Scenarios :
        /\ script = s.script
        /\ budget = [toggles |-> s.toggles, faults |-> s.faults, preview |-> s.preview]
  BY DEF Init
<1>2. PICK available \in BOOLEAN, pending \in {0, 1}, committed \in {0, 1} :
        /\ committed = 1 => pending = 1
        /\ gw = [conn |-> IF available THEN "connecting" ELSE "parked",
                 available |-> available, told |-> ~available, pending |-> pending,
                 delivered |-> FALSE, asked |-> FALSE, known |-> 0,
                 committed |-> committed]
        /\ ctl = [Created EXCEPT !.connection = IF available THEN "connecting" ELSE "recovering",
                                 !.phase = IF available THEN "connecting" ELSE "recovering"]
  BY DEF Init
<1>3. /\ launchAt = "preload"
      /\ told = [disclosed |-> 0, over |-> {}, rejected |-> {}, hidden |-> FALSE]
  BY DEF Init
<1>4. MaxRounds \in Nat /\ MaxRounds >= 1 /\ Len(script) \in Nat /\ Len(script) >= 1
  <2>1. script \in {z.script : z \in Scenarios}
    BY <1>1
  <2>2. QED
    BY <2>1, ScriptFacts, AppAssumption
<1>5. /\ gw \in Gateways /\ gw.conn \in {"connecting", "parked"}
      /\ gw.conn = "parked" <=> ~gw.available
      /\ gw.told <=> ~gw.available
      /\ gw.pending \in {0, 1} /\ gw.committed \in {0, 1}
      /\ gw.committed = 1 => gw.pending = 1
      /\ ~gw.delivered /\ ~gw.asked /\ gw.known = 0
  <2>1. PICK conn \in {"connecting", "parked"} : conn = IF available THEN "connecting" ELSE "parked"
    OBVIOUS
  <2>2. PICK up \in BOOLEAN : up <=> ~available
    OBVIOUS
  <2>3. gw = [conn |-> conn, available |-> available, told |-> up, pending |-> pending,
              delivered |-> FALSE, asked |-> FALSE, known |-> 0, committed |-> committed]
    BY <1>2, <2>1, <2>2
  <2>4. pending \in 0 .. MaxRounds /\ committed \in 0 .. MaxRounds /\ 0 \in 0 .. MaxRounds
    BY <1>4
  <2>5. gw \in Gateways
    BY <2>3, <2>4 DEF Gateways
  <2>6. QED
    BY <1>2, <2>1, <2>2, <2>3, <2>5
<1>6. NoShow \in [round : 0 .. MaxRounds, at : Stages] /\ <<>> \in Seq(Rounds) /\ 0 \in 0 .. MaxRounds
  BY <1>4 DEF NoShow, NoRound, Stages
<1>7. ctl \in Controllers
  <2>1. Created \in Controllers
    BY <1>6 DEF Controllers, Created, NoRound, Phases, LaunchPhases, ReelStates
  <2>2. PICK status \in {"connecting", "recovering"} :
          status = IF available THEN "connecting" ELSE "recovering"
    OBVIOUS
  <2>3. ctl = [Created EXCEPT !.connection = status, !.phase = status]
    BY <1>2, <2>2
  <2>4. status \in Phases
    BY DEF Phases
  <2>5. QED
    BY <2>1, <2>3, <2>4 DEF Controllers
<1>8. /\ ctl.phase \in {"connecting", "recovering"} /\ ctl.connection \in {"connecting", "recovering"}
      /\ ~gw.available => ctl.phase = "recovering"
      /\ ctl.launch = "preloading" /\ ctl.hasSession = FALSE /\ ctl.reel = "Idle"
      /\ ~ctl.timedOut /\ ~ctl.destroyed /\ ~ctl.sessionFailed /\ ctl.opened = FALSE
      /\ ctl.requests = 0 /\ ctl.buffered = 0 /\ ctl.lastRound = 0 /\ ~ctl.barrier
      /\ ctl.balance = 0 /\ ctl.visible = 0 /\ ctl.free = 0 /\ ~ctl.controls
      /\ ctl.freeTimer = 0 /\ ctl.idle = "none" /\ ctl.leases = {}
      /\ ctl.queue = <<>> /\ ctl.show = NoShow
  BY <1>2 DEF Created, NoRound
<1>9. told \in [disclosed : 0 .. MaxRounds, over : SUBSET Rounds,
                rejected : SUBSET Rounds, hidden : BOOLEAN]
  BY <1>3, <1>6
<1>10. budget \in [toggles : Nat, faults : Nat, preview : BOOLEAN]
  BY <1>1, AppAssumption DEF Scenario
<1>11. TypeOK
  BY <1>1, <1>3, <1>5, <1>7, <1>9, <1>10 DEF TypeOK
<1> USE DEF Early, Ended, Live, Presenting, NoRound, NoShow, CanSpin, FreeAfter
<1>12. ~Live /\ ~Presenting /\ ~Ended(ctl) /\ ctl.show.at = "none"
  BY <1>5, <1>8
<1>13. GatewayOK
  BY <1>4, <1>5, <1>8 DEF GatewayOK
<1>14. LaunchOK
  BY <1>3, <1>8 DEF LaunchOK
<1>15. PhaseOK
  BY <1>8, <1>12 DEF PhaseOK
<1>16. ReelOK
  BY <1>8, <1>12 DEF ReelOK, Turning
<1>17. RoundOK /\ BufferOK /\ MoneyOK /\ ControlsOK /\ HeldOK
  BY <1>3, <1>4, <1>5, <1>8 DEF RoundOK, BufferOK, MoneyOK, ControlsOK, HeldOK
<1>18. QED
  BY <1>11, <1>13, <1>14, <1>15, <1>16, <1>17 DEF FlowOK

LEMMA StutterKeeps ==
  ASSUME FlowOK, UNCHANGED vars
  PROVE  FlowOK'
BY DEF vars, FlowOK, TypeOK, GatewayOK, LaunchOK, PhaseOK, ReelOK, RoundOK, BufferOK, MoneyOK,
       ControlsOK, HeldOK, Early, Ended, Live, Presenting, CanSpin, ReelAt, FreeAfter

LEMMA StepKeeps ==
  ASSUME FlowOK, Next
  PROVE  FlowOK' /\ Final
<1>1. CASE LaunchTask
  BY <1>1, PreloadedStep, PaintedStep, AwaitedStep, IntroStep DEF LaunchTask
<1>2. CASE PreloadFails
  BY <1>2, PreloadFailsStep
<1>3. CASE continueFeaturePreview
  BY <1>3, PreviewStep
<1>4. CASE InitialSessionTimeout
  BY <1>4, InitialSessionTimeoutStep
<1>5. CASE Connect
  BY <1>5, ConnectStep
<1>6. CASE ConnectFails
  BY <1>6, ConnectFailsStep
<1>7. CASE Suspend
  BY <1>7, SuspendStep
<1>8. CASE Resume
  BY <1>8, ResumeStep
<1>9. CASE RefreshToken
  BY <1>9, RefreshTokenStep
<1>10. CASE Commit
  BY <1>10, CommitStep
<1>11. CASE Deliver
  BY <1>11, DeliverStep
<1>12. CASE RejectRound
  BY <1>12, RejectRoundStep
<1>13. CASE Acknowledged
  BY <1>13, AcknowledgedStep
<1>14. CASE OperatorRelaunch
  BY <1>14, OperatorRelaunchStep
<1>15. CASE SessionTimeout
  BY <1>15, SessionTimeoutStep
<1>16. CASE showSessionTimeout
  BY <1>16, NoticeStep
<1>17. CASE destroy
  BY <1>17, DestroyStep
<1>18. CASE requestSpin
  BY <1>18, requestSpinStep
<1>19. CASE FreeSpinTimer
  BY <1>19, FreeSpinTimerStep
<1>20. CASE PostWinIdleTimer
  BY <1>20, IdleStep
<1>21. CASE Present
  <2>1. CASE PresentationQueue \/ BeforeReels \/ FirstReelStops \/ AllReelsStopped
    BY <2>1, QueueStep, BeforeReelsStep, FirstReelStep, AllReelsStep
  <2>2. CASE WinPresentationStarts \/ BigWinOver \/ WinsOver \/ FeaturesOver
    BY <2>2, WinStartStep, BigWinStep, WinsOverStep, FeaturesStep
  <2>3. CASE BalanceBarrier \/ FeatureModeLeft
    BY <2>3, BalanceBarrierStep, FeatureModeLeftStep
  <2>4. QED
    BY <1>21, <2>1, <2>2, <2>3 DEF Present
<1>22. CASE AnnouncedRegardless
  BY <1>22, AnnouncedStep
<1>23. CASE PresentationFails
  BY <1>23, PresentationFailsStep
<1>24. QED
  BY <1>1, <1>2, <1>3, <1>4, <1>5, <1>6, <1>7, <1>8, <1>9, <1>10, <1>11, <1>12, <1>13, <1>14,
     <1>15, <1>16, <1>17, <1>18, <1>19, <1>20, <1>21, <1>22, <1>23 DEF Next

\* The controller, its gateway and the round on screen keep in step, whatever
\* callbacks interrupt the task that presents the round: the inductive
\* invariant of AppController and RgsGateway.
THEOREM KeepsInStep == Spec => []FlowOK
<1>1. Init => FlowOK
  BY StartsRight
<1>2. FlowOK /\ [Next]_vars => FlowOK'
  BY StepKeeps, StutterKeeps
<1>3. QED
  BY <1>1, <1>2, PTL DEF Spec

LEMMA RoundsAreRight ==
  ASSUME FlowOK
  PROVE  RoundsRight
<1>1. TypeOK /\ ctl \in Controllers
  BY Numbers DEF FlowOK
<1>2. NeverThrows
  <2>1. ctl.phase # "threw" /\ ctl.launch # "threw"
    BY DEF FlowOK, PhaseOK, LaunchOK
  <2>2. ctl.reel # "threw"
    BY <1>1 DEF FlowOK, ReelOK, ReelAt, Presenting
  <2>3. QED
    BY <2>1, <2>2 DEF NeverThrows
<1>3. ctl.show = NoShow <=> ctl.show.at = "none"
  BY DEF FlowOK, RoundOK, NoShow
<1>4. OneRoundOnScreen
  <2>1. ctl.queue = <<>> => Len(ctl.queue) = 0
    OBVIOUS
  <2>2. ctl.queue # <<>> => Len(ctl.queue) = 1 /\ ctl.show.at = "none"
    <3>1. Len(<<ctl.lastRound>>) = 1
      OBVIOUS
    <3>2. QED
      BY <3>1 DEF FlowOK, RoundOK
  <2>3. Len(ctl.queue) + (IF ctl.show = NoShow THEN 0 ELSE 1) <= 1
    <3>1. CASE ctl.queue = <<>>
      BY <2>1, <3>1
    <3>2. CASE ctl.queue # <<>>
      <4>1. Len(ctl.queue) = 1 /\ ctl.show = NoShow
        BY <1>3, <2>2, <3>2
      <4>2. QED
        BY <4>1
    <3>3. QED
      BY <3>1, <3>2
  <2>4. ctl.show.at \in Turning /\ ~Ended(ctl) =>
          ctl.reelRound = ctl.show.round /\ ctl.phase = "presenting"
    BY DEF FlowOK, ReelOK, RoundOK, PhaseOK, Presenting, Turning, Ended
  <2>5. QED
    BY <2>3, <2>4 DEF OneRoundOnScreen, Turning
<1>5. RequestingIsInFlight
  BY DEF FlowOK, PhaseOK, RequestingIsInFlight
<1>6. IdleRepeatAlone
  BY <1>3 DEF FlowOK, ReelOK, Presenting, IdleRepeatAlone
<1>7. QED
  BY <1>1, <1>2, <1>4, <1>5, <1>6 DEF RoundsRight, OneRoundAtATime

LEMMA ResultsAreHonoured ==
  ASSUME FlowOK
  PROVE  ResultsHonoured
<1>1. NothingStranded
  <2> SUFFICES ASSUME gw.delivered, ~gw.asked, ~Ended(ctl), gw.conn = "connected"
               PROVE  \/ gw.pending \in {ctl.buffered, ctl.show.round} \union told.rejected
                      \/ \E i \in DOMAIN ctl.queue : ctl.queue[i] = gw.pending
    BY DEF NothingStranded
  <2>1. ctl.buffered = gw.pending \/ Presenting \/ gw.pending \in told.rejected
    BY DEF FlowOK, RoundOK, Live
  <2>2. CASE Presenting
    <3>1. gw.pending = ctl.lastRound
      BY <2>2 DEF FlowOK, RoundOK
    <3>2. CASE ctl.queue # <<>>
      <4>1. ctl.queue = <<ctl.lastRound>>
        BY <3>2 DEF FlowOK, RoundOK
      <4>2. 1 \in DOMAIN ctl.queue /\ ctl.queue[1] = gw.pending
        BY <3>1, <4>1
      <4>3. QED
        BY <4>2
    <3>3. CASE ctl.show.at # "none"
      BY <3>1, <3>3 DEF FlowOK, RoundOK
    <3>4. QED
      BY <2>2, <3>2, <3>3 DEF Presenting
  <2>3. QED
    BY <2>1, <2>2
<1>2. BalanceWaitsForReels
  BY DEF FlowOK, MoneyOK, BalanceWaitsForReels
<1>3. AcknowledgedWhenSeen
  BY DEF FlowOK, MoneyOK, AcknowledgedWhenSeen
<1>4. QED
  BY <1>1, <1>2, <1>3 DEF ResultsHonoured

LEMMA PlayerGoesOn ==
  ASSUME FlowOK
  PROVE  PlayerCanGoOn
<1>1. ControlsNeverStale
  <2>1. ctl.controls \in BOOLEAN /\ CanSpin(ctl, gw) \in BOOLEAN
    BY Numbers DEF Controllers, CanSpin
  <2>2. QED
    BY <2>1 DEF FlowOK, ControlsOK, ControlsNeverStale
<1>2. FreeSpinArmedInView
  BY DEF FlowOK, ControlsOK, FreeSpinArmedInView, FreeSpinArmed
<1>3. OperatorAskedOnce
  BY DEF FlowOK, HeldOK, OperatorAskedOnce, Ended
<1>4. LeasesOwned
  BY DEF FlowOK, HeldOK, LeasesOwned, Presenting, NoShow
<1>5. QED
  BY <1>1, <1>2, <1>3, <1>4 DEF PlayerCanGoOn

\* Whatever callbacks interrupt the task that presents a round, the three
\* machines of AppController accept every event they are sent, and the round
\* on screen is the one the reels, the phase and the gateway stand for.
THEOREM PresentsOneRound == Spec => []RoundsRight
<1>1. FlowOK => RoundsRight
  BY RoundsAreRight
<1>2. QED
  BY <1>1, KeepsInStep, PTL

\* A delivered result is always in some hand, its win is not on the balance
\* before the barrier, and it is confirmed only when it has been seen:
\* bufferRecoveredSpinResult, applyResultAtBalanceBarrier and
\* acknowledgePresentedSpinResult.
THEOREM HonoursRounds == Spec => []ResultsHonoured
<1>1. FlowOK => ResultsHonoured
  BY ResultsAreHonoured
<1>2. QED
  BY <1>1, KeepsInStep, PTL

\* The button says what a spin would find, free spins go on by themselves in
\* view, a lost session is asked for once, and streamed packages are held only
\* while they are needed: refreshUi(), requestOperatorSession() and the leases.
THEOREM PlayerGoesOnAlways == Spec => []PlayerCanGoOn
<1>1. FlowOK => PlayerCanGoOn
  BY PlayerGoesOn
<1>2. QED
  BY <1>1, KeepsInStep, PTL

\* No callback of an older await or timer revives a controller that is
\* destroyed or timed out: the guards on destroyed and sessionTimedOut.
THEOREM EndsForGood == Spec => EndIsFinal
<1>1. FlowOK /\ Next => Final
  BY StepKeeps
<1>2. FlowOK /\ [Next]_vars =>
        [Ended(ctl) =>
           /\ Ended(ctl') /\ ~ctl'.controls
           /\ ctl'.lastRound = ctl.lastRound /\ ctl'.reel = "Idle"
           /\ gw'.pending \in {NoRound, gw.pending}
           /\ ctl.destroyed => ctl'.requests = ctl.requests]_vars
  BY <1>1 DEF Final
<1>3. QED
  BY <1>2, KeepsInStep, PTL DEF Spec, EndIsFinal
=============================================================================
