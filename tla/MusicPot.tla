------------------------------ MODULE MusicPot ------------------------------
(***************************************************************************)
(* BaseMusicPotStateMachine.ts: wins fill a pot that drains second by      *)
(* second, the faster the longer nothing is won, and the level of the base *)
(* music follows the pot; it stays for a while, drops when nobody plays,   *)
(* and is frozen while other music plays.  Amounts in tenths of a bet.     *)
(***************************************************************************)
EXTENDS Integers

CONSTANTS Bets,       \* wagers
          Wins,       \* wins, in wagers of one
          Upper, Cap, \* level 1 from Upper bets on, a pot of at most Cap bets
          Linger,     \* seconds a level stays before the pot drains
          Idle,       \* seconds without a round until the level is lowered
          MaxRounds   \* bound

VARIABLE s

(* stale: the pot, the wager or the clock changed with the level frozen,   *)
(* or the wager with no change of the pot; dropped: how the level fell.    *)
Init ==
  s = [bet |-> 0, pot |-> 0, rate |-> 1, level |-> 0, idle |-> FALSE, docked |-> FALSE, open |-> "no",
       sinceSpin |-> 0, sinceLevel |-> 0, rounds |-> 0, stale |-> FALSE, told |-> 0, cause |-> "none"]

(* Types of the state. *)
TypeOK ==
  /\ s.bet \in Bets \union {0} /\ s.pot \in Nat /\ s.rate \in {1, 2, 4} /\ {s.level, s.told} \subseteq {0, 1}
  /\ {s.idle, s.docked, s.stale} \subseteq BOOLEAN /\ s.open \in {"no", "spin", "told"}
  /\ s.sinceSpin \in 0..(Idle + 1) /\ s.sinceLevel \in 0..Linger /\ s.rounds \in 0..MaxRounds
  /\ s.cause \in {"none", "win", "idle", "drained"}

-----------------------------------------------------------------------------
Smaller(a, b) == IF a < b THEN a ELSE b
Larger(a, b) == IF a < b THEN b ELSE a

amountForLevel(r, level) == IF level = 0 THEN r.bet * 10 ELSE 0
levelForAmount(r, amount) == IF amount >= r.bet * Upper * 10 THEN 1 ELSE 0

updateLevel(r, cause) ==
  IF r.docked THEN [r EXCEPT !.stale = TRUE]
  ELSE IF levelForAmount(r, r.pot) = r.level THEN [r EXCEPT !.stale = FALSE]
  ELSE [r EXCEPT !.level = 1 - @, !.sinceLevel = 0, !.told = 1 - r.level, !.cause = cause, !.stale = FALSE]

downgradeLevel(r) ==
  updateLevel([r EXCEPT !.sinceSpin = 0, !.pot = amountForLevel(r, r.level - 1)], "idle")

updateIdle(r) ==
  LET later == [r EXCEPT !.sinceSpin = Smaller(@ + 1, Idle + 1)]
  IN  IF r.idle /\ r.pot > 0 /\ later.sinceSpin > Idle THEN downgradeLevel(later) ELSE later

updatePot(r) ==
  LET later == [r EXCEPT !.sinceLevel = Smaller(@ + 1, Linger)]
  IN  IF r.pot <= 0 \/ later.sinceLevel < Linger THEN later
      ELSE updateLevel([later EXCEPT !.pot = Larger(0, @ - r.bet * r.rate)], "drained")

-----------------------------------------------------------------------------
beginRound(bet) ==
  /\ s.open = "no" /\ s.rounds < MaxRounds
  /\ s' = [s EXCEPT !.bet = bet, !.open = "spin", !.idle = FALSE, !.rounds = @ + 1,
                    !.stale = @ \/ bet # s.bet, !.cause = "none"]

recordWin(win) ==
  /\ s.open = "spin"
  /\ s' = updateLevel([s EXCEPT !.pot = Smaller(@ + win * 10, s.bet * Cap * 10), !.rate = 1, !.open = "told", !.cause = "none"], "win")
recordNoWin == s.open = "spin" /\ s' = [s EXCEPT !.open = "told", !.rate = Smaller(4, @ * 2), !.cause = "none"]

endRound == s.open # "no" /\ s' = [s EXCEPT !.open = "no", !.idle = TRUE, !.sinceSpin = 0, !.cause = "none"]

(* A second; one gone by while other music plays is not made up for.       *)
updateOneSecond == ~s.docked /\ s' = updatePot(updateIdle([s EXCEPT !.cause = "none"]))

dock == ~s.docked /\ s' = [s EXCEPT !.docked = TRUE, !.cause = "none"]
undock == s.docked /\ s' = [s EXCEPT !.docked = FALSE, !.cause = "none"]

Next == \/ \E bet \in Bets : beginRound(bet)
        \/ \E win \in Wins : recordWin(win)
        \/ recordNoWin \/ endRound \/ updateOneSecond \/ dock \/ undock

-----------------------------------------------------------------------------
(* The level is the one of the pot, but for a change the music being       *)
(* frozen or a new wager hides until the pot changes next; its subscriber  *)
(* was told of the level.                                                  *)
LevelOfPot ==
  /\ ~s.stale /\ s.bet > 0 => s.level = levelForAmount(s, s.pot)
  /\ s.told = s.level
  /\ s.level = 1 => s.pot > 0

(* A raised level does not outlive the idle time.                          *)
CalmsDown == s.idle /\ s.level = 1 => s.sinceSpin <= Idle

(* Nobody plays: only then is the level lowered, all the way and to a pot  *)
(* that does not raise it again at once; a level that drains away has      *)
(* stayed its time; and frozen music changes nothing.                      *)
FallsInTime ==
  /\ s'.cause = "idle" => s.open = "no" /\ s'.level < s.level /\ s'.pot < s'.bet * Upper * 10
  /\ s'.cause = "drained" /\ s.cause # "drained" => s.sinceLevel >= Linger - 1
  /\ s.open = "no" /\ s'.open = "no" /\ s'.sinceSpin < s.sinceSpin => s'.level = 0
  /\ s.docked /\ s'.docked => s'.level = s.level

(* However much is won, the pot is no more than the wager allows, so it is *)
(* empty again within bounded time.                                        *)
Bounded == \E bet \in Bets : s.pot <= bet * Cap * 10
=============================================================================
