---------------------------- MODULE FeatureCycle ----------------------------
(***************************************************************************)
(* spinResultOriginGuard.ts: what the client accepts as the next feature   *)
(* state.  A result only carries the state AFTER the spin; the guard binds *)
(* it to the state the request was sent from.  Here the results offered    *)
(* are the sound ones of the server and each of them with one field wrong; *)
(* the guard decides, and the accepted ones move the feature cycle on.     *)
(***************************************************************************)
EXTENDS Integers

CONSTANTS
  FirstSpins,          \* free spins of a started feature (8)
  Cap,            \* the whole-game win cap, in units of the smallest win
  Totals,           \* the totals a spin may win
  MaxAwarded,     \* bound: free spins of one cycle
  MaxLevel, MaxCollected   \* bounds: the rage meter

VARIABLE s

Features == {"EXPANSION", "OVERDRIVE"}
Modes == {"BASE"} \cup Features
NoWheel == "none"
NotStarted == [mode |-> "none", awarded |-> 0]
NotCompleted == [mode |-> "none", awarded |-> 0, win |-> 0]
NoCollection == [count |-> 0, total |-> 0, level |-> 1, triggered |-> FALSE, guaranteed |-> FALSE]

(* Of the state, mode to collected are the accepted featureState; awarded, *)
(* paid and told record the accepted events of the cycle.                  *)
TypeOK ==
  /\ s.mode \in Modes /\ s.bet \in {"locked", "other"}
  /\ {s.remaining, s.played, s.win, s.collected, s.awarded, s.paid} \subseteq 0..(MaxAwarded + Cap + MaxCollected)
  /\ s.level \in 1..MaxLevel /\ s.told \in BOOLEAN
Init == s = [mode |-> "BASE", remaining |-> 0, played |-> 0, win |-> 0, bet |-> "locked",
             level |-> 1, collected |-> 0, awarded |-> 0, paid |-> 0, told |-> FALSE]

FeatureState(mode, remaining, played, win, level, collected) ==
  [mode |-> mode, remaining |-> remaining, played |-> played, win |-> win, bet |-> "locked",
   level |-> level, collected |-> collected]

-----------------------------------------------------------------------------
(* The guard: o is the state the spin was requested from, r the result.    *)

MultiplierOfTier(tier) == IF tier = "MINI" THEN 1 ELSE 2
validateInstantWheelAward(r) ==
  /\ r.multiplier = MultiplierOfTier(r.prize)
  /\ r.amount <= r.multiplier
  /\ ~r.cap => r.amount = r.multiplier

validateFeatureWheelAward(r) ==
  /\ r.multiplier = 0 /\ r.amount = 0
  /\ r.prize \in {"none", IF r.wheel = "EXPANSION" THEN "KONG_QUEST" ELSE "KING_SPIN"}

CycleWin(o, r) == (IF o.mode = "BASE" THEN 0 ELSE o.win) + r.total
validateWinCapAgainstOrigin(o, r) ==
  /\ CycleWin(o, r) <= Cap
  /\ IF r.cap THEN r.nominal /\ CycleWin(o, r) = Cap
     ELSE ~(CycleWin(o, r) = Cap /\ (r.total > 0 \/ r.clipped))

Rows(o, r) ==
  IF o.mode = "EXPANSION" THEN r.rows \in 3..8 /\ r.expanded = r.rows
  ELSE r.rows = 3 /\ r.expanded = 0

Meter(t) == <<t.level, t.collected>>
Credited(o, r) == IF r.surge = 3 THEN o.collected ELSE o.collected + r.surge
Collects(o, r) ==
  LET c == r.collection
      resets == c.triggered /\ ~c.guaranteed IN
  /\ c.count = r.surge
  /\ c.guaranteed <=> r.surge = 3
  /\ r.surge = 3 => c.triggered /\ c.level = o.level
  /\ c.total = IF resets THEN 0 ELSE Credited(o, r)
  /\ resets => c.level = 1
  /\ c.level >= 1
NoRage(r) == r.collection = NoCollection /\ r.transformed = 0
NoTransition(r) == r.wheel = NoWheel /\ ~r.wheelStarted /\ r.started = NotStarted

validateRageEventsAgainstOrigin(o, r) ==
  \/ o.mode # "BASE" /\ r.surge = 0 /\ NoRage(r) /\ NoTransition(r)
  \/ /\ o.mode = "BASE" /\ r.surge = 0
     /\ NoRage(r) /\ NoTransition(r) /\ Meter(r.next) = Meter(o)
  \/ /\ o.mode = "BASE" /\ r.surge \in 1..3 /\ Collects(o, r)
     /\ \/ /\ ~r.collection.triggered
           /\ NoTransition(r) /\ r.transformed = 0
           /\ Meter(r.next) = <<r.collection.level, Credited(o, r)>>
        \/ /\ r.collection.triggered
           /\ r.wheel # NoWheel /\ r.wheelStarted
           /\ r.transformed = 3 - r.surge
           /\ Meter(r.next) = IF r.surge = 3 THEN Meter(o) ELSE <<1, 0>>

FromBase(o, r) ==
  /\ r.completed = NotCompleted /\ r.awards = 0
  /\ r.wheelStarted <=> r.wheel # NoWheel
  /\ \/ r.wheel = NoWheel /\ r.started = NotStarted /\ r.next.mode = "BASE"
     \/ /\ r.wheel = "INSTANT" /\ r.started = NotStarted
        /\ validateInstantWheelAward(r)
        /\ r.next.mode = "BASE" /\ r.next.remaining = 0 /\ r.next.played = 0
     \/ /\ r.wheel \in Features /\ validateFeatureWheelAward(r)
        /\ r.started = [mode |-> r.wheel, awarded |-> FirstSpins]
        /\ r.next.mode = r.wheel /\ r.next.remaining = FirstSpins /\ r.next.played = 0
        /\ r.next.bet = r.bet /\ r.next.win = r.total

FromFeature(o, r) ==
  LET remaining == o.remaining - 1 + r.awards
      awarded == o.remaining + o.played + r.awards IN
  /\ r.started = NotStarted /\ Meter(r.next) = Meter(o)
  /\ r.charged = "none" /\ r.bet = o.bet
  /\ o.mode # "EXPANSION" => r.awards = 0
  /\ \/ /\ remaining > 0 /\ r.completed = NotCompleted
        /\ r.next.mode = o.mode /\ r.next.remaining = remaining
        /\ r.next.played = o.played + 1
        /\ r.next.bet = o.bet /\ r.next.win = o.win + r.total
     \/ /\ remaining = 0 /\ r.next.mode = "BASE"
        /\ r.completed = [mode |-> o.mode, awarded |-> awarded, win |-> o.win + r.total]

validateSpinResultAgainstOrigin(o, r) ==
  /\ o.mode = "BASE" => r.charged = r.bet
  /\ validateWinCapAgainstOrigin(o, r)
  /\ Rows(o, r)
  /\ validateRageEventsAgainstOrigin(o, r)
  /\ IF o.mode = "BASE" THEN FromBase(o, r) ELSE FromFeature(o, r)

-----------------------------------------------------------------------------
(* The results the server may send for a spin from o.                      *)

Plain(o, win) ==
  [charged |-> IF o.mode = "BASE" THEN "locked" ELSE "none", bet |-> "locked",
   total |-> win, cap |-> CycleWin(o, [total |-> win]) = Cap /\ win > 0, clipped |-> FALSE,
   nominal |-> win > 0,
   rows |-> IF o.mode = "EXPANSION" THEN 4 ELSE 3,
   expanded |-> IF o.mode = "EXPANSION" THEN 4 ELSE 0,
   surge |-> 0, collection |-> NoCollection, transformed |-> 0,
   wheel |-> NoWheel, wheelStarted |-> FALSE, prize |-> "none", multiplier |-> 0, amount |-> 0,
   started |-> NotStarted, completed |-> NotCompleted, awards |-> 0,
   next |-> FeatureState("BASE", 0, 0, 0, o.level, o.collected)]

Collected(o, win, n, level) ==
  [Plain(o, win) EXCEPT !.surge = n, !.next.collected = o.collected + n, !.next.level = level,
     !.collection = [count |-> n, total |-> o.collected + n, level |-> level,
                     triggered |-> FALSE, guaranteed |-> FALSE]]
Triggered(o, win, n, wheel) ==
  LET meter == IF n = 3 THEN Meter(o) ELSE <<1, 0>> IN
  [Plain(o, win) EXCEPT
     !.surge = n, !.transformed = 3 - n, !.wheelStarted = TRUE, !.wheel = wheel,
     !.collection = [count |-> n, total |-> meter[2], level |-> meter[1],
                     triggered |-> TRUE, guaranteed |-> n = 3],
     !.prize = CASE wheel = "INSTANT" -> "MINI" [] wheel = "EXPANSION" -> "KONG_QUEST"
                 [] OTHER -> "KING_SPIN",
     !.multiplier = IF wheel = "INSTANT" THEN 1 ELSE 0,
     !.amount = IF wheel = "INSTANT" THEN win ELSE 0, !.nominal = @ \/ wheel = "INSTANT",
     !.started = IF wheel = "INSTANT" THEN @ ELSE [mode |-> wheel, awarded |-> FirstSpins],
     !.next = IF wheel = "INSTANT" THEN FeatureState("BASE", 0, 0, 0, meter[1], meter[2])
              ELSE FeatureState(wheel, FirstSpins, 0, win, meter[1], meter[2])]
Free(o, win, k) ==
  LET remaining == o.remaining - 1 + k IN
  [Plain(o, win) EXCEPT
     !.awards = k,
     !.completed = IF remaining > 0 THEN @
                   ELSE [mode |-> o.mode, awarded |-> o.awarded + k, win |-> o.paid + win],
     !.next = IF remaining > 0
              THEN FeatureState(o.mode, remaining, o.played + 1, o.paid + win, o.level, o.collected)
              ELSE @]

Sound(o) ==
  IF o.mode = "BASE"
  THEN {Plain(o, win) : win \in Totals}
       \cup {Collected(o, win, n, level) : win \in Totals, n \in {k \in 1..2 : o.collected + k <= MaxCollected},
                                           level \in o.level..MaxLevel}
       \cup {Triggered(o, win, n, wheel) : win \in Totals, n \in 1..3, wheel \in Features}
       \cup {Triggered(o, 1, n, "INSTANT") : n \in 1..3}
  ELSE {Free(o, win, k) : win \in {w \in Totals : o.paid + w <= Cap},
                          k \in {j \in 0..1 : j = 0 \/ (o.mode = "EXPANSION" /\ o.awarded < MaxAwarded)}}

(* One field of a sound result wrong: one more, one less, dropped, swapped. *)
Near(n) == {n - 1, n + 1} \cap (0..(MaxAwarded + Cap))
Other(set, x) == set \ {x}
OneWrong(r) ==
  {[r EXCEPT !.charged = x] : x \in Other({"locked", "other", "none"}, r.charged)}
  \cup {[r EXCEPT !.bet = "other"], [r EXCEPT !.bet = "other", !.charged = IF @ = "none" THEN @ ELSE "other"],
        [r EXCEPT !.cap = ~@], [r EXCEPT !.clipped = ~@], [r EXCEPT !.wheelStarted = ~@],
        [r EXCEPT !.collection.triggered = ~@], [r EXCEPT !.collection.guaranteed = ~@],
        [r EXCEPT !.collection = NoCollection], [r EXCEPT !.completed = NotCompleted],
        [r EXCEPT !.started = NotStarted], [r EXCEPT !.next.bet = "other"]}
  \cup {[r EXCEPT !.total = n] : n \in Near(r.total)}
  \cup {[r EXCEPT !.rows = n] : n \in {3, 4, 9} \ {r.rows}}
  \cup {[r EXCEPT !.surge = n] : n \in Near(r.surge)}
  \cup {[r EXCEPT !.collection.total = n] : n \in Near(r.collection.total)}
  \cup {[r EXCEPT !.transformed = n] : n \in Near(r.transformed)}
  \cup {[r EXCEPT !.awards = n] : n \in Near(r.awards)}
  \cup {[r EXCEPT !.amount = n] : n \in Near(r.amount)}
  \cup {[r EXCEPT !.wheel = x] : x \in Other({NoWheel, "INSTANT"} \cup Features, r.wheel)}
  \cup {[r EXCEPT !.started.mode = x] : x \in Other(Features, r.started.mode)}
  \cup {[r EXCEPT !.started.awarded = n] : n \in Near(r.started.awarded)}
  \cup {[r EXCEPT !.completed.awarded = n] : n \in Near(r.completed.awarded)}
  \cup {[r EXCEPT !.completed.win = n] : n \in Near(r.completed.win)}
  \cup {[r EXCEPT !.next.mode = x] : x \in Other(Modes, r.next.mode)}
  \cup {[r EXCEPT !.next.remaining = n] : n \in Near(r.next.remaining)}
  \cup {[r EXCEPT !.next.played = n] : n \in Near(r.next.played)}
  \cup {[r EXCEPT !.next.win = n] : n \in Near(r.next.win)}
  \cup {[r EXCEPT !.next.level = n] : n \in 1..MaxLevel}
  \cup {[r EXCEPT !.next.collected = n] : n \in 0..MaxCollected}

(* The decoder has judged the result by itself: who has an expanded grid   *)
(* it tells from the events and the next state alone.                      *)
validateResultReelProjection(r) ==
  LET isExpansionSpin == \/ r.completed.mode = "EXPANSION"
                         \/ r.next.mode = "EXPANSION" /\ r.started.mode # "EXPANSION" IN
  /\ r.rows \in 3..8 /\ (isExpansionSpin <=> r.expanded > 0)
  /\ ~isExpansionSpin => r.rows = 3
(* A base state carries no feature: the server's fields of one are absent. *)
BaseIsBare(t) == t.mode = "BASE" => t.remaining = 0 /\ t.played = 0 /\ t.win = 0 /\ t.bet = "locked"

(* What the accepted result makes of the cycle.                            *)
Book(r) ==
  LET opens == s.mode = "BASE"
      told == r.cap \/ (~opens /\ s.told) IN
  s' = [mode |-> r.next.mode, remaining |-> r.next.remaining, played |-> r.next.played,
        win |-> r.next.win, bet |-> r.next.bet, level |-> r.next.level, collected |-> r.next.collected,
        awarded |-> IF r.next.mode = "BASE" THEN 0
                    ELSE (IF opens THEN r.started.awarded ELSE s.awarded) + r.awards,
        paid |-> IF r.next.mode = "BASE" THEN 0 ELSE (IF opens THEN 0 ELSE s.paid) + r.total,
        told |-> r.next.mode # "BASE" /\ told]

AcceptFrom(from) ==
  /\ s.mode \in from
  /\ \E sound \in Sound(s) : \E r \in {sound} \cup OneWrong(sound) :
       /\ BaseIsBare(r.next) /\ validateResultReelProjection(r)
       /\ validateSpinResultAgainstOrigin(s, r)
       /\ Book(r)
AcceptBaseSpin == AcceptFrom({"BASE"})
AcceptFreeSpin == AcceptFrom(Features)

Next == AcceptBaseSpin \/ AcceptFreeSpin
Spec == Init /\ [][Next]_s

-----------------------------------------------------------------------------
(* The books of the running feature: the spins told and the spins left and *)
(* played are the same, so are the win shown and the totals paid; the cap  *)
(* is never passed, and said exactly when it is reached.                   *)
Conserved ==
  s.mode # "BASE" =>
    /\ s.played + s.remaining = s.awarded /\ s.remaining > 0
    /\ s.win = s.paid /\ s.paid <= Cap
    /\ s.told <=> s.paid = Cap /\ s.bet = "locked"

(* The guard is not too strict: every sound result passes it.              *)
SoundAccepted ==
  \A r \in Sound(s) : validateResultReelProjection(r) /\ validateSpinResultAgainstOrigin(s, r)

(* A feature is left only when its last spin is played, and entered only   *)
(* with all its spins; in it the rage meter stands still.                  *)
CycleWhole ==
  /\ s.mode # "BASE" /\ s'.mode # s.mode => s'.mode = "BASE" /\ s.remaining = 1
  /\ s.mode = "BASE" /\ s'.mode # "BASE" => s'.played = 0 /\ s'.remaining = FirstSpins
  /\ s.mode # "BASE" => Meter(s') = Meter(s)

(* In the base game the meter only grows, save that a trigger of one or    *)
(* two symbols, and nothing else, empties it.                              *)
MeterKept ==
  s'.collected < s.collected => s'.collected = 0 /\ s'.level = 1
=============================================================================
