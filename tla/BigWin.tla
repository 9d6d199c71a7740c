------------------------------- MODULE BigWin -------------------------------
(***************************************************************************)
(* The big-win overlay (web/src/renderer/BigWinView.ts): a plan made of    *)
(* the win and the bet alone, a clock driven by the frames that tells its  *)
(* milestones in order however long a frame was, and the player's press    *)
(* that ends the count at once.  The sounds, the coins and the messages of *)
(* the win all follow the milestones, so what is told is kept in told.     *)
(* Times are milliseconds, amounts minor units.                            *)
(***************************************************************************)
EXTENDS Integers, Sequences, FiniteSets
CONSTANTS Bets, Wins, Frames,      \* bets, wins and lengths of a frame
          MaxPresents              \* bound: big wins of one session
VARIABLE s

Seqs == INSTANCE SequencesExt

Multiplier == <<20, 100, 250, 500>>      \* of "bigwin", "super", "mega", "ultra"
CountStart == 500
Hold == 4000
FastHold == 2000
Hide == 933

CeilDiv(n, d) == (n + d - 1) \div d

\* How many thresholds the win reaches; none is no big win.
bigWinTierFor(win, bet) == Cardinality({i \in 1..4 : win >= Multiplier[i] * bet})

CountMs(win, bet) ==
  LET uncapped == (win * 250) \div bet
  IN  CASE uncapped <= 5000 -> 5000 [] uncapped >= 30000 -> 30000 [] OTHER -> uncapped

Milestone(type, at, tier) == [type |-> type, at |-> at, tier |-> tier]

\* The thresholds are passed no later than the count ends, so that the
\* stable sort of the milestones keeps the order they are listed in.
planBigWin(win, bet) ==
  LET count == CountMs(win, bet)
      final == bigWinTierFor(win, bet)
      end == CountStart + count
  IN  [bet |-> bet, win |-> win, count |-> count, final |-> final,
       steps |-> <<Milestone("show", 0, 1), Milestone("count-start", CountStart, 1)>>
                 \o [i \in 1..(final - 1) |->
                      Milestone("level-up",
                                CountStart + CeilDiv(count * Multiplier[i + 1] * bet, win), i + 1)]
                 \o <<Milestone("count-end", end, final), Milestone("hide-start", end + Hold, final),
                      Milestone("complete", end + Hold + Hide, final)>>]

bigWinAmountAt(plan, at) ==
  IF at <= CountStart THEN 0
  ELSE IF at >= CountStart + plan.count THEN plan.win
  ELSE (plan.win * (at - CountStart)) \div plan.count

Plans == {planBigWin(p[1], p[2]) : p \in {q \in Wins \X Bets : bigWinTierFor(q[1], q[2]) > 0}}

-----------------------------------------------------------------------------
(***************************************************************************)
(* art: the skeleton; pending: the plan a present() awaits it for; active; *)
(* the clock: at, next milestone, tier, hideAt (0: the natural course);    *)
(* shown: the amount; open: the overlay takes presses; coins: the tier     *)
(* that falls, 0 none; out: how the last presentation ended.               *)
(***************************************************************************)
Idle == [on |-> FALSE]

Init ==
  s = [art |-> "none", pending |-> Idle, active |-> Idle, shown |-> 0, open |-> FALSE,
       coins |-> 0, out |-> "none", told |-> <<>>, presents |-> 0, aborted |-> FALSE,
       dead |-> FALSE]

finishActive(x, result) ==
  [x EXCEPT !.active = Idle, !.open = FALSE, !.coins = 0,
            !.out = IF x.active.on THEN result ELSE @]

Tell(x, m) == [x EXCEPT !.told = Append(@, [type |-> m.type, tier |-> m.tier, shown |-> x.shown])]

applyMilestone(x, m) ==
  CASE m.type = "show" -> Tell(x, m)
    [] m.type = "count-start" ->
         Tell([x EXCEPT !.active.counting = TRUE, !.coins = 1, !.open = x.active.hideAt = 0], m)
    [] m.type = "level-up" -> Tell([x EXCEPT !.active.tier = m.tier, !.coins = m.tier], m)
    [] m.type = "count-end" -> Tell([x EXCEPT !.active.counted = TRUE], m)
    [] m.type = "hide-start" ->
         Tell([x EXCEPT !.active.hiding = TRUE, !.open = FALSE, !.coins = 0], m)
    [] m.type = "complete" ->
         finishActive(Tell([x EXCEPT !.shown = x.active.plan.win], m), "complete")

\* Every milestone that is due, each at its own time, and then the clock.
Reached(x, m) ==
  applyMilestone([x EXCEPT !.active.at = m.at, !.active.next = @ + 1,
                           !.shown = bigWinAmountAt(x.active.plan, m.at)], m)
advanceTo(x, target) ==
  LET plan == x.active.plan
      due == SelectSeq(SubSeq(plan.steps, x.active.next, Len(plan.steps)), LAMBDA m : m.at <= target)
      told == Seqs!FoldLeft(Reached, x, due)
  IN  IF ~told.active.on THEN told
      ELSE [told EXCEPT !.active.at = target, !.shown = bigWinAmountAt(plan, target)]

\* The hide and the completion of a count the player ended.
advanceQuickViewTo(x, target) ==
  LET a == x.active
      end == a.hideAt + Hide
      hidden == IF ~a.hiding /\ a.hideAt <= target
                THEN applyMilestone([x EXCEPT !.active.at = a.hideAt, !.shown = a.plan.win],
                                    Milestone("hide-start", a.hideAt, a.plan.final))
                ELSE x
  IN  IF target < end THEN [hidden EXCEPT !.active.at = target, !.shown = a.plan.win]
      ELSE applyMilestone([hidden EXCEPT !.active.at = end], Milestone("complete", end, a.plan.final))

-----------------------------------------------------------------------------
\* AppController.presentResult waits for each presentation before the next.
present(plan) ==
  /\ ~s.dead /\ ~s.aborted /\ ~s.active.on /\ ~s.pending.on /\ s.presents < MaxPresents
  /\ s' = [finishActive(s, "cancelled") EXCEPT
             !.pending = [on |-> TRUE, plan |-> plan], !.presents = @ + 1, !.out = "none",
             !.told = <<>>, !.art = IF @ = "ready" THEN "ready" ELSE "loading"]

Loaded ==
  /\ s.pending.on
  /\ IF s.dead \/ s.aborted
     THEN s' = [s EXCEPT !.pending = Idle, !.out = "cancelled", !.art = IF @ = "ready" THEN @ ELSE "none"]
     ELSE LET plan == s.pending.plan
              begun == [s EXCEPT !.art = "ready", !.pending = Idle, !.shown = 0, !.open = FALSE,
                          !.active = [on |-> TRUE, plan |-> plan, at |-> 0, next |-> 2, tier |-> 1,
                                      counting |-> FALSE, counted |-> FALSE, hiding |-> FALSE,
                                      hideAt |-> 0]]
          IN  s' = applyMilestone(begun, plan.steps[1])

\* A failed load is forgotten, so that the next big win tries again.
loadArtwork ==
  /\ s.pending.on /\ s.art = "loading"
  /\ s' = [s EXCEPT !.pending = Idle, !.out = "failed", !.art = "none"]

update(frame) ==
  /\ s.active.on
  /\ LET a == s.active
     IN  s' = IF a.hideAt > 0 THEN advanceQuickViewTo(s, a.at + frame)
              ELSE advanceTo(s, a.at + frame)

\* The press ends the count: the last tier at once, the count's end if it
\* was not told, and two seconds on the screen from now.
commitQuickView(x) ==
  LET told == IF x.active.counted THEN x
              ELSE applyMilestone(x, Milestone("count-end", x.active.at, x.active.plan.final))
  IN  [told EXCEPT !.active.next = Len(x.active.plan.steps) + 1, !.active.hideAt = x.active.at + FastHold]
Raise(x) ==
  IF x.active.tier = x.active.plan.final THEN x
  ELSE applyMilestone(x, Milestone("level-up", x.active.at, x.active.plan.final))
requestAdvance ==
  /\ s.active.on /\ s.active.counting /\ ~s.active.hiding /\ s.active.hideAt = 0
  /\ s' = commitQuickView(Raise([s EXCEPT !.open = FALSE, !.shown = s.active.plan.win]))

\* The application goes: its lease's signal first, then the renderer.
abort == ~s.aborted /\ s.pending.on /\ s' = [s EXCEPT !.aborted = TRUE]
destroy ==
  /\ ~s.dead
  /\ s' = [finishActive(s, "cancelled") EXCEPT !.dead = TRUE, !.aborted = TRUE]

Next ==
  \/ \E p \in Plans : present(p)
  \/ Loaded \/ loadArtwork \/ requestAdvance \/ abort \/ destroy
  \/ \E f \in Frames : update(f)

-----------------------------------------------------------------------------
TypeOK ==
  /\ s.art \in {"none", "loading", "ready"} /\ s.out \in {"none", "complete", "cancelled", "failed"}
  /\ s.pending.on => s.pending.plan \in Plans
  /\ s.active.on => s.active.plan \in Plans /\ s.active.tier \in 1..4 /\ s.active.at \in Nat
  /\ s.presents \in 0..MaxPresents /\ s.shown \in Nat /\ s.coins \in 0..4
  /\ {s.open, s.dead, s.aborted} \subseteq BOOLEAN

Types == <<"show", "count-start", "level-up", "count-end", "hide-start", "complete">>
Rank(t) == CHOOSE i \in 1..6 : Types[i] = t

\* The milestones are told in their order, each but the level-up once, and
\* every one of them when the presentation completed, whether frames ran
\* long or the player ended the count; a cancelled one is never completed.
ToldInOrder ==
  /\ \A i \in 1..(Len(s.told) - 1) :
       \/ Rank(s.told[i].type) < Rank(s.told[i + 1].type)
       \/ s.told[i].type = "level-up" /\ s.told[i + 1].type = "level-up"
  /\ s.out = "complete" <=> \E i \in 1..Len(s.told) : s.told[i].type = "complete"
  /\ s.out = "complete" =>
       \A t \in {"show", "count-start", "count-end", "hide-start"} : \E i \in 1..Len(s.told) : s.told[i].type = t

Plan == s.active.plan
\* A tier is announced when the amount on the screen has earned it, tiers
\* only rise, and the count never ends below the tier of the win.
LevelsEarned ==
  s.active.on =>
    /\ \A i \in 1..Len(s.told) : s.told[i].type = "level-up" =>
         /\ s.told[i].shown >= Multiplier[s.told[i].tier] * Plan.bet
         /\ \A j \in 1..(i - 1) : s.told[j].tier < s.told[i].tier
    /\ s.active.counted => s.active.tier = Plan.final

\* The amount shown never exceeds the win and is the win once the count has
\* ended; coins fall and presses are taken between the count's start and
\* the hide, and never when nothing is presented.
ShownIsHonest ==
  /\ s.active.on => s.shown <= Plan.win /\ (s.active.counted => s.shown = Plan.win)
  /\ s.out = "complete" => s.coins = 0
  /\ s.open => s.active.on /\ s.active.counting /\ ~s.active.hiding /\ s.active.hideAt = 0
  /\ s.coins > 0 => s.active.on /\ s.active.counting /\ ~s.active.hiding
\* A load that failed never keeps a later big win from loading.
LoadsAgain == s.art = "loading" => s.pending.on

\* Within a presentation the amount only rises.
AmountRises == s.active.on /\ s'.active.on => s'.shown >= s.shown
=============================================================================
