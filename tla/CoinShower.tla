----------------------------- MODULE CoinShower -----------------------------
(***************************************************************************)
(* The coins of a big win (web/src/renderer/BigWinCoinShower.ts): pools    *)
(* built a slice per frame and shown only when complete, an emission that  *)
(* follows the tier, and a fuse that takes coins away when frames run slow *)
(* and gives them back one step at a time.                                 *)
(* Coins are emitted on ticks of the shower's own clock; a frame holds a   *)
(* few of them.  Density is counted in quarters of a coin.                 *)
(***************************************************************************)
EXTENDS Integers, Sequences, FiniteSets
CONSTANTS Pools, Capacity, Lifetime,   \* pools, coins of one, ticks a coin lives
          Budgets,                     \* per fuse level: coins allowed, quarters of density
          Window, SlowToDegrade, HealthyToRecover,
          Batch, BurstTicks,           \* sprites built per frame, ticks of a burst
          Tiers,                       \* tiers the big win tells
          MaxFrames, MaxLoads          \* bounds: frames, load attempts
VARIABLE s

Seqs == INSTANCE SequencesExt
Levels == Len(Budgets)
Least(a, b) == IF a < b THEN a ELSE b
FreshFuse == [level |-> 1, slow |-> <<>>, healthy |-> 0]

(***************************************************************************)
(* pools: per pool, the ticks its flying coins have left, the newest first *)
(* (<<>> when no artwork is shown); load: the attempt under way and the    *)
(* sprites it has built; owed: the fraction of a coin to be emitted;       *)
(* evidence: slow frames since the fuse was last fresh (ghost).            *)
(***************************************************************************)
NoLoad == [on |-> FALSE, built |-> 0]
Init ==
  \E low \in BOOLEAN :
    s = [pools |-> <<>>, load |-> NoLoad, kept |-> FALSE, low |-> low, reduced |-> FALSE,
         emitting |-> FALSE, tier |-> 1, owed |-> 0, next |-> 1, fuse |-> FreshFuse,
         evidence |-> 0, frames |-> 0, loads |-> 0, dead |-> FALSE]

-----------------------------------------------------------------------------
Bits(seq) == Cardinality({i \in DOMAIN seq : seq[i]})

\* The window holds the last frames; a change of level empties it, so that
\* the same slow frames are never held against the shower twice.
advanceBigWinCoinFrameFuse(fuse, kind) ==
  LET all == Append(fuse.slow, kind = "slow")
      slow == IF Len(all) > Window THEN Tail(all) ELSE all
      healthy == IF kind = "healthy" THEN fuse.healthy + 1 ELSE 0
  IN  IF Bits(slow) >= SlowToDegrade /\ fuse.level < Levels
      THEN [FreshFuse EXCEPT !.level = fuse.level + 1]
      ELSE IF healthy >= HealthyToRecover /\ fuse.level > 1
      THEN [FreshFuse EXCEPT !.level = fuse.level - 1]
      ELSE [level |-> fuse.level, slow |-> slow, healthy |-> IF fuse.level = 1 THEN 0 ELSE healthy]

\* A weak device or reduced motion sets a floor under the fuse's level.
resolveBigWinCoinParticleBudget(x) ==
  LET floor == IF x.low THEN Levels ELSE IF x.reduced THEN Least(2, Levels) ELSE 1
  IN  Budgets[IF floor > x.fuse.level THEN floor ELSE x.fuse.level]
Allowed(x) == resolveBigWinCoinParticleBudget(x).coins
Flying(x) == Seqs!FoldLeft(LAMBDA n, p : n + Len(p), 0, x.pools)

Trimmed(p, limit) == SubSeq(p, 1, Least(limit, Len(p)))
enforceActiveParticleLimit(x) ==
  LET per == Allowed(x) \div Pools
      rest == Allowed(x) % Pools
  IN  [x EXCEPT !.pools = [i \in DOMAIN @ |-> Trimmed(@[i], per + (IF i <= rest THEN 1 ELSE 0))]]
resetFrameFuse(x) == [x EXCEPT !.fuse = FreshFuse, !.evidence = 0]

\* One coin into the pool whose turn it is; a full pool emits nothing.
emit(x) ==
  LET i == x.next
      y == [x EXCEPT !.next = (i % Pools) + 1]
  IN  IF x.pools = <<>> \/ Len(x.pools[i]) = Capacity THEN y
      ELSE [y EXCEPT !.pools[i] = <<Lifetime>> \o @]
EmitUpTo(x, n, limit) ==
  Seqs!FoldLeft(LAMBDA y, i : IF Flying(y) >= limit THEN y ELSE emit(y), x, [i \in 1..n |-> i])

\* The fraction is carried on even when the limit cuts the emission short.
emitTick(x) ==
  LET budget == resolveBigWinCoinParticleBudget(x)
      owed == x.owed + x.tier * budget.quarters
  IN  EmitUpTo([x EXCEPT !.owed = owed % 4], owed \div 4, budget.coins)

tick(x) ==
  [x EXCEPT !.pools = [i \in DOMAIN @ |-> SelectSeq([j \in DOMAIN @[i] |-> @[i][j] - 1], LAMBDA t : t > 0)]]
Ticks(x, n) ==
  Seqs!FoldLeft(LAMBDA y, i : tick(IF y.emitting THEN emitTick(y) ELSE y), x, [i \in 1..n |-> i])

KillAll(x) ==
  resetFrameFuse([x EXCEPT !.pools = [i \in DOMAIN @ |-> <<>>], !.emitting = FALSE, !.owed = 0, !.next = 1])

-----------------------------------------------------------------------------
\* The pools are built beside the view and shown together; an attempt that
\* is cancelled or fails throws its own away.
load ==
  /\ ~s.dead /\ s.pools = <<>> /\ ~s.load.on /\ ~s.kept /\ s.loads < MaxLoads
  /\ s' = [s EXCEPT !.load = [on |-> TRUE, built |-> 0], !.loads = @ + 1, !.kept = TRUE]

Slice ==
  /\ s.load.on /\ ~s.dead
  /\ LET built == s.load.built + Least(Batch, Pools * Capacity - s.load.built)
     IN  s' = IF built < Pools * Capacity THEN [s EXCEPT !.load.built = built]
              ELSE [s EXCEPT !.load = NoLoad, !.pools = [i \in 1..Pools |-> <<>>]]
\* The pools of an attempt that was cancelled or failed are destroyed.
LoadFails == s.load.on /\ s' = [s EXCEPT !.load = NoLoad, !.kept = FALSE]

start(x, t) == [resetFrameFuse(x) EXCEPT !.tier = t, !.emitting = TRUE, !.owed = 0, !.next = 1]
burst(x) == Seqs!FoldLeft(LAMBDA y, i : emitTick(y), x, [i \in 1..BurstTicks |-> i])
\* The big win tells its tier; each one begins with a burst.
setTier(t) ==
  /\ s.pools # <<>> /\ ~s.dead
  /\ ~s.emitting \/ t > s.tier
  /\ s' = burst(IF s.emitting THEN [s EXCEPT !.tier = t] ELSE start(s, t))
stop == s.emitting /\ s' = resetFrameFuse([s EXCEPT !.emitting = FALSE])

\* A frame: the fuse while coins are emitted, then the ticks it holds.
update(kind, n) ==
  /\ s.pools # <<>> /\ ~s.dead /\ s.frames < MaxFrames
  /\ n > 1 => kind = "slow"
  /\ LET fuse == IF s.emitting THEN advanceBigWinCoinFrameFuse(s.fuse, kind) ELSE s.fuse
         slow == Least(s.evidence + (IF s.emitting /\ kind = "slow" THEN 1 ELSE 0), SlowToDegrade)
         seen == [s EXCEPT !.fuse = fuse, !.frames = @ + 1,
                           !.evidence = IF fuse.level # s.fuse.level THEN 0 ELSE slow]
     IN  s' = Ticks(IF fuse.level # s.fuse.level THEN enforceActiveParticleLimit(seen) ELSE seen, n)

killAll == s.pools # <<>> /\ s' = KillAll(s)

setReducedMotion == ~s.dead /\ s' = enforceActiveParticleLimit(resetFrameFuse([s EXCEPT !.reduced = ~@]))

\* BigWinView takes the artwork back when its own load fails after this one.
clearArtwork == ~s.dead /\ s.pools # <<>> /\ s' = [KillAll(s) EXCEPT !.pools = <<>>, !.kept = FALSE]
destroy == ~s.dead /\ s' = [KillAll(s) EXCEPT !.pools = <<>>, !.kept = FALSE, !.dead = TRUE]

Next ==
  \/ load \/ Slice \/ LoadFails \/ stop \/ killAll \/ setReducedMotion \/ clearArtwork \/ destroy
  \/ \E t \in Tiers : setTier(t)
  \/ \E kind \in {"slow", "middle", "healthy"}, n \in 0..2 : update(kind, n)

-----------------------------------------------------------------------------
TypeOK ==
  /\ Len(s.pools) \in {0, Pools} /\ \A i \in DOMAIN s.pools : s.pools[i] \in Seq(1..Lifetime)
  /\ s.fuse.level \in 1..Levels /\ Len(s.fuse.slow) <= Window /\ s.tier \in 1..4
  /\ s.load.built \in 0..(Pools * Capacity) /\ s.owed \in 0..3 /\ s.next \in 1..Pools
  /\ {s.load.on, s.kept, s.low, s.reduced, s.emitting, s.dead} \subseteq BOOLEAN

\* However the fuse, the motion setting and the tiers change while coins
\* fly, no more of them fly than the budget of the moment allows.
WithinBudget == Flying(s) <= Allowed(s)
\* Pools are shown complete or not at all, none is left beside the view, a
\* failed or withdrawn load can be tried again, and a destroyed shower
\* shows none.
WholeOrNothing ==
  /\ s.load.on => s.pools = <<>>
  /\ ~s.load.on /\ s.pools = <<>> => ~s.kept
  /\ ~s.load.on => s.load.built = 0
  /\ s.dead => s.pools = <<>>

Coins(x) == {c \in (1..Pools) \X (1..Capacity) : c[1] \in DOMAIN x.pools /\ c[2] \in DOMAIN x.pools[c[1]]}
\* The fuse moves one level at a time, downwards only on slow frames seen
\* since it last moved; and a shower that was stopped emits no coin.
FuseIsFair ==
  /\ s'.fuse.level > s.fuse.level => s'.fuse.level = s.fuse.level + 1 /\ s.evidence + 1 >= SlowToDegrade
  /\ ~s.emitting /\ ~s'.emitting => Cardinality(Coins(s')) <= Cardinality(Coins(s))
=============================================================================
