-------------------------- MODULE ResultProjection --------------------------
(***************************************************************************)
(* decoder.ts: the money of a result, stage by stage.  A result lists wins *)
(* made of paths through the grid, then the awards of the events; when the *)
(* win cap is reached the amounts paid are what is left of the budget, in  *)
(* that order.  A result is refused at the first stage it fails.  Offered  *)
(* are sound results and results with one field wrong.                     *)
(***************************************************************************)
EXTENDS Integers, Sequences, FiniteSets

Seqs == INSTANCE SequencesExt

CONSTANTS
  Cap,       \* the cap of the whole game
  Nominals   \* what a path or an award may be worth

VARIABLE s

(* Two rows of the settled grid: the middle reel has a WILD that doubles.  *)
Cells == (0..2) \X (0..1)
Symbols == [c \in Cells |-> CASE c = <<1, 0>> -> "WILD" [] c = <<2, 1>> -> "TEN" [] OTHER -> "ACE"]
WildMultiplier == 2
MultiplierOf(path) == IF Symbols[<<1, path[2]>>] = "WILD" THEN WildMultiplier ELSE 1
PathCells(path) == {<<reel, path[reel + 1]>> : reel \in 0..2}
AcePaths == {<<0, 0, 0>>, <<1, 0, 0>>, <<0, 1, 0>>}

Stages == <<"wins", "identities", "total", "paid", "cap", "accepted">>
TypeOK == /\ s.stage \in {Stages[i] : i \in DOMAIN Stages} \cup {"refused"} /\ s.sound \in BOOLEAN
          /\ s.result.capped \in BOOLEAN /\ s.result.total \in Int

-----------------------------------------------------------------------------
Sum(seq) == Seqs!FoldLeft(LAMBDA a, b : a + b, 0, seq)
Amounts(seq) == [i \in DOMAIN seq |-> seq[i].paid]
Worths(seq) == [i \in DOMAIN seq |-> seq[i].nominal]
UnionOf(paths) == UNION {PathCells(paths[i].path) : i \in DOMAIN paths}
Distinct(seq) == Cardinality({seq[i] : i \in DOMAIN seq}) = Len(seq)

(* A win without paths is one of an old record.                            *)
PathAward(w, p) ==
  /\ \A c \in PathCells(p.path) : c \in Cells /\ Symbols[c] \in {w.symbol, "WILD"}
  /\ p.multiplier = MultiplierOf(p.path)
  /\ p.paid <= p.nominal /\ p.base <= p.nominal
  /\ p.nominal > 0 <=> p.base > 0
  /\ p.multiplier = 1 => p.base = p.nominal
win(w) ==
  /\ w.paid <= w.nominal
  /\ w.paths # <<>> =>
       /\ Distinct([i \in DOMAIN w.paths |-> w.paths[i].path])
       /\ \A i \in DOMAIN w.paths : PathAward(w, w.paths[i])
       /\ Sum(Amounts(w.paths)) = w.paid /\ Sum(Worths(w.paths)) = w.nominal
       /\ w.cells = UnionOf(w.paths)

PathsOf(w) == {w.paths[i].path : i \in DOMAIN w.paths}
validateWinIdentities(wins) ==
  /\ Distinct([i \in DOMAIN wins |-> wins[i].id])
  /\ \A i, j \in DOMAIN wins : i # j => PathsOf(wins[i]) \cap PathsOf(wins[j]) = {}

validateVisibleAwardTotal(r) == Sum(Amounts(r.wins)) + Sum(Amounts(r.awards)) = r.total

Least(a, b) == IF a < b THEN a ELSE b
(* What is paid of each of the worths from the budget, in their order.     *)
Clipped(worths, budget) ==
  [i \in DOMAIN worths |->
     LET before == Sum(SubSeq(worths, 1, i - 1)) IN
     Least(worths[i], IF before < budget THEN budget - before ELSE 0)]
settledAmount(r, worths, budget) == IF r.capped THEN Clipped(worths, budget) ELSE worths
validatePaidAwardProjection(r) ==
  LET paid == settledAmount(r, Worths(r.wins \o r.awards), r.total) IN
  /\ Amounts(r.wins \o r.awards) = paid
  /\ \A i \in DOMAIN r.wins :
       LET w == r.wins[i] IN
       w.paths # <<>> =>
         /\ Amounts(w.paths) = settledAmount(r, Worths(w.paths), w.paid)
         /\ r.capped => Sum(Amounts(w.paths)) = w.paid
  /\ r.capped => Sum(paid) = r.total

(* win is the cycle's win the result leaves behind: of the feature it runs *)
(* in or completes, or of the base spin alone.                             *)
validateWinCapProjection(r) ==
  r.capped =>
    /\ r.toldCap = Cap
    /\ (IF r.mode = "BASE" THEN r.total ELSE r.cycleWin) = r.toldCap

-----------------------------------------------------------------------------
(* Sound results: every worth for a shape of wins and awards, paid within  *)
(* the budget.                                                             *)
Path(path, nominal) ==
  [path |-> path, multiplier |-> MultiplierOf(path), nominal |-> nominal, paid |-> nominal,
   base |-> IF MultiplierOf(path) = 1 THEN nominal ELSE (nominal + 1) \div 2]
Win(id, symbol, paths) ==
  [id |-> id, symbol |-> symbol, paths |-> paths, cells |-> UnionOf(paths),
   nominal |-> Sum(Worths(paths)), paid |-> Sum(Worths(paths))]
Old(id, nominal) ==
  [id |-> id, symbol |-> "TEN", paths |-> <<>>, cells |-> {<<0, 0>>}, nominal |-> nominal, paid |-> nominal]
Award(nominal) == [nominal |-> nominal, paid |-> nominal]
Shapes ==
  {[wins |-> <<>>, awards |-> <<>>]}
  \cup {[wins |-> <<Win("w1", "ACE", <<Path(<<0, 0, 0>>, a), Path(<<0, 1, 0>>, b)>>)>>, awards |-> awards] :
        a, b \in Nominals, awards \in {<<>>} \cup {<<Award(n)>> : n \in Nominals}}
  \cup {[wins |-> <<Old("w1", a), Win("w2", "ACE", <<Path(<<1, 0, 0>>, b)>>)>>, awards |-> <<Award(n)>>] :
        a, b, n \in Nominals}

Paid(seq, paid) == [i \in DOMAIN seq |-> [seq[i] EXCEPT !.paid = paid[i]]]
Uncapped(shape, mode, prior) ==
  LET total == Sum(Worths(shape.wins \o shape.awards)) IN
  [wins |-> shape.wins, awards |-> shape.awards, total |-> total, capped |-> FALSE, toldCap |-> 0,
   mode |-> mode, cycleWin |-> prior + total]
CappedAt(shape, mode, budget) ==
  LET worths == Worths(shape.wins \o shape.awards)
      paid == Clipped(worths, budget)
      wins == Paid(shape.wins, paid) IN
  [wins |-> [i \in DOMAIN wins |->
               [wins[i] EXCEPT !.paths = Paid(@, Clipped(Worths(@), wins[i].paid))]],
   awards |-> Paid(shape.awards, SubSeq(paid, Len(wins) + 1, Len(paid))),
   total |-> budget, capped |-> TRUE, toldCap |-> Cap, mode |-> mode, cycleWin |-> Cap]
Nothing == Uncapped([wins |-> <<>>, awards |-> <<>>], "BASE", 0)
Sound ==
  {Uncapped(shape, mode, 0) : shape \in Shapes, mode \in {"BASE", "EXPANSION"}}
  \cup {CappedAt(shape, mb[1], mb[2]) :
        mb \in {<<"BASE", Cap>>} \cup {<<"EXPANSION", budget>> : budget \in 0..Cap}, shape \in {x \in Shapes : x.wins # <<>> /\ Sum(Worths(x.wins \o x.awards)) >= Cap}}

Near(n) == {n - 1, n + 1} \cap Nat
Miscounted(seq) ==
  UNION {{[seq EXCEPT ![i].paid = n] : n \in Near(seq[i].paid)}
         \cup {[seq EXCEPT ![i].nominal = n] : n \in Near(seq[i].nominal)} : i \in DOMAIN seq}
OneWrong(r) ==
  {[r EXCEPT !.total = n] : n \in Near(r.total)}
  \cup {[r EXCEPT !.cycleWin = n] : n \in Near(r.cycleWin)}
  \cup {[r EXCEPT !.capped = ~@, !.toldCap = Cap], [r EXCEPT !.mode = "BASE"], [r EXCEPT !.toldCap = @ + 1]}
  \cup {[r EXCEPT !.wins = x] : x \in Miscounted(r.wins)}
  \cup {[r EXCEPT !.awards = x] : x \in Miscounted(r.awards)}
  \cup {[r EXCEPT !.awards = Append(@, @[i])] : i \in DOMAIN r.awards}
  \cup UNION {{[r EXCEPT !.wins[i].paths = x] : x \in Miscounted(r.wins[i].paths)} : i \in DOMAIN r.wins}
  \cup UNION {{[r EXCEPT !.wins[i].paths[j].path = p] : p \in AcePaths \cup {<<0, 0, 1>>}}
              : i \in {k \in DOMAIN r.wins : r.wins[k].paths # <<>>}, j \in {1}}
  \cup UNION {{[r EXCEPT !.wins = Append(@, [@[i] EXCEPT !.id = id])] : id \in {"w1", "w3"}} : i \in DOMAIN r.wins}

-----------------------------------------------------------------------------
Init == \E r \in Sound : s = [result |-> r, sound |-> TRUE, stage |-> "wins"]

Alter ==
  /\ s.stage = "wins" /\ s.sound
  /\ \E r \in OneWrong(s.result) : r # s.result /\ s' = [s EXCEPT !.result = r, !.sound = FALSE]
(* A stage passed leads to the next; a refused result is not kept.         *)
Stage(stage, next, holds) ==
  /\ s.stage = stage
  /\ s' = IF holds THEN [s EXCEPT !.stage = next]
          ELSE [s EXCEPT !.stage = "refused", !.result = Nothing]
DecodeWins == Stage("wins", "identities", \A i \in DOMAIN s.result.wins : win(s.result.wins[i]))
Identities == Stage("identities", "total", validateWinIdentities(s.result.wins))
AwardTotal == Stage("total", "paid", validateVisibleAwardTotal(s.result))
PaidProjection == Stage("paid", "cap", validatePaidAwardProjection(s.result))
CapProjection == Stage("cap", "accepted", validateWinCapProjection(s.result))

Next == Alter \/ DecodeWins \/ Identities \/ AwardTotal \/ PaidProjection \/ CapProjection
Spec == Init /\ [][Next]_s

-----------------------------------------------------------------------------
(* No sound result is refused at any stage.                                *)
SoundAccepted == s.sound => s.stage # "refused"

(* Every payment of an accepted result in the order of the budget: a path  *)
(* or, of an old record, the win as a whole; then the awards of the events. *)
Payments(r) ==
  Seqs!FlattenSeq([i \in DOMAIN r.wins |-> IF r.wins[i].paths = <<>> THEN <<r.wins[i]>> ELSE r.wins[i].paths])
    \o r.awards

(* What was accepted adds up: the payments are the total, no path of the   *)
(* grid is paid twice, and all is paid in full, save that a cap that was   *)
(* really reached cuts the payments at one place and nothing behind it is  *)
(* paid.                                                                   *)
AddsUp ==
  s.stage = "accepted" =>
    LET r == s.result
        pays == Payments(r) IN
    /\ Sum(Amounts(pays)) = r.total
    /\ \A i, j \in DOMAIN r.wins : \A k \in DOMAIN r.wins[i].paths, l \in DOMAIN r.wins[j].paths :
         r.wins[i].paths[k].path = r.wins[j].paths[l].path => i = j /\ k = l
    /\ IF r.capped
       THEN /\ \A i, j \in DOMAIN pays : i < j /\ pays[j].paid > 0 => pays[i].paid = pays[i].nominal
            /\ Cap = IF r.mode = "BASE" THEN r.total ELSE r.cycleWin
       ELSE \A i \in DOMAIN pays : pays[i].paid = pays[i].nominal
=============================================================================
