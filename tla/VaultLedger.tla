---------------------------- MODULE VaultLedger -----------------------------
(***************************************************************************)
(* decoder.ts and spinResultOriginGuard.ts: the vault events of a result.  *)
(* Every vault on the grid lands, and either all stay locked or each is    *)
(* revealed once and ends in one result: an award or, in Kong Quest, a     *)
(* free spin; in King Spin the multipliers are raised step by step before  *)
(* all are paid.  The log offered is a sound one or differs from one by a  *)
(* dropped, repeated, swapped or altered event.                            *)
(***************************************************************************)
EXTENDS Integers, Sequences, FiniteSets

Seqs == INSTANCE SequencesExt

CONSTANT Vaults   \* the cells of the vaults on the grid, in reel order: a sequence

VARIABLE s

Modes == {"BASE", "EXPANSION", "OVERDRIVE"}
Cells == {Vaults[i] : i \in DOMAIN Vaults}
Multipliers == {10, 20, 30}
vaultPrizeName(m, kingSpin) ==
  CASE m = 10 -> "MINI" [] m = 20 /\ kingSpin -> "MINI_2X" [] m = 30 -> "MINOR" [] OTHER -> "none"

(* An event; a field that its type does not have is 0, "none" or <<>>.     *)
Event(type, cell, from, mult, prize, amount, step, count, cells) ==
  [type |-> type, cell |-> cell, from |-> from, mult |-> mult, prize |-> prize,
   amount |-> amount, step |-> step, count |-> count, cells |-> cells]
Mark(type) == Event(type, 0, 0, 0, "none", 0, 0, 0, <<>>)
Group(type) == Event(type, 0, 0, 0, "none", 0, 0, Len(Vaults), Vaults)
Unlocked(c, m, prize) == Event("unlocked", c, 0, m, prize, 0, 0, 0, <<>>)
Awarded(c, m, prize, amount) == Event("awarded", c, 0, m, prize, amount, 0, 0, <<>>)
Upgrading(step, count) == Event("upgrading", 0, 0, 0, "none", 0, step, count, <<>>)
Upgraded(c, from, m, step) == Event("upgraded", c, from, m, vaultPrizeName(m, TRUE), 0, step, 0, <<>>)
FreeSpin(c) == Event("free", c, 0, 0, "none", 0, 0, 1, <<>>)

-----------------------------------------------------------------------------
At(log, type) == {i \in DOMAIN log : log[i].type = type}
Has(log, type) == At(log, type) # {}
Once(log, type) == Cardinality(At(log, type)) = 1
IndexOf(log, type) == CHOOSE i \in At(log, type) : \A j \in At(log, type) : i <= j
Last(log, type) == CHOOSE i \in At(log, type) : \A j \in At(log, type) : j <= i
Of(log, type, c) == {i \in At(log, type) : log[i].cell = c}
The(log, type, c) == log[CHOOSE i \in Of(log, type, c) : TRUE]
Details == {"locked", "opening", "opened", "unlocked", "awarded", "upgrading", "upgraded", "free", "freeCap"}
DetailsAt(log) == {i \in DOMAIN log : log[i].type \in Details}

(* What the decoder asks of one event.                                     *)
featureEvent(e) ==
  /\ e.type \in {"landed", "locked", "opening", "opened"} =>
       /\ e.count = Len(e.cells) /\ e.count \in 1..8
       /\ \A i, j \in DOMAIN e.cells : e.cells[i] \in Cells /\ (e.cells[i] = e.cells[j] => i = j)
  /\ e.type \in {"unlocked", "awarded", "free", "freeCap"} => e.cell \in Cells
  /\ e.type \in {"awarded", "upgraded"} => e.mult > 0
  /\ e.type \in {"free", "upgrading"} => e.count > 0
  /\ e.type = "upgraded" => e.mult > e.from
  /\ e.type = "upgrading" => e.step > 0

(* What it asks of the order of a log.                                     *)
Singletons == {"grid", "landed", "locked", "opening", "opened", "cap", "completed"}
events(log) ==
  /\ \A i \in DOMAIN log : featureEvent(log[i])
  /\ \A type \in Singletons : Cardinality(At(log, type)) <= 1
  /\ Has(log, "grid") => log[1].type = "grid"
  /\ Has(log, "completed") => log[Len(log)].type = "completed"
  /\ Has(log, "cap") => \/ log[Len(log)].type = "cap"
                        \/ Has(log, "completed") /\ log[Len(log) - 1].type = "cap"
  /\ DetailsAt(log) # {} => Has(log, "landed")
  /\ Has(log, "landed") => \A i \in DetailsAt(log) : IndexOf(log, "landed") < i
  /\ ~(Has(log, "locked") /\ Has(log, "opening"))
  /\ Has(log, "opening") <=> Has(log, "opened")
  /\ Has(log, "opening") => IndexOf(log, "opening") < IndexOf(log, "opened")
  /\ \A i \in At(log, "unlocked") :
       Has(log, "opening") /\ IndexOf(log, "opening") < i /\ i < IndexOf(log, "opened")
  /\ \A i \in At(log, "upgraded") :
       \E j \in At(log, "upgrading") :
         /\ log[j].step = log[i].step /\ j < i
         /\ \A k \in At(log, "upgrading") : log[k].step = log[i].step => j <= k
  /\ \A j \in At(log, "upgrading") :
       /\ Cardinality({i \in At(log, "upgraded") : log[i].step = log[j].step}) = log[j].count
       /\ Has(log, "opened") /\ IndexOf(log, "opened") < j

inferredVaultOriginMode(log, next) ==
  IF Has(log, "grid") THEN "EXPANSION"
  ELSE IF Has(log, "completed") THEN log[IndexOf(log, "completed")].prize
  ELSE IF ~Has(log, "started") THEN next ELSE "BASE"

-----------------------------------------------------------------------------
(* The guard: the settled vaults, the log and the mode of the request.     *)

assertVaultGroup(event) == event.count = Len(Vaults) /\ event.cells = Vaults

LockedBranch(mode, log, grid) ==
  /\ mode # "OVERDRIVE"
  /\ IndexOf(log, "locked") = IndexOf(log, "landed") + 1
  /\ DetailsAt(log) = At(log, "locked")
  /\ assertVaultGroup(log[IndexOf(log, "locked")])
  /\ \A c \in Cells : grid[c] = [mult |-> 0, prize |-> "none"]

UnlockGroup(log) ==
  /\ ~Has(log, "locked") /\ Once(log, "opening") /\ Once(log, "opened")
  /\ IndexOf(log, "opening") = IndexOf(log, "landed") + 1
  /\ IndexOf(log, "opened") > IndexOf(log, "opening")
  /\ assertVaultGroup(log[IndexOf(log, "opening")])
  /\ assertVaultGroup(log[IndexOf(log, "opened")])
Inside(log, i) == IndexOf(log, "opening") < i /\ i < IndexOf(log, "opened")
After(log, i) == i > IndexOf(log, "opened")

Scan(mode, log) ==
  /\ \A i \in At(log, "unlocked") :
       Inside(log, i) /\ log[i].cell \in Cells /\ log[i].prize # "none"
  /\ \A i \in At(log, "awarded") :
       /\ log[i].cell \in Cells /\ log[i].mult > 0 /\ log[i].prize # "none"
       /\ ~Has(log, "cap") => log[i].amount > 0
       /\ IF mode = "OVERDRIVE" THEN After(log, i) ELSE Inside(log, i)
  /\ \A i \in At(log, "free") \cup At(log, "freeCap") :
       /\ mode = "EXPANSION" /\ log[i].cell \in Cells /\ Inside(log, i)
       /\ log[i].type = "free" => log[i].count = 1
  /\ \A i \in At(log, "upgraded") \cup At(log, "upgrading") : mode = "OVERDRIVE" /\ After(log, i)
  /\ \A c \in Cells :
       /\ Cardinality(Of(log, "unlocked", c)) = 1
       /\ Cardinality(Of(log, "awarded", c)) <= 1
       /\ Cardinality(Of(log, "free", c) \cup Of(log, "freeCap", c)) <= 1

expectedVaultAmount(log, award) ==
  IF Has(log, "cap") THEN award.amount <= award.mult ELSE award.amount = award.mult

OrdinaryFinals(log, grid) ==
  /\ \A c \in Cells :
       LET reveal == The(log, "unlocked", c)
           award == The(log, "awarded", c)
           free == Of(log, "free", c) \cup Of(log, "freeCap", c) IN
       \/ /\ Of(log, "awarded", c) # {} /\ free = {}
          /\ reveal.prize = award.prize /\ reveal.mult = award.mult
          /\ award.prize = vaultPrizeName(award.mult, FALSE)
          /\ expectedVaultAmount(log, award)
          /\ grid[c] = [mult |-> award.mult, prize |-> award.prize]
       \/ /\ Of(log, "awarded", c) = {} /\ free # {}
          /\ reveal.prize = "FREE_SPIN" /\ reveal.mult = 0
          /\ grid[c] = [mult |-> 0, prize |-> "FREE_SPIN"]
  /\ \A i \in DOMAIN log :
       Inside(log, i) => log[i].type \in {"unlocked", "awarded", "free", "freeCap"}

(* The multiplier of c before event i: raised by every upgrade so far.     *)
CurrentMultiplier(log, i, c) ==
  LET raised == {j \in Of(log, "upgraded", c) : j < i} IN
  IF raised = {} THEN The(log, "unlocked", c).mult
  ELSE log[CHOOSE j \in raised : \A k \in raised : k <= j].mult
StepOf(log, i) ==
  LET started == {j \in At(log, "upgrading") : j < i} IN
  IF started = {} THEN 0 ELSE CHOOSE j \in started : \A k \in started : k <= j
Upgrades(log) ==
  /\ \A j \in At(log, "upgrading") :
       /\ log[j].step = Cardinality({k \in At(log, "upgrading") : k <= j})
       /\ log[j].count > 0
       /\ log[j].count = Cardinality({i \in At(log, "upgraded") : StepOf(log, i) = j})
  /\ \A i \in At(log, "upgraded") :
       LET e == log[i] IN
       /\ StepOf(log, i) # 0 /\ e.step = log[StepOf(log, i)].step /\ e.cell \in Cells
       /\ e.from = CurrentMultiplier(log, i, e.cell) /\ e.mult > e.from
       /\ e.prize = vaultPrizeName(e.mult, TRUE)
       /\ \A j \in Of(log, "upgraded", e.cell) : j # i => StepOf(log, j) # StepOf(log, i)

KingSpinFinals(log, grid) ==
  /\ ~Has(log, "free") /\ ~Has(log, "freeCap")
  /\ \A c \in Cells :
       /\ Of(log, "awarded", c) # {}
       /\ The(log, "unlocked", c).prize = vaultPrizeName(The(log, "unlocked", c).mult, TRUE)
  /\ LET first == IndexOf(log, "awarded") IN
     /\ After(log, first)
     /\ Has(log, "cap") => IndexOf(log, "cap") = Last(log, "awarded") + 1
     /\ \A i \in first..Len(log) : log[i].type \in {"awarded", "cap", "completed"}
     /\ \A i \in (IndexOf(log, "opened") + 1)..(first - 1) : log[i].type \in {"upgrading", "upgraded"}
     /\ Upgrades(log)
     /\ \A c \in Cells :
          LET award == The(log, "awarded", c) IN
          /\ award.mult = CurrentMultiplier(log, first, c)
          /\ award.prize = vaultPrizeName(award.mult, TRUE)
          /\ expectedVaultAmount(log, award)
          /\ grid[c] = [mult |-> award.mult, prize |-> award.prize]

validateVaultEventsAgainstOrigin(mode, log, grid) ==
  /\ Once(log, "landed")
  /\ IndexOf(log, "landed") = IF mode = "EXPANSION" THEN 2 ELSE 1
  /\ assertVaultGroup(log[IndexOf(log, "landed")])
  /\ IF Once(log, "locked") THEN LockedBranch(mode, log, grid)
     ELSE /\ UnlockGroup(log) /\ Scan(mode, log)
          /\ IF mode = "OVERDRIVE" THEN KingSpinFinals(log, grid) ELSE OrdinaryFinals(log, grid)

(* The decoder judges with the mode it infers, the controller with its own. *)
Accepted(t) ==
  /\ events(t.log)
  /\ validateVaultEventsAgainstOrigin(inferredVaultOriginMode(t.log, t.next), t.log, t.grid)
  /\ validateVaultEventsAgainstOrigin(t.mode, t.log, t.grid)

-----------------------------------------------------------------------------
(* The sound logs of a spin from every mode.                               *)

Pre(mode) == IF mode = "EXPANSION" THEN <<Mark("grid")>> ELSE <<>>
Post(mode, next) ==
  IF mode # "BASE" /\ next = "BASE" THEN <<[Mark("completed") EXCEPT !.prize = mode]>> ELSE <<>>
Outcome(c, m, kingSpin) ==
  IF m = 0 THEN <<Unlocked(c, 0, "FREE_SPIN"), FreeSpin(c)>>
  ELSE <<Unlocked(c, m, vaultPrizeName(m, FALSE)), Awarded(c, m, vaultPrizeName(m, FALSE), m)>>
Each(Op(_)) == Seqs!FlattenSeq([i \in DOMAIN Vaults |-> Op(Vaults[i])])
Grid(f, kingSpin) ==
  [c \in Cells |-> [mult |-> f[c], prize |-> IF f[c] = 0 THEN "FREE_SPIN" ELSE vaultPrizeName(f[c], kingSpin)]]
Candidate(mode, next, log, grid) ==
  [mode |-> mode, next |-> next, grid |-> grid, log |-> Pre(mode) \o log \o Post(mode, next)]

Locked(mode, next) ==
  Candidate(mode, next, <<Group("landed"), Group("locked")>>, [c \in Cells |-> [mult |-> 0, prize |-> "none"]])
Ordinary(mode, next, f) ==
  LET One(c) == Outcome(c, f[c], FALSE) IN
  Candidate(mode, next, <<Group("landed"), Group("opening")>> \o Each(One) \o <<Group("opened")>>,
            Grid(f, FALSE))
(* raised: the steps, each the set of vaults it raises from 10 to 20 to 30. *)
King(next, raised) ==
  LET Level(c, k) == 10 + 10 * Cardinality({i \in 1..k : c \in raised[i]})
      f == [c \in Cells |-> Level(c, Len(raised))]
      Reveal(c) == <<Unlocked(c, 10, "MINI")>>
      Pay(c) == <<Awarded(c, f[c], vaultPrizeName(f[c], TRUE), f[c])>>
      Step(k) == LET Raise(c) == IF c \in raised[k] THEN <<Upgraded(c, Level(c, k - 1), Level(c, k), k)>>
                                 ELSE <<>> IN
                 <<Upgrading(k, Cardinality(raised[k]))>> \o Each(Raise) IN
  Candidate("OVERDRIVE", next,
    <<Group("landed"), Group("opening")>> \o Each(Reveal) \o <<Group("opened")>>
      \o Seqs!FlattenSeq([k \in DOMAIN raised |-> Step(k)]) \o Each(Pay),
    Grid(f, TRUE))
(* A capped result ends with the cap, its last award paid short.           *)
Capped(t) ==
  LET last == Last(t.log, "awarded")
      short == [t.log EXCEPT ![last].amount = 0] IN
  [t EXCEPT !.log = IF t.log[Len(t.log)].type = "completed" THEN Seqs!InsertAt(short, Len(short), Mark("cap"))
                    ELSE Append(short, Mark("cap"))]

SoundResults ==
  LET logs == {Locked("BASE", "BASE")} \cup {Locked("EXPANSION", next) : next \in {"BASE", "EXPANSION"}}
        \cup {Ordinary("BASE", "BASE", f) : f \in [Cells -> {10, 30}]}
        \cup {Ordinary("EXPANSION", next, f) : next \in {"BASE", "EXPANSION"}, f \in [Cells -> {0, 10, 30}]}
        \cup {King(next, raised) : next \in {"BASE", "OVERDRIVE"},
                                   raised \in {<<>>, <<Cells>>, <<Cells, {Vaults[1]}>>}} IN
  logs \cup {Capped(t) : t \in {l \in logs : Has(l.log, "awarded")}}

Altered(e) ==
  {[e EXCEPT !.cell = c] : c \in {d \in Cells : e.cell # 0}}
  \cup {[e EXCEPT !.mult = m] : m \in {n \in Multipliers : e.mult # 0}}
  \cup {[e EXCEPT !.amount = a] : a \in {n \in {0, 20, 40} : e.type = "awarded"}}
  \cup {[e EXCEPT !.step = k] : k \in {n \in 1..3 : e.step # 0}}
  \cup {[e EXCEPT !.count = n] : n \in {e.count - 1, e.count + 1} \ {-1, 1}}
  \cup {[e EXCEPT !.cells = Seqs!Reverse(@)], [e EXCEPT !.prize = IF @ = "none" THEN @ ELSE "MINOR"],
        [e EXCEPT !.from = IF @ = 0 THEN 0 ELSE 30 - @]}
OneWrong(t) ==
  LET log == t.log IN
  {[t EXCEPT !.log = Seqs!RemoveAt(log, i)] : i \in DOMAIN log}
  \cup {[t EXCEPT !.log = Seqs!InsertAt(log, i, log[i])] : i \in DOMAIN log}
  \cup {[t EXCEPT !.log = Append(log, log[i])] : i \in DOMAIN log}
  \cup {[t EXCEPT !.log = [log EXCEPT ![i] = log[i + 1], ![i + 1] = log[i]]] : i \in 1..(Len(log) - 1)}
  \cup UNION {{[t EXCEPT !.log[i] = e] : e \in Altered(log[i])} : i \in DOMAIN log}
  \cup {[t EXCEPT !.grid[c].mult = m] : c \in Cells, m \in Multipliers}

-----------------------------------------------------------------------------
(* The accepted log is presented: reveals and upgrades as batches whose    *)
(* members move together, every award held back until all have finished.   *)

Idle == [result |-> [mode |-> "BASE", next |-> "BASE", log |-> <<>>, grid |-> <<>>],
         sound |-> TRUE, phase |-> "none", at |-> 1, batch |-> {}, upTo |-> 1, deferred |-> <<>>,
         shown |-> [c \in Cells |-> 0], paid |-> [c \in Cells |-> 0], hud |-> 0]
TypeOK ==
  /\ s.phase \in {"offered", "refused", "loop", "group", "upgrades", "awards", "done"}
  /\ s.at \in 1..(Len(s.result.log) + 1) /\ s.batch \subseteq DOMAIN s.result.log
  /\ s.shown \in [Cells -> {0} \cup Multipliers] /\ s.hud \in 0..Len(Vaults)
Init == \E t \in SoundResults : s = [Idle EXCEPT !.phase = "offered", !.result = t]

log == s.result.log
Tamper ==
  /\ s.phase = "offered" /\ s.sound
  /\ \E t \in OneWrong(s.result) : t # s.result /\ s' = [s EXCEPT !.result = t, !.sound = FALSE]
Decode ==
  /\ s.phase = "offered"
  /\ s' = IF Accepted(s.result) THEN [s EXCEPT !.phase = "loop"]
          ELSE [Idle EXCEPT !.phase = "refused", !.sound = s.sound]

AtEvent(type) == s.phase = "loop" /\ s.at \in DOMAIN log /\ log[s.at].type = type
PresentOther ==
  /\ s.phase = "loop" /\ s.at \in DOMAIN log
  /\ log[s.at].type \notin {"opening", "upgrading", "awarded", "free"}
  /\ s' = [s EXCEPT !.at = @ + 1]
StartUnlockGroup ==
  /\ AtEvent("opening")
  /\ LET end == IndexOf(log, "opened") IN
     s' = [s EXCEPT !.phase = "group", !.upTo = end,
                    !.batch = {i \in s.at..end : log[i].type = "unlocked"},
                    !.deferred = @ \o Seqs!FlattenSeq([k \in 1..(end - s.at) |->
                      IF log[s.at + k].type = "awarded" THEN <<s.at + k>> ELSE <<>>])]
(* The upgrades of the step that stand together behind its start.          *)
StartUpgrades ==
  /\ AtEvent("upgrading")
  /\ LET together == {i \in DOMAIN log : i > s.at /\ \A j \in (s.at + 1)..i :
                        log[j].type = "upgraded" /\ log[j].step = log[s.at].step} IN
     s' = [s EXCEPT !.phase = "upgrades", !.batch = together, !.upTo = s.at + Cardinality(together)]
DeferAward ==
  /\ AtEvent("awarded")
  /\ s' = [s EXCEPT !.deferred = Append(@, s.at), !.at = @ + 1]
MemberFinishes ==
  /\ s.phase \in {"group", "upgrades"}
  /\ \E i \in s.batch :
       s' = [s EXCEPT !.batch = @ \ {i}, !.shown[log[i].cell] = log[i].mult]
presentFreeSpinAwardBatch(t) ==
  [t EXCEPT !.hud = @ + Cardinality({i \in t.at..t.upTo : log[i].type = "free"})]
BarrierComplete ==
  /\ s.phase \in {"group", "upgrades"} /\ s.batch = {}
  /\ LET t == IF s.phase = "group" THEN presentFreeSpinAwardBatch(s) ELSE s IN
     s' = [t EXCEPT !.phase = "loop", !.at = s.upTo + 1]
EventsOver ==
  /\ s.phase = "loop" /\ s.at > Len(log)
  /\ s' = [s EXCEPT !.phase = "awards"]
PresentAward ==
  /\ s.phase = "awards"
  /\ s' = IF s.deferred = <<>> THEN [s EXCEPT !.phase = "done"]
          ELSE LET e == log[Head(s.deferred)] IN
               [s EXCEPT !.deferred = Tail(@), !.paid[e.cell] = @ + e.mult]

Next ==
  \/ Tamper \/ Decode \/ PresentOther \/ StartUnlockGroup \/ StartUpgrades \/ DeferAward
  \/ MemberFinishes \/ BarrierComplete \/ EventsOver \/ PresentAward
Spec == Init /\ [][Next]_s

-----------------------------------------------------------------------------
(* A sound log is never refused, and the mode the decoder infers for it is *)
(* the one the spin was requested from.                                    *)
SoundAccepted ==
  s.sound =>
    /\ s.phase # "refused"
    /\ inferredVaultOriginMode(log, s.result.next) = s.result.mode

(* Whatever log is accepted: when it has been presented, the multiplier    *)
(* each vault shows, the one it was paid and the settled grid agree, and   *)
(* the free spins added to the counter are those of the free vaults.       *)
PresentedAsSettled ==
  s.phase = "done" =>
    /\ \A c \in Cells : s.shown[c] = s.result.grid[c].mult /\ s.paid[c] = s.shown[c]
    /\ s.hud = Cardinality({c \in Cells : s.result.grid[c].prize = "FREE_SPIN"
                                           /\ ~\E i \in DOMAIN log : log[i].type = "freeCap"})

(* The award without a cap is the whole of what the vault shows.           *)
PaidInFull ==
  s.phase \in {"loop", "group", "upgrades", "awards", "done"} /\ ~Has(log, "cap") =>
    \A i \in At(log, "awarded") : log[i].amount = s.result.grid[log[i].cell].mult

(* A vault is paid once, at what it shows, when nothing is opening and no  *)
(* multiplier will be raised any more; a raise never lowers.               *)
PaidLast ==
  \A c \in Cells :
    /\ s'.paid[c] # s.paid[c] => s.paid[c] = 0 /\ s'.paid[c] = s.shown[c] /\ s.at > Len(log)
    /\ s'.shown[c] # s.shown[c] => s.paid[c] = 0 /\ s'.shown[c] > s.shown[c]
=============================================================================
