----------------------------- MODULE StageProofs -----------------------------
(***************************************************************************)
(* Lemmas about the parts of RoundStage, each on its own.  For a part X    *)
(*   XRec    is the set of its records,                                    *)
(*   XInv    is its inductive invariant, of the record "now",              *)
(*   XStarts says that it begins in the invariant,                         *)
(*   XSteps  that each of its calls keeps it,                              *)
(*   XRight  that what the runs ask of the part follows from it.           *)
(* CharacterProofs does the same for the character, and RoundContentProofs *)
(* puts the parts together.                                                *)
(***************************************************************************)
EXTENDS RoundStage, TLAPS

-----------------------------------------------------------------------------
(* Which feature state a result may come to (FeatureCycle).                 *)

CycRec ==
  [mode : Cycle!Modes, remaining : 0..MaxAwarded, played : 0..MaxAwarded, win : 0..WinCap,
   bet : {"locked", "other"}, level : 1..MaxLevel, collected : 0..MaxCollected,
   awarded : 0..MaxAwarded, paid : 0..WinCap, told : BOOLEAN]
\* A base state carries no feature, and the books of a feature are conserved.
CycGood(o) ==
  /\ o \in CycRec
  /\ o.mode = "BASE" => o.awarded = 0 /\ o.paid = 0 /\ o.told = FALSE
  /\ o.mode # "BASE" =>
       /\ o.played + o.remaining = o.awarded /\ o.remaining > 0
       /\ o.win = o.paid /\ (o.told <=> o.paid = WinCap) /\ o.bet = "locked"
CycInv == CycGood(now)

CycNext ==
  [mode : Cycle!Modes, remaining : Nat, played : Nat, win : Nat, bet : {"locked", "other"},
   level : 1..MaxLevel, collected : 0..MaxCollected]
CycResult ==
  [charged : {"locked", "other", "none"}, bet : {"locked", "other"}, total : Nat, cap : BOOLEAN,
   clipped : BOOLEAN, nominal : BOOLEAN, rows : Nat, expanded : Nat, surge : Nat,
   collection : [count : Nat, total : Nat, level : Nat, triggered : BOOLEAN, guaranteed : BOOLEAN],
   transformed : Nat, wheel : {"none", "INSTANT", "EXPANSION", "OVERDRIVE"}, wheelStarted : BOOLEAN,
   prize : {"none", "MINI", "KONG_QUEST", "KING_SPIN"}, multiplier : Nat, amount : Nat,
   started : [mode : {"none", "EXPANSION", "OVERDRIVE"}, awarded : Nat],
   completed : [mode : {"none", "EXPANSION", "OVERDRIVE"}, awarded : Nat, win : Nat],
   awards : Nat, next : CycNext]

\* The plain result of a spin from o: a feature o ends in it.
LEMMA CycPlain ==
  ASSUME NEW o \in CycRec, NEW win \in 0..WinCap
  PROVE  /\ Cycle!Plain(o, win) \in CycResult
         /\ Cycle!Plain(o, win).bet = "locked" /\ Cycle!Plain(o, win).awards = 0
         /\ Cycle!Plain(o, win).next.bet = "locked"
BY CycleAssumption DEF CycRec, CycResult, CycNext, Cycle!Plain, Cycle!FeatureState, Cycle!NotStarted,
   Cycle!NotCompleted, Cycle!NoCollection, Cycle!NoWheel, Cycle!Modes, Cycle!Features, Cycle!CycleWin

\* Symbols that fill the meter, of a base spin.
LEMMA CycCollected ==
  ASSUME NEW o \in CycRec, NEW win \in 0..WinCap, NEW n \in 1..2, o.collected + n <= MaxCollected,
         NEW level \in o.level..MaxLevel
  PROVE  /\ Cycle!Collected(o, win, n, level) \in CycResult
         /\ Cycle!Collected(o, win, n, level).bet = "locked"
         /\ Cycle!Collected(o, win, n, level).awards = 0
         /\ Cycle!Collected(o, win, n, level).next.bet = "locked"
<1>. DEFINE p == Cycle!Plain(o, win)
            w == o.collected + n
            c == [count |-> n, total |-> w, level |-> level, triggered |-> FALSE, guaranteed |-> FALSE]
            t == [p.next EXCEPT !.collected = w, !.level = level]
            d == [p EXCEPT !.surge = n, !.next = t, !.collection = c]
<1>1. p \in CycResult /\ p.bet = "locked" /\ p.awards = 0 /\ p.next.bet = "locked" BY CycPlain
<1>2. level \in 1..MaxLevel /\ level \in Nat /\ w \in 0..MaxCollected /\ w \in Nat /\ n \in Nat
  BY CycleAssumption DEF CycRec
<1>3. Cycle!Collected(o, win, n, level) = d
  BY <1>1 DEF Cycle!Collected, CycResult, CycNext
<1>. HIDE DEF p, w
<1>4. t \in CycNext /\ t.bet = p.next.bet BY <1>1, <1>2 DEF CycResult, CycNext
<1>5. c \in [count : Nat, total : Nat, level : Nat, triggered : BOOLEAN, guaranteed : BOOLEAN]
  BY <1>2
<1>. HIDE DEF t, c
<1>6. d \in CycResult /\ d.bet = p.bet /\ d.awards = p.awards /\ d.next = t
  BY <1>1, <1>2, <1>4, <1>5 DEF CycResult
<1>. QED BY <1>1, <1>3, <1>4, <1>6

\* Symbols that open the wheel, of a base spin: the amount of an instant
\* award, or a feature with all its spins.
LEMMA CycTriggered ==
  ASSUME NEW o \in CycRec, NEW win \in 0..WinCap, NEW n \in 1..3,
         NEW wheel \in {"INSTANT", "EXPANSION", "OVERDRIVE"}
  PROVE  /\ Cycle!Triggered(o, win, n, wheel) \in CycResult
         /\ Cycle!Triggered(o, win, n, wheel).bet = "locked"
         /\ Cycle!Triggered(o, win, n, wheel).awards = 0
         /\ Cycle!Triggered(o, win, n, wheel).next.bet = "locked"
<1>. DEFINE p == Cycle!Plain(o, win)
            m == IF n = 3 THEN <<o.level, o.collected>> ELSE <<1, 0>>
            c == [count |-> n, total |-> m[2], level |-> m[1], triggered |-> TRUE, guaranteed |-> n = 3]
            z == CASE wheel = "INSTANT" -> "MINI" [] wheel = "EXPANSION" -> "KONG_QUEST"
                   [] OTHER -> "KING_SPIN"
            x == IF wheel = "INSTANT" THEN 1 ELSE 0
            a == IF wheel = "INSTANT" THEN win ELSE 0
            i == (wheel = "INSTANT")
            b == p.nominal \/ i
            f == IF wheel = "INSTANT" THEN p.started ELSE [mode |-> wheel, awarded |-> FirstSpins]
            t == IF wheel = "INSTANT" THEN Cycle!FeatureState("BASE", 0, 0, 0, m[1], m[2])
                 ELSE Cycle!FeatureState(wheel, FirstSpins, 0, win, m[1], m[2])
            e == 3 - n
            d == [p EXCEPT !.surge = n, !.transformed = e, !.wheelStarted = TRUE, !.wheel = wheel,
                           !.collection = c, !.prize = z, !.multiplier = x, !.amount = a,
                           !.nominal = b, !.started = f, !.next = t]
<1>1. p \in CycResult /\ p.bet = "locked" /\ p.awards = 0 BY CycPlain
<1>2. m[1] \in 1..MaxLevel /\ m[1] \in Nat /\ m[2] \in 0..MaxCollected /\ m[2] \in Nat
  BY CycleAssumption DEF CycRec
<1>3. Cycle!Triggered(o, win, n, wheel) = d
  BY DEF Cycle!Triggered, Cycle!Meter
<1>. HIDE DEF m
<1>0. i \in BOOLEAN OBVIOUS
<1>4. c \in [count : Nat, total : Nat, level : Nat, triggered : BOOLEAN, guaranteed : BOOLEAN]
  BY <1>2
<1>5. z \in {"none", "MINI", "KONG_QUEST", "KING_SPIN"} OBVIOUS
<1>6. x \in Nat /\ a \in Nat /\ n \in Nat /\ e \in Nat BY CycleAssumption
<1>7. b \in BOOLEAN BY <1>1 DEF CycResult
<1>8. f \in [mode : {"none", "EXPANSION", "OVERDRIVE"}, awarded : Nat]
  BY <1>1, CycleAssumption DEF CycResult
<1>9. t \in CycNext /\ t.bet = "locked"
  BY <1>2, CycleAssumption DEF CycNext, Cycle!FeatureState, Cycle!Modes, Cycle!Features
<1>. HIDE DEF p, c, z, x, a, b, f, t, e
<1>10. d \in CycResult
  BY <1>1, <1>4, <1>5, <1>6, <1>7, <1>8, <1>9 DEF CycResult
<1>11. d.bet = p.bet /\ d.awards = p.awards /\ d.next = t BY <1>1 DEF CycResult
<1>. QED BY <1>1, <1>3, <1>9, <1>10, <1>11

\* A free spin, which may award one more and may be the last.
LEMMA CycFree ==
  ASSUME NEW o, CycGood(o), o.mode # "BASE", NEW win \in 0..WinCap, o.paid + win <= WinCap,
         NEW k \in 0..1, o.awarded + k <= MaxAwarded
  PROVE  /\ Cycle!Free(o, win, k) \in CycResult
         /\ Cycle!Free(o, win, k).bet = "locked" /\ Cycle!Free(o, win, k).awards = k
         /\ Cycle!Free(o, win, k).next.bet = "locked"
<1>. DEFINE p == Cycle!Plain(o, win)
            h == o.remaining - 1 + k
            g == o.awarded + k
            v == o.paid + win
            f == IF h > 0 THEN p.completed ELSE [mode |-> o.mode, awarded |-> g, win |-> v]
            j == o.played + 1
            t == IF h > 0 THEN Cycle!FeatureState(o.mode, h, j, v, o.level, o.collected) ELSE p.next
            d == [p EXCEPT !.awards = k, !.completed = f, !.next = t]
<1>. o \in CycRec BY DEF CycGood
<1>1. p \in CycResult /\ p.bet = "locked" /\ p.next.bet = "locked" BY CycPlain
<1>2. h \in Nat /\ g \in Nat /\ v \in Nat /\ k \in Nat /\ j \in Nat
  BY CycleAssumption DEF CycGood, CycRec
<1>3. Cycle!Free(o, win, k) = d BY DEF Cycle!Free
<1>. HIDE DEF p, h, g, v, j
<1>4. f \in [mode : {"none", "EXPANSION", "OVERDRIVE"}, awarded : Nat, win : Nat]
  BY <1>1, <1>2 DEF CycResult, CycRec, Cycle!Modes, Cycle!Features
<1>5. t \in CycNext /\ t.bet = "locked"
  BY <1>1, <1>2 DEF CycResult, CycNext, CycRec, Cycle!FeatureState, Cycle!Modes, Cycle!Features
<1>. HIDE DEF f, t
<1>6. d \in CycResult /\ d.bet = p.bet /\ d.awards = k /\ d.next = t
  BY <1>1, <1>2, <1>4, <1>5 DEF CycResult
<1>. QED BY <1>1, <1>3, <1>5, <1>6

\* Every result the server may send has the fields of one, names the bet the
\* feature was started with, and awards only what the cycle has room for.
LEMMA CycSound ==
  ASSUME NEW o, CycGood(o), NEW d \in Cycle!Sound(o)
  PROVE  /\ d \in CycResult /\ d.bet = "locked" /\ d.next.bet = "locked"
         /\ d.awards \in Nat /\ o.awarded + d.awards <= MaxAwarded
<1>. o \in CycRec BY DEF CycGood
<1>1. o.awarded \in 0..MaxAwarded /\ o.mode \in Cycle!Modes BY DEF CycRec
<1>2. CASE o.mode = "BASE"
  <2>1. \/ \E win \in WinTotals : d = Cycle!Plain(o, win)
        \/ \E win \in WinTotals, n \in 1..2 : \E level \in o.level..MaxLevel :
              o.collected + n <= MaxCollected /\ d = Cycle!Collected(o, win, n, level)
        \/ \E win \in WinTotals, n \in 1..3, wheel \in {"EXPANSION", "OVERDRIVE"} :
              d = Cycle!Triggered(o, win, n, wheel)
        \/ \E n \in 1..3 : d = Cycle!Triggered(o, 1, n, "INSTANT")
    BY <1>2 DEF Cycle!Sound, Cycle!Features
  <2>2. 1 \in 0..WinCap /\ WinTotals \subseteq 0..WinCap BY CycleAssumption
  <2>3. d \in CycResult /\ d.bet = "locked" /\ d.next.bet = "locked" /\ d.awards = 0
    BY <2>1, <2>2, CycPlain, CycCollected, CycTriggered
  <2>. QED BY <1>1, <2>3, CycleAssumption
<1>3. CASE o.mode # "BASE"
  <2>1. PICK win \in WinTotals, k \in 0..1 :
          /\ o.paid + win <= WinCap /\ (k = 0 \/ o.awarded < MaxAwarded) /\ d = Cycle!Free(o, win, k)
    BY <1>3 DEF Cycle!Sound
  <2>2. win \in 0..WinCap /\ o.awarded + k <= MaxAwarded BY <1>1, <2>1, CycleAssumption
  <2>. QED BY <1>3, <2>1, <2>2, CycFree
<1>. QED BY <1>2, <1>3

CycOff(d, r) ==
  /\ r \in CycResult
  /\ r.next = d.next \/ (r.bet = d.bet /\ r.awards = d.awards)

\* A result with one field wrong has the fields of a result, and the wrong
\* field is of the next state or is none of it.
LEMMA CycOneWrong ==
  ASSUME NEW d \in CycResult, NEW r \in {d} \cup Cycle!OneWrong(d)
  PROVE  CycOff(d, r)
<1>1. \A n \in Int : Cycle!Near(n) \subseteq Nat BY DEF Cycle!Near
<1>2. \A S, x : Cycle!Other(S, x) \subseteq S BY DEF Cycle!Other
<1>3. /\ d.total \in Nat /\ d.rows \in Nat /\ d.surge \in Nat /\ d.transformed \in Nat
      /\ d.awards \in Nat /\ d.amount \in Nat /\ d.next \in CycNext
      /\ d.cap \in BOOLEAN /\ d.clipped \in BOOLEAN /\ d.wheelStarted \in BOOLEAN
      /\ d.charged \in {"locked", "other", "none"}
  BY DEF CycResult
<1>4. /\ d.collection \in [count : Nat, total : Nat, level : Nat, triggered : BOOLEAN, guaranteed : BOOLEAN]
      /\ d.started \in [mode : {"none", "EXPANSION", "OVERDRIVE"}, awarded : Nat]
      /\ d.completed \in [mode : {"none", "EXPANSION", "OVERDRIVE"}, awarded : Nat, win : Nat]
  BY DEF CycResult
<1>5. /\ d.next.remaining \in Nat /\ d.next.played \in Nat /\ d.next.win \in Nat
      /\ d.collection.total \in Nat /\ d.started.awarded \in Nat
      /\ d.completed.awarded \in Nat /\ d.completed.win \in Nat
      /\ d.collection.triggered \in BOOLEAN /\ d.collection.guaranteed \in BOOLEAN
  BY <1>3, <1>4 DEF CycNext
<1>6. CASE r = d BY <1>6 DEF CycOff
<1>7. CASE \/ \E x \in Cycle!Other({"locked", "other", "none"}, d.charged) : r = [d EXCEPT !.charged = x]
           \/ r = [d EXCEPT !.bet = "other"]
           \/ r = [d EXCEPT !.bet = "other", !.charged = IF d.charged = "none" THEN d.charged ELSE "other"]
  <2>1. CASE \E x \in Cycle!Other({"locked", "other", "none"}, d.charged) : r = [d EXCEPT !.charged = x]
    BY <1>2, <2>1 DEF CycOff, CycResult
  <2>2. CASE r = [d EXCEPT !.bet = "other"] BY <2>2 DEF CycOff, CycResult
  <2>3. CASE r = [d EXCEPT !.bet = "other", !.charged = IF d.charged = "none" THEN d.charged ELSE "other"]
    BY <2>3 DEF CycOff, CycResult
  <2>. QED BY <1>7, <2>1, <2>2, <2>3
<1>8. CASE r = [d EXCEPT !.cap = ~d.cap] \/ r = [d EXCEPT !.clipped = ~d.clipped]
           \/ r = [d EXCEPT !.wheelStarted = ~d.wheelStarted]
  <2>. DEFINE a == ~d.cap
              b == ~d.clipped
              c == ~d.wheelStarted
  <2>1. a \in BOOLEAN /\ b \in BOOLEAN /\ c \in BOOLEAN OBVIOUS
  <2>2. r = [d EXCEPT !.cap = a] \/ r = [d EXCEPT !.clipped = b] \/ r = [d EXCEPT !.wheelStarted = c]
    BY <1>8
  <2>. HIDE DEF a, b, c
  <2>. QED BY <2>1, <2>2 DEF CycOff, CycResult
<1>9. CASE \/ \E n \in Cycle!Near(d.total) : r = [d EXCEPT !.total = n]
           \/ \E n \in {3, 4, 9} \ {d.rows} : r = [d EXCEPT !.rows = n]
           \/ \E n \in Cycle!Near(d.surge) : r = [d EXCEPT !.surge = n]
           \/ \E n \in Cycle!Near(d.transformed) : r = [d EXCEPT !.transformed = n]
           \/ \E n \in Cycle!Near(d.amount) : r = [d EXCEPT !.amount = n]
  <2>1. \E n \in Nat : r = [d EXCEPT !.total = n] \/ r = [d EXCEPT !.rows = n] \/ r = [d EXCEPT !.surge = n]
                       \/ r = [d EXCEPT !.transformed = n] \/ r = [d EXCEPT !.amount = n]
    BY <1>1, <1>3, <1>9
  <2>. QED BY <2>1 DEF CycOff, CycResult
<1>10. CASE \E n \in Cycle!Near(d.awards) : r = [d EXCEPT !.awards = n]
  <2>1. \E n \in Nat : r = [d EXCEPT !.awards = n] BY <1>1, <1>3, <1>10
  <2>. QED BY <2>1 DEF CycOff, CycResult
<1>11. CASE \E x \in Cycle!Other({Cycle!NoWheel, "INSTANT"} \cup Cycle!Features, d.wheel) : r = [d EXCEPT !.wheel = x]
  BY <1>2, <1>11 DEF CycOff, CycResult, Cycle!Features, Cycle!NoWheel
<1>12. CASE \E c \in [count : Nat, total : Nat, level : Nat, triggered : BOOLEAN, guaranteed : BOOLEAN] :
              r = [d EXCEPT !.collection = c]
  BY <1>12 DEF CycOff, CycResult
<1>13. CASE \E c \in [mode : {"none", "EXPANSION", "OVERDRIVE"}, awarded : Nat] : r = [d EXCEPT !.started = c]
  BY <1>13 DEF CycOff, CycResult
<1>14. CASE \E c \in [mode : {"none", "EXPANSION", "OVERDRIVE"}, awarded : Nat, win : Nat] :
              r = [d EXCEPT !.completed = c]
  BY <1>14 DEF CycOff, CycResult
<1>15. CASE \E c \in CycNext : r = [d EXCEPT !.next = c]
  BY <1>15 DEF CycOff, CycResult
<1>16. ASSUME \/ r = [d EXCEPT !.collection.triggered = ~d.collection.triggered]
              \/ r = [d EXCEPT !.collection.guaranteed = ~d.collection.guaranteed]
              \/ r = [d EXCEPT !.collection = Cycle!NoCollection]
              \/ \E n \in Cycle!Near(d.collection.total) : r = [d EXCEPT !.collection.total = n]
       PROVE  \E c \in [count : Nat, total : Nat, level : Nat, triggered : BOOLEAN, guaranteed : BOOLEAN] :
                r = [d EXCEPT !.collection = c]
  <2>. DEFINE a == ~d.collection.triggered
              b == ~d.collection.guaranteed
  <2>1. a \in BOOLEAN /\ b \in BOOLEAN OBVIOUS
  <2>2. \/ r = [d EXCEPT !.collection.triggered = a] \/ r = [d EXCEPT !.collection.guaranteed = b]
        \/ r = [d EXCEPT !.collection = Cycle!NoCollection]
        \/ \E n \in Nat : r = [d EXCEPT !.collection.total = n]
    BY <1>1, <1>5, <1>16
  <2>. HIDE DEF a, b
  <2>3. CASE r = [d EXCEPT !.collection.triggered = a]
    <3>1. [d.collection EXCEPT !.triggered = a] \in
            [count : Nat, total : Nat, level : Nat, triggered : BOOLEAN, guaranteed : BOOLEAN]
      BY <1>4, <2>1
    <3>. QED BY <2>3, <3>1
  <2>4. CASE r = [d EXCEPT !.collection.guaranteed = b]
    <3>1. [d.collection EXCEPT !.guaranteed = b] \in
            [count : Nat, total : Nat, level : Nat, triggered : BOOLEAN, guaranteed : BOOLEAN]
      BY <1>4, <2>1
    <3>. QED BY <2>4, <3>1
  <2>5. CASE r = [d EXCEPT !.collection = Cycle!NoCollection]
    BY <2>5 DEF Cycle!NoCollection
  <2>6. CASE \E n \in Nat : r = [d EXCEPT !.collection.total = n]
    <3>1. PICK n \in Nat : r = [d EXCEPT !.collection.total = n] BY <2>6
    <3>2. [d.collection EXCEPT !.total = n] \in
            [count : Nat, total : Nat, level : Nat, triggered : BOOLEAN, guaranteed : BOOLEAN]
      BY <1>4
    <3>. QED BY <3>1, <3>2
  <2>. QED BY <2>2, <2>3, <2>4, <2>5, <2>6
<1>17. ASSUME \/ r = [d EXCEPT !.started = Cycle!NotStarted]
              \/ \E x \in Cycle!Other(Cycle!Features, d.started.mode) : r = [d EXCEPT !.started.mode = x]
              \/ \E n \in Cycle!Near(d.started.awarded) : r = [d EXCEPT !.started.awarded = n]
       PROVE  \E c \in [mode : {"none", "EXPANSION", "OVERDRIVE"}, awarded : Nat] : r = [d EXCEPT !.started = c]
  <2>1. CASE r = [d EXCEPT !.started = Cycle!NotStarted] BY <2>1 DEF Cycle!NotStarted
  <2>2. CASE \E x \in Cycle!Other(Cycle!Features, d.started.mode) : r = [d EXCEPT !.started.mode = x]
    <3>1. PICK x \in {"none", "EXPANSION", "OVERDRIVE"} : r = [d EXCEPT !.started.mode = x]
      BY <1>2, <2>2 DEF Cycle!Features
    <3>2. [d.started EXCEPT !.mode = x] \in [mode : {"none", "EXPANSION", "OVERDRIVE"}, awarded : Nat]
      BY <1>4
    <3>. QED BY <3>1, <3>2
  <2>3. CASE \E n \in Cycle!Near(d.started.awarded) : r = [d EXCEPT !.started.awarded = n]
    <3>1. PICK n \in Nat : r = [d EXCEPT !.started.awarded = n] BY <1>1, <1>5, <2>3
    <3>2. [d.started EXCEPT !.awarded = n] \in [mode : {"none", "EXPANSION", "OVERDRIVE"}, awarded : Nat]
      BY <1>4
    <3>. QED BY <3>1, <3>2
  <2>. QED BY <1>17, <2>1, <2>2, <2>3
<1>18. ASSUME \/ r = [d EXCEPT !.completed = Cycle!NotCompleted]
              \/ \E n \in Cycle!Near(d.completed.awarded) : r = [d EXCEPT !.completed.awarded = n]
              \/ \E n \in Cycle!Near(d.completed.win) : r = [d EXCEPT !.completed.win = n]
       PROVE  \E c \in [mode : {"none", "EXPANSION", "OVERDRIVE"}, awarded : Nat, win : Nat] :
                r = [d EXCEPT !.completed = c]
  <2>1. CASE r = [d EXCEPT !.completed = Cycle!NotCompleted] BY <2>1 DEF Cycle!NotCompleted
  <2>2. CASE \E n \in Cycle!Near(d.completed.awarded) : r = [d EXCEPT !.completed.awarded = n]
    <3>1. PICK n \in Nat : r = [d EXCEPT !.completed.awarded = n] BY <1>1, <1>5, <2>2
    <3>2. [d.completed EXCEPT !.awarded = n] \in
            [mode : {"none", "EXPANSION", "OVERDRIVE"}, awarded : Nat, win : Nat]
      BY <1>4
    <3>. QED BY <3>1, <3>2
  <2>3. CASE \E n \in Cycle!Near(d.completed.win) : r = [d EXCEPT !.completed.win = n]
    <3>1. PICK n \in Nat : r = [d EXCEPT !.completed.win = n] BY <1>1, <1>5, <2>3
    <3>2. [d.completed EXCEPT !.win = n] \in
            [mode : {"none", "EXPANSION", "OVERDRIVE"}, awarded : Nat, win : Nat]
      BY <1>4
    <3>. QED BY <3>1, <3>2
  <2>. QED BY <1>18, <2>1, <2>2, <2>3
<1>19. ASSUME \/ r = [d EXCEPT !.next.bet = "other"]
              \/ \E x \in Cycle!Other(Cycle!Modes, d.next.mode) : r = [d EXCEPT !.next.mode = x]
              \/ \E n \in Cycle!Near(d.next.remaining) : r = [d EXCEPT !.next.remaining = n]
              \/ \E n \in Cycle!Near(d.next.played) : r = [d EXCEPT !.next.played = n]
              \/ \E n \in Cycle!Near(d.next.win) : r = [d EXCEPT !.next.win = n]
              \/ \E n \in 1..MaxLevel : r = [d EXCEPT !.next.level = n]
              \/ \E n \in 0..MaxCollected : r = [d EXCEPT !.next.collected = n]
       PROVE  \E c \in CycNext : r = [d EXCEPT !.next = c]
  <2>1. CASE r = [d EXCEPT !.next.bet = "other"]
    <3>1. [d.next EXCEPT !.bet = "other"] \in CycNext BY <1>3 DEF CycNext
    <3>. QED BY <2>1, <3>1
  <2>2. CASE \E x \in Cycle!Other(Cycle!Modes, d.next.mode) : r = [d EXCEPT !.next.mode = x]
    <3>1. PICK x \in Cycle!Modes : r = [d EXCEPT !.next.mode = x] BY <1>2, <2>2
    <3>2. [d.next EXCEPT !.mode = x] \in CycNext BY <1>3 DEF CycNext
    <3>. QED BY <3>1, <3>2
  <2>3. CASE \E n \in Cycle!Near(d.next.remaining) : r = [d EXCEPT !.next.remaining = n]
    <3>1. PICK n \in Nat : r = [d EXCEPT !.next.remaining = n] BY <1>1, <1>5, <2>3
    <3>2. [d.next EXCEPT !.remaining = n] \in CycNext BY <1>3 DEF CycNext
    <3>. QED BY <3>1, <3>2
  <2>4. CASE \E n \in Cycle!Near(d.next.played) : r = [d EXCEPT !.next.played = n]
    <3>1. PICK n \in Nat : r = [d EXCEPT !.next.played = n] BY <1>1, <1>5, <2>4
    <3>2. [d.next EXCEPT !.played = n] \in CycNext BY <1>3 DEF CycNext
    <3>. QED BY <3>1, <3>2
  <2>5. CASE \E n \in Cycle!Near(d.next.win) : r = [d EXCEPT !.next.win = n]
    <3>1. PICK n \in Nat : r = [d EXCEPT !.next.win = n] BY <1>1, <1>5, <2>5
    <3>2. [d.next EXCEPT !.win = n] \in CycNext BY <1>3 DEF CycNext
    <3>. QED BY <3>1, <3>2
  <2>6. CASE \E n \in 1..MaxLevel : r = [d EXCEPT !.next.level = n]
    <3>1. PICK n \in 1..MaxLevel : r = [d EXCEPT !.next.level = n] BY <2>6
    <3>2. [d.next EXCEPT !.level = n] \in CycNext BY <1>3 DEF CycNext
    <3>. QED BY <3>1, <3>2
  <2>7. CASE \E n \in 0..MaxCollected : r = [d EXCEPT !.next.collected = n]
    <3>1. PICK n \in 0..MaxCollected : r = [d EXCEPT !.next.collected = n] BY <2>7
    <3>2. [d.next EXCEPT !.collected = n] \in CycNext BY <1>3 DEF CycNext
    <3>. QED BY <3>1, <3>2
  <2>. QED BY <1>19, <2>1, <2>2, <2>3, <2>4, <2>5, <2>6, <2>7
<1>. QED
  BY <1>6, <1>7, <1>8, <1>9, <1>10, <1>11, <1>12, <1>13, <1>14, <1>15, <1>16, <1>17, <1>18, <1>19
     DEF Cycle!OneWrong

\* What Book records of an accepted result r in a state o: the fields of the
\* next state, and the books of the cycle.
CycBooked(o, r, t) ==
  /\ t.mode = r.next.mode /\ t.remaining = r.next.remaining /\ t.played = r.next.played
  /\ t.win = r.next.win /\ t.bet = r.next.bet /\ t.level = r.next.level
  /\ t.collected = r.next.collected
  /\ t.awarded = IF r.next.mode = "BASE" THEN 0
                 ELSE (IF o.mode = "BASE" THEN r.started.awarded ELSE o.awarded) + r.awards
  /\ t.paid = IF r.next.mode = "BASE" THEN 0 ELSE (IF o.mode = "BASE" THEN 0 ELSE o.paid) + r.total
  /\ (t.told <=> r.next.mode # "BASE" /\ (r.cap \/ (o.mode # "BASE" /\ o.told)))
CycFields == [mode : Cycle!Modes, remaining : Nat, played : Nat, win : Nat, bet : {"locked", "other"},
              level : 1..MaxLevel, collected : 0..MaxCollected, awarded : Nat, paid : Nat, told : BOOLEAN]

\* Book: a result that is accepted moves the feature state to the next one, and the
\* counts of awards, money and the cap's notice with it.
LEMMA CycBooks ==
  ASSUME CycGood(now), NEW r \in CycResult, Cycle!Book(r)
  PROVE  now' \in CycFields /\ CycBooked(now, r, now')
<1>. DEFINE a == IF r.next.mode = "BASE" THEN 0
                 ELSE (IF now.mode = "BASE" THEN r.started.awarded ELSE now.awarded) + r.awards
            p == IF r.next.mode = "BASE" THEN 0 ELSE (IF now.mode = "BASE" THEN 0 ELSE now.paid) + r.total
            b == r.next.mode # "BASE" /\ (r.cap \/ (~(now.mode = "BASE") /\ now.told))
            n == r.next
            t == [mode |-> n.mode, remaining |-> n.remaining, played |-> n.played, win |-> n.win,
                  bet |-> n.bet, level |-> n.level, collected |-> n.collected,
                  awarded |-> a, paid |-> p, told |-> b]
<1>1. now' = t BY DEF Cycle!Book
<1>2. n \in CycNext /\ r.started.awarded \in Nat /\ r.awards \in Nat /\ r.total \in Nat /\ r.cap \in BOOLEAN
  BY DEF CycResult
<1>3. now.awarded \in 0..MaxAwarded /\ now.paid \in 0..WinCap /\ now.told \in BOOLEAN BY DEF CycGood, CycRec
<1>4. a \in Nat /\ p \in Nat BY <1>2, <1>3, CycleAssumption
<1>5. b \in BOOLEAN OBVIOUS
<1>6. b <=> r.next.mode # "BASE" /\ (r.cap \/ (now.mode # "BASE" /\ now.told)) OBVIOUS
<1>7. t.awarded = a /\ t.paid = p OBVIOUS
<1>8. CycBooked(now, r, t)
  <2>1. t.told <=> b OBVIOUS
  <2>2. t.told <=> r.next.mode # "BASE" /\ (r.cap \/ (now.mode # "BASE" /\ now.told)) BY <2>1, <1>6
  <2>. HIDE DEF b
  <2>. QED BY <2>2 DEF CycBooked
<1>. HIDE DEF a, p, b, n
<1>9. t \in CycFields BY <1>2, <1>4, <1>5 DEF CycFields, CycNext
<1>. HIDE DEF t
<1>. QED BY <1>1, <1>8, <1>9

CycStep(o, t) ==
  /\ CycGood(t)
  /\ o.mode # "BASE" /\ t.mode # o.mode => t.mode = "BASE" /\ o.remaining = 1
  /\ o.mode = "BASE" /\ t.mode # "BASE" => t.played = 0 /\ t.remaining = FirstSpins
  /\ o.mode # "BASE" => t.level = o.level /\ t.collected = o.collected
  /\ t.collected < o.collected => t.collected = 0 /\ t.level = 1

\* A result accepted in the base game: it stays there with no feature, or
\* starts a feature with all its spins; the cap is said when it is reached.
LEMMA CycAcceptsBase ==
  ASSUME NEW o, CycGood(o), o.mode = "BASE", NEW r \in CycResult, NEW d, CycOff(d, r),
         d.bet = "locked", d.next.bet = "locked", Cycle!BaseIsBare(r.next),
         Cycle!validateSpinResultAgainstOrigin(o, r), NEW t \in CycFields, CycBooked(o, r, t)
  PROVE  CycStep(o, t)
<1>. o \in CycRec BY DEF CycGood
<1>1. Cycle!FromBase(o, r) /\ Cycle!validateWinCapAgainstOrigin(o, r)
      /\ Cycle!validateRageEventsAgainstOrigin(o, r)
  BY DEF Cycle!validateSpinResultAgainstOrigin
<1>2. r.next \in CycNext /\ r.total \in Nat /\ r.cap \in BOOLEAN /\ r.started.awarded \in Nat
      /\ r.surge \in Nat /\ r.awards = 0 /\ r.collection.level \in Nat
  BY <1>1 DEF CycResult, Cycle!FromBase
<1>3. o.collected \in Nat /\ o.level \in Nat /\ t.collected \in Nat /\ t.level \in Nat
  BY CycleAssumption DEF CycRec, CycFields
<1>4. r.total <= WinCap /\ (r.cap => r.total = WinCap) /\ (~r.cap => r.total # WinCap)
  BY <1>1, <1>2, CycleAssumption DEF Cycle!validateWinCapAgainstOrigin, Cycle!CycleWin
<1>5. t.collected < o.collected => t.collected = 0 /\ t.level = 1
  <2>1. \/ t.collected = o.collected
        \/ t.collected = Cycle!Credited(o, r)
        \/ t.collected = 0 /\ t.level = 1
    BY <1>1 DEF CycBooked, Cycle!validateRageEventsAgainstOrigin, Cycle!Meter
  <2>2. Cycle!Credited(o, r) >= o.collected BY <1>2, <1>3 DEF Cycle!Credited
  <2>3. Cycle!Credited(o, r) \in Nat BY <1>2, <1>3 DEF Cycle!Credited
  <2>. QED BY <1>3, <2>1, <2>2, <2>3
<1>6. t.level \in 1..MaxLevel /\ t.collected \in 0..MaxCollected /\ t.mode \in Cycle!Modes BY DEF CycFields
<1>7. CASE r.next.mode = "BASE"
  <2>1. t.mode = "BASE" /\ t.remaining = 0 /\ t.played = 0 /\ t.win = 0 /\ t.bet = "locked"
    BY <1>7 DEF CycBooked, Cycle!BaseIsBare
  <2>2. t.awarded = 0 /\ t.paid = 0 BY <1>7 DEF CycBooked
  <2>3. t.told = FALSE BY <1>7, t.told \in BOOLEAN DEF CycBooked, CycFields
  <2>4. t \in CycRec BY <1>6, <2>1, <2>2, <2>3, CycleAssumption DEF CycRec, CycFields
  <2>5. CycGood(t) BY <2>1, <2>2, <2>3, <2>4 DEF CycGood
  <2>. QED BY <1>5, <2>1, <2>5 DEF CycStep
<1>8. CASE r.next.mode # "BASE"
  <2>1. /\ r.started.awarded = FirstSpins /\ r.next.remaining = FirstSpins /\ r.next.played = 0
        /\ r.next.bet = r.bet /\ r.next.win = r.total
    BY <1>1, <1>8 DEF Cycle!FromBase
  <2>2. t.mode # "BASE" /\ t.remaining = FirstSpins /\ t.played = 0 /\ t.win = r.total /\ t.bet = r.next.bet
    BY <1>8, <2>1 DEF CycBooked
  <2>3. t.awarded = FirstSpins /\ t.paid = r.total
    BY <1>2, <1>8, <2>1, CycleAssumption DEF CycBooked
  <2>4. t.told <=> r.cap BY <1>8 DEF CycBooked
  <2>5. t.bet = "locked" BY <2>1, <2>2 DEF CycOff
  <2>6. t.told \in BOOLEAN BY DEF CycFields
  <2>7. t.told <=> t.paid = WinCap BY <1>2, <1>4, <2>3, <2>4
  <2>8. t \in CycRec BY <1>2, <1>4, <1>6, <2>2, <2>3, <2>5, <2>6, CycleAssumption DEF CycRec, CycFields
  <2>9. CycGood(t) BY <2>2, <2>3, <2>5, <2>7, <2>8, CycleAssumption DEF CycGood
  <2>. QED BY <1>5, <2>2, <2>9 DEF CycStep
<1>. QED BY <1>7, <1>8

\* A result accepted in a feature: the spin is played, the awards are added,
\* and the last spin alone leaves the feature.
LEMMA CycAcceptsFree ==
  ASSUME NEW o, CycGood(o), o.mode # "BASE", NEW r \in CycResult, NEW d, CycOff(d, r),
         d.bet = "locked", d.next.bet = "locked", d.awards \in Nat, o.awarded + d.awards <= MaxAwarded,
         o.remaining > 1 \/ d.awards > 0 => d.next.remaining = o.remaining - 1 + d.awards,
         o.remaining = 1 /\ d.awards = 0 => d.next.mode = "BASE",
         Cycle!BaseIsBare(r.next),
         Cycle!validateSpinResultAgainstOrigin(o, r), NEW t \in CycFields, CycBooked(o, r, t)
  PROVE  CycStep(o, t)
<1>. o \in CycRec BY DEF CycGood
<1>1. Cycle!FromFeature(o, r) /\ Cycle!validateWinCapAgainstOrigin(o, r)
  BY DEF Cycle!validateSpinResultAgainstOrigin
<1>2. r.next \in CycNext /\ r.total \in Nat /\ r.cap \in BOOLEAN /\ r.awards \in Nat
  BY DEF CycResult
<1>3. /\ o.remaining \in Nat /\ o.played \in Nat /\ o.win \in Nat /\ o.paid \in Nat /\ o.awarded \in Nat
      /\ o.told \in BOOLEAN /\ o.level \in Nat /\ o.collected \in Nat
  BY CycleAssumption DEF CycRec
<1>4. /\ o.played + o.remaining = o.awarded /\ o.remaining > 0
      /\ o.win = o.paid /\ (o.told <=> o.paid = WinCap) /\ o.bet = "locked"
  BY DEF CycGood
<1>5. /\ o.win + r.total <= WinCap /\ (r.cap => o.win + r.total = WinCap)
      /\ (~r.cap => ~(o.win + r.total = WinCap /\ r.total > 0))
  BY <1>1, <1>2, <1>3, CycleAssumption DEF Cycle!validateWinCapAgainstOrigin, Cycle!CycleWin
<1>6. t.level = o.level /\ t.collected = o.collected
  BY <1>1 DEF Cycle!FromFeature, Cycle!Meter, CycBooked
<1>7. t.level \in 1..MaxLevel /\ t.collected \in 0..MaxCollected /\ t.mode \in Cycle!Modes BY DEF CycFields
<1>8. \/ /\ o.remaining - 1 + r.awards > 0 /\ r.next.mode = o.mode
         /\ r.next.remaining = o.remaining - 1 + r.awards /\ r.next.played = o.played + 1
         /\ r.next.bet = o.bet /\ r.next.win = o.win + r.total
      \/ o.remaining - 1 + r.awards = 0 /\ r.next.mode = "BASE"
  BY <1>1 DEF Cycle!FromFeature
<1>9. CASE r.next.mode = "BASE"
  <2>1. t.mode = "BASE" /\ t.remaining = 0 /\ t.played = 0 /\ t.win = 0 /\ t.bet = "locked"
    BY <1>9 DEF CycBooked, Cycle!BaseIsBare
  <2>2. t.awarded = 0 /\ t.paid = 0 BY <1>9 DEF CycBooked
  <2>3. t.told = FALSE BY <1>9, t.told \in BOOLEAN DEF CycBooked, CycFields
  <2>4. t \in CycRec BY <1>7, <2>1, <2>2, <2>3, CycleAssumption DEF CycRec, CycFields
  <2>5. CycGood(t) BY <2>1, <2>2, <2>3, <2>4 DEF CycGood
  <2>6. o.remaining - 1 + r.awards = 0 BY <1>8, <1>9
  <2>7. o.remaining = 1 BY <1>2, <1>3, <1>4, <2>6
  <2>8. ~(t.collected < o.collected) BY <1>3, <1>6
  <2>. QED BY <1>6, <2>1, <2>5, <2>7, <2>8 DEF CycStep
<1>10. CASE r.next.mode # "BASE"
  <2>1. /\ o.remaining - 1 + r.awards > 0 /\ r.next.mode = o.mode
        /\ r.next.remaining = o.remaining - 1 + r.awards /\ r.next.played = o.played + 1
        /\ r.next.bet = o.bet /\ r.next.win = o.win + r.total
    BY <1>8, <1>10
  <2>2. r.awards = d.awards
    <3>1. CASE r.awards # d.awards
      <4>1. r.next = d.next BY <3>1 DEF CycOff
      <4>2. d.next.remaining = o.remaining - 1 + r.awards /\ d.next.mode # "BASE" BY <1>10, <2>1, <4>1
      <4>3. o.remaining > 1 \/ d.awards > 0 BY <1>3, <1>4, <4>2
      <4>4. o.remaining - 1 + d.awards = o.remaining - 1 + r.awards BY <4>2, <4>3
      <4>. QED BY <1>2, <1>3, <3>1, <4>4
    <3>. QED BY <3>1
  <2>3. t.mode = o.mode /\ t.remaining = o.remaining - 1 + r.awards /\ t.played = o.played + 1
        /\ t.win = o.win + r.total /\ t.bet = "locked"
    BY <1>4, <2>1 DEF CycBooked
  <2>4. t.awarded = o.awarded + r.awards /\ t.paid = o.paid + r.total
    BY <1>10 DEF CycBooked
  <2>5. t.told <=> r.cap \/ o.told BY <1>10 DEF CycBooked
  <2>6. t.told \in BOOLEAN BY DEF CycFields
  <2>7. t.told <=> t.paid = WinCap BY <1>2, <1>3, <1>4, <1>5, <2>4, <2>5, CycleAssumption
  <2>8. t.awarded \in 0..MaxAwarded /\ t.remaining \in 0..MaxAwarded /\ t.played \in 0..MaxAwarded
        /\ t.win \in 0..WinCap /\ t.paid \in 0..WinCap
    BY <1>2, <1>3, <1>4, <1>5, <2>1, <2>2, <2>3, <2>4, CycleAssumption
  <2>9. t.played + t.remaining = t.awarded /\ t.remaining > 0 /\ t.win = t.paid
    BY <1>2, <1>3, <1>4, <2>1, <2>3, <2>4
  <2>10. t \in CycRec BY <1>7, <2>3, <2>6, <2>8 DEF CycRec, CycFields
  <2>11. CycGood(t) BY <2>3, <2>7, <2>9, <2>10 DEF CycGood
  <2>12. ~(t.collected < o.collected) BY <1>3, <1>6
  <2>. QED BY <1>6, <2>3, <2>11, <2>12 DEF CycStep
<1>. QED BY <1>9, <1>10

\* A free spin leaves one spin less and those it awards, or ends the feature.
LEMMA CycFreeNext ==
  ASSUME NEW o, CycGood(o), o.mode # "BASE", NEW d \in Cycle!Sound(o)
  PROVE  /\ o.remaining > 1 \/ d.awards > 0 => d.next.remaining = o.remaining - 1 + d.awards
         /\ o.remaining = 1 /\ d.awards = 0 => d.next.mode = "BASE"
<1>. o \in CycRec BY DEF CycGood
<1>1. o.awarded \in 0..MaxAwarded /\ o.remaining \in Nat /\ o.remaining > 0
  BY CycleAssumption DEF CycGood, CycRec
<1>2. PICK win \in WinTotals, k \in 0..1 :
        /\ o.paid + win <= WinCap /\ (k = 0 \/ o.awarded < MaxAwarded) /\ d = Cycle!Free(o, win, k)
  BY DEF Cycle!Sound
<1>3. win \in 0..WinCap /\ o.awarded + k <= MaxAwarded BY <1>1, <1>2, CycleAssumption
<1>4. d.awards = k BY <1>2, <1>3, CycFree
<1>. DEFINE p == Cycle!Plain(o, win)
            h == o.remaining - 1 + k
            f == IF h > 0 THEN p.completed ELSE [mode |-> o.mode, awarded |-> o.awarded + k, win |-> o.paid + win]
            t == IF h > 0 THEN Cycle!FeatureState(o.mode, h, o.played + 1, o.paid + win, o.level, o.collected)
                 ELSE p.next
            e == [p EXCEPT !.awards = k, !.completed = f, !.next = t]
<1>5. p \in CycResult BY <1>3, CycPlain
<1>6. d = e BY <1>2 DEF Cycle!Free
<1>7. p.next.mode = "BASE" BY DEF Cycle!Plain, Cycle!FeatureState
<1>8. (h > 0 => t.remaining = h) /\ (~(h > 0) => t.mode = "BASE") BY <1>7 DEF Cycle!FeatureState
<1>. HIDE DEF p, t, f
<1>9. e.next = t BY <1>5 DEF CycResult
<1>. QED BY <1>1, <1>4, <1>6, <1>8, <1>9

\* Accepting a result keeps the books, ends a feature at its last spin only,
\* and leaves the meter as the result's own events say.
LEMMA CycAccepts ==
  ASSUME CycInv, NEW from, Cycle!AcceptFrom(from)
  PROVE  CycStep(now, now')
<1>0. PICK d \in Cycle!Sound(now) : \E r \in {d} \cup Cycle!OneWrong(d) :
        /\ Cycle!BaseIsBare(r.next) /\ Cycle!validateSpinResultAgainstOrigin(now, r) /\ Cycle!Book(r)
  BY DEF Cycle!AcceptFrom
<1>1. PICK r \in {d} \cup Cycle!OneWrong(d) :
        Cycle!BaseIsBare(r.next) /\ Cycle!validateSpinResultAgainstOrigin(now, r) /\ Cycle!Book(r)
  BY <1>0
<1>2. CycGood(now) BY DEF CycInv
<1>3. d \in CycResult /\ d.bet = "locked" /\ d.next.bet = "locked"
      /\ d.awards \in Nat /\ now.awarded + d.awards <= MaxAwarded
  BY <1>2, CycSound
<1>4. CycOff(d, r) /\ r \in CycResult BY <1>3, CycOneWrong DEF CycOff
<1>5. now' \in CycFields /\ CycBooked(now, r, now') BY <1>1, <1>2, <1>4, CycBooks
<1>. HIDE DEF CycInv
<1>6. CASE now.mode = "BASE" BY <1>1, <1>2, <1>3, <1>4, <1>5, <1>6, CycAcceptsBase
<1>7. CASE now.mode # "BASE"
  <2>1. /\ now.remaining > 1 \/ d.awards > 0 => d.next.remaining = now.remaining - 1 + d.awards
        /\ now.remaining = 1 /\ d.awards = 0 => d.next.mode = "BASE"
    BY <1>2, <1>7, CycFreeNext
  <2>. QED BY <1>1, <1>2, <1>3, <1>4, <1>5, <1>7, <2>1, CycAcceptsFree
<1>. QED BY <1>6, <1>7

\* The page starts in the base game, with an empty meter.
LEMMA CycStarts == ASSUME Cycle!Init PROVE CycInv
BY CycleAssumption DEF Cycle!Init, CycInv, CycGood, CycRec, Cycle!Modes

\* Every accepted result keeps the books of the cycle.
LEMMA CycSteps == ASSUME CycInv, Cycle!Next PROVE CycInv'
<1>1. CycStep(now, now') BY CycAccepts DEF Cycle!Next, Cycle!AcceptBaseSpin, Cycle!AcceptFreeSpin
<1>. QED BY <1>1 DEF CycStep, CycInv

\* A feature is left at its last spin and entered with all its spins; the
\* meter is emptied by a trigger alone.
LEMMA CycWholeSteps == ASSUME CycInv, Cycle!Next PROVE Cycle!CycleWhole /\ Cycle!MeterKept
<1>1. CycStep(now, now') BY CycAccepts DEF Cycle!Next, Cycle!AcceptBaseSpin, Cycle!AcceptFreeSpin
<1>. QED BY <1>1 DEF CycStep, Cycle!CycleWhole, Cycle!MeterKept, Cycle!Meter

CycPasses(o, r) == Cycle!validateResultReelProjection(r) /\ Cycle!validateSpinResultAgainstOrigin(o, r)

\* In the base game only the spin's own win counts against the cap.
LEMMA CycBaseWin ==
  ASSUME NEW o, o.mode = "BASE", NEW win \in 0..WinCap
  PROVE  Cycle!CycleWin(o, [total |-> win]) = WinCap /\ win > 0 <=> win = WinCap
<1>1. Cycle!CycleWin(o, [total |-> win]) = 0 + win BY DEF Cycle!CycleWin
<1>2. Cycle!CycleWin(o, [total |-> win]) = win BY <1>1, CycleAssumption
<1>. QED BY <1>2, CycleAssumption

CycPlainIs(q, o, win) ==
  /\ q.bet = "locked" /\ q.total = win /\ q.clipped = FALSE
  /\ (o.mode = "BASE" => q.charged = "locked" /\ q.rows = 3 /\ q.expanded = 0)
  /\ (q.cap <=> Cycle!CycleWin(o, [total |-> win]) = WinCap /\ win > 0)
  /\ (o.mode = "BASE" => (q.cap <=> win = WinCap))
  /\ (q.nominal <=> win > 0) /\ q.surge = 0 /\ q.collection = Cycle!NoCollection
  /\ q.transformed = 0 /\ q.wheel = "none" /\ q.wheelStarted = FALSE
  /\ q.started = Cycle!NotStarted /\ q.completed = Cycle!NotCompleted /\ q.awards = 0
  /\ q.next.mode = "BASE" /\ q.next.level = o.level /\ q.next.collected = o.collected
\* What the plain result of a spin says: it is charged in the base game only,
\* and says the cap exactly when its win reaches it.
LEMMA CycPlainFields ==
  ASSUME NEW o \in CycRec, NEW win \in 0..WinCap
  PROVE  CycPlainIs(Cycle!Plain(o, win), o, win)
<1>. DEFINE q == Cycle!Plain(o, win)
<1>1. /\ q.bet = "locked" /\ q.total = win /\ q.clipped = FALSE
      /\ (o.mode = "BASE" => q.charged = "locked" /\ q.rows = 3 /\ q.expanded = 0)
      /\ (q.cap <=> Cycle!CycleWin(o, [total |-> win]) = WinCap /\ win > 0)
      /\ (q.nominal <=> win > 0) /\ q.surge = 0 /\ q.collection = Cycle!NoCollection
      /\ q.transformed = 0 /\ q.wheel = "none" /\ q.wheelStarted = FALSE
      /\ q.started = Cycle!NotStarted /\ q.completed = Cycle!NotCompleted /\ q.awards = 0
      /\ q.next.mode = "BASE" /\ q.next.level = o.level /\ q.next.collected = o.collected
  BY DEF Cycle!Plain, Cycle!FeatureState, Cycle!NoWheel, CycRec
<1>. HIDE DEF q
<1>2. o.mode = "BASE" => (q.cap <=> win = WinCap) BY <1>1, CycBaseWin
<1>. QED BY <1>1, <1>2 DEF q, CycPlainIs

\* The guard accepts the plain result of a base spin.
LEMMA CycPlainPasses ==
  ASSUME NEW o \in CycRec, o.mode = "BASE", NEW win \in 0..WinCap
  PROVE  CycPasses(o, Cycle!Plain(o, win))
<1>. DEFINE p == Cycle!Plain(o, win)
<1>0. CycPlainIs(p, o, win) BY CycPlainFields
<1>. HIDE DEF p
<1>1. /\ p.charged = "locked" /\ p.bet = "locked" /\ p.total = win /\ p.clipped = FALSE
      /\ (p.cap <=> win = WinCap) /\ (p.nominal <=> win > 0)
      /\ p.rows = 3 /\ p.expanded = 0 /\ p.surge = 0 /\ p.collection = Cycle!NoCollection
      /\ p.transformed = 0 /\ p.wheel = "none" /\ p.wheelStarted = FALSE
      /\ p.started = Cycle!NotStarted /\ p.completed = Cycle!NotCompleted /\ p.awards = 0
      /\ p.next.mode = "BASE" /\ p.next.level = o.level /\ p.next.collected = o.collected
  BY <1>0 DEF CycPlainIs
<1>. HIDE DEF p
<1>2. Cycle!validateResultReelProjection(p)
  BY <1>1 DEF Cycle!validateResultReelProjection, Cycle!NotStarted, Cycle!NotCompleted
<1>3. Cycle!validateWinCapAgainstOrigin(o, p)
  BY <1>1, CycleAssumption DEF Cycle!validateWinCapAgainstOrigin, Cycle!CycleWin
<1>4. Cycle!Rows(o, p) BY <1>1 DEF Cycle!Rows
<1>5. Cycle!validateRageEventsAgainstOrigin(o, p)
  BY <1>1 DEF Cycle!validateRageEventsAgainstOrigin, Cycle!NoRage, Cycle!NoTransition, Cycle!NoWheel, Cycle!Meter
<1>6. Cycle!FromBase(o, p) BY <1>1 DEF Cycle!FromBase, Cycle!NoWheel
<1>. QED BY <1>1, <1>2, <1>3, <1>4, <1>5, <1>6 DEF CycPasses, Cycle!validateSpinResultAgainstOrigin, p

\* The guard accepts symbols that fill the meter.
LEMMA CycCollectedPasses ==
  ASSUME NEW o \in CycRec, o.mode = "BASE", NEW win \in 0..WinCap, NEW n \in 1..2,
         o.collected + n <= MaxCollected, NEW level \in o.level..MaxLevel
  PROVE  CycPasses(o, Cycle!Collected(o, win, n, level))
<1>. DEFINE q == Cycle!Plain(o, win)
            p == Cycle!Collected(o, win, n, level)
<1>0. CycPlainIs(q, o, win) BY CycPlainFields
<1>. HIDE DEF q
<1>1. q \in CycResult BY CycPlain DEF q
<1>2. /\ q.charged = "locked" /\ q.bet = "locked" /\ q.total = win /\ q.clipped = FALSE
      /\ (q.cap <=> win = WinCap) /\ (q.nominal <=> win > 0)
      /\ q.rows = 3 /\ q.expanded = 0
      /\ q.transformed = 0 /\ q.wheel = "none" /\ q.wheelStarted = FALSE
      /\ q.started = Cycle!NotStarted /\ q.completed = Cycle!NotCompleted /\ q.awards = 0
      /\ q.next.mode = "BASE"
  BY <1>0 DEF CycPlainIs
<1>. HIDE DEF q
<1>3. p = [q EXCEPT !.surge = n, !.next.collected = o.collected + n, !.next.level = level,
     !.collection = [count |-> n, total |-> o.collected + n, level |-> level,
                     triggered |-> FALSE, guaranteed |-> FALSE]]
  BY DEF Cycle!Collected, q
<1>4. q.next \in CycNext BY <1>1 DEF CycResult
<1>. HIDE DEF p
<1>5. /\ p.charged = q.charged /\ p.bet = q.bet /\ p.total = q.total /\ p.clipped = q.clipped
      /\ p.cap = q.cap /\ p.nominal = q.nominal /\ p.rows = q.rows /\ p.expanded = q.expanded
      /\ p.transformed = q.transformed /\ p.wheel = q.wheel /\ p.wheelStarted = q.wheelStarted
      /\ p.started = q.started /\ p.completed = q.completed /\ p.awards = q.awards
  BY <1>1, <1>3 DEF CycResult
<1>6. /\ p.surge = n
      /\ p.collection = [count |-> n, total |-> o.collected + n, level |-> level,
                         triggered |-> FALSE, guaranteed |-> FALSE]
      /\ p.next.mode = "BASE" /\ p.next.level = level /\ p.next.collected = o.collected + n
  BY <1>1, <1>2, <1>3, <1>4 DEF CycResult, CycNext
<1>7. Cycle!validateResultReelProjection(p)
  BY <1>2, <1>5, <1>6 DEF Cycle!validateResultReelProjection, Cycle!NotStarted, Cycle!NotCompleted
<1>8. Cycle!validateWinCapAgainstOrigin(o, p)
  BY <1>2, <1>5, CycleAssumption DEF Cycle!validateWinCapAgainstOrigin, Cycle!CycleWin
<1>9. Cycle!Rows(o, p) BY <1>2, <1>5 DEF Cycle!Rows
<1>10. o.level \in 1..MaxLevel /\ level \in Nat /\ level >= 1 BY CycleAssumption DEF CycRec
<1>11. Cycle!Collects(o, p)
  BY <1>6, <1>10 DEF Cycle!Collects, Cycle!Credited
<1>12. Cycle!NoTransition(p)
  BY <1>2, <1>5 DEF Cycle!NoTransition, Cycle!NoWheel
<1>13. Cycle!Credited(o, p) = o.collected + n BY <1>6 DEF Cycle!Credited
<1>14. p.transformed = 0 /\ p.surge \in 1..3 BY <1>2, <1>5, <1>6
<1>15. Cycle!validateRageEventsAgainstOrigin(o, p)
  BY <1>6, <1>11, <1>12, <1>13, <1>14 DEF Cycle!validateRageEventsAgainstOrigin, Cycle!Meter
<1>16. Cycle!FromBase(o, p) BY <1>2, <1>5, <1>6 DEF Cycle!FromBase, Cycle!NoWheel
<1>. QED BY <1>2, <1>5, <1>7, <1>8, <1>9, <1>15, <1>16 DEF CycPasses, Cycle!validateSpinResultAgainstOrigin, p

\* The guard accepts symbols that open the wheel.
LEMMA CycTriggeredPasses ==
  ASSUME NEW o \in CycRec, o.mode = "BASE", NEW win \in 0..WinCap, NEW n \in 1..3,
         NEW wheel \in {"INSTANT", "EXPANSION", "OVERDRIVE"}, wheel = "INSTANT" => win = 1
  PROVE  CycPasses(o, Cycle!Triggered(o, win, n, wheel))
<1>. DEFINE q == Cycle!Plain(o, win)
            p == Cycle!Triggered(o, win, n, wheel)
            m == IF n = 3 THEN Cycle!Meter(o) ELSE <<1, 0>>
            z == CASE wheel = "INSTANT" -> "MINI" [] wheel = "EXPANSION" -> "KONG_QUEST"
                   [] OTHER -> "KING_SPIN"
            x == IF wheel = "INSTANT" THEN 1 ELSE 0
            a == IF wheel = "INSTANT" THEN win ELSE 0
            b == q.nominal \/ wheel = "INSTANT"
            f == IF wheel = "INSTANT" THEN q.started ELSE [mode |-> wheel, awarded |-> FirstSpins]
            t == IF wheel = "INSTANT" THEN Cycle!FeatureState("BASE", 0, 0, 0, m[1], m[2])
                 ELSE Cycle!FeatureState(wheel, FirstSpins, 0, win, m[1], m[2])
            c == [count |-> n, total |-> m[2], level |-> m[1], triggered |-> TRUE, guaranteed |-> n = 3]
            e == 3 - n
            d == [q EXCEPT !.surge = n, !.transformed = e, !.wheelStarted = TRUE, !.wheel = wheel,
                           !.collection = c, !.prize = z, !.multiplier = x, !.amount = a,
                           !.nominal = b, !.started = f, !.next = t]
<1>0. CycPlainIs(q, o, win) BY CycPlainFields
<1>. HIDE DEF q
<1>1. q \in CycResult BY CycPlain DEF q
<1>2. /\ q.charged = "locked" /\ q.bet = "locked" /\ q.total = win /\ q.clipped = FALSE
      /\ (q.cap <=> win = WinCap) /\ (q.nominal <=> win > 0)
      /\ q.rows = 3 /\ q.expanded = 0
      /\ q.started = Cycle!NotStarted /\ q.completed = Cycle!NotCompleted /\ q.awards = 0
  BY <1>0 DEF CycPlainIs
<1>3. p = d BY DEF Cycle!Triggered, q
<1>4. /\ (wheel = "INSTANT" => z = "MINI" /\ x = 1 /\ a = 1 /\ f = Cycle!NotStarted /\ t.mode = "BASE"
                               /\ t.remaining = 0 /\ t.played = 0)
      /\ (wheel # "INSTANT" => x = 0 /\ a = 0 /\ f = [mode |-> wheel, awarded |-> FirstSpins]
                               /\ t.mode = wheel /\ t.remaining = FirstSpins /\ t.played = 0 /\ t.win = win)
      /\ (wheel # "INSTANT" => z = IF wheel = "EXPANSION" THEN "KONG_QUEST" ELSE "KING_SPIN")
      /\ t.level = m[1] /\ t.collected = m[2] /\ t.bet = "locked"
  BY <1>2 DEF Cycle!FeatureState
<1>5. q.nominal => b OBVIOUS
<1>6. c.count = n /\ c.total = m[2] /\ c.level = m[1] /\ c.triggered = TRUE /\ (c.guaranteed <=> n = 3)
  OBVIOUS
<1>7. m = IF n = 3 THEN <<o.level, o.collected>> ELSE <<1, 0>> BY DEF Cycle!Meter
<1>8. o.level \in 1..MaxLevel /\ o.collected \in 0..MaxCollected BY DEF CycRec
<1>. HIDE DEF q, p, m, z, x, a, b, f, t, c, e
<1>9. /\ p.charged = q.charged /\ p.bet = q.bet /\ p.total = q.total /\ p.clipped = q.clipped
      /\ p.cap = q.cap /\ p.rows = q.rows /\ p.expanded = q.expanded
      /\ p.completed = q.completed /\ p.awards = q.awards
  BY <1>1, <1>3 DEF CycResult
<1>10. /\ p.surge = n /\ p.transformed = e /\ p.wheelStarted = TRUE /\ p.wheel = wheel
       /\ p.collection = c /\ p.prize = z /\ p.multiplier = x /\ p.amount = a
       /\ p.nominal = b /\ p.started = f /\ p.next = t
  BY <1>1, <1>3 DEF CycResult
<1>11. p.started.mode = IF wheel = "INSTANT" THEN "none" ELSE wheel
  BY <1>4, <1>10 DEF Cycle!NotStarted
<1>12. Cycle!validateResultReelProjection(p)
  BY <1>2, <1>4, <1>9, <1>10, <1>11 DEF Cycle!validateResultReelProjection, Cycle!NotCompleted
<1>13. Cycle!validateWinCapAgainstOrigin(o, p)
  BY <1>2, <1>5, <1>9, <1>10, CycleAssumption DEF Cycle!validateWinCapAgainstOrigin, Cycle!CycleWin
<1>14. Cycle!Rows(o, p) BY <1>2, <1>9 DEF Cycle!Rows
<1>15. Cycle!Collects(o, p)
  BY <1>6, <1>7, <1>8, <1>10, CycleAssumption DEF Cycle!Collects, Cycle!Credited
<1>16. p.collection.triggered /\ p.surge \in 1..3 /\ p.transformed = 3 - p.surge
  BY <1>6, <1>10 DEF e
<1>17. Cycle!Meter(p.next) = IF p.surge = 3 THEN Cycle!Meter(o) ELSE <<1, 0>>
  BY <1>4, <1>7, <1>10 DEF Cycle!Meter
<1>18. Cycle!validateRageEventsAgainstOrigin(o, p)
  BY <1>10, <1>15, <1>16, <1>17 DEF Cycle!validateRageEventsAgainstOrigin, Cycle!NoWheel
<1>19. CASE wheel = "INSTANT"
  <2>1. Cycle!validateInstantWheelAward(p)
    BY <1>4, <1>10, <1>19 DEF Cycle!validateInstantWheelAward, Cycle!MultiplierOfTier
  <2>2. Cycle!FromBase(o, p)
    BY <1>2, <1>4, <1>9, <1>10, <1>19, <2>1 DEF Cycle!FromBase, Cycle!NoWheel
  <2>. QED BY <1>2, <1>9, <1>12, <1>13, <1>14, <1>18, <2>2 DEF CycPasses, Cycle!validateSpinResultAgainstOrigin, p
<1>20. CASE wheel # "INSTANT"
  <2>1. Cycle!validateFeatureWheelAward(p)
    BY <1>4, <1>10, <1>20 DEF Cycle!validateFeatureWheelAward
  <2>2. Cycle!FromBase(o, p)
    BY <1>2, <1>4, <1>9, <1>10, <1>20, <2>1 DEF Cycle!FromBase, Cycle!NoWheel, Cycle!Features
  <2>. QED BY <1>2, <1>9, <1>12, <1>13, <1>14, <1>18, <2>2 DEF CycPasses, Cycle!validateSpinResultAgainstOrigin, p
<1>. QED BY <1>19, <1>20

\* The guard accepts a free spin.
LEMMA CycFreePasses ==
  ASSUME NEW o, CycGood(o), o.mode # "BASE", NEW win \in 0..WinCap, o.paid + win <= WinCap,
         NEW k \in 0..1, k = 0 \/ o.mode = "EXPANSION"
  PROVE  CycPasses(o, Cycle!Free(o, win, k))
<1>. DEFINE q == Cycle!Plain(o, win)
            p == Cycle!Free(o, win, k)
            h == o.remaining - 1 + k
            f == IF h > 0 THEN q.completed ELSE [mode |-> o.mode, awarded |-> o.awarded + k, win |-> o.paid + win]
            t == IF h > 0 THEN Cycle!FeatureState(o.mode, h, o.played + 1, o.paid + win, o.level, o.collected)
                 ELSE q.next
            d == [q EXCEPT !.awards = k, !.completed = f, !.next = t]
            n == IF o.mode = "EXPANSION" THEN 4 ELSE 3
            y == IF o.mode = "EXPANSION" THEN 4 ELSE 0
<1>. o \in CycRec BY DEF CycGood
<1>0. /\ o.remaining \in Nat /\ o.played \in Nat /\ o.paid \in Nat /\ o.awarded \in Nat
      /\ o.win = o.paid /\ o.remaining > 0 /\ o.played + o.remaining = o.awarded /\ o.bet = "locked"
      /\ o.mode \in {"EXPANSION", "OVERDRIVE"}
  BY CycleAssumption DEF CycGood, CycRec, Cycle!Modes, Cycle!Features
<1>1. q \in CycResult BY CycPlain
<1>2. /\ q.charged = "none" /\ q.bet = "locked" /\ q.total = win /\ q.clipped = FALSE
      /\ (q.cap <=> o.win + win = WinCap /\ win > 0) /\ (q.nominal <=> win > 0)
      /\ q.rows = n /\ q.expanded = y
      /\ q.surge = 0 /\ q.collection = Cycle!NoCollection
      /\ q.transformed = 0 /\ q.wheel = "none" /\ q.wheelStarted = FALSE
      /\ q.started = Cycle!NotStarted /\ q.completed = Cycle!NotCompleted
  BY <1>0 DEF Cycle!Plain, Cycle!FeatureState, Cycle!CycleWin, Cycle!NoWheel, CycRec
<1>3. /\ q.next.mode = "BASE" /\ q.next.level = o.level /\ q.next.collected = o.collected
  BY DEF Cycle!Plain, Cycle!FeatureState
<1>4. p = d BY DEF Cycle!Free
<1>5. /\ (h > 0 => f = Cycle!NotCompleted /\ t.mode = o.mode /\ t.remaining = h /\ t.played = o.played + 1
                   /\ t.bet = "locked" /\ t.win = o.paid + win)
      /\ (~(h > 0) => f = [mode |-> o.mode, awarded |-> o.awarded + k, win |-> o.paid + win] /\ t.mode = "BASE")
      /\ t.level = o.level /\ t.collected = o.collected
  BY <1>2, <1>3 DEF Cycle!FeatureState
<1>. HIDE DEF q, p, f, t
<1>6. /\ p.charged = q.charged /\ p.bet = q.bet /\ p.total = q.total /\ p.clipped = q.clipped
      /\ p.cap = q.cap /\ p.nominal = q.nominal /\ p.rows = q.rows /\ p.expanded = q.expanded
      /\ p.surge = q.surge /\ p.collection = q.collection
      /\ p.transformed = q.transformed /\ p.wheel = q.wheel /\ p.wheelStarted = q.wheelStarted
      /\ p.started = q.started /\ p.awards = k /\ p.completed = f /\ p.next = t
  BY <1>1, <1>4 DEF CycResult
<1>7. p.completed.mode = (IF h > 0 THEN "none" ELSE o.mode) /\ p.started.mode = "none"
  BY <1>2, <1>5, <1>6 DEF Cycle!NotCompleted, Cycle!NotStarted
<1>8. p.next.mode = IF h > 0 THEN o.mode ELSE "BASE" BY <1>5, <1>6
<1>9. Cycle!validateResultReelProjection(p)
  BY <1>0, <1>2, <1>6, <1>7, <1>8 DEF Cycle!validateResultReelProjection
<1>10. Cycle!validateWinCapAgainstOrigin(o, p)
  BY <1>0, <1>2, <1>6, CycleAssumption DEF Cycle!validateWinCapAgainstOrigin, Cycle!CycleWin
<1>11. Cycle!Rows(o, p) BY <1>2, <1>6 DEF Cycle!Rows
<1>12. Cycle!validateRageEventsAgainstOrigin(o, p)
  BY <1>2, <1>6 DEF Cycle!validateRageEventsAgainstOrigin, Cycle!NoRage, Cycle!NoTransition, Cycle!NoWheel
<1>13. o.remaining + o.played + k = o.awarded + k /\ (~(h > 0) => h = 0)
  <2>1. /\ o.remaining \in Nat /\ o.played \in Nat /\ o.awarded \in Nat /\ o.remaining > 0
        /\ o.played + o.remaining = o.awarded /\ k \in Nat
    BY <1>0
  <2>2. o.remaining + o.played + k = o.awarded + k BY <2>1
  <2>3. ~(h > 0) => h = 0 BY <2>1
  <2>. QED BY <2>2, <2>3
<1>14. p.started = Cycle!NotStarted /\ p.charged = "none" /\ p.bet = o.bet BY <1>0, <1>2, <1>6
<1>15. Cycle!Meter(p.next) = Cycle!Meter(o) BY <1>5, <1>6 DEF Cycle!Meter
<1>16. CASE h > 0
  <2>1. /\ p.completed = Cycle!NotCompleted /\ p.next.mode = o.mode /\ p.next.remaining = h
        /\ p.next.played = o.played + 1 /\ p.next.bet = o.bet /\ p.next.win = o.win + p.total
    BY <1>0, <1>2, <1>5, <1>6, <1>16
  <2>2. Cycle!FromFeature(o, p) BY <1>6, <1>14, <1>15, <1>16, <2>1 DEF Cycle!FromFeature
  <2>. QED BY <1>9, <1>10, <1>11, <1>12, <2>2 DEF CycPasses, Cycle!validateSpinResultAgainstOrigin, p
<1>17. CASE ~(h > 0)
  <2>1. /\ p.completed = [mode |-> o.mode, awarded |-> o.remaining + o.played + k, win |-> o.win + p.total]
        /\ p.next.mode = "BASE" /\ h = 0
    BY <1>0, <1>2, <1>5, <1>6, <1>13, <1>17
  <2>2. Cycle!FromFeature(o, p) BY <1>6, <1>14, <1>15, <2>1 DEF Cycle!FromFeature
  <2>. QED BY <1>9, <1>10, <1>11, <1>12, <2>2 DEF CycPasses, Cycle!validateSpinResultAgainstOrigin, p
<1>. QED BY <1>16, <1>17

\* The guard is not too strict: every sound result passes it.
LEMMA CycSoundAccepted == ASSUME CycInv PROVE Cycle!SoundAccepted
<1>1. CycGood(now) /\ now \in CycRec BY DEF CycInv, CycGood
<1>2. 1 \in 0..WinCap /\ WinTotals \subseteq 0..WinCap BY CycleAssumption
<1>. SUFFICES ASSUME NEW d \in Cycle!Sound(now) PROVE CycPasses(now, d)
  BY DEF Cycle!SoundAccepted, CycPasses
<1>3. CASE now.mode = "BASE"
  <2>1. \/ \E win \in WinTotals : d = Cycle!Plain(now, win)
        \/ \E win \in WinTotals, n \in 1..2 : \E level \in now.level..MaxLevel :
              now.collected + n <= MaxCollected /\ d = Cycle!Collected(now, win, n, level)
        \/ \E win \in WinTotals, n \in 1..3, wheel \in {"EXPANSION", "OVERDRIVE"} :
              d = Cycle!Triggered(now, win, n, wheel)
        \/ \E n \in 1..3 : d = Cycle!Triggered(now, 1, n, "INSTANT")
    BY <1>3 DEF Cycle!Sound, Cycle!Features
  <2>. QED BY <1>1, <1>2, <1>3, <2>1, CycPlainPasses, CycCollectedPasses, CycTriggeredPasses
<1>4. CASE now.mode # "BASE"
  <2>1. PICK win \in WinTotals, k \in 0..1 :
          /\ now.paid + win <= WinCap /\ (k = 0 \/ now.mode = "EXPANSION") /\ d = Cycle!Free(now, win, k)
    BY <1>4 DEF Cycle!Sound
  <2>. QED BY <1>1, <1>2, <1>4, <2>1, CycFreePasses
<1>. QED BY <1>3, <1>4

\* What the runs ask of the cycle follows from the invariant.
LEMMA CycRight == ASSUME CycInv PROVE Cycle!TypeOK /\ Cycle!Conserved /\ Cycle!SoundAccepted
<1>1. Cycle!TypeOK
  BY CycleAssumption DEF CycInv, CycGood, CycRec, Cycle!TypeOK
<1>2. Cycle!Conserved
  <2>1. now.paid \in 0..WinCap BY DEF CycInv, CycGood, CycRec
  <2>. QED BY <2>1, CycleAssumption DEF CycInv, CycGood, Cycle!Conserved
<1>. QED BY <1>1, <1>2, CycSoundAccepted

-----------------------------------------------------------------------------
(* The controls (SpinControls).                                             *)

CtlRec ==
  [mode : Controls!Modes, canSpin : BOOLEAN, canBet : BOOLEAN, eligible : BOOLEAN,
   open : SUBSET {"bet", "auto", "menu"}, hud : BOOLEAN, preview : BOOLEAN, timedOut : BOOLEAN,
   inert : BOOLEAN, active : BOOLEAN, remaining : Nat,
   pending : {Controls!None} \union [remaining : Nat \ {0}],
   timer : {"none", "paid", "continue", "wheel"}, settings : SUBSET StopBoundaries,
   armed : {Controls!None} \union [win : BOOLEAN, settings : SUBSET StopBoundaries,
                                   reached : SUBSET StopBoundaries, stop : BOOLEAN],
   hits : SUBSET StopBoundaries, round : {"idle", "sent", "shown", "failed"}, free : 0..1,
   rounds : 0..ControlRounds, chosen : RunCounts \union {0}, spent : Nat,
   stopped : BOOLEAN, lost : BOOLEAN, gone : BOOLEAN]

\* What a run has left, has out and has spent make up the choice, and only a
\* run that nobody ended has a spin out.
CtlRun(r) ==
  /\ r.spent <= r.chosen
  /\ (r.active => r.remaining > 0 /\ r.spent + r.remaining + (IF r.pending = Controls!None THEN 0 ELSE 1) = r.chosen)
  /\ (r.pending # Controls!None =>
        /\ r.pending.remaining = r.remaining + 1 /\ r.pending.remaining + r.spent = r.chosen
        /\ r.round = "sent")
  /\ (r.stopped => ~r.active /\ r.pending = Controls!None)
\* The boundaries met are those reached, and one that counts has ended the run.
CtlBounds(r) ==
  r.armed # Controls!None =>
    /\ r.round = "shown" \/ r.timedOut
    /\ r.hits = r.armed.reached
    /\ (r.hits \cap r.armed.settings # {} => ~r.active)
    /\ (r.armed.stop => ~r.active)
\* Nothing runs on after the session, and a spin is offered between rounds only.
CtlOver(r) == r.timedOut => ~r.active /\ r.pending = Controls!None /\ r.open = {} /\ r.timer = "none"
CtlOffer(r) == r.canSpin => r.round = "idle" /\ ~r.timedOut
\* One panel at most, and no press of autoplay behind it.
CtlPanel(r) ==
  /\ r.open = {} \/ r.open = {"bet"} \/ r.open = {"auto"} \/ r.open = {"menu"}
  /\ (r.open # {} => r.timer = "none")
CtlInert(r) == r.inert <=> ~r.hud \/ r.timedOut \/ r.preview \/ r.open # {}
CtlWants(r) ==
  r.active /\ r.canSpin /\ r.mode = "ready" /\ r.eligible /\ r.open = {} /\ ~r.timedOut
CtlReady(r) == CtlWants(r) => r.timer # "none"
CtlKnown(r) == CtlWants(r) /\ r.rounds < ControlRounds /\ ~r.gone => r.timer # "none" \/ r.lost
CtlGood(r) ==
  /\ r \in CtlRec /\ CtlRun(r) /\ CtlBounds(r) /\ CtlOver(r) /\ CtlOffer(r)
  /\ CtlPanel(r) /\ CtlInert(r) /\ CtlKnown(r)
CtlInv == CtlGood(now)

\* What the controls' own calls leave as it is: the run and the round.
CtlSame(u, t) ==
  /\ u.hud = t.hud /\ u.preview = t.preview /\ u.timedOut = t.timedOut /\ u.active = t.active
  /\ u.remaining = t.remaining /\ u.pending = t.pending /\ u.settings = t.settings
  /\ u.armed = t.armed /\ u.hits = t.hits /\ u.round = t.round /\ u.free = t.free
  /\ u.rounds = t.rounds /\ u.chosen = t.chosen /\ u.spent = t.spent
  /\ u.stopped = t.stopped /\ u.gone = t.gone
\* And what they answer for: the panels, and a timer of a running run alone.
CtlUi(u, t) ==
  /\ u \in CtlRec /\ CtlSame(u, t) /\ CtlPanel(u) /\ u.open \subseteq t.open
  /\ (t.timer = "none" /\ (t.timedOut \/ ~t.active) => u.timer = "none")
  /\ (CtlInert(t) => CtlInert(u))

\* The timer is cleared.
LEMMA CtlClears ==
  ASSUME NEW t \in CtlRec, NEW u, u = Controls!clearAutoplayTimer(t)
  PROVE  /\ u \in CtlRec /\ CtlSame(u, t) /\ u.open = t.open /\ u.inert = t.inert /\ u.timer = "none"
         /\ u.mode = t.mode /\ u.canSpin = t.canSpin /\ u.canBet = t.canBet /\ u.eligible = t.eligible
         /\ u.lost = t.lost
<1>1. u = [t EXCEPT !.timer = "none"] BY DEF Controls!clearAutoplayTimer
<1>2. u \in CtlRec BY <1>1 DEF CtlRec
<1>3. /\ CtlSame(u, t) /\ u.open = t.open /\ u.inert = t.inert /\ u.timer = "none"
      /\ u.mode = t.mode /\ u.canSpin = t.canSpin /\ u.canBet = t.canBet /\ u.eligible = t.eligible
      /\ u.lost = t.lost
  BY <1>1 DEF CtlRec, CtlSame
<1>. QED BY <1>2, <1>3

\* A record of the controls with another timer is one of theirs (DomOverlay.ts,
\* queueAutoplaySpin).
LEMMA CtlTimed ==
  ASSUME NEW t \in CtlRec, NEW x \in {"none", "paid", "continue", "wheel"}
  PROVE  [t EXCEPT !.timer = x, !.lost = FALSE] \in CtlRec
<1> DEFINE P == {Controls!None} \union [remaining : Nat \ {0}]
           Q == {Controls!None} \union [win : BOOLEAN, settings : SUBSET StopBoundaries,
                                   reached : SUBSET StopBoundaries, stop : BOOLEAN]
           O == SUBSET {"bet", "auto", "menu"}
<1>1. CtlRec = [mode : Controls!Modes, canSpin : BOOLEAN, canBet : BOOLEAN, eligible : BOOLEAN,
   open : O, hud : BOOLEAN, preview : BOOLEAN, timedOut : BOOLEAN,
   inert : BOOLEAN, active : BOOLEAN, remaining : Nat,
   pending : P,
   timer : {"none", "paid", "continue", "wheel"}, settings : SUBSET StopBoundaries,
   armed : Q,
   hits : SUBSET StopBoundaries, round : {"idle", "sent", "shown", "failed"}, free : 0..1,
   rounds : 0..ControlRounds, chosen : RunCounts \union {0}, spent : Nat,
   stopped : BOOLEAN, lost : BOOLEAN, gone : BOOLEAN]
  BY Zenon DEF CtlRec
<1> HIDE DEF P, Q, O
<1>. QED BY <1>1

\* queueAutoplaySpin sets the next press when a running run can make it.
LEMMA CtlQueues ==
  ASSUME NEW t \in CtlRec, CtlPanel(t), NEW u, u = Controls!queueAutoplaySpin(t)
  PROVE  /\ CtlUi(u, t) /\ CtlReady(u) /\ u.open = t.open /\ u.inert = t.inert
         /\ u.mode = t.mode /\ u.canSpin = t.canSpin /\ u.canBet = t.canBet /\ u.eligible = t.eligible
         /\ (t.open # {} => u.lost = t.lost)
<1>1. CASE ~t.active \/ t.timer # "none" \/ Controls!anyControlPanelOpen(t)
  <2>1. u = t BY <1>1 DEF Controls!queueAutoplaySpin
  <2>2. CtlReady(t) BY <1>1 DEF CtlReady, CtlWants, Controls!anyControlPanelOpen
  <2>3. CtlUi(t, t) BY DEF CtlUi, CtlSame
  <2>. QED BY <2>1, <2>2, <2>3
<1>2. CASE ~(~t.active \/ t.timer # "none" \/ Controls!anyControlPanelOpen(t))
  <2>1. t.active /\ t.timer = "none" /\ ~t.timedOut /\ t.open = {}
    BY <1>2 DEF Controls!anyControlPanelOpen
  <2>2. CASE u = t
    <3>1. ~CtlWants(t)
      <4>1. CASE CtlWants(t)
        <5>1. t.mode = "ready" /\ t.eligible /\ t.canSpin BY <4>1 DEF CtlWants
        <5>2. u = [t EXCEPT !.timer = "paid", !.lost = FALSE]
          BY <1>2, <5>1 DEF Controls!queueAutoplaySpin, Controls!Prompts
        <5>3. u.timer = "paid" BY <5>2 DEF CtlRec
        <5>. QED BY <2>1, <2>2, <5>3
      <4>. QED BY <4>1
    <3>2. CtlUi(t, t) BY DEF CtlUi, CtlSame
    <3>. QED BY <2>2, <3>1, <3>2 DEF CtlReady
  <2>3. CASE \E x \in {"paid", "continue", "wheel"} : u = [t EXCEPT !.timer = x, !.lost = FALSE]
    <3>1. PICK x \in {"paid", "continue", "wheel"} : u = [t EXCEPT !.timer = x, !.lost = FALSE] BY <2>3
    <3>2. u \in CtlRec
      <4>1. x \in {"none", "paid", "continue", "wheel"} BY <3>1
      <4>2. [t EXCEPT !.timer = x, !.lost = FALSE] \in CtlRec BY <4>1, CtlTimed, Zenon
      <4>. QED BY <3>1, <4>2, Zenon
    <3>3. /\ CtlSame(u, t) /\ u.open = t.open /\ u.inert = t.inert /\ u.timer = x
          /\ u.mode = t.mode /\ u.canSpin = t.canSpin /\ u.canBet = t.canBet /\ u.eligible = t.eligible
      BY <3>1 DEF CtlRec, CtlSame
    <3>4. CtlPanel(u) BY <2>1, <3>3 DEF CtlPanel
    <3>5. CtlInert(t) => CtlInert(u) BY <3>3 DEF CtlSame, CtlInert
    <3>6. CtlUi(u, t) BY <2>1, <3>2, <3>3, <3>4, <3>5 DEF CtlUi
    <3>7. CtlReady(u) BY <3>3 DEF CtlReady
    <3>. QED BY <2>1, <3>3, <3>6, <3>7
  <2>4. u = t \/ \E x \in {"paid", "continue", "wheel"} : u = [t EXCEPT !.timer = x, !.lost = FALSE]
    BY <1>2 DEF Controls!queueAutoplaySpin, Controls!Prompts
  <2>. QED BY <2>2, <2>3, <2>4
<1>. QED BY <1>1, <1>2

\* Closing a panel takes it off the page, which takes input again.
LEMMA CtlCloses ==
  ASSUME NEW t \in CtlRec, CtlPanel(t), NEW p \in {"bet", "auto", "menu"}, NEW u, u = Controls!Close(t, p)
  PROVE  /\ CtlUi(u, t) /\ CtlReady(u) /\ CtlInert(u) /\ u.open = t.open \ {p}
         /\ u.mode = t.mode /\ u.canSpin = t.canSpin /\ u.canBet = t.canBet /\ u.eligible = t.eligible
<1>. DEFINE o == t.open \ {p}
            v == [t EXCEPT !.open = o]
            i == ~v.hud \/ v.timedOut \/ v.preview \/ v.open # {}
            w == [v EXCEPT !.inert = i]
<1>1. o \in SUBSET {"bet", "auto", "menu"} BY DEF CtlRec
<1>2. v \in CtlRec BY <1>1 DEF CtlRec
<1>3. CtlSame(v, t) /\ v.open = o /\ v.timer = t.timer
      /\ v.mode = t.mode /\ v.canSpin = t.canSpin /\ v.canBet = t.canBet /\ v.eligible = t.eligible
  BY DEF CtlRec, CtlSame
<1>4. w = Controls!syncModalBackgroundInert(v)
  BY DEF Controls!syncModalBackgroundInert, Controls!activeDialog
<1>5. u = Controls!queueAutoplaySpin(w) BY <1>4 DEF Controls!Close
<1>. HIDE DEF v, o
<1>6. i \in BOOLEAN OBVIOUS
<1>7. i <=> ~v.hud \/ v.timedOut \/ v.preview \/ v.open # {} OBVIOUS
<1>. HIDE DEF i
<1>8. w \in CtlRec BY <1>2, <1>6 DEF CtlRec
<1>9. CtlSame(w, v) /\ w.open = v.open /\ w.timer = v.timer /\ w.inert = i
      /\ w.mode = v.mode /\ w.canSpin = v.canSpin /\ w.canBet = v.canBet /\ w.eligible = v.eligible
  BY <1>2 DEF CtlRec, CtlSame
<1>. HIDE DEF w
<1>10. CtlSame(w, t) /\ w.open = t.open \ {p} /\ w.timer = t.timer
       /\ w.mode = t.mode /\ w.canSpin = t.canSpin /\ w.canBet = t.canBet /\ w.eligible = t.eligible
  BY <1>3, <1>9 DEF CtlSame, o
<1>11. CtlInert(w) BY <1>7, <1>9 DEF CtlInert, CtlSame
<1>12. CtlPanel(w)
  <2>1. t.open \in {{}, {"bet"}, {"auto"}, {"menu"}} /\ (t.open # {} => t.timer = "none") BY DEF CtlPanel
  <2>2. w.open = {} \/ w.open = t.open BY <1>10, <2>1
  <2>. QED BY <1>10, <2>1, <2>2 DEF CtlPanel
<1>13. CtlUi(u, w) /\ CtlReady(u) /\ u.open = w.open
       /\ u.mode = w.mode /\ u.canSpin = w.canSpin /\ u.canBet = w.canBet /\ u.eligible = w.eligible
  BY <1>5, <1>8, <1>12, CtlQueues
<1>14. CtlInert(u) BY <1>11, <1>13 DEF CtlUi
<1>15. CtlSame(u, t) BY <1>10, <1>13 DEF CtlUi, CtlSame
<1>16. t.timer = "none" /\ (t.timedOut \/ ~t.active) => u.timer = "none"
  BY <1>10, <1>13 DEF CtlUi, CtlSame
<1>17. CtlUi(u, t) BY <1>10, <1>13, <1>14, <1>15, <1>16 DEF CtlUi
<1>. QED BY <1>10, <1>13, <1>14, <1>17

\* stopAutoplay ends the run, gives up the spin it had out and its timer.
CtlStopped(u, t) ==
  /\ u \in CtlRec /\ CtlPanel(u) /\ (CtlInert(t) => CtlInert(u)) /\ u.open = t.open \ {"auto"}
  /\ u.timer = "none" /\ u.pending = Controls!None /\ u.active = FALSE /\ u.remaining = 0
  /\ u.hud = t.hud /\ u.preview = t.preview /\ u.timedOut = t.timedOut /\ u.settings = t.settings
  /\ u.armed = t.armed /\ u.hits = t.hits /\ u.round = t.round /\ u.free = t.free
  /\ u.rounds = t.rounds /\ u.chosen = t.chosen /\ u.spent = t.spent /\ u.gone = t.gone
  /\ u.canSpin = t.canSpin /\ u.mode = t.mode

\* stopAutoplay: the run, its press and its panel end together.
LEMMA CtlStops ==
  ASSUME NEW t \in CtlRec, CtlPanel(t), NEW u, u = Controls!stopAutoplay(t)
  PROVE  CtlStopped(u, t)
<1>. DEFINE c == Controls!clearAutoplayTimer(t)
            b == t.active \/ t.pending # Controls!None \/ c.stopped
            v == [c EXCEPT !.pending = Controls!None, !.active = FALSE, !.remaining = 0, !.stopped = b]
<1>1. /\ c \in CtlRec /\ CtlSame(c, t) /\ c.open = t.open /\ c.inert = t.inert /\ c.timer = "none"
      /\ c.mode = t.mode /\ c.canSpin = t.canSpin
  BY CtlClears
<1>2. u = IF "auto" \in v.open THEN Controls!Close(v, "auto") ELSE v
  BY DEF Controls!stopAutoplay
<1>. HIDE DEF c
<1>3. c \in CtlRec BY <1>1
<1>0. b \in BOOLEAN BY <1>3 DEF CtlRec
<1>. HIDE DEF b
<1>4. v \in CtlRec
  <2>. DEFINE e == [c EXCEPT !.pending = Controls!None, !.active = FALSE]
  <2>1. e \in CtlRec BY <1>3 DEF CtlRec
  <2>2. v = [e EXCEPT !.remaining = 0, !.stopped = b] BY <1>3 DEF CtlRec
  <2>. HIDE DEF e, v
  <2>. QED BY <1>0, <2>1, <2>2 DEF CtlRec
<1>5. /\ v.pending = Controls!None /\ v.active = FALSE /\ v.remaining = 0
      /\ v.hud = c.hud /\ v.preview = c.preview /\ v.timedOut = c.timedOut /\ v.settings = c.settings
      /\ v.armed = c.armed /\ v.hits = c.hits /\ v.round = c.round /\ v.free = c.free
      /\ v.rounds = c.rounds /\ v.chosen = c.chosen /\ v.spent = c.spent /\ v.gone = c.gone
      /\ v.canSpin = c.canSpin /\ v.mode = c.mode /\ v.open = c.open /\ v.inert = c.inert /\ v.timer = c.timer
  BY <1>1 DEF CtlRec
<1>. HIDE DEF v
<1>6. /\ v.pending = Controls!None /\ v.active = FALSE /\ v.remaining = 0
      /\ v.hud = t.hud /\ v.preview = t.preview /\ v.timedOut = t.timedOut /\ v.settings = t.settings
      /\ v.armed = t.armed /\ v.hits = t.hits /\ v.round = t.round /\ v.free = t.free
      /\ v.rounds = t.rounds /\ v.chosen = t.chosen /\ v.spent = t.spent /\ v.gone = t.gone
      /\ v.canSpin = t.canSpin /\ v.mode = t.mode /\ v.open = t.open /\ v.inert = t.inert /\ v.timer = "none"
  BY <1>1, <1>5 DEF CtlSame
<1>7. CtlPanel(v) BY <1>6 DEF CtlPanel
<1>8. CtlInert(t) => CtlInert(v) BY <1>6 DEF CtlInert
<1>9. CASE "auto" \in v.open
  <2>1. u = Controls!Close(v, "auto") BY <1>2, <1>9
  <2>2. CtlUi(u, v) /\ CtlInert(u) /\ u.open = v.open \ {"auto"} /\ u.mode = v.mode /\ u.canSpin = v.canSpin
    BY <1>4, <1>7, <2>1, CtlCloses
  <2>3. u \in CtlRec /\ CtlPanel(u) /\ CtlSame(u, v) /\ u.timer = "none"
    BY <1>6, <2>2 DEF CtlUi
  <2>4. u.pending = Controls!None /\ u.active = FALSE /\ u.remaining = 0 /\ u.armed = t.armed
    BY <1>6, <2>3 DEF CtlSame
  <2>. QED BY <1>6, <2>2, <2>3, <2>4 DEF CtlSame, CtlStopped
<1>10. CASE "auto" \notin v.open
  <2>1. u = v BY <1>2, <1>10
  <2>2. t.open = t.open \ {"auto"} BY <1>6, <1>10
  <2>3. CtlStopped(v, t) BY <1>4, <1>6, <1>7, <1>8, <2>2 DEF CtlStopped
  <2>. QED BY <2>1, <2>3
<1>. QED BY <1>9, <1>10

\* Two calls of the overlay, one after the other.
LEMMA CtlTwice ==
  ASSUME NEW t, NEW v, NEW u, CtlUi(v, t), CtlUi(u, v)
  PROVE  CtlUi(u, t)
<1>1. CtlSame(u, t) BY DEF CtlUi, CtlSame
<1>2. v.timedOut = t.timedOut /\ v.active = t.active BY DEF CtlUi, CtlSame
<1>. QED BY <1>1, <1>2 DEF CtlUi

\* setSpinMode: the control's mode, and the press that may follow.
LEMMA CtlModes ==
  ASSUME NEW t \in CtlRec, CtlPanel(t), NEW m \in Controls!Modes, NEW u, u = Controls!setSpinMode(t, m)
  PROVE  CtlUi(u, t) /\ CtlReady(u) /\ u.mode = m /\ u.canSpin = t.canSpin /\ u.eligible = t.eligible
<1>. DEFINE v == [t EXCEPT !.mode = m]
<1>1. v \in CtlRec BY DEF CtlRec
<1>2. CtlSame(v, t) /\ v.open = t.open /\ v.inert = t.inert /\ v.timer = t.timer /\ v.mode = m
      /\ v.canSpin = t.canSpin /\ v.eligible = t.eligible
  BY DEF CtlRec, CtlSame
<1>3. u = Controls!queueAutoplaySpin(v) BY DEF Controls!setSpinMode
<1>. HIDE DEF v
<1>4. CtlPanel(v) BY <1>2 DEF CtlPanel
<1>5. CtlInert(t) => CtlInert(v) BY <1>2 DEF CtlInert, CtlSame
<1>6. CtlUi(v, t) BY <1>1, <1>2, <1>4, <1>5 DEF CtlUi
<1>7. CtlUi(u, v) /\ CtlReady(u) /\ u.mode = v.mode /\ u.canSpin = v.canSpin /\ u.eligible = v.eligible
  BY <1>1, <1>3, <1>4, CtlQueues
<1>. QED BY <1>2, <1>6, <1>7, CtlTwice

\* setAutoplayPaidSpinEligible: a free spin to come takes the paid press back.
LEMMA CtlEligible ==
  ASSUME NEW t \in CtlRec, CtlPanel(t), NEW e \in BOOLEAN, NEW u,
         u = Controls!setAutoplayPaidSpinEligible(t, e)
  PROVE  CtlUi(u, t) /\ u.canSpin = t.canSpin /\ u.mode = t.mode
<1>1. CASE u = t BY <1>1 DEF CtlUi, CtlSame
<1>2. CASE u # t
  <2>. DEFINE v == [t EXCEPT !.eligible = e]
              w == IF ~e /\ v.mode = "ready" THEN Controls!clearAutoplayTimer(v) ELSE v
  <2>1. u = Controls!queueAutoplaySpin(w) BY <1>2 DEF Controls!setAutoplayPaidSpinEligible
  <2>2. v \in CtlRec BY DEF CtlRec
  <2>3. CtlSame(v, t) /\ v.open = t.open /\ v.inert = t.inert /\ v.timer = t.timer
        /\ v.canSpin = t.canSpin /\ v.mode = t.mode
    BY DEF CtlRec, CtlSame
  <2>. HIDE DEF v
  <2>4. /\ w \in CtlRec /\ CtlSame(w, v) /\ w.open = v.open /\ w.inert = v.inert /\ w.canSpin = v.canSpin
        /\ w.mode = v.mode /\ (w.timer = "none" \/ w.timer = v.timer)
    <3>1. CASE w = v BY <2>2, <3>1 DEF CtlSame
    <3>2. CASE w = Controls!clearAutoplayTimer(v) BY <2>2, <3>2, CtlClears
    <3>. QED BY <3>1, <3>2
  <2>. HIDE DEF w
  <2>5. CtlSame(w, t) /\ w.open = t.open /\ w.inert = t.inert /\ w.canSpin = t.canSpin /\ w.mode = t.mode
        /\ (w.timer = "none" \/ w.timer = t.timer)
    BY <2>3, <2>4 DEF CtlSame
  <2>6. CtlPanel(w) BY <2>5 DEF CtlPanel
  <2>7. CtlInert(t) => CtlInert(w) BY <2>5 DEF CtlInert, CtlSame
  <2>8. CtlUi(w, t) BY <2>4, <2>5, <2>6, <2>7 DEF CtlUi
  <2>9. CtlUi(u, w) /\ u.canSpin = w.canSpin /\ u.mode = w.mode BY <2>1, <2>4, <2>6, CtlQueues
  <2>. QED BY <2>5, <2>8, <2>9, CtlTwice
<1>. QED BY <1>1, <1>2

\* setControls: what may be pressed; the panel of the bet closes with it.
LEMMA CtlControls ==
  ASSUME NEW t \in CtlRec, CtlPanel(t), NEW a \in BOOLEAN, NEW b \in BOOLEAN, NEW u,
         u = Controls!setControls(t, a, b)
  PROVE  CtlUi(u, t) /\ CtlReady(u) /\ (u.canSpin <=> a /\ ~t.timedOut) /\ u.mode = t.mode
<1>. DEFINE x == a /\ ~t.timedOut
            y == b /\ ~t.timedOut
            v == [t EXCEPT !.canSpin = x, !.canBet = y]
            w == IF v.canBet THEN v ELSE Controls!Close(v, "bet")
<1>1. u = Controls!queueAutoplaySpin(w) BY DEF Controls!setControls
<1>2. x \in BOOLEAN /\ y \in BOOLEAN /\ (x <=> a /\ ~t.timedOut) OBVIOUS
<1>. HIDE DEF x, y
<1>3. v \in CtlRec BY <1>2 DEF CtlRec
<1>4. CtlSame(v, t) /\ v.open = t.open /\ v.inert = t.inert /\ v.timer = t.timer
      /\ v.canSpin = x /\ v.mode = t.mode
  BY DEF CtlRec, CtlSame
<1>. HIDE DEF v
<1>5. CtlPanel(v) BY <1>4 DEF CtlPanel
<1>6. CtlInert(t) => CtlInert(v) BY <1>4 DEF CtlInert, CtlSame
<1>7. CtlUi(v, t) BY <1>3, <1>4, <1>5, <1>6 DEF CtlUi
<1>8. CtlUi(w, v) /\ w.canSpin = v.canSpin /\ w.mode = v.mode
  <2>1. CASE w = v BY <1>3, <1>5, <2>1 DEF CtlUi, CtlSame
  <2>2. CASE w = Controls!Close(v, "bet") BY <1>3, <1>5, <2>2, CtlCloses
  <2>. QED BY <2>1, <2>2
<1>. HIDE DEF w
<1>9. CtlUi(w, t) BY <1>7, <1>8, CtlTwice
<1>10. w \in CtlRec /\ CtlPanel(w) BY <1>9 DEF CtlUi
<1>11. CtlUi(u, w) /\ CtlReady(u) /\ u.canSpin = w.canSpin /\ u.mode = w.mode BY <1>1, <1>10, CtlQueues
<1>12. CtlUi(u, t) BY <1>9, <1>11, CtlTwice
<1>. QED BY <1>2, <1>4, <1>8, <1>11, <1>12

\* refreshUi: whether a spin may be pressed or made by autoplay, and the
\* control's mode outside of a round that is shown.
LEMMA CtlRefreshes ==
  ASSUME NEW t \in CtlRec, CtlPanel(t), NEW can \in BOOLEAN, NEW u, u = Controls!refreshUi(t, can)
  PROVE  CtlUi(u, t) /\ CtlReady(u) /\ (u.canSpin <=> can /\ ~t.timedOut)
<1>. DEFINE e == (t.free = 0)
            b == can /\ t.free = 0
            v == Controls!setAutoplayPaidSpinEligible(t, e)
            w == Controls!setControls(v, can, b)
            m == IF can THEN "ready" ELSE "waiting"
<1>1. u = IF t.round = "shown" THEN w ELSE Controls!setSpinMode(w, m) BY DEF Controls!refreshUi
<1>2. e \in BOOLEAN /\ b \in BOOLEAN /\ m \in Controls!Modes BY DEF Controls!Modes
<1>. HIDE DEF e, b, m
<1>3. CtlUi(v, t) BY <1>2, CtlEligible
<1>4. v \in CtlRec /\ CtlPanel(v) /\ v.timedOut = t.timedOut BY <1>3 DEF CtlUi, CtlSame
<1>. HIDE DEF v
<1>5. CtlUi(w, v) /\ CtlReady(w) /\ (w.canSpin <=> can /\ ~v.timedOut) BY <1>2, <1>4, CtlControls
<1>. HIDE DEF w
<1>6. CtlUi(w, t) BY <1>3, <1>5, CtlTwice
<1>7. w \in CtlRec /\ CtlPanel(w) BY <1>6 DEF CtlUi
<1>8. CASE u = w BY <1>4, <1>5, <1>6, <1>8
<1>9. CASE u = Controls!setSpinMode(w, m)
  <2>1. CtlUi(u, w) /\ CtlReady(u) /\ u.canSpin = w.canSpin BY <1>2, <1>7, <1>9, CtlModes
  <2>. QED BY <1>4, <1>5, <1>6, <2>1, CtlTwice
<1>. QED BY <1>1, <1>8, <1>9

\* All of the invariant but the press on its way, and but the page's input.
CtlCore(r) == r \in CtlRec /\ CtlRun(r) /\ CtlBounds(r) /\ CtlOver(r) /\ CtlPanel(r)
CtlBase(r) == r \in CtlRec /\ CtlRun(r) /\ CtlBounds(r) /\ CtlOver(r) /\ CtlPanel(r) /\ CtlInert(r)
\* A round that ends has stopped the run its win was to stop.
CtlWin(u, t) ==
  t.round = "shown" /\ u.round = "idle" /\ t.armed # Controls!None =>
    (t.armed.win /\ "any-win" \in t.armed.settings => ~u.active)
CtlStep(u, t) == CtlGood(u) /\ CtlWin(u, t)

\* The overlay's own calls leave the run and its boundaries alone.
LEMMA CtlKeepsCore ==
  ASSUME NEW t, CtlCore(t), NEW u, CtlUi(u, t)
  PROVE  CtlCore(u) /\ CtlSame(u, t)
<1>1. CtlSame(u, t) /\ u \in CtlRec /\ CtlPanel(u) BY DEF CtlUi
<1>2. CtlRun(u) BY <1>1 DEF CtlCore, CtlRun, CtlSame
<1>3. CtlBounds(u) BY <1>1 DEF CtlCore, CtlBounds, CtlSame
<1>4. CtlOver(u)
  <2>1. /\ u.timedOut = t.timedOut /\ u.active = t.active /\ u.pending = t.pending
        /\ u.open \subseteq t.open /\ (t.timer = "none" /\ (t.timedOut \/ ~t.active) => u.timer = "none")
    BY DEF CtlUi, CtlSame
  <2>2. t.timedOut => ~t.active /\ t.pending = Controls!None /\ t.open = {} /\ t.timer = "none"
    BY DEF CtlCore, CtlOver
  <2>. QED BY <2>1, <2>2 DEF CtlOver
<1>. QED BY <1>1, <1>2, <1>3, <1>4 DEF CtlCore

\* A call that only opens, closes or covers keeps the run and the round.
LEMMA CtlKeeps ==
  ASSUME NEW t, CtlBase(t), NEW u, CtlUi(u, t)
  PROVE  CtlBase(u) /\ u.round = t.round /\ u.timedOut = t.timedOut /\ u.active = t.active
<1>1. CtlCore(t) /\ CtlInert(t) BY DEF CtlBase, CtlCore
<1>2. CtlCore(u) /\ CtlSame(u, t) BY <1>1, CtlKeepsCore
<1>3. CtlInert(u) BY <1>1 DEF CtlUi
<1>4. CtlBase(u) BY <1>2, <1>3 DEF CtlBase, CtlCore
<1>. QED BY <1>2, <1>4 DEF CtlSame

\* The counts of a run are numbers.
LEMMA CtlCounts == ASSUME NEW t \in CtlRec PROVE t.spent \in Nat /\ t.chosen \in Nat /\ t.remaining \in Nat
<1>1. t.chosen \in RunCounts \union {0} /\ t.spent \in Nat /\ t.remaining \in Nat BY DEF CtlRec
<1>2. \A x \in RunCounts : x \in Nat BY ControlsAssumption
<1>. QED BY <1>1, <1>2

\* A spin requested in the base game is taken from the run, which has it out
\* until its result.
LEMMA CtlCommits ==
  ASSUME NEW t, CtlBase(t), t.round = "idle", ~t.timedOut, t.rounds < ControlRounds,
         NEW c, c = t \/ c = Controls!commitAcceptedPaidAutoplaySpin(t),
         NEW u, u = [c EXCEPT !.round = "sent", !.rounds = c.rounds + 1]
  PROVE  CtlBase(u) /\ u.round = "sent"
<1>. t \in CtlRec BY DEF CtlBase
<1>1. t.pending = Controls!None /\ t.armed = Controls!None BY DEF CtlBase, CtlRun, CtlBounds
<1>2. t.rounds \in Nat /\ t.rounds + 1 \in 0..ControlRounds BY ControlsAssumption DEF CtlRec
<1>3. CASE c = t
  <2>. DEFINE n == t.rounds + 1
  <2>1. u = [t EXCEPT !.round = "sent", !.rounds = n] BY <1>3
  <2>2. n \in 0..ControlRounds BY <1>2
  <2>. HIDE DEF n
  <2>8. [t EXCEPT !.round = "sent", !.rounds = n] \in CtlRec BY <2>2 DEF CtlRec
  <2>3. u \in CtlRec BY <2>1, <2>8
  <2>4. /\ u.hud = t.hud /\ u.preview = t.preview /\ u.timedOut = t.timedOut /\ u.active = t.active
        /\ u.remaining = t.remaining /\ u.pending = t.pending /\ u.armed = t.armed
        /\ u.open = t.open /\ u.inert = t.inert /\ u.timer = t.timer
        /\ u.chosen = t.chosen /\ u.spent = t.spent /\ u.stopped = t.stopped /\ u.round = "sent"
    BY <2>1 DEF CtlRec
  <2>5. CtlRun(u) BY <1>1, <2>4 DEF CtlBase, CtlRun
  <2>6. CtlBounds(u) /\ CtlOver(u) BY <1>1, <2>4 DEF CtlBase, CtlBounds, CtlOver
  <2>7. CtlPanel(u) /\ CtlInert(u) BY <2>4 DEF CtlBase, CtlPanel, CtlInert
  <2>. QED BY <2>3, <2>4, <2>5, <2>6, <2>7 DEF CtlBase
<1>4. CASE c # t
  <2>. DEFINE m == t.remaining - 1
              a == t.remaining > 1
              p == [remaining |-> t.remaining]
              d == [t EXCEPT !.pending = p, !.remaining = m, !.active = a]
              n == d.rounds + 1
  <2>1. t.active /\ t.remaining # 0 /\ c = d
    BY <1>4 DEF Controls!commitAcceptedPaidAutoplaySpin
  <2>2. t.remaining \in Nat /\ t.spent \in Nat /\ t.chosen \in Nat BY CtlCounts
  <2>3. m \in Nat /\ a \in BOOLEAN /\ p \in [remaining : Nat \ {0}] /\ p # Controls!None
    BY <2>1, <2>2 DEF Controls!None
  <2>4. t.spent + t.remaining = t.chosen /\ t.remaining > 0 /\ ~t.stopped
    BY <1>1, <2>1, <2>2 DEF CtlBase, CtlRun
  <2>5. p.remaining = m + 1 /\ p.remaining + t.spent = t.chosen /\ (a => m > 0)
        /\ t.spent + m + 1 = t.chosen /\ (a <=> t.remaining > 1)
    BY <2>2, <2>4
  <2>. HIDE DEF m, a, p
  <2>6. d \in CtlRec BY <2>3 DEF CtlRec
  <2>7. /\ d.hud = t.hud /\ d.preview = t.preview /\ d.timedOut = t.timedOut /\ d.active = a
        /\ d.remaining = m /\ d.pending = p /\ d.armed = t.armed /\ d.rounds = t.rounds
        /\ d.open = t.open /\ d.inert = t.inert /\ d.timer = t.timer
        /\ d.chosen = t.chosen /\ d.spent = t.spent /\ d.stopped = t.stopped
    BY DEF CtlRec
  <2>8. u = [d EXCEPT !.round = "sent", !.rounds = n] BY <2>1
  <2>. HIDE DEF d
  <2>9. n \in 0..ControlRounds BY <1>2, <2>7
  <2>. HIDE DEF n
  <2>16. [d EXCEPT !.round = "sent", !.rounds = n] \in CtlRec BY <2>6, <2>9 DEF CtlRec
  <2>10. u \in CtlRec BY <2>8, <2>16
  <2>11. /\ u.hud = d.hud /\ u.preview = d.preview /\ u.timedOut = d.timedOut /\ u.active = d.active
         /\ u.remaining = d.remaining /\ u.pending = d.pending /\ u.armed = d.armed
         /\ u.open = d.open /\ u.inert = d.inert /\ u.timer = d.timer
         /\ u.chosen = d.chosen /\ u.spent = d.spent /\ u.stopped = d.stopped /\ u.round = "sent"
    BY <2>6, <2>8 DEF CtlRec
  <2>12. CtlRun(u)
    <3>1. u.spent <= u.chosen BY <2>2, <2>4, <2>7, <2>11
    <3>2. u.pending # Controls!None BY <2>3, <2>7, <2>11
    <3>3. u.active => u.remaining > 0 /\ u.spent + u.remaining + 1 = u.chosen BY <2>5, <2>7, <2>11
    <3>4. u.pending.remaining = u.remaining + 1 /\ u.pending.remaining + u.spent = u.chosen BY <2>5, <2>7, <2>11
    <3>5. ~u.stopped BY <2>4, <2>7, <2>11
    <3>. QED BY <2>11, <3>1, <3>2, <3>3, <3>4, <3>5 DEF CtlRun
  <2>13. u.armed = Controls!None /\ ~u.timedOut BY <1>1, <2>7, <2>11
  <2>14. CtlBounds(u) /\ CtlOver(u) BY <2>13 DEF CtlBounds, CtlOver
  <2>15. CtlPanel(u) /\ CtlInert(u) BY <2>7, <2>11 DEF CtlBase, CtlPanel, CtlInert
  <2>. QED BY <2>10, <2>11, <2>12, <2>14, <2>15 DEF CtlBase
<1>. QED BY <1>3, <1>4

\* A press of the control: a prompt is answered, or a spin requested and the
\* next one not offered until it is over.
LEMMA CtlRequests ==
  ASSUME NEW t, CtlBase(t), CtlOffer(t), NEW u, u = Controls!requestSpin(t)
  PROVE  CtlGood(u) /\ (u.round = t.round \/ u.round = "sent")
<1>. t \in CtlRec /\ CtlPanel(t) BY DEF CtlBase
<1>1. CASE t.mode \in {"continue", "popup", "wheel"}
  <2>1. \E m \in Controls!Modes : u = Controls!setSpinMode(t, m)
    BY <1>1 DEF Controls!requestSpin, Controls!Modes, Controls!FeatureModes
  <2>2. CtlUi(u, t) /\ CtlReady(u) /\ u.canSpin = t.canSpin BY <2>1, CtlModes
  <2>3. CtlBase(u) /\ u.round = t.round /\ u.timedOut = t.timedOut BY <2>2, CtlKeeps
  <2>4. CtlOffer(u) BY <2>2, <2>3 DEF CtlOffer
  <2>. QED BY <2>2, <2>3, <2>4 DEF CtlGood, CtlBase, CtlReady, CtlKnown
<1>2. CASE ~(t.mode \in {"continue", "popup", "wheel"})
  <2>1. CASE t.canSpin /\ t.round = "idle" /\ t.rounds < ControlRounds
    <3>. DEFINE c == IF t.free = 0 THEN Controls!commitAcceptedPaidAutoplaySpin(t) ELSE t
                v == [c EXCEPT !.round = "sent", !.rounds = c.rounds + 1]
                w == Controls!setSpinMode(v, "waiting")
    <3>1. u = Controls!refreshUi(w, FALSE)
      BY <1>2, <2>1 DEF Controls!requestSpin
    <3>2. c = t \/ c = Controls!commitAcceptedPaidAutoplaySpin(t) OBVIOUS
    <3>3. ~t.timedOut BY <2>1 DEF CtlOffer
    <3>. HIDE DEF c
    <3>4. CtlBase(v) /\ v.round = "sent" BY <2>1, <3>2, <3>3, CtlCommits
    <3>. HIDE DEF v
    <3>5. CtlUi(w, v) BY <3>4, CtlModes DEF CtlBase, Controls!Modes
    <3>. HIDE DEF w
    <3>6. CtlBase(w) /\ w.round = "sent" BY <3>4, <3>5, CtlKeeps
    <3>7. CtlUi(u, w) /\ CtlReady(u) /\ (u.canSpin <=> FALSE /\ ~w.timedOut)
      BY <3>1, <3>6, CtlRefreshes DEF CtlBase
    <3>8. CtlBase(u) /\ u.round = "sent" BY <3>6, <3>7, CtlKeeps
    <3>9. CtlOffer(u) BY <3>7 DEF CtlOffer
    <3>. QED BY <3>7, <3>8, <3>9 DEF CtlGood, CtlBase, CtlReady, CtlKnown
  <2>2. CASE ~(t.canSpin /\ t.round = "idle" /\ t.rounds < ControlRounds)
    <3>1. u = t BY <1>2, <2>2 DEF Controls!requestSpin
    <3>2. CtlKnown(t) BY <2>2 DEF CtlKnown, CtlWants, CtlOffer
    <3>. QED BY <3>1, <3>2 DEF CtlGood, CtlBase
  <2>. QED BY <2>1, <2>2
<1>. QED BY <1>1, <1>2

\* What leaves the page and the round as they are, and touches the run.
CtlPageSame(u, t) ==
  /\ u.mode = t.mode /\ u.canSpin = t.canSpin /\ u.canBet = t.canBet /\ u.eligible = t.eligible
  /\ u.open = t.open /\ u.hud = t.hud /\ u.preview = t.preview /\ u.timedOut = t.timedOut
  /\ u.inert = t.inert /\ u.timer = t.timer /\ u.settings = t.settings /\ u.free = t.free
  /\ u.rounds = t.rounds /\ u.lost = t.lost /\ u.gone = t.gone

\* A refused spin goes back to the run, which goes on.
LEMMA CtlRollsBack ==
  ASSUME NEW t, CtlBase(t), NEW u, u = Controls!rollbackAcceptedPaidAutoplaySpin(t)
  PROVE  CtlBase(u) /\ u.round = t.round /\ CtlPageSame(u, t) /\ u.pending = Controls!None
         /\ u.armed = t.armed /\ u.hits = t.hits
<1>. t \in CtlRec BY DEF CtlBase
<1>1. CASE t.pending = Controls!None
  <2>1. u = t BY <1>1 DEF Controls!rollbackAcceptedPaidAutoplaySpin
  <2>. QED BY <1>1, <2>1 DEF CtlPageSame
<1>2. CASE t.pending # Controls!None
  <2>. DEFINE p == t.pending.remaining
              v == [t EXCEPT !.pending = Controls!None, !.active = TRUE, !.remaining = p]
  <2>1. u = v BY <1>2 DEF Controls!rollbackAcceptedPaidAutoplaySpin
  <2>2. p \in Nat \ {0} BY <1>2 DEF CtlRec
  <2>3. p + t.spent = t.chosen /\ t.spent <= t.chosen /\ ~t.stopped /\ t.round = "sent" /\ ~t.timedOut
    BY <1>2 DEF CtlBase, CtlRun, CtlOver
  <2>4. t.armed = Controls!None BY <2>3 DEF CtlBase, CtlBounds
  <2>. HIDE DEF p
  <2>5. v \in CtlRec BY <2>2 DEF CtlRec
  <2>6. CtlPageSame(v, t) /\ v.pending = Controls!None /\ v.active = TRUE /\ v.remaining = p
        /\ v.round = t.round /\ v.armed = t.armed /\ v.hits = t.hits /\ v.spent = t.spent
        /\ v.chosen = t.chosen /\ v.stopped = t.stopped
    BY DEF CtlRec, CtlPageSame
  <2>. HIDE DEF v
  <2>7. t.spent \in Nat /\ t.chosen \in Nat BY CtlCounts
  <2>8. v.active /\ v.remaining > 0 /\ v.spent + v.remaining + 0 = v.chosen /\ v.spent <= v.chosen /\ ~v.stopped
    BY <2>2, <2>3, <2>6, <2>7
  <2>9. CtlRun(v) BY <2>6, <2>8 DEF CtlRun
  <2>10. CtlBounds(v) BY <2>4, <2>6 DEF CtlBounds
  <2>11. CtlOver(v) BY <2>3, <2>6 DEF CtlOver, CtlPageSame
  <2>12. CtlPanel(v) /\ CtlInert(v) BY <2>6 DEF CtlBase, CtlPanel, CtlInert, CtlPageSame
  <2>. QED BY <2>1, <2>5, <2>6, <2>9, <2>10, <2>11, <2>12 DEF CtlBase
<1>. QED BY <1>1, <1>2

\* A spin whose result came is spent.
LEMMA CtlFinalizes ==
  ASSUME NEW t, CtlBase(t), NEW u, u = Controls!finalizeAcceptedPaidAutoplaySpin(t)
  PROVE  CtlBase(u) /\ u.round = t.round /\ CtlPageSame(u, t) /\ u.pending = Controls!None
<1>. t \in CtlRec BY DEF CtlBase
<1>. DEFINE n == IF t.pending = Controls!None THEN t.spent ELSE t.spent + 1
            v == [t EXCEPT !.pending = Controls!None, !.spent = n]
<1>1. u = v BY DEF Controls!finalizeAcceptedPaidAutoplaySpin
<1>2. t.spent \in Nat /\ t.chosen \in Nat /\ t.remaining \in Nat BY CtlCounts
<1>3. n \in Nat BY <1>2
<1>4. n <= t.chosen /\ (t.active => t.remaining > 0 /\ n + t.remaining + 0 = t.chosen)
  <2>1. CASE t.pending = Controls!None BY <1>2, <2>1 DEF CtlBase, CtlRun
  <2>2. CASE t.pending # Controls!None
    <3>1. t.pending.remaining = t.remaining + 1 /\ t.pending.remaining + t.spent = t.chosen
      BY <2>2 DEF CtlBase, CtlRun
    <3>2. t.active => t.remaining > 0 BY DEF CtlBase, CtlRun
    <3>3. t.remaining + 1 + t.spent = t.chosen BY <3>1
    <3>4. n = t.spent + 1 BY <2>2
    <3>. QED BY <1>2, <3>2, <3>3, <3>4
  <2>. QED BY <2>1, <2>2
<1>. HIDE DEF n
<1>5. v \in CtlRec BY <1>3 DEF CtlRec
<1>6. CtlPageSame(v, t) /\ v.pending = Controls!None /\ v.active = t.active /\ v.remaining = t.remaining
      /\ v.round = t.round /\ v.armed = t.armed /\ v.hits = t.hits /\ v.spent = n /\ v.chosen = t.chosen
      /\ v.stopped = t.stopped
  BY DEF CtlRec, CtlPageSame
<1>. HIDE DEF v
<1>7. CtlRun(v) BY <1>4, <1>6 DEF CtlBase, CtlRun
<1>8. CtlBounds(v) BY <1>6 DEF CtlBase, CtlBounds, CtlPageSame
<1>9. CtlOver(v) BY <1>6 DEF CtlBase, CtlOver, CtlPageSame
<1>10. CtlPanel(v) /\ CtlInert(v) BY <1>6 DEF CtlBase, CtlPanel, CtlInert, CtlPageSame
<1>. QED BY <1>1, <1>5, <1>6, <1>7, <1>8, <1>9, <1>10 DEF CtlBase

\* An ended run keeps all but the press on its way.
LEMMA CtlStoppedBase ==
  ASSUME NEW t, t \in CtlRec, t.spent <= t.chosen, CtlPanel(t), NEW u, CtlStopped(u, t)
  PROVE  /\ CtlRun(u) /\ CtlPanel(u) /\ ~CtlWants(u)
         /\ (CtlInert(t) => CtlInert(u))
         /\ (t.timedOut => t.open = {}) => CtlOver(u)
<1>1. CtlRun(u) BY DEF CtlStopped, CtlRun
<1>2. ~CtlWants(u) BY DEF CtlStopped, CtlWants
<1>3. (t.timedOut => t.open = {}) => CtlOver(u) BY DEF CtlStopped, CtlOver
<1>. QED BY <1>1, <1>2, <1>3 DEF CtlStopped

\* A boundary met in a round is remembered once, and the first that counts
\* stops the run.
CtlMet(t) ==
  /\ t \in CtlRec /\ CtlRun(t) /\ CtlOver(t) /\ CtlPanel(t) /\ CtlInert(t)
  /\ t.armed # Controls!None /\ (t.round = "shown" \/ t.timedOut)
  /\ (t.armed.reached \cap t.armed.settings # {} => ~t.active)
  /\ (t.armed.stop => ~t.active)

\* reachAutoplayStopBoundary: a boundary the round was armed with ends the run.
LEMMA CtlReaches ==
  ASSUME NEW t, CtlMet(t), NEW b \in StopBoundaries, t.hits = t.armed.reached \union {b},
         b = "any-win" => t.armed.win, NEW u, u = Controls!reachAutoplayStopBoundary(t, b)
  PROVE  /\ CtlBase(u) /\ u.round = t.round /\ u.canSpin = t.canSpin /\ u.timedOut = t.timedOut
         /\ u.armed # Controls!None
         /\ (b \in t.armed.settings => ~u.active) /\ u.hud = t.hud
<1>. t \in CtlRec /\ CtlPanel(t) BY DEF CtlMet
<1>0. t.armed \in [win : BOOLEAN, settings : SUBSET StopBoundaries,
                   reached : SUBSET StopBoundaries, stop : BOOLEAN]
  BY DEF CtlMet, CtlRec
<1>1. CASE b \in t.armed.reached
  <2>1. u = t BY <1>1 DEF Controls!reachAutoplayStopBoundary
  <2>2. t.hits = t.armed.reached BY <1>1
  <2>3. CtlBounds(t) BY <2>2 DEF CtlMet, CtlBounds
  <2>4. CtlBase(t) BY <2>3 DEF CtlMet, CtlBase
  <2>5. b \in t.armed.settings => ~t.active BY <1>1 DEF CtlMet
  <2>. QED BY <2>1, <2>4, <2>5 DEF CtlMet
<1>2. CASE b \notin t.armed.reached
  <2>. DEFINE x == t.armed.reached \union {b}
              a == [t.armed EXCEPT !.reached = x]
              v == [t EXCEPT !.armed = a]
              e == [a EXCEPT !.stop = TRUE]
              w == [v EXCEPT !.armed = e]
  <2>1. u = IF t.armed.stop \/ b \notin t.armed.settings THEN v
            ELSE IF w.active THEN Controls!stopAutoplay(w) ELSE w
    <3>1. v = [t EXCEPT !.armed.reached = t.armed.reached \union {b}] BY DEF CtlMet, CtlRec
    <3>2. v.armed = a BY DEF CtlMet, CtlRec
    <3>3. w = [v EXCEPT !.armed.stop = TRUE] BY <3>2
    <3>. HIDE DEF v, w, a, e, x
    <3>. QED BY <1>2, <3>1, <3>3 DEF CtlMet, Controls!reachAutoplayStopBoundary
  <2>2. x \in SUBSET StopBoundaries BY <1>0
  <2>3. a \in [win : BOOLEAN, settings : SUBSET StopBoundaries, reached : SUBSET StopBoundaries, stop : BOOLEAN]
        /\ a.settings = t.armed.settings /\ a.reached = x /\ a.stop = t.armed.stop /\ a # Controls!None
    BY <1>0, <2>2 DEF Controls!None
  <2>4. e \in [win : BOOLEAN, settings : SUBSET StopBoundaries, reached : SUBSET StopBoundaries, stop : BOOLEAN]
        /\ e.settings = t.armed.settings /\ e.reached = x /\ e.stop = TRUE /\ e # Controls!None
    <3>. HIDE DEF x, a
    <3>. QED BY <2>3 DEF Controls!None
  <2>5. t.hits = x OBVIOUS
  <2>. HIDE DEF x, a, e
  <2>6. v \in CtlRec BY <2>3 DEF CtlRec
  <2>7. CtlPageSame(v, t) /\ v.pending = t.pending /\ v.active = t.active /\ v.remaining = t.remaining
        /\ v.round = t.round /\ v.armed = a /\ v.hits = t.hits /\ v.spent = t.spent /\ v.chosen = t.chosen
        /\ v.stopped = t.stopped
    BY DEF CtlRec, CtlPageSame
  <2>8. w = [t EXCEPT !.armed = e] BY DEF CtlRec
  <2>9. w \in CtlRec BY <2>4, <2>8 DEF CtlRec
  <2>10. CtlPageSame(w, t) /\ w.pending = t.pending /\ w.active = t.active /\ w.remaining = t.remaining
        /\ w.round = t.round /\ w.armed = e /\ w.hits = t.hits /\ w.spent = t.spent /\ w.chosen = t.chosen
        /\ w.stopped = t.stopped
    BY <2>8 DEF CtlRec, CtlPageSame
  <2>. HIDE DEF v, w
  <2>11. CASE t.armed.stop \/ b \notin t.armed.settings
    <3>1. u = v BY <2>1, <2>11
    <3>2. v.hits \cap v.armed.settings # {} => ~v.active
      <4>1. CASE t.armed.stop BY <2>7, <4>1 DEF CtlMet
      <4>2. CASE b \notin t.armed.settings
        <5>1. x \cap t.armed.settings = t.armed.reached \cap t.armed.settings BY <4>2 DEF x
        <5>. QED BY <2>3, <2>5, <2>7, <5>1 DEF CtlMet
      <4>. QED BY <2>11, <4>1, <4>2
    <3>3. CtlBounds(v) BY <2>3, <2>5, <2>7, <3>2 DEF CtlMet, CtlBounds, CtlPageSame
    <3>4. CtlRun(v) /\ CtlOver(v) BY <2>7 DEF CtlMet, CtlRun, CtlOver, CtlPageSame
    <3>5. CtlPanel(v) /\ CtlInert(v) BY <2>7 DEF CtlMet, CtlPanel, CtlInert, CtlPageSame
    <3>6. b \in t.armed.settings => ~v.active BY <2>7, <2>11 DEF CtlMet
    <3>. QED BY <2>3, <2>6, <2>7, <3>1, <3>3, <3>4, <3>5, <3>6 DEF CtlBase, CtlPageSame
  <2>12. CASE ~(t.armed.stop \/ b \notin t.armed.settings)
    <3>1. CtlPanel(w) /\ CtlInert(w) BY <2>10 DEF CtlMet, CtlPanel, CtlInert, CtlPageSame
    <3>2. CASE w.active
      <4>1. u = Controls!stopAutoplay(w) BY <2>1, <2>12, <3>2
      <4>2. CtlStopped(u, w) BY <2>9, <3>1, <4>1, CtlStops
      <4>3. w.spent <= w.chosen BY <2>10 DEF CtlMet, CtlRun
      <4>4. w.timedOut => w.open = {} BY <2>10 DEF CtlMet, CtlOver, CtlPageSame
      <4>5. CtlRun(u) /\ CtlPanel(u) /\ CtlInert(u) /\ CtlOver(u)
        BY <2>9, <3>1, <4>2, <4>3, <4>4, CtlStoppedBase
      <4>6. /\ u \in CtlRec /\ u.armed = e /\ u.hits = t.hits /\ u.active = FALSE /\ u.round = t.round
            /\ u.timedOut = t.timedOut /\ u.canSpin = t.canSpin /\ u.hud = t.hud
        BY <2>10, <4>2 DEF CtlStopped, CtlPageSame
      <4>7. CtlBounds(u) BY <2>4, <2>5, <4>6 DEF CtlMet, CtlBounds
      <4>. QED BY <2>4, <4>5, <4>6, <4>7 DEF CtlBase
    <3>3. CASE ~w.active
      <4>1. u = w BY <2>1, <2>12, <3>3
      <4>2. CtlBounds(w) BY <2>4, <2>5, <2>10, <3>3 DEF CtlMet, CtlBounds, CtlPageSame
      <4>3. CtlRun(w) /\ CtlOver(w) BY <2>10 DEF CtlMet, CtlRun, CtlOver, CtlPageSame
      <4>. QED BY <2>4, <2>9, <2>10, <3>1, <3>3, <4>1, <4>2, <4>3 DEF CtlBase, CtlPageSame
    <3>. QED BY <3>2, <3>3
  <2>. QED BY <2>11, <2>12
<1>. QED BY <1>1, <1>2

\* Opening a panel closes the other two, and no press waits behind it.
LEMMA CtlOpens ==
  ASSUME NEW t \in CtlRec, CtlPanel(t), NEW p \in {"bet", "auto", "menu"}, NEW u, u = Controls!Open(t, p)
  PROVE  u \in CtlRec /\ CtlSame(u, t) /\ CtlPanel(u) /\ CtlInert(u) /\ u.open = {p} /\ u.canSpin = t.canSpin
<1>. DEFINE others == {"bet", "auto", "menu"} \ {p}
            a == CHOOSE q \in others : TRUE
            b == CHOOSE q \in others : q # a
            c == Controls!Close(t, a)
            d == Controls!Close(c, b)
            e == Controls!clearAutoplayTimer(d)
            o == e.open \union {p}
            v == [e EXCEPT !.open = o]
            i == ~v.hud \/ v.timedOut \/ v.preview \/ v.open # {}
            w == [v EXCEPT !.inert = i]
<1>1. a \in others /\ b \in others /\ a # b
  <2>1. \E q \in others : TRUE
    <3>1. CASE p = "bet" BY <3>1
    <3>2. CASE p # "bet" BY <3>2
    <3>. QED BY <3>1, <3>2
  <2>2. a \in others BY <2>1
  <2>. HIDE DEF a
  <2>3. \E q \in others : q # a
    <3>1. CASE p = "bet" BY <2>2, <3>1
    <3>2. CASE p = "auto" BY <2>2, <3>2
    <3>3. CASE p = "menu" BY <2>2, <3>3
    <3>. QED BY <3>1, <3>2, <3>3
  <2>4. b \in others /\ b # a BY <2>3
  <2>. QED BY <2>2, <2>4
<1>2. u = w
  BY DEF Controls!Open, Controls!Panels, Controls!syncModalBackgroundInert, Controls!activeDialog
<1>. HIDE DEF a, b
<1>3. a \in {"bet", "auto", "menu"} /\ b \in {"bet", "auto", "menu"} BY <1>1
<1>4. CtlUi(c, t) /\ c.open = t.open \ {a} /\ c.canSpin = t.canSpin BY <1>3, CtlCloses
<1>. HIDE DEF c
<1>5. c \in CtlRec /\ CtlPanel(c) BY <1>4 DEF CtlUi
<1>6. CtlUi(d, c) /\ d.open = c.open \ {b} /\ d.canSpin = c.canSpin BY <1>3, <1>5, CtlCloses
<1>. HIDE DEF d
<1>7. CtlUi(d, t) BY <1>4, <1>6, CtlTwice
<1>8. d \in CtlRec /\ CtlSame(d, t) BY <1>7 DEF CtlUi
<1>9. e \in CtlRec /\ CtlSame(e, d) /\ e.open = d.open /\ e.timer = "none" /\ e.canSpin = d.canSpin
  BY <1>8, CtlClears
<1>. HIDE DEF e
<1>10. o = {p}
  <2>1. e.open = (t.open \ {a}) \ {b} BY <1>4, <1>6, <1>9
  <2>2. t.open \subseteq {"bet", "auto", "menu"} BY DEF CtlRec
  <2>3. \A q \in {"bet", "auto", "menu"} : q = p \/ q = a \/ q = b BY <1>1
  <2>. QED BY <2>1, <2>2, <2>3
<1>. HIDE DEF o
<1>11. v \in CtlRec
  <2>1. o \in SUBSET {"bet", "auto", "menu"} BY <1>10
  <2>2. e \in CtlRec BY <1>9
  <2>. QED BY <2>1, <2>2 DEF CtlRec
<1>12. CtlSame(v, e) /\ v.open = o /\ v.timer = e.timer /\ v.canSpin = e.canSpin
  BY <1>9 DEF CtlRec, CtlSame
<1>. HIDE DEF v
<1>13. i \in BOOLEAN /\ (i <=> ~v.hud \/ v.timedOut \/ v.preview \/ v.open # {}) OBVIOUS
<1>. HIDE DEF i
<1>14. w \in CtlRec BY <1>11, <1>13 DEF CtlRec
<1>15. CtlSame(w, v) /\ w.open = v.open /\ w.timer = v.timer /\ w.inert = i /\ w.canSpin = v.canSpin
  BY <1>11 DEF CtlRec, CtlSame
<1>. HIDE DEF w
<1>16. CtlSame(w, t) BY <1>8, <1>9, <1>12, <1>15 DEF CtlSame
<1>17. w.open = {p} /\ w.timer = "none" /\ w.canSpin = t.canSpin
  BY <1>4, <1>6, <1>9, <1>10, <1>12, <1>15
<1>18. CtlPanel(w) BY <1>17 DEF CtlPanel
<1>19. CtlInert(w) BY <1>13, <1>15 DEF CtlInert, CtlSame
<1>. QED BY <1>2, <1>14, <1>16, <1>17, <1>18, <1>19

\* A step of the overlay's own calls keeps the whole invariant.
LEMMA CtlUiStep ==
  ASSUME NEW t, CtlGood(t), NEW u, CtlUi(u, t), CtlReady(u), u.canSpin = t.canSpin
  PROVE  CtlStep(u, t)
<1>1. CtlBase(t) /\ CtlOffer(t) BY DEF CtlGood, CtlBase
<1>2. CtlBase(u) /\ u.round = t.round /\ u.timedOut = t.timedOut BY <1>1, CtlKeeps
<1>3. CtlOffer(u) BY <1>1, <1>2 DEF CtlOffer
<1>4. CtlKnown(u) BY DEF CtlReady, CtlKnown
<1>. QED BY <1>2, <1>3, <1>4 DEF CtlGood, CtlBase, CtlStep, CtlWin

\* A press of the control keeps it too.
LEMMA CtlRequestStep ==
  ASSUME NEW t, CtlGood(t), NEW u, u = Controls!requestSpin(t)
  PROVE  CtlStep(u, t)
<1>1. CtlGood(u) /\ (u.round = t.round \/ u.round = "sent") BY CtlRequests DEF CtlGood, CtlBase
<1>. QED BY <1>1 DEF CtlStep, CtlWin

\* So does a press that comes when the timer is cleared.
LEMMA CtlClearedStep ==
  ASSUME NEW t, CtlGood(t), NEW c, c = Controls!clearAutoplayTimer(t)
  PROVE  /\ CtlBase(c) /\ CtlOffer(c) /\ c.round = t.round /\ c \in CtlRec
         /\ (\A u : u = Controls!requestSpin(c) => CtlStep(u, t))
         /\ (CtlKnown(c) => CtlStep(c, t))
         /\ c.active = t.active /\ c.mode = t.mode /\ c.canSpin = t.canSpin /\ c.eligible = t.eligible
         /\ c.open = t.open /\ c.timedOut = t.timedOut
<1>. t \in CtlRec BY DEF CtlGood
<1>1. /\ c \in CtlRec /\ CtlSame(c, t) /\ c.open = t.open /\ c.inert = t.inert /\ c.timer = "none"
      /\ c.mode = t.mode /\ c.canSpin = t.canSpin /\ c.eligible = t.eligible /\ c.lost = t.lost
  BY CtlClears
<1>2. CtlPanel(c) BY <1>1 DEF CtlGood, CtlPanel
<1>3. CtlInert(t) => CtlInert(c) BY <1>1 DEF CtlInert, CtlSame
<1>4. CtlUi(c, t) BY <1>1, <1>2, <1>3 DEF CtlUi
<1>5. CtlBase(c) /\ c.round = t.round BY <1>4, CtlKeeps DEF CtlGood, CtlBase
<1>6. CtlOffer(c) BY <1>1 DEF CtlGood, CtlOffer, CtlSame
<1>7. ASSUME NEW u, u = Controls!requestSpin(c) PROVE CtlStep(u, t)
  <2>1. CtlGood(u) /\ (u.round = c.round \/ u.round = "sent") BY <1>5, <1>6, <1>7, CtlRequests
  <2>. QED BY <1>5, <2>1 DEF CtlStep, CtlWin
<1>8. ASSUME CtlKnown(c) PROVE CtlStep(c, t)
  BY <1>5, <1>6, <1>8 DEF CtlStep, CtlGood, CtlBase, CtlWin
<1>9. c.active = t.active /\ c.timedOut = t.timedOut BY <1>1 DEF CtlSame
<1>. QED BY <1>1, <1>5, <1>6, <1>7, <1>8, <1>9

\* Stopping autoplay.
LEMMA CtlStopStep ==
  ASSUME NEW t, CtlGood(t), NEW u, u = Controls!stopAutoplay(t)
  PROVE  CtlStep(u, t)
<1>. t \in CtlRec /\ CtlPanel(t) /\ CtlInert(t) /\ t.spent <= t.chosen BY DEF CtlGood, CtlRun
<1>1. CtlStopped(u, t) BY CtlStops
<1>2. t.timedOut => t.open = {} BY DEF CtlGood, CtlOver
<1>3. CtlRun(u) /\ CtlPanel(u) /\ CtlInert(u) /\ CtlOver(u) /\ ~CtlWants(u) BY <1>1, <1>2, CtlStoppedBase
<1>4. u \in CtlRec /\ u.round = t.round BY <1>1 DEF CtlStopped
<1>5. CtlOffer(u) BY <1>1 DEF CtlStopped, CtlGood, CtlOffer
<1>6. CtlBounds(u) BY <1>1 DEF CtlStopped, CtlGood, CtlBounds
<1>. QED BY <1>3, <1>4, <1>5, <1>6 DEF CtlStep, CtlGood, CtlKnown, CtlWin

\* The player presses the control, the space key, or a panel.
LEMMA CtlPrimary == ASSUME CtlInv, Controls!handlePrimarySpinAction PROVE CtlStep(now', now)
<1>1. CtlGood(now) BY DEF CtlInv
<1>0. CtlStep(now, now) BY <1>1 DEF CtlStep, CtlWin
<1>. DEFINE t == Controls!clearAutoplayTimer(now)
<1>2. CASE now.active /\ now.mode \in Controls!FeatureModes
  <2>1. now' = Controls!requestSpin(t) \/ now' = t BY <1>2 DEF Controls!handlePrimarySpinAction
  <2>2. now.mode # "ready" BY <1>2 DEF Controls!FeatureModes, Controls!Prompts
  <2>. HIDE DEF CtlInv
  <2>3. CtlKnown(t)
    <3>1. t.mode = now.mode BY <1>1, CtlClearedStep
    <3>. QED BY <2>2, <3>1 DEF CtlKnown, CtlWants
  <2>4. \A u : u = Controls!requestSpin(t) => CtlStep(u, now) BY <1>1, CtlClearedStep
  <2>5. CtlStep(t, now) BY <1>1, <2>3, CtlClearedStep
  <2>. QED BY <1>0, <2>1, <2>4, <2>5
<1>3. CASE ~(now.active /\ now.mode \in Controls!FeatureModes)
  <2>1. now' = Controls!stopAutoplay(now) \/ now' = Controls!requestSpin(now) \/ now' = now
    BY <1>3 DEF Controls!handlePrimarySpinAction
  <2>2. ASSUME now' = Controls!stopAutoplay(now) PROVE CtlStep(now', now) BY <1>1, <2>2, CtlStopStep
  <2>3. ASSUME now' = Controls!requestSpin(now) PROVE CtlStep(now', now) BY <1>1, <2>3, CtlRequestStep
  <2>4. ASSUME now' = now PROVE CtlStep(now', now)
    BY <1>0, <2>4
  <2>. QED BY <1>0, <2>1, <2>2, <2>3, <2>4
<1>. QED BY <1>2, <1>3

\* The space bar presses the button.
LEMMA CtlSpace == ASSUME CtlInv, Controls!SpaceKey PROVE CtlStep(now', now)
<1>1. now' = Controls!requestSpin(now) BY DEF Controls!SpaceKey
<1>2. CtlGood(now) BY DEF CtlInv
<1>. QED BY <1>1, <1>2, CtlRequestStep

\* The timer of the free spins presses the button.
LEMMA CtlFreeTimer == ASSUME CtlInv, Controls!freeSpinTimer PROVE CtlStep(now', now)
<1>1. now' = Controls!requestSpin(now) BY DEF Controls!freeSpinTimer
<1>2. CtlGood(now) BY DEF CtlInv
<1>. QED BY <1>1, <1>2, CtlRequestStep

\* The player stops the run.
LEMMA CtlStopPress == ASSUME CtlInv, Controls!StopAutoplay PROVE CtlStep(now', now)
<1>1. now' = Controls!stopAutoplay(now) BY DEF Controls!StopAutoplay
<1>2. CtlGood(now) BY DEF CtlInv
<1>. QED BY <1>1, <1>2, CtlStopStep

\* A page behind a dialog takes no input, so a panel opens in a session only.
LEMMA CtlOpenPanel ==
  ASSUME CtlInv, NEW panel \in {"bet", "auto", "menu"}, Controls!OpenPanel(panel)
  PROVE  CtlStep(now', now)
<1>1. CtlGood(now) /\ now \in CtlRec /\ CtlPanel(now) /\ CtlBase(now) BY DEF CtlInv, CtlGood, CtlBase
<1>2. CASE now' = Controls!Open(now, panel)
  <2>1. ~now.inert BY DEF Controls!OpenPanel
  <2>2. ~now.timedOut BY <1>1, <2>1 DEF CtlGood, CtlInert
  <2>3. now' \in CtlRec /\ CtlSame(now', now) /\ CtlPanel(now') /\ CtlInert(now') /\ now'.open = {panel}
        /\ now'.canSpin = now.canSpin
    BY <1>1, <1>2, CtlOpens
  <2>4. CtlRun(now') BY <1>1, <2>3 DEF CtlBase, CtlRun, CtlSame
  <2>5. CtlBounds(now') BY <1>1, <2>3 DEF CtlBase, CtlBounds, CtlSame
  <2>6. CtlOver(now') BY <2>2, <2>3 DEF CtlOver, CtlSame
  <2>7. CtlOffer(now') BY <1>1, <2>3 DEF CtlGood, CtlOffer, CtlSame
  <2>8. CtlKnown(now') BY <2>3 DEF CtlKnown, CtlWants
  <2>9. now'.round = now.round BY <2>3 DEF CtlSame
  <2>. QED BY <2>3, <2>4, <2>5, <2>6, <2>7, <2>8, <2>9 DEF CtlStep, CtlGood, CtlWin
<1>3. CASE now' = Controls!Close(now, "bet")
  <2>1. CtlUi(now', now) /\ CtlReady(now') /\ now'.canSpin = now.canSpin BY <1>1, <1>3, CtlCloses
  <2>. QED BY <1>1, <2>1, CtlUiStep
<1>4. now' = Controls!Open(now, panel) \/ now' = Controls!Close(now, "bet")
  BY DEF Controls!OpenPanel, Controls!setBetPopupOpen
<1>. QED BY <1>2, <1>3, <1>4

\* A panel closes, and the press it held back is queued again.
LEMMA CtlClosePanel ==
  ASSUME CtlInv, NEW panel \in {"bet", "auto", "menu"}, Controls!ClosePanel(panel)
  PROVE  CtlStep(now', now)
<1>1. CtlGood(now) /\ now \in CtlRec /\ CtlPanel(now) BY DEF CtlInv, CtlGood
<1>2. now' = Controls!Close(now, panel) BY DEF Controls!ClosePanel
<1>3. CtlUi(now', now) /\ CtlReady(now') /\ now'.canSpin = now.canSpin BY <1>1, <1>2, CtlCloses
<1>. QED BY <1>1, <1>3, CtlUiStep

\* The page takes input again, or takes it no more.
LEMMA CtlSyncs ==
  ASSUME NEW t \in CtlRec, NEW u, u = Controls!syncModalBackgroundInert(t)
  PROVE  /\ u \in CtlRec /\ CtlSame(u, t) /\ CtlInert(u) /\ u.open = t.open /\ u.timer = t.timer
         /\ u.mode = t.mode /\ u.canSpin = t.canSpin /\ u.eligible = t.eligible /\ u.lost = t.lost
<1>. DEFINE i == ~t.hud \/ t.timedOut \/ t.preview \/ t.open # {}
            w == [t EXCEPT !.inert = i]
<1>1. u = w BY DEF Controls!syncModalBackgroundInert, Controls!activeDialog
<1>2. i \in BOOLEAN /\ (i <=> ~t.hud \/ t.timedOut \/ t.preview \/ t.open # {}) OBVIOUS
<1>. HIDE DEF i
<1>3. w \in CtlRec BY <1>2 DEF CtlRec
<1>4. /\ CtlSame(w, t) /\ w.inert = i /\ w.open = t.open /\ w.timer = t.timer
      /\ w.mode = t.mode /\ w.canSpin = t.canSpin /\ w.eligible = t.eligible /\ w.lost = t.lost
  BY DEF CtlRec, CtlSame
<1>. HIDE DEF w
<1>5. CtlInert(w) BY <1>2, <1>4 DEF CtlInert, CtlSame
<1>. QED BY <1>1, <1>3, <1>4, <1>5

\* The page refreshed after a step of the round.
LEMMA CtlRefreshStep ==
  ASSUME NEW t, CtlBase(t), NEW can \in BOOLEAN, can => t.round = "idle", NEW u,
         u = Controls!refreshUi(t, can)
  PROVE  CtlGood(u) /\ u.round = t.round /\ u.active = t.active
<1>. t \in CtlRec /\ CtlPanel(t) BY DEF CtlBase
<1>1. CtlUi(u, t) /\ CtlReady(u) /\ (u.canSpin <=> can /\ ~t.timedOut) BY CtlRefreshes
<1>2. CtlBase(u) /\ u.round = t.round /\ u.timedOut = t.timedOut /\ u.active = t.active BY <1>1, CtlKeeps
<1>3. CtlOffer(u) BY <1>1, <1>2 DEF CtlOffer
<1>. QED BY <1>1, <1>2, <1>3 DEF CtlGood, CtlBase, CtlReady, CtlKnown

\* A run of the chosen number of spins starts.
LEMMA CtlStartsRun ==
  ASSUME CtlInv, NEW count \in RunCounts, Controls!startAutoplay(count)
  PROVE  CtlStep(now', now)
<1>1. CtlGood(now) /\ now \in CtlRec BY DEF CtlInv, CtlGood
<1>. DEFINE v == [now EXCEPT !.pending = Controls!None, !.active = TRUE, !.remaining = count,
                             !.chosen = count, !.spent = 0, !.stopped = FALSE, !.lost = FALSE]
            c == Controls!Close(v, "auto")
<1>2. now' = Controls!queueAutoplaySpin(c) /\ now.canSpin BY DEF Controls!startAutoplay
<1>3. count \in Nat /\ count > 0
  <2>1. \A x \in RunCounts : x \in Nat \ {0} BY ControlsAssumption
  <2>. QED BY <2>1
<1>4. v \in CtlRec
  <2>. DEFINE e == [now EXCEPT !.pending = Controls!None, !.active = TRUE, !.remaining = count]
  <2>1. e \in CtlRec BY <1>1, <1>3 DEF CtlRec
  <2>2. v = [e EXCEPT !.chosen = count, !.spent = 0, !.stopped = FALSE, !.lost = FALSE] BY <1>1 DEF CtlRec
  <2>. HIDE DEF e, v
  <2>. QED BY <2>1, <2>2 DEF CtlRec
<1>5. /\ v.pending = Controls!None /\ v.active = TRUE /\ v.remaining = count /\ v.chosen = count
      /\ v.spent = 0 /\ v.stopped = FALSE /\ v.hud = now.hud /\ v.preview = now.preview
      /\ v.timedOut = now.timedOut /\ v.armed = now.armed /\ v.round = now.round
      /\ v.open = now.open /\ v.inert = now.inert /\ v.timer = now.timer /\ v.canSpin = now.canSpin
  BY <1>1 DEF CtlRec
<1>. HIDE DEF v
<1>6. now.round = "idle" /\ ~now.timedOut BY <1>1, <1>2 DEF CtlGood, CtlOffer
<1>7. now.armed = Controls!None BY <1>1, <1>6 DEF CtlGood, CtlBounds
<1>8. v.spent + v.remaining + 0 = v.chosen /\ v.spent <= v.chosen /\ v.remaining > 0 BY <1>3, <1>5
<1>9. CtlRun(v) BY <1>5, <1>8 DEF CtlRun
<1>10. CtlBounds(v) /\ CtlOver(v) BY <1>5, <1>6, <1>7 DEF CtlBounds, CtlOver
<1>11. CtlPanel(v) /\ CtlInert(v) BY <1>1, <1>5 DEF CtlGood, CtlPanel, CtlInert
<1>12. CtlBase(v) BY <1>4, <1>9, <1>10, <1>11 DEF CtlBase
<1>13. CtlUi(c, v) /\ c.canSpin = v.canSpin BY <1>4, <1>11, CtlCloses
<1>. HIDE DEF c
<1>14. CtlBase(c) /\ c.round = v.round /\ c.timedOut = v.timedOut BY <1>12, <1>13, CtlKeeps
<1>15. CtlUi(now', c) /\ CtlReady(now') /\ now'.canSpin = c.canSpin BY <1>2, <1>14, CtlQueues DEF CtlBase
<1>16. CtlBase(now') /\ now'.round = c.round /\ now'.timedOut = c.timedOut BY <1>14, <1>15, CtlKeeps
<1>17. now'.round = "idle" /\ ~now'.timedOut BY <1>5, <1>6, <1>14, <1>16
<1>18. CtlOffer(now') BY <1>17 DEF CtlOffer
<1>. QED BY <1>6, <1>15, <1>16, <1>18 DEF CtlStep, CtlGood, CtlBase, CtlReady, CtlKnown, CtlWin

\* The boundaries of the next rounds are chosen.
LEMMA CtlSettings ==
  ASSUME CtlInv, NEW boundary \in StopBoundaries, Controls!setAutoplayStopSettings(boundary)
  PROVE  CtlStep(now', now)
<1>1. CtlGood(now) /\ now \in CtlRec BY DEF CtlInv, CtlGood
<1>. DEFINE x == IF boundary \in now.settings THEN now.settings \ {boundary} ELSE now.settings \union {boundary}
            v == [now EXCEPT !.settings = x]
<1>2. now' = v BY <1>1 DEF Controls!setAutoplayStopSettings, CtlRec
<1>3. x \in SUBSET StopBoundaries BY <1>1 DEF CtlRec
<1>. HIDE DEF x
<1>4. v \in CtlRec BY <1>1, <1>3 DEF CtlRec
<1>5. /\ v.mode = now.mode /\ v.canSpin = now.canSpin /\ v.eligible = now.eligible /\ v.open = now.open
      /\ v.hud = now.hud /\ v.preview = now.preview /\ v.timedOut = now.timedOut /\ v.inert = now.inert
      /\ v.active = now.active /\ v.remaining = now.remaining /\ v.pending = now.pending
      /\ v.timer = now.timer /\ v.armed = now.armed /\ v.hits = now.hits /\ v.round = now.round
      /\ v.rounds = now.rounds /\ v.chosen = now.chosen /\ v.spent = now.spent
      /\ v.stopped = now.stopped /\ v.lost = now.lost /\ v.gone = now.gone
  BY <1>1 DEF CtlRec
<1>. HIDE DEF v
<1>6. CtlRun(v) /\ CtlBounds(v) BY <1>1, <1>5 DEF CtlGood, CtlRun, CtlBounds
<1>7. CtlOver(v) /\ CtlOffer(v) /\ CtlPanel(v) /\ CtlInert(v)
  BY <1>1, <1>5 DEF CtlGood, CtlOver, CtlOffer, CtlPanel, CtlInert
<1>8. CtlKnown(v) BY <1>1, <1>5 DEF CtlGood, CtlKnown, CtlWants
<1>. QED BY <1>2, <1>4, <1>5, <1>6, <1>7, <1>8 DEF CtlStep, CtlGood, CtlWin

\* The timer looks at everything again.
LEMMA CtlTimer == ASSUME CtlInv, Controls!TimerFires PROVE CtlStep(now', now)
<1>1. CtlGood(now) BY DEF CtlInv
<1>. DEFINE t == Controls!clearAutoplayTimer(now)
            b == t.active /\ t.mode # now.timer
            v == [t EXCEPT !.lost = b]
<1>2. \/ now' = Controls!requestSpin(t)
      \/ /\ now' = t
         /\ ~(/\ t.active /\ t.eligible /\ t.canSpin /\ t.mode = "ready"
              /\ ~Controls!anyControlPanelOpen(t))
      \/ now' = v /\ now.timer # "paid" /\ now.timer # "none"
  BY DEF Controls!TimerFires
<1>3. /\ CtlBase(t) /\ CtlOffer(t) /\ t.round = now.round /\ t \in CtlRec
      /\ (\A u : u = Controls!requestSpin(t) => CtlStep(u, now))
      /\ (CtlKnown(t) => CtlStep(t, now))
  BY <1>1, CtlClearedStep
<1>. HIDE DEF t, CtlInv
<1>4. CASE now' = Controls!requestSpin(t) BY <1>3, <1>4
<1>5. CASE /\ now' = t
           /\ ~(/\ t.active /\ t.eligible /\ t.canSpin /\ t.mode = "ready"
                /\ ~Controls!anyControlPanelOpen(t))
  <2>1. CtlKnown(t) BY <1>5 DEF CtlKnown, CtlWants, Controls!anyControlPanelOpen
  <2>2. CtlStep(t, now) BY <1>3, <2>1
  <2>. QED BY <1>5, <2>2
<1>6. CASE now' = v /\ now.timer # "paid" /\ now.timer # "none"
  <2>1. b \in BOOLEAN /\ (b <=> t.active /\ t.mode # now.timer) BY <1>3 DEF CtlRec
  <2>. HIDE DEF b
  <2>2. v \in CtlRec BY <1>3, <2>1 DEF CtlRec
  <2>3. /\ v.mode = t.mode /\ v.canSpin = t.canSpin /\ v.eligible = t.eligible /\ v.open = t.open
        /\ v.hud = t.hud /\ v.preview = t.preview /\ v.timedOut = t.timedOut /\ v.inert = t.inert
        /\ v.active = t.active /\ v.remaining = t.remaining /\ v.pending = t.pending
        /\ v.timer = t.timer /\ v.armed = t.armed /\ v.hits = t.hits /\ v.round = t.round
        /\ v.rounds = t.rounds /\ v.chosen = t.chosen /\ v.spent = t.spent
        /\ v.stopped = t.stopped /\ v.lost = b /\ v.gone = t.gone
    BY <1>3 DEF CtlRec
  <2>. HIDE DEF v
  <2>4. CtlRun(v) /\ CtlBounds(v) BY <1>3, <2>3 DEF CtlBase, CtlRun, CtlBounds
  <2>5. CtlOver(v) /\ CtlOffer(v) /\ CtlPanel(v) /\ CtlInert(v)
    BY <1>3, <2>3 DEF CtlBase, CtlOver, CtlOffer, CtlPanel, CtlInert
  <2>6. now.timer # "ready" BY <1>1 DEF CtlGood, CtlRec
  <2>7. CtlKnown(v) BY <2>1, <2>3, <2>6 DEF CtlKnown, CtlWants
  <2>8. CtlStep(v, now) BY <1>3, <2>2, <2>3, <2>4, <2>5, <2>7 DEF CtlStep, CtlGood, CtlWin
  <2>. QED BY <1>6, <2>8
<1>. QED BY <1>2, <1>4, <1>5, <1>6

\* The page of the session shows, or leaves for the launch page: every panel
\* closes and the run ends.
LEMMA CtlLaunch ==
  ASSUME CtlInv, NEW accessible \in BOOLEAN, Controls!setLaunchPhase(accessible)
  PROVE  CtlStep(now', now)
<1>1. CtlGood(now) /\ now \in CtlRec BY DEF CtlInv, CtlGood
<1>2. now.round = "idle" BY DEF Controls!setLaunchPhase
<1>. DEFINE v == [now EXCEPT !.hud = accessible]
            c == Controls!Close(v, "bet")
            d == Controls!Close(c, "auto")
            e == Controls!Close(d, "menu")
            f == Controls!stopAutoplay(e)
            g == IF accessible THEN v ELSE f
            w == Controls!syncModalBackgroundInert(g)
<1>3. now' = Controls!refreshUi(w, accessible) BY DEF Controls!setLaunchPhase
<1>4. v \in CtlRec BY <1>1 DEF CtlRec
<1>5. /\ v.open = now.open /\ v.timedOut = now.timedOut /\ v.active = now.active
      /\ v.remaining = now.remaining /\ v.pending = now.pending
      /\ v.timer = now.timer /\ v.armed = now.armed /\ v.hits = now.hits /\ v.round = now.round
      /\ v.chosen = now.chosen /\ v.spent = now.spent /\ v.stopped = now.stopped
  BY <1>1 DEF CtlRec
<1>. HIDE DEF v
<1>6. CtlRun(v) /\ CtlBounds(v) BY <1>1, <1>5 DEF CtlGood, CtlRun, CtlBounds
<1>7. CtlOver(v) /\ CtlPanel(v) BY <1>1, <1>5 DEF CtlGood, CtlOver, CtlPanel
<1>8. CtlCore(v) /\ v.round = "idle" BY <1>2, <1>4, <1>5, <1>6, <1>7 DEF CtlCore
<1>9. CtlUi(c, v) BY <1>8, CtlCloses DEF CtlCore
<1>. HIDE DEF c
<1>10. CtlCore(c) /\ c.round = "idle" BY <1>8, <1>9, CtlKeepsCore DEF CtlSame
<1>11. CtlUi(d, c) BY <1>10, CtlCloses DEF CtlCore
<1>. HIDE DEF d
<1>12. CtlCore(d) /\ d.round = "idle" BY <1>10, <1>11, CtlKeepsCore DEF CtlSame
<1>13. CtlUi(e, d) BY <1>12, CtlCloses DEF CtlCore
<1>. HIDE DEF e
<1>14. CtlCore(e) /\ e.round = "idle" BY <1>12, <1>13, CtlKeepsCore DEF CtlSame
<1>15. CtlStopped(f, e) BY <1>14, CtlStops DEF CtlCore
<1>16. f \in CtlRec /\ CtlRun(f) /\ CtlPanel(f) /\ CtlOver(f) /\ f.round = "idle"
  <2>1. e \in CtlRec /\ e.spent <= e.chosen /\ CtlPanel(e) /\ (e.timedOut => e.open = {})
    BY <1>14 DEF CtlCore, CtlRun, CtlOver
  <2>. HIDE DEF f
  <2>. QED BY <1>14, <1>15, <2>1, CtlStoppedBase DEF CtlStopped
<1>. HIDE DEF f
<1>17. CtlBounds(f) BY <1>14, <1>15 DEF CtlStopped, CtlCore, CtlBounds
<1>18. CtlCore(g) /\ g.round = "idle" BY <1>8, <1>16, <1>17 DEF CtlCore
<1>. HIDE DEF g
<1>19. w \in CtlRec /\ CtlSame(w, g) /\ CtlInert(w) /\ w.open = g.open /\ w.timer = g.timer
  BY <1>18, CtlSyncs DEF CtlCore
<1>. HIDE DEF w
<1>20. CtlRun(w) /\ CtlBounds(w) BY <1>18, <1>19 DEF CtlCore, CtlSame, CtlRun, CtlBounds
<1>21. CtlOver(w) /\ CtlPanel(w) BY <1>18, <1>19 DEF CtlCore, CtlSame, CtlOver, CtlPanel
<1>22. CtlBase(w) /\ w.round = "idle" BY <1>18, <1>19, <1>20, <1>21 DEF CtlBase, CtlSame
<1>23. CtlGood(now') BY <1>3, <1>22, CtlRefreshStep
<1>. QED BY <1>2, <1>23 DEF CtlStep, CtlWin

\* The preview of the feature covers the launch page.
LEMMA CtlPreview == ASSUME CtlInv, Controls!setFeaturePreviewVisible PROVE CtlStep(now', now)
<1>1. CtlGood(now) /\ now \in CtlRec BY DEF CtlInv, CtlGood
<1>. DEFINE b == ~now.preview
            v == [now EXCEPT !.preview = b]
<1>2. now' = Controls!syncModalBackgroundInert(v) BY DEF Controls!setFeaturePreviewVisible
<1>3. b \in BOOLEAN OBVIOUS
<1>. HIDE DEF b
<1>4. v \in CtlRec BY <1>1, <1>3 DEF CtlRec
<1>5. /\ v.mode = now.mode /\ v.canSpin = now.canSpin /\ v.eligible = now.eligible /\ v.open = now.open
      /\ v.timedOut = now.timedOut
      /\ v.active = now.active /\ v.remaining = now.remaining /\ v.pending = now.pending
      /\ v.timer = now.timer /\ v.armed = now.armed /\ v.hits = now.hits /\ v.round = now.round
      /\ v.rounds = now.rounds /\ v.chosen = now.chosen /\ v.spent = now.spent
      /\ v.stopped = now.stopped /\ v.lost = now.lost /\ v.gone = now.gone
  BY <1>1 DEF CtlRec
<1>. HIDE DEF v
<1>6. /\ now' \in CtlRec /\ CtlSame(now', v) /\ CtlInert(now') /\ now'.open = v.open /\ now'.timer = v.timer
      /\ now'.mode = v.mode /\ now'.canSpin = v.canSpin /\ now'.eligible = v.eligible /\ now'.lost = v.lost
  BY <1>2, <1>4, CtlSyncs
<1>7. CtlRun(now') /\ CtlBounds(now') BY <1>1, <1>5, <1>6 DEF CtlGood, CtlSame, CtlRun, CtlBounds
<1>8. CtlOver(now') /\ CtlPanel(now') BY <1>1, <1>5, <1>6 DEF CtlGood, CtlSame, CtlOver, CtlPanel
<1>9. CtlOffer(now') BY <1>1, <1>5, <1>6 DEF CtlGood, CtlSame, CtlOffer
<1>10. CtlKnown(now') BY <1>1, <1>5, <1>6 DEF CtlGood, CtlSame, CtlKnown, CtlWants
<1>11. now'.round = now.round BY <1>5, <1>6 DEF CtlSame
<1>. QED BY <1>6, <1>7, <1>8, <1>9, <1>10, <1>11 DEF CtlStep, CtlGood, CtlWin

\* A round set to a state of its own, with no spin out: the run stays.
LEMMA CtlRounds ==
  ASSUME NEW t, CtlBase(t), t.pending = Controls!None, NEW x \in {"idle", "shown", "failed"},
         t.armed = Controls!None \/ t.timedOut \/ x = "shown"
  PROVE  /\ CtlBase([t EXCEPT !.round = x]) /\ [t EXCEPT !.round = x].round = x
         /\ [t EXCEPT !.round = x].active = t.active
<1>. t \in CtlRec BY DEF CtlBase
<1>. DEFINE v == [t EXCEPT !.round = x]
<1>1. v \in CtlRec BY DEF CtlRec
<1>2. /\ v.open = t.open /\ v.timedOut = t.timedOut /\ v.active = t.active
      /\ v.remaining = t.remaining /\ v.pending = t.pending /\ v.hud = t.hud /\ v.preview = t.preview
      /\ v.timer = t.timer /\ v.armed = t.armed /\ v.hits = t.hits /\ v.round = x
      /\ v.chosen = t.chosen /\ v.spent = t.spent /\ v.stopped = t.stopped /\ v.inert = t.inert
  BY DEF CtlRec
<1>. HIDE DEF v
<1>3. CtlRun(v) BY <1>2 DEF CtlBase, CtlRun
<1>4. CtlBounds(v) BY <1>2 DEF CtlBase, CtlBounds
<1>5. CtlOver(v) /\ CtlPanel(v) /\ CtlInert(v) BY <1>2 DEF CtlBase, CtlOver, CtlPanel, CtlInert
<1>6. CtlBase(v) BY <1>1, <1>3, <1>4, <1>5 DEF CtlBase
<1>. QED BY <1>2, <1>6 DEF v

\* The connection comes or goes between rounds.
LEMMA CtlStatus ==
  ASSUME CtlInv, NEW online \in BOOLEAN, Controls!StatusChanges(online)
  PROVE  CtlStep(now', now)
<1>1. CtlGood(now) /\ CtlBase(now) BY DEF CtlInv, CtlGood, CtlBase
<1>. DEFINE v == [now EXCEPT !.round = "idle"]
<1>2. now' = Controls!refreshUi(v, online) /\ now.round \in {"idle", "failed"} BY DEF Controls!StatusChanges
<1>3. now.pending = Controls!None BY <1>1, <1>2 DEF CtlBase, CtlRun
<1>4. now.armed = Controls!None \/ now.timedOut BY <1>1, <1>2 DEF CtlBase, CtlBounds
<1>. HIDE DEF CtlInv
<1>5. CtlBase(v) /\ v.round = "idle" BY <1>1, <1>3, <1>4, CtlRounds
<1>. HIDE DEF v
<1>6. CtlGood(now') BY <1>2, <1>5, CtlRefreshStep
<1>. QED BY <1>2, <1>6 DEF CtlStep, CtlWin

\* A result refused: its spin goes back to the run.
LEMMA CtlRejects == ASSUME CtlInv, Controls!rejectSpinResult PROVE CtlStep(now', now)
<1>1. CtlGood(now) /\ CtlBase(now) BY DEF CtlInv, CtlGood, CtlBase
<1>. DEFINE t == Controls!rollbackAcceptedPaidAutoplaySpin(now)
            v == [t EXCEPT !.round = "failed"]
<1>2. now' = Controls!refreshUi(v, FALSE) /\ now.round = "sent" BY DEF Controls!rejectSpinResult
<1>3. CtlBase(t) /\ t.round = now.round /\ CtlPageSame(t, now) /\ t.pending = Controls!None /\ t.armed = now.armed
  BY <1>1, CtlRollsBack
<1>. HIDE DEF t, CtlInv
<1>4. t.armed = Controls!None \/ t.timedOut BY <1>2, <1>3 DEF CtlBase, CtlBounds
<1>5. CtlBase(v) BY <1>3, <1>4, CtlRounds
<1>. HIDE DEF v
<1>6. CtlGood(now') BY <1>2, <1>5, CtlRefreshStep
<1>. QED BY <1>2, <1>6 DEF CtlStep, CtlWin

\* A result accepted: its spin is spent, and its boundaries are those of now.
LEMMA CtlAccepts ==
  ASSUME CtlInv, NEW win \in BOOLEAN, NEW free \in 0..1, Controls!ResultAccepted(win, free)
  PROVE  CtlStep(now', now)
<1>1. CtlGood(now) /\ CtlBase(now) BY DEF CtlInv, CtlGood, CtlBase
<1>. DEFINE f == Controls!finalizeAcceptedPaidAutoplaySpin(now)
            a == [win |-> win, settings |-> f.settings, reached |-> {}, stop |-> FALSE]
            v == [f EXCEPT !.armed = a, !.hits = {}]
            w == [v EXCEPT !.round = "shown", !.free = free]
<1>2. now' = Controls!refreshUi(w, FALSE) /\ now.round = "sent"
  BY DEF Controls!ResultAccepted, Controls!armAutoplayStopRound
<1>3. CtlBase(f) /\ f.round = now.round /\ CtlPageSame(f, now) /\ f.pending = Controls!None
  BY <1>1, CtlFinalizes
<1>. HIDE DEF f, CtlInv
<1>4. f \in CtlRec BY <1>3 DEF CtlBase
<1>5. a \in [win : BOOLEAN, settings : SUBSET StopBoundaries, reached : SUBSET StopBoundaries, stop : BOOLEAN]
      /\ a.reached = {} /\ a.stop = FALSE
  BY <1>4 DEF CtlRec
<1>. HIDE DEF a
<1>6. v \in CtlRec BY <1>4, <1>5 DEF CtlRec
<1>7. w \in CtlRec
  <2>. HIDE DEF v
  <2>. QED BY <1>6 DEF CtlRec
<1>8. /\ w.open = f.open /\ w.timedOut = f.timedOut /\ w.active = f.active
      /\ w.remaining = f.remaining /\ w.pending = f.pending /\ w.hud = f.hud /\ w.preview = f.preview
      /\ w.timer = f.timer /\ w.armed = a /\ w.hits = {} /\ w.round = "shown"
      /\ w.chosen = f.chosen /\ w.spent = f.spent /\ w.stopped = f.stopped /\ w.inert = f.inert
  BY <1>4 DEF CtlRec
<1>. HIDE DEF v, w
<1>9. CtlRun(w) BY <1>3, <1>8 DEF CtlBase, CtlRun
<1>10. CtlBounds(w) BY <1>5, <1>8 DEF CtlBounds
<1>11. CtlOver(w) /\ CtlPanel(w) /\ CtlInert(w) BY <1>3, <1>8 DEF CtlBase, CtlOver, CtlPanel, CtlInert
<1>12. CtlBase(w) BY <1>7, <1>9, <1>10, <1>11 DEF CtlBase
<1>13. CtlGood(now') BY <1>2, <1>12, CtlRefreshStep
<1>. QED BY <1>2, <1>13 DEF CtlStep, CtlWin

\* A boundary met in the state now, with the boundary added to those met.
CtlAdds(t, b) == [t EXCEPT !.hits = t.hits \union {b}]

\* A boundary that is met is kept with those the round has met.
LEMMA CtlMeets ==
  ASSUME NEW t, CtlBase(t), t.armed # Controls!None, NEW b \in StopBoundaries,
         NEW v, v = CtlAdds(t, b)
  PROVE  CtlMet(v) /\ v.hits = v.armed.reached \union {b} /\ v.armed = t.armed /\ v.round = t.round
         /\ v.canSpin = t.canSpin /\ v.hud = t.hud /\ v.timedOut = t.timedOut
<1>. t \in CtlRec BY DEF CtlBase
<1>. DEFINE x == t.hits \union {b}
            w == [t EXCEPT !.hits = x]
<1>1. x \in SUBSET StopBoundaries BY DEF CtlRec
<1>2. t.hits = t.armed.reached BY DEF CtlBase, CtlBounds
<1>. HIDE DEF x
<1>3. w \in CtlRec BY <1>1 DEF CtlRec
<1>4. /\ w.open = t.open /\ w.timedOut = t.timedOut /\ w.active = t.active
      /\ w.remaining = t.remaining /\ w.pending = t.pending /\ w.hud = t.hud /\ w.preview = t.preview
      /\ w.timer = t.timer /\ w.armed = t.armed /\ w.hits = x /\ w.round = t.round
      /\ w.chosen = t.chosen /\ w.spent = t.spent /\ w.stopped = t.stopped /\ w.inert = t.inert
      /\ w.canSpin = t.canSpin
  BY DEF CtlRec
<1>. HIDE DEF w
<1>5. CtlRun(w) /\ CtlOver(w) BY <1>4 DEF CtlBase, CtlRun, CtlOver
<1>6. CtlPanel(w) /\ CtlInert(w) BY <1>4 DEF CtlBase, CtlPanel, CtlInert
<1>7. /\ (t.round = "shown" \/ t.timedOut) /\ (t.armed.reached \cap t.armed.settings # {} => ~t.active)
      /\ (t.armed.stop => ~t.active)
  BY <1>2 DEF CtlBase, CtlBounds
<1>8. CtlMet(w) BY <1>3, <1>4, <1>5, <1>6, <1>7 DEF CtlMet
<1>9. w.hits = w.armed.reached \union {b} BY <1>2, <1>4 DEF x
<1>10. v = w BY DEF CtlAdds, w, x
<1>. QED BY <1>4, <1>8, <1>9, <1>10

\* A boundary met while the round is shown.
LEMMA CtlBoundary ==
  ASSUME CtlInv, NEW boundary \in StopBoundaries, Controls!Boundary(boundary)
  PROVE  CtlStep(now', now)
<1>1. CtlGood(now) /\ CtlBase(now) BY DEF CtlInv, CtlGood, CtlBase
<1>. DEFINE v == [now EXCEPT !.hits = now.hits \union {boundary}]
<1>2. /\ now' = Controls!reachAutoplayStopBoundary(v, boundary)
      /\ now.round = "shown" /\ now.armed # Controls!None /\ (boundary = "any-win" => now.armed.win)
  BY DEF Controls!Boundary
<1>0. v = CtlAdds(now, boundary) BY DEF CtlAdds
<1>. HIDE DEF CtlInv, v
<1>3. CtlMet(v) /\ v.hits = v.armed.reached \union {boundary} /\ v.armed = now.armed /\ v.round = now.round
      /\ v.canSpin = now.canSpin /\ v.timedOut = now.timedOut
  BY <1>0, <1>1, <1>2, CtlMeets
<1>4. CtlBase(now') /\ now'.round = v.round /\ now'.canSpin = v.canSpin
  BY <1>2, <1>3, CtlReaches
<1>5. ~now.canSpin BY <1>1, <1>2 DEF CtlGood, CtlOffer
<1>6. CtlOffer(now') /\ CtlKnown(now') BY <1>3, <1>4, <1>5 DEF CtlOffer, CtlKnown, CtlWants
<1>. QED BY <1>2, <1>3, <1>4, <1>6 DEF CtlStep, CtlGood, CtlBase, CtlWin

\* The show asks for a prompt, or for none.
LEMMA CtlShowMode ==
  ASSUME CtlInv, NEW mode \in {"waiting", "stop", "continue", "wheel", "popup", "turn"}, Controls!ModeOfTheShow(mode)
  PROVE  CtlStep(now', now)
<1>1. CtlGood(now) /\ now \in CtlRec /\ CtlPanel(now) BY DEF CtlInv, CtlGood
<1>2. now' = Controls!setSpinMode(now, mode) BY DEF Controls!ModeOfTheShow
<1>3. mode \in Controls!Modes BY DEF Controls!Modes, Controls!FeatureModes, Controls!Prompts
<1>4. CtlUi(now', now) /\ CtlReady(now') /\ now'.canSpin = now.canSpin BY <1>1, <1>2, <1>3, CtlModes
<1>. QED BY <1>1, <1>4, CtlUiStep

\* A round over: a win no one reported stops the run now.
LEMMA CtlRoundOver == ASSUME CtlInv, Controls!RoundOver PROVE CtlStep(now', now)
<1>1. CtlGood(now) /\ CtlBase(now) BY DEF CtlInv, CtlGood, CtlBase
<1>. DEFINE h == [now EXCEPT !.hits = now.hits \union {"any-win"}]
            r == IF now.armed # Controls!None /\ now.armed.win
                 THEN Controls!reachAutoplayStopBoundary(h, "any-win") ELSE now
            d == [r EXCEPT !.armed = Controls!None]
            w == [d EXCEPT !.round = "idle"]
<1>2. now' = Controls!refreshUi(w, now.hud) /\ now.round = "shown"
  BY DEF Controls!RoundOver, Controls!completeAutoplayStopRound
<1>0. h = CtlAdds(now, "any-win") BY DEF CtlAdds
<1>. HIDE DEF CtlInv, h
<1>3. CtlBase(r) /\ r.round = "shown"
      /\ (now.armed # Controls!None /\ now.armed.win /\ "any-win" \in now.armed.settings => ~r.active)
  <2>1. CASE now.armed # Controls!None /\ now.armed.win
    <3>1. "any-win" \in StopBoundaries BY ControlsAssumption
    <3>2. CtlMet(h) /\ h.hits = h.armed.reached \union {"any-win"} /\ h.armed = now.armed /\ h.round = now.round
      BY <1>0, <1>1, <2>1, <3>1, CtlMeets
    <3>3. r = Controls!reachAutoplayStopBoundary(h, "any-win") BY <2>1
    <3>. HIDE DEF r
    <3>4. CtlBase(r) /\ r.round = h.round /\ ("any-win" \in h.armed.settings => ~r.active)
      BY <2>1, <3>1, <3>2, <3>3, CtlReaches
    <3>. QED BY <1>2, <3>2, <3>4
  <2>2. CASE ~(now.armed # Controls!None /\ now.armed.win)
    <3>1. r = now BY <2>2
    <3>. HIDE DEF r
    <3>. QED BY <1>1, <1>2, <2>2, <3>1
  <2>. QED BY <2>1, <2>2
<1>. HIDE DEF r
<1>4. CtlBase(d) /\ d.pending = Controls!None /\ d.armed = Controls!None /\ d.active = r.active
  <2>1. r \in CtlRec BY <1>3 DEF CtlBase
  <2>2. d \in CtlRec BY <2>1 DEF CtlRec
  <2>3. /\ d.open = r.open /\ d.timedOut = r.timedOut /\ d.active = r.active
        /\ d.remaining = r.remaining /\ d.pending = r.pending /\ d.hud = r.hud /\ d.preview = r.preview
        /\ d.timer = r.timer /\ d.armed = Controls!None /\ d.hits = r.hits /\ d.round = r.round
        /\ d.chosen = r.chosen /\ d.spent = r.spent /\ d.stopped = r.stopped /\ d.inert = r.inert
    BY <2>1 DEF CtlRec
  <2>. HIDE DEF d
  <2>4. CtlRun(d) BY <1>3, <2>3 DEF CtlBase, CtlRun
  <2>5. CtlBounds(d) BY <2>3 DEF CtlBounds
  <2>6. CtlOver(d) /\ CtlPanel(d) /\ CtlInert(d) BY <1>3, <2>3 DEF CtlBase, CtlOver, CtlPanel, CtlInert
  <2>7. r.pending = Controls!None BY <1>3 DEF CtlBase, CtlRun
  <2>. QED BY <2>2, <2>3, <2>4, <2>5, <2>6, <2>7 DEF CtlBase
<1>. HIDE DEF d
<1>5. CtlBase(w) /\ w.round = "idle" /\ w.active = d.active BY <1>4, CtlRounds
<1>. HIDE DEF w
<1>6. now.hud \in BOOLEAN BY <1>1 DEF CtlBase, CtlRec
<1>7. CtlGood(now') /\ now'.active = w.active BY <1>2, <1>5, <1>6, CtlRefreshStep
<1>. QED BY <1>3, <1>4, <1>5, <1>7 DEF CtlStep, CtlWin

\* The session is over: the spin it had out goes back, the run ends, every
\* panel closes, and nothing is offered any more.
LEMMA CtlTimesOut == ASSUME CtlInv, Controls!showSessionTimeout PROVE CtlStep(now', now)
<1>1. CtlGood(now) /\ CtlBase(now) BY DEF CtlInv, CtlGood, CtlBase
<1>. DEFINE q == Controls!rollbackAcceptedPaidAutoplaySpin(now)
            t == Controls!setControls(q, FALSE, FALSE)
            x == [t EXCEPT !.timedOut = TRUE, !.round = "failed"]
            u == Controls!stopAutoplay(x)
            c == Controls!Close(u, "bet")
            d == Controls!Close(c, "auto")
            e == Controls!Close(d, "menu")
            v == [e EXCEPT !.preview = FALSE]
<1>2. now' = Controls!syncModalBackgroundInert(v) BY DEF Controls!showSessionTimeout
<1>3. CtlBase(q) /\ q.pending = Controls!None BY <1>1, CtlRollsBack
<1>. HIDE DEF CtlInv, q
<1>4. CtlUi(t, q) /\ ~t.canSpin BY <1>3, CtlControls DEF CtlBase
<1>. HIDE DEF t
<1>5. CtlBase(t) BY <1>3, <1>4, CtlKeeps
<1>6. t \in CtlRec BY <1>5 DEF CtlBase
<1>7. x \in CtlRec BY <1>6 DEF CtlRec
<1>8. /\ x.open = t.open /\ x.timer = t.timer /\ x.spent = t.spent /\ x.chosen = t.chosen
      /\ x.armed = t.armed /\ x.hits = t.hits /\ x.timedOut = TRUE /\ x.round = "failed"
      /\ x.canSpin = t.canSpin
  BY <1>6 DEF CtlRec
<1>. HIDE DEF x
<1>9. CtlPanel(x) /\ x.spent <= x.chosen BY <1>5, <1>8 DEF CtlBase, CtlPanel, CtlRun
<1>10. x.armed # Controls!None => x.hits = x.armed.reached BY <1>5, <1>8 DEF CtlBase, CtlBounds
<1>11. CtlStopped(u, x) BY <1>7, <1>9, CtlStops
<1>. HIDE DEF u
<1>12. /\ u \in CtlRec /\ CtlPanel(u) /\ CtlRun(u)
  BY <1>7, <1>9, <1>11, CtlStoppedBase DEF CtlStopped
<1>13. /\ u.timer = "none" /\ u.active = FALSE /\ u.pending = Controls!None /\ u.armed = x.armed
       /\ u.hits = x.hits /\ u.timedOut = TRUE /\ u.round = "failed" /\ ~u.canSpin
  BY <1>4, <1>8, <1>11 DEF CtlStopped
<1>14. CtlUi(c, u) /\ c.open = u.open \ {"bet"} /\ c.canSpin = u.canSpin BY <1>12, CtlCloses
<1>. HIDE DEF c
<1>15. c \in CtlRec /\ CtlPanel(c) BY <1>14 DEF CtlUi
<1>16. CtlUi(d, c) /\ d.open = c.open \ {"auto"} /\ d.canSpin = c.canSpin BY <1>15, CtlCloses
<1>. HIDE DEF d
<1>17. d \in CtlRec /\ CtlPanel(d) BY <1>16 DEF CtlUi
<1>18. CtlUi(e, d) /\ e.open = d.open \ {"menu"} /\ e.canSpin = d.canSpin BY <1>17, CtlCloses
<1>. HIDE DEF e
<1>19. CtlUi(e, u) BY <1>14, <1>16, <1>18, CtlTwice
<1>20. e \in CtlRec /\ CtlSame(e, u) /\ e.timer = "none" /\ ~e.canSpin
  BY <1>13, <1>14, <1>16, <1>18, <1>19 DEF CtlUi
<1>21. e.open = {}
  <2>1. u.open \subseteq {"bet", "auto", "menu"} BY <1>12 DEF CtlRec
  <2>2. e.open = ((u.open \ {"bet"}) \ {"auto"}) \ {"menu"} BY <1>14, <1>16, <1>18
  <2>. QED BY <2>1, <2>2
<1>22. v \in CtlRec BY <1>20 DEF CtlRec
<1>23. /\ v.open = e.open /\ v.timedOut = e.timedOut /\ v.active = e.active
       /\ v.remaining = e.remaining /\ v.pending = e.pending /\ v.canSpin = e.canSpin
       /\ v.timer = e.timer /\ v.armed = e.armed /\ v.hits = e.hits /\ v.round = e.round
       /\ v.chosen = e.chosen /\ v.spent = e.spent /\ v.stopped = e.stopped
  BY <1>20 DEF CtlRec
<1>. HIDE DEF v
<1>24. /\ now' \in CtlRec /\ CtlSame(now', v) /\ CtlInert(now') /\ now'.open = v.open /\ now'.timer = v.timer
       /\ now'.canSpin = v.canSpin
  BY <1>2, <1>22, CtlSyncs
<1>25. /\ now'.active = FALSE /\ now'.pending = Controls!None /\ now'.armed = x.armed /\ now'.hits = x.hits
       /\ now'.timedOut = TRUE /\ now'.round = "failed" /\ ~now'.canSpin /\ now'.open = {} /\ now'.timer = "none"
  BY <1>13, <1>20, <1>21, <1>23, <1>24 DEF CtlSame
<1>26. CtlRun(now') BY <1>12, <1>20, <1>23, <1>24 DEF CtlSame, CtlRun
<1>27. CtlBounds(now') BY <1>10, <1>25 DEF CtlBounds
<1>28. CtlOver(now') /\ CtlOffer(now') /\ CtlPanel(now') /\ CtlKnown(now')
  BY <1>25 DEF CtlOver, CtlOffer, CtlPanel, CtlKnown, CtlWants
<1>. QED BY <1>24, <1>25, <1>26, <1>27, <1>28 DEF CtlStep, CtlGood, CtlWin

\* The page goes, and its timer with it.
LEMMA CtlDestroys == ASSUME CtlInv, Controls!destroy PROVE CtlStep(now', now)
<1>1. CtlGood(now) BY DEF CtlInv
<1>. DEFINE t == Controls!clearAutoplayTimer(now)
            v == [t EXCEPT !.gone = TRUE]
<1>2. now' = v BY DEF Controls!destroy
<1>3. CtlBase(t) /\ CtlOffer(t) /\ t.round = now.round BY <1>1, CtlClearedStep
<1>. HIDE DEF t, CtlInv
<1>4. t \in CtlRec BY <1>3 DEF CtlBase
<1>5. v \in CtlRec BY <1>4 DEF CtlRec
<1>6. /\ v.open = t.open /\ v.timedOut = t.timedOut /\ v.active = t.active /\ v.inert = t.inert
      /\ v.remaining = t.remaining /\ v.pending = t.pending /\ v.canSpin = t.canSpin
      /\ v.timer = t.timer /\ v.armed = t.armed /\ v.hits = t.hits /\ v.round = t.round
      /\ v.chosen = t.chosen /\ v.spent = t.spent /\ v.stopped = t.stopped /\ v.gone = TRUE
      /\ v.hud = t.hud /\ v.preview = t.preview
  BY <1>4 DEF CtlRec
<1>. HIDE DEF v
<1>7. CtlRun(v) /\ CtlBounds(v) BY <1>3, <1>6 DEF CtlBase, CtlRun, CtlBounds
<1>8. CtlOver(v) /\ CtlOffer(v) BY <1>3, <1>6 DEF CtlBase, CtlOver, CtlOffer
<1>9. CtlPanel(v) /\ CtlInert(v) /\ CtlKnown(v) BY <1>3, <1>6 DEF CtlBase, CtlPanel, CtlInert, CtlKnown
<1>10. CtlStep(v, now) BY <1>3, <1>5, <1>6, <1>7, <1>8, <1>9 DEF CtlStep, CtlGood, CtlWin
<1>. QED BY <1>2, <1>10

\* The overlay starts behind the launch page, with the boundaries it was left.
LEMMA CtlStarts == ASSUME Controls!Init PROVE CtlInv
<1>1. PICK settings \in SUBSET StopBoundaries :
    now = [mode |-> "waiting", canSpin |-> FALSE, canBet |-> FALSE, eligible |-> FALSE,
         open |-> {}, hud |-> FALSE, preview |-> FALSE,
         timedOut |-> FALSE, inert |-> TRUE, active |-> FALSE, remaining |-> 0,
         pending |-> Controls!None, timer |-> "none", settings |-> settings, armed |-> Controls!None,
         hits |-> {}, round |-> "idle", free |-> 0, rounds |-> 0, chosen |-> 0,
         spent |-> 0, stopped |-> FALSE, lost |-> FALSE, gone |-> FALSE]
  BY DEF Controls!Init
<1>2. now \in CtlRec BY <1>1, ControlsAssumption DEF CtlRec, Controls!Modes
<1>3. /\ now.active = FALSE /\ now.canSpin = FALSE /\ now.pending = Controls!None /\ now.armed = Controls!None
      /\ now.open = {} /\ now.timedOut = FALSE /\ now.spent = 0 /\ now.chosen = 0 /\ now.inert = TRUE
      /\ now.hud = FALSE
  BY <1>1
<1>4. CtlRun(now) /\ CtlBounds(now) BY <1>3 DEF CtlRun, CtlBounds
<1>5. CtlOver(now) /\ CtlOffer(now) BY <1>3 DEF CtlOver, CtlOffer
<1>6. CtlPanel(now) /\ CtlInert(now) /\ CtlKnown(now) BY <1>3 DEF CtlPanel, CtlInert, CtlKnown, CtlWants
<1>. QED BY <1>2, <1>4, <1>5, <1>6 DEF CtlInv, CtlGood

CtlAny ==
  \/ Controls!handlePrimarySpinAction \/ Controls!SpaceKey \/ Controls!StopAutoplay \/ Controls!TimerFires
  \/ Controls!setFeaturePreviewVisible \/ Controls!freeSpinTimer \/ Controls!rejectSpinResult
  \/ Controls!RoundOver \/ Controls!showSessionTimeout \/ Controls!destroy
  \/ \E panel \in {"bet", "auto", "menu"} : Controls!OpenPanel(panel)
  \/ \E panel \in {"bet", "auto", "menu"} : Controls!ClosePanel(panel)
  \/ \E count \in RunCounts : Controls!startAutoplay(count)
  \/ \E boundary \in StopBoundaries : Controls!setAutoplayStopSettings(boundary)
  \/ \E boundary \in StopBoundaries : Controls!Boundary(boundary)
  \/ \E yes \in BOOLEAN : Controls!setLaunchPhase(yes)
  \/ \E yes \in BOOLEAN : Controls!StatusChanges(yes)
  \/ \E win \in BOOLEAN, free \in 0..1 : Controls!ResultAccepted(win, free)
  \/ \E mode \in {"waiting", "stop", "continue", "wheel", "popup", "turn"} : Controls!ModeOfTheShow(mode)
\* Every call of the player, the timers and the round keeps the invariant,
\* and a round that ends has stopped the run its win was to stop.
LEMMA CtlNextStep == ASSUME CtlInv, CtlAny PROVE CtlStep(now', now)
BY CtlPrimary, CtlSpace, CtlStopPress, CtlTimer, CtlPreview, CtlFreeTimer, CtlRejects, CtlRoundOver,
   CtlTimesOut, CtlDestroys, CtlOpenPanel, CtlClosePanel, CtlStartsRun, CtlSettings, CtlBoundary,
   CtlLaunch, CtlStatus, CtlAccepts, CtlShowMode
   DEF CtlAny

\* Every call of the controls keeps the invariant, and a round that ends on a win has
\* stopped the run its win was to stop.
LEMMA CtlSteps == ASSUME CtlInv, CtlAny PROVE CtlInv' /\ Controls!WinStops
<1>1. CtlStep(now', now) BY CtlNextStep
<1>2. CtlInv' BY <1>1 DEF CtlStep, CtlInv
<1>3. Controls!WinStops BY <1>1 DEF CtlStep, CtlWin, Controls!WinStops
<1>. QED BY <1>2, <1>3

\* What the runs ask of the controls follows from the invariant.
LEMMA CtlRight ==
  ASSUME CtlInv
  PROVE  /\ Controls!TypeOK /\ Controls!PaidAsChosen /\ Controls!StoppedStays /\ Controls!BoundaryHonoured
         /\ Controls!OnePanel /\ Controls!TimedOutIsFinal /\ Controls!NotForgotten
<1>1. CtlGood(now) /\ now \in CtlRec BY DEF CtlInv, CtlGood
<1>2. Controls!TypeOK
  <2>1. /\ now.mode \in Controls!Modes /\ now.open \subseteq Controls!Panels
        /\ now.chosen \in RunCounts \union {0} /\ now.spent \in Nat /\ now.remaining \in Nat
        /\ now.timer \in {"none", "paid"} \union Controls!Prompts
        /\ now.settings \subseteq StopBoundaries /\ now.hits \subseteq StopBoundaries
        /\ now.round \in {"idle", "sent", "shown", "failed"} /\ now.free \in 0..1
        /\ now.rounds \in 0..ControlRounds
    BY <1>1 DEF CtlRec, Controls!Panels, Controls!Prompts
  <2>2. {now.canSpin, now.canBet, now.eligible, now.hud, now.preview, now.timedOut, now.inert, now.active,
         now.stopped, now.lost, now.gone} \subseteq BOOLEAN
    BY <1>1 DEF CtlRec
  <2>3. now.pending = Controls!None \/ now.pending.remaining \in Nat \ {0} BY <1>1 DEF CtlRec
  <2>4. now.armed = Controls!None \/ now.armed.settings \subseteq StopBoundaries BY <1>1 DEF CtlRec
  <2>. QED BY <2>1, <2>2, <2>3, <2>4 DEF Controls!TypeOK
<1>3. Controls!PaidAsChosen BY <1>1 DEF CtlGood, CtlRun, Controls!PaidAsChosen
<1>4. Controls!StoppedStays BY <1>1 DEF CtlGood, CtlRun, Controls!StoppedStays
<1>5. Controls!BoundaryHonoured BY <1>1 DEF CtlGood, CtlBounds, Controls!BoundaryHonoured
<1>6. Controls!OnePanel
  <2>1. \A p, q \in now.open : p = q BY <1>1 DEF CtlGood, CtlPanel
  <2>2. now.inert = (~now.hud \/ Controls!activeDialog(now))
    <3>1. now.inert <=> ~now.hud \/ Controls!activeDialog(now)
      BY <1>1 DEF CtlGood, CtlInert, Controls!activeDialog
    <3>2. now.inert \in BOOLEAN /\ (~now.hud \/ Controls!activeDialog(now)) \in BOOLEAN
      BY <1>1 DEF CtlRec, Controls!activeDialog
    <3>3. CASE now.inert = TRUE
      <4>1. (~now.hud \/ Controls!activeDialog(now)) = TRUE BY <3>1, <3>2, <3>3, Zenon
      <4>. QED BY <4>1, <3>3, Zenon
    <3>4. CASE now.inert = FALSE
      <4>1. (~now.hud \/ Controls!activeDialog(now)) = FALSE BY <3>1, <3>2, <3>4, Zenon
      <4>. QED BY <4>1, <3>4, Zenon
    <3>. QED BY <3>2, <3>3, <3>4, Zenon
  <2>3. now.open # {} => now.timer = "none" BY <1>1 DEF CtlGood, CtlPanel
  <2>. QED BY <2>1, <2>2, <2>3 DEF Controls!OnePanel
<1>7. Controls!TimedOutIsFinal
  BY <1>1 DEF CtlGood, CtlOver, CtlOffer, Controls!TimedOutIsFinal
<1>8. Controls!NotForgotten
  BY <1>1 DEF CtlGood, CtlKnown, CtlWants, Controls!NotForgotten, Controls!Alive
<1>. QED BY <1>2, <1>3, <1>4, <1>5, <1>6, <1>7, <1>8

-----------------------------------------------------------------------------
(* The messages and the meter (RoundMessages).                              *)

MsgRec ==
  [phase : {"ready", "requesting", "presenting", "recovering"},
   text : {"press", "spin", "blank", "counting", "settled", "wheel", "bigwin", "conclusion"},
   meter : 0..TotalWin, wheel : BOOLEAN, ordinary : {"none", "counting", "settled"},
   suppress : BOOLEAN, failed : BOOLEAN,
   anim : {Messages!None} \union [running : {TRUE}, total : 1..TotalWin],
   asked : 0..MessageRounds, answered : 0..MessageRounds,
   step : {"none", "reels", "wins", "counter", "features", "over"},
   win : 0..TotalWin, big : BOOLEAN, bonus : 0..1, rounds : 0..MessageRounds]

\* A round is shown step by step, and a counter asked for once in it.
MsgRound(r) ==
  /\ (r.phase = "presenting" <=> r.step # "none") /\ r.step # "over"
  /\ r.win + r.bonus <= TotalWin /\ (r.step \in {"wins", "counter"} => r.win > 0)
  /\ r.asked <= r.rounds
  /\ (r.phase = "requesting" \/ r.step \in {"reels", "wins"} => r.asked < r.rounds)
\* A counter runs in its step alone, and every other one was answered.
MsgCounter(r) ==
  /\ (r.anim = Messages!None => r.asked = r.answered)
  /\ (r.anim # Messages!None => r.asked = r.answered + 1 /\ r.step = "counter" /\ r.anim.total = r.win)
MsgMeter(r) ==
  /\ (r.phase = "requesting" => r.meter = 0)
  /\ (r.phase = "presenting" => r.meter <= r.win)
  /\ (r.phase \in {"ready", "recovering"} => r.meter = 0 \/ r.meter = r.win + r.bonus)
\* The line shows what its owners hold, and they hold nothing of an earlier round.
MsgLine(r) ==
  /\ (r.phase = "requesting" => r.text = "spin")
  /\ (r.phase \in {"requesting", "recovering"} \/ r.step \in {"reels", "wins"} => r.ordinary = "none")
  /\ (r.phase = "recovering" => r.text = "blank")
  /\ (r.wheel => r.text \in {"wheel", "conclusion"} /\ (r.step = "features" \/ r.phase = "ready"))
  /\ (r.text \in {"counting", "settled"} => r.ordinary = r.text)
  /\ (r.ordinary = "counting" => r.anim # Messages!None \/ (r.failed /\ r.phase = "ready"))
  /\ (r.ordinary = "settled" /\ r.phase = "presenting" => r.meter = r.win /\ r.anim = Messages!None)
MsgGood(r) == r \in MsgRec /\ MsgRound(r) /\ MsgCounter(r) /\ MsgMeter(r) /\ MsgLine(r)
MsgInv == MsgGood(now)

\* What a change of the line alone leaves as it is.
MsgKept(u, t) ==
  /\ u.meter = t.meter /\ u.failed = t.failed /\ u.anim = t.anim /\ u.asked = t.asked
  /\ u.answered = t.answered /\ u.step = t.step /\ u.win = t.win /\ u.big = t.big
  /\ u.bonus = t.bonus /\ u.rounds = t.rounds
\* The line shows its first owner.
MsgShows(u) ==
  /\ (u.wheel => u.text = "wheel")
  /\ (~u.wheel /\ u.ordinary # "none" => u.text = u.ordinary)
  /\ (~u.wheel /\ u.ordinary = "none" =>
        /\ u.text \in {"press", "spin", "blank"}
        /\ (u.phase = "requesting" => u.text = "spin") /\ (u.phase = "recovering" => u.text = "blank"))

\* applyCurrentRoundState writes what the line's owners hold.
LEMMA MsgApplies ==
  ASSUME NEW t \in MsgRec, NEW u, u = Messages!applyCurrentRoundState(t)
  PROVE  /\ u \in MsgRec /\ MsgKept(u, t) /\ MsgShows(u)
         /\ u.phase = t.phase /\ u.wheel = t.wheel /\ u.ordinary = t.ordinary
<1>. DEFINE x == IF t.wheel THEN "wheel" ELSE IF t.ordinary # "none" THEN t.ordinary
                 ELSE Messages!roundStatePresentation(t)
<1>1. u = [t EXCEPT !.text = x]
  BY DEF Messages!applyCurrentRoundState
<1>2. /\ t.phase \in {"ready", "requesting", "presenting", "recovering"}
      /\ t.ordinary \in {"none", "counting", "settled"} /\ t.wheel \in BOOLEAN
  BY DEF MsgRec
<1>3. /\ Messages!roundStatePresentation(t) \in {"press", "spin", "blank"}
      /\ t.phase = "requesting" => Messages!roundStatePresentation(t) = "spin"
      /\ t.phase = "recovering" => Messages!roundStatePresentation(t) = "blank"
  <2>1. CASE t.phase = "ready"
    BY <2>1 DEF Messages!roundStatePresentation
  <2>2. CASE t.phase = "requesting"
    BY <2>2 DEF Messages!roundStatePresentation
  <2>3. CASE t.phase = "presenting"
    BY <2>3 DEF Messages!roundStatePresentation
  <2>4. CASE t.phase = "recovering"
    BY <2>4 DEF Messages!roundStatePresentation
  <2>. QED
    BY <1>2, <2>1, <2>2, <2>3, <2>4
<1>4. /\ x \in {"press", "spin", "blank", "counting", "settled", "wheel", "bigwin", "conclusion"}
      /\ (t.wheel => x = "wheel")
      /\ (~t.wheel /\ t.ordinary # "none" => x = t.ordinary)
      /\ (~t.wheel /\ t.ordinary = "none" =>
            /\ x \in {"press", "spin", "blank"}
            /\ (t.phase = "requesting" => x = "spin") /\ (t.phase = "recovering" => x = "blank"))
  BY <1>2, <1>3
<1>. HIDE DEF x
<1>5. /\ u \in MsgRec /\ u.text = x /\ u.phase = t.phase /\ u.wheel = t.wheel /\ u.ordinary = t.ordinary
      /\ MsgKept(u, t)
  BY <1>1, <1>4 DEF MsgRec, MsgKept
<1>. QED
  BY <1>4, <1>5 DEF MsgShows

\* setPhase: a fresh round's line has no owner of the last one.
LEMMA MsgPhases ==
  ASSUME NEW t \in MsgRec, NEW phase \in {"ready", "requesting", "presenting", "recovering"},
         NEW u, u = Messages!setPhase(t, phase)
  PROVE  /\ u \in MsgRec /\ MsgKept(u, t) /\ MsgShows(u) /\ u.phase = phase
         /\ (phase \in {"requesting", "recovering"} => ~u.wheel /\ u.ordinary = "none")
         /\ (phase \in {"ready", "presenting"} => u.wheel = t.wheel /\ u.ordinary = t.ordinary)
<1>. DEFINE fresh == phase \in {"requesting", "recovering"}
            w == t.wheel /\ ~fresh
            o == IF fresh THEN "none" ELSE t.ordinary
            b == t.suppress /\ ~fresh /\ phase # "ready"
            v == [t EXCEPT !.phase = phase, !.wheel = w, !.ordinary = o, !.suppress = b]
<1>1. u = Messages!applyCurrentRoundState(v)
  BY DEF Messages!setPhase
<1>2. w \in BOOLEAN /\ b \in BOOLEAN /\ o \in {"none", "counting", "settled"}
  BY DEF MsgRec
<1>3. /\ o \in {"none", "counting", "settled"}
      /\ (fresh => ~w /\ o = "none") /\ (~fresh => (w <=> t.wheel) /\ o = t.ordinary)
  BY DEF MsgRec
<1>. HIDE DEF w, o, b, fresh
<1>5. v \in MsgRec /\ MsgKept(v, t) /\ v.phase = phase /\ v.wheel = w /\ v.ordinary = o
  <2>1. v \in MsgRec
    BY <1>2 DEF MsgRec
  <2>2. v.phase = phase /\ v.wheel = w /\ v.ordinary = o
    BY DEF MsgRec
  <2>3. MsgKept(v, t)
    BY DEF MsgRec, MsgKept
  <2>. QED
    BY <2>1, <2>2, <2>3
<1>. HIDE DEF v
<1>6. /\ u \in MsgRec /\ MsgKept(u, v) /\ MsgShows(u)
      /\ u.phase = v.phase /\ u.wheel = v.wheel /\ u.ordinary = v.ordinary
  BY <1>1, <1>5, MsgApplies
<1>7. MsgKept(u, t)
  BY <1>5, <1>6 DEF MsgKept
<1>8. w \in BOOLEAN /\ t.wheel \in BOOLEAN
  BY <1>2 DEF MsgRec
<1>9. CASE fresh
  <2>1. phase \notin {"ready", "presenting"}
    BY <1>9 DEF fresh
  <2>. QED
    BY <1>3, <1>5, <1>6, <1>7, <1>9, <2>1
<1>10. CASE ~fresh
  <2>1. w = t.wheel
    BY <1>3, <1>8, <1>10
  <2>2. phase \notin {"requesting", "recovering"}
    BY <1>10 DEF fresh
  <2>. QED
    BY <1>3, <1>5, <1>6, <1>7, <1>10, <2>1, <2>2
<1>. QED
  BY <1>9, <1>10

\* The line after a change that shows what its owners hold, in a phase of its own.
LEMMA MsgLines ==
  ASSUME NEW u \in MsgRec, MsgShows(u),
         u.phase \in {"requesting", "recovering"} \/ u.step \in {"reels", "wins"} => u.ordinary = "none",
         u.phase \in {"requesting", "recovering"} => ~u.wheel,
         u.wheel => u.step = "features" \/ u.phase = "ready",
         u.ordinary = "counting" => u.anim # Messages!None \/ (u.failed /\ u.phase = "ready"),
         u.ordinary = "settled" /\ u.phase = "presenting" => u.meter = u.win /\ u.anim = Messages!None
  PROVE  MsgLine(u)
<1>1. /\ u.phase \in {"ready", "requesting", "presenting", "recovering"}
      /\ u.ordinary \in {"none", "counting", "settled"} /\ u.wheel \in BOOLEAN
  BY DEF MsgRec
<1>2. /\ (u.phase = "requesting" => u.text = "spin")
      /\ (u.phase = "recovering" => u.text = "blank")
  BY <1>1 DEF MsgShows
<1>3. u.wheel => u.text \in {"wheel", "conclusion"} /\ (u.step = "features" \/ u.phase = "ready")
  BY DEF MsgShows
<1>4. u.text \in {"counting", "settled"} => u.ordinary = u.text
  <2>1. CASE u.wheel
    BY <2>1 DEF MsgShows
  <2>2. CASE ~u.wheel /\ u.ordinary = "none"
    BY <2>2 DEF MsgShows
  <2>3. CASE ~u.wheel /\ u.ordinary # "none"
    BY <2>3 DEF MsgShows
  <2>. QED
    BY <2>1, <2>2, <2>3
<1>. QED
  BY <1>2, <1>3, <1>4 DEF MsgLine

\* A refresh, a status of the connection and its recovery.
LEMMA MsgSettings ==
  ASSUME MsgInv, Messages!refreshUi \/ Messages!handleStatus \/ Messages!Recovered
  PROVE  MsgInv'
<1>1. MsgGood(now) /\ now \in MsgRec
  BY DEF MsgInv, MsgGood
<1>2. ASSUME NEW t \in MsgRec, MsgKept(t, now), t.phase = now.phase, t.ordinary = now.ordinary,
             ~t.wheel \/ t.wheel = now.wheel,
             NEW phase \in {"ready", "requesting", "presenting", "recovering"},
             phase = now.phase \/ {phase, now.phase} \subseteq {"ready", "recovering"}
               \/ (now.phase = "requesting" /\ phase = "recovering"),
             now' = Messages!setPhase(t, phase)
      PROVE  MsgInv'
  <2>1. /\ now' \in MsgRec /\ MsgKept(now', t) /\ MsgShows(now') /\ now'.phase = phase
        /\ (phase \in {"requesting", "recovering"} => ~now'.wheel /\ now'.ordinary = "none")
        /\ (phase \in {"ready", "presenting"} => now'.wheel = t.wheel /\ now'.ordinary = t.ordinary)
    BY <1>2, MsgPhases
  <2>2. MsgKept(now', now)
    BY <1>2, <2>1 DEF MsgKept
  <2>3. MsgRound(now')
    BY <1>1, <1>2, <2>1, <2>2 DEF MsgGood, MsgRound, MsgKept
  <2>4. MsgCounter(now')
    BY <1>1, <2>2 DEF MsgGood, MsgCounter, MsgKept
  <2>5. MsgMeter(now')
    BY <1>1, <1>2, <2>1, <2>2 DEF MsgGood, MsgMeter, MsgKept
  <2>6. MsgLine(now')
    <3>1. now.phase = "presenting" <=> phase = "presenting"
      BY <1>2
    <3>2. /\ now'.phase \in {"requesting", "recovering"} \/ now'.step \in {"reels", "wins"} => now'.ordinary = "none"
          /\ now'.phase \in {"requesting", "recovering"} => ~now'.wheel
          /\ now'.wheel => now'.step = "features" \/ now'.phase = "ready"
          /\ now'.ordinary = "settled" /\ now'.phase = "presenting" => now'.meter = now'.win /\ now'.anim = Messages!None
      BY <1>1, <1>2, <2>1, <2>2, <3>1 DEF MsgGood, MsgRound, MsgLine, MsgKept
    <3>3. now'.ordinary = "counting" => now'.anim # Messages!None \/ (now'.failed /\ now'.phase = "ready")
      BY <1>1, <1>2, <2>1, <2>2, <3>1 DEF MsgGood, MsgRound, MsgLine, MsgKept
    <3>. QED
      BY <2>1, <3>2, <3>3, MsgLines
  <2>. QED
    BY <2>1, <2>3, <2>4, <2>5, <2>6 DEF MsgGood, MsgInv
<1>3. MsgKept(now, now) /\ now.phase \in {"ready", "requesting", "presenting", "recovering"}
  BY <1>1 DEF MsgKept, MsgRec
<1>4. CASE Messages!refreshUi
  BY <1>1, <1>2, <1>3, <1>4 DEF Messages!refreshUi
<1>5. CASE Messages!Recovered
  BY <1>1, <1>2, <1>3, <1>5 DEF Messages!Recovered
<1>6. CASE Messages!handleStatus
  <2>. DEFINE v == [now EXCEPT !.wheel = FALSE]
              t == Messages!applyCurrentRoundState(v)
  <2>1. now' = IF now.phase \in {"ready", "requesting"} THEN Messages!setPhase(t, "recovering") ELSE t
    BY <1>6 DEF Messages!handleStatus
  <2>2. v \in MsgRec /\ MsgKept(v, now) /\ v.phase = now.phase /\ v.wheel = FALSE /\ v.ordinary = now.ordinary
    BY <1>1 DEF MsgRec, MsgKept
  <2>. HIDE DEF v
  <2>3. /\ t \in MsgRec /\ MsgKept(t, v) /\ MsgShows(t)
        /\ t.phase = v.phase /\ t.wheel = v.wheel /\ t.ordinary = v.ordinary
    BY <2>2, MsgApplies
  <2>. HIDE DEF t
  <2>4. MsgKept(t, now) /\ ~t.wheel
    BY <2>2, <2>3 DEF MsgKept
  <2>5. CASE now.phase \in {"ready", "requesting"}
    BY <1>2, <2>1, <2>2, <2>3, <2>4, <2>5
  <2>6. CASE now.phase \notin {"ready", "requesting"}
    <3>1. now' = t
      BY <2>1, <2>6
    <3>2. MsgRound(t) /\ MsgCounter(t) /\ MsgMeter(t)
      BY <1>1, <2>2, <2>3, <2>4 DEF MsgGood, MsgRound, MsgCounter, MsgMeter, MsgKept
    <3>3. /\ t.phase \in {"requesting", "recovering"} \/ t.step \in {"reels", "wins"} => t.ordinary = "none"
          /\ t.ordinary = "counting" => t.anim # Messages!None \/ (t.failed /\ t.phase = "ready")
          /\ t.ordinary = "settled" /\ t.phase = "presenting" => t.meter = t.win /\ t.anim = Messages!None
      BY <1>1, <2>2, <2>3, <2>4 DEF MsgGood, MsgLine, MsgKept
    <3>4. MsgLine(t)
      BY <2>3, <2>4, <3>3, MsgLines
    <3>. QED
      BY <2>3, <3>1, <3>2, <3>4 DEF MsgGood, MsgInv
  <2>. QED
    BY <2>5, <2>6
<1>. QED
  BY <1>4, <1>5, <1>6

\* What a cancelled counter leaves: whoever waited for it is answered.
LEMMA MsgCancels ==
  ASSUME NEW t, MsgGood(t), NEW u, u = Messages!cancelWinCounter(t)
  PROVE  /\ u \in MsgRec /\ u.anim = Messages!None /\ u.asked = u.answered /\ u.asked = t.asked
         /\ u.phase = t.phase /\ u.text = t.text /\ u.meter = t.meter /\ u.wheel = t.wheel
         /\ u.ordinary = t.ordinary /\ u.failed = t.failed /\ u.step = t.step /\ u.win = t.win
         /\ u.big = t.big /\ u.bonus = t.bonus /\ u.rounds = t.rounds
<1>0. t \in MsgRec /\ MessageRounds \in Nat
  BY MessagesAssumption DEF MsgGood
<1>9. t.asked \in 0..MessageRounds /\ t.answered \in 0..MessageRounds
  BY <1>0 DEF MsgRec
<1>1. t \in MsgRec /\ t.asked \in Nat /\ t.answered \in Nat /\ t.asked <= MessageRounds /\ MessageRounds \in Nat
  BY <1>0, <1>9
<1>2. CASE t.anim = Messages!None
  <2>1. u = t
    BY <1>2 DEF Messages!cancelWinCounter
  <2>. QED
    BY <1>1, <1>2, <2>1 DEF MsgGood, MsgCounter
<1>3. CASE t.anim # Messages!None
  <2>1. u = [t EXCEPT !.anim = Messages!None, !.answered = t.answered + 1]
    BY <1>3 DEF Messages!cancelWinCounter
  <2>2. t.asked = t.answered + 1
    BY <1>3 DEF MsgGood, MsgCounter
  <2>3. t.answered + 1 \in 0..MessageRounds
    BY <1>1, <2>2
  <2>4. u \in MsgRec
    BY <1>1, <2>1, <2>3 DEF MsgRec
  <2>5. /\ u.anim = Messages!None /\ u.answered = t.answered + 1 /\ u.asked = t.asked
        /\ u.phase = t.phase /\ u.text = t.text /\ u.meter = t.meter /\ u.wheel = t.wheel
        /\ u.ordinary = t.ordinary /\ u.failed = t.failed /\ u.step = t.step /\ u.win = t.win
        /\ u.big = t.big /\ u.bonus = t.bonus /\ u.rounds = t.rounds
    BY <1>1, <2>1 DEF MsgRec
  <2>. QED
    BY <2>2, <2>4, <2>5
<1>. QED
  BY <1>2, <1>3

\* resetWinCounter: the counter in the air is answered, and the meter takes the amount.
LEMMA MsgResets ==
  ASSUME NEW t, MsgGood(t), NEW amount \in 0..TotalWin, NEW u, u = Messages!resetWinCounter(t, amount)
  PROVE  /\ u \in MsgRec /\ u.anim = Messages!None /\ u.asked = u.answered /\ u.asked = t.asked
         /\ u.phase = t.phase /\ u.text = t.text /\ u.meter = amount /\ u.wheel = t.wheel
         /\ u.ordinary = "none" /\ u.failed = t.failed /\ u.step = t.step /\ u.win = t.win
         /\ u.big = t.big /\ u.bonus = t.bonus /\ u.rounds = t.rounds
<1>. DEFINE v == Messages!cancelWinCounter(t)
<1>1. /\ v \in MsgRec /\ v.anim = Messages!None /\ v.asked = v.answered /\ v.asked = t.asked
      /\ v.phase = t.phase /\ v.text = t.text /\ v.meter = t.meter /\ v.wheel = t.wheel
      /\ v.ordinary = t.ordinary /\ v.failed = t.failed /\ v.step = t.step /\ v.win = t.win
      /\ v.big = t.big /\ v.bonus = t.bonus /\ v.rounds = t.rounds
  BY MsgCancels
<1>2. u = [v EXCEPT !.ordinary = "none", !.suppress = FALSE, !.meter = amount]
  BY DEF Messages!resetWinCounter
<1>. HIDE DEF v
<1>3. u \in MsgRec
  BY <1>1, <1>2 DEF MsgRec
<1>4. /\ u.anim = v.anim /\ u.asked = v.asked /\ u.answered = v.answered
      /\ u.phase = v.phase /\ u.text = v.text /\ u.meter = amount /\ u.wheel = v.wheel
      /\ u.ordinary = "none" /\ u.failed = v.failed /\ u.step = v.step /\ u.win = v.win
      /\ u.big = v.big /\ u.bonus = v.bonus /\ u.rounds = v.rounds
  BY <1>1, <1>2 DEF MsgRec
<1>. QED
  BY <1>1, <1>3, <1>4

\* applyResult: the meter takes the whole result, whatever counter was in the air.
LEMMA MsgResults ==
  ASSUME NEW t, MsgGood(t), NEW u, u = Messages!applyResult(t)
  PROVE  /\ u \in MsgRec /\ u.anim = Messages!None /\ u.asked = u.answered /\ u.asked = t.asked
         /\ u.phase = t.phase /\ u.text = t.text /\ u.meter = t.win + t.bonus /\ u.wheel = t.wheel
         /\ u.ordinary = t.ordinary /\ u.failed = t.failed /\ u.step = t.step /\ u.win = t.win
         /\ u.big = t.big /\ u.bonus = t.bonus /\ u.rounds = t.rounds
<1>. DEFINE v == Messages!cancelWinCounter(t)
<1>1. /\ v \in MsgRec /\ v.anim = Messages!None /\ v.asked = v.answered /\ v.asked = t.asked
      /\ v.phase = t.phase /\ v.text = t.text /\ v.meter = t.meter /\ v.wheel = t.wheel
      /\ v.ordinary = t.ordinary /\ v.failed = t.failed /\ v.step = t.step /\ v.win = t.win
      /\ v.big = t.big /\ v.bonus = t.bonus /\ v.rounds = t.rounds
  BY MsgCancels
<1>2. u = [v EXCEPT !.meter = t.win + t.bonus]
  BY DEF Messages!applyResult
<1>. HIDE DEF v
<1>3. t.win + t.bonus \in 0..TotalWin
  BY MessagesAssumption DEF MsgGood, MsgRound, MsgRec
<1>4. u \in MsgRec
  BY <1>1, <1>2, <1>3 DEF MsgRec
<1>5. /\ u.anim = v.anim /\ u.asked = v.asked /\ u.answered = v.answered
      /\ u.phase = v.phase /\ u.text = v.text /\ u.meter = t.win + t.bonus /\ u.wheel = v.wheel
      /\ u.ordinary = v.ordinary /\ u.failed = v.failed /\ u.step = v.step /\ u.win = v.win
      /\ u.big = v.big /\ u.bonus = v.bonus /\ u.rounds = v.rounds
  BY <1>1, <1>2 DEF MsgRec
<1>. QED
  BY <1>1, <1>4, <1>5

\* An ordinary win is told to the line, unless the wheel's summary owns it.
LEMMA MsgPublishes ==
  ASSUME NEW t \in MsgRec, NEW state \in {"counting", "settled"}, ~t.wheel,
         NEW u, u = Messages!publishOrdinaryWinInformation(t, state)
  PROVE  /\ u \in MsgRec /\ MsgKept(u, t) /\ u.phase = t.phase /\ u.wheel = t.wheel
         /\ u.ordinary = state /\ u.text = state
<1>1. u = [[t EXCEPT !.ordinary = state, !.suppress = TRUE] EXCEPT !.text = state]
  BY DEF Messages!publishOrdinaryWinInformation, MsgRec
<1>. DEFINE v == [t EXCEPT !.ordinary = state, !.suppress = TRUE]
<1>0. v \in MsgRec
  BY DEF MsgRec
<1>2. /\ v.phase = t.phase /\ v.wheel = t.wheel /\ v.ordinary = state
      /\ v.meter = t.meter /\ v.failed = t.failed /\ v.anim = t.anim /\ v.asked = t.asked
      /\ v.answered = t.answered /\ v.step = t.step /\ v.win = t.win /\ v.big = t.big
      /\ v.bonus = t.bonus /\ v.rounds = t.rounds
  BY DEF MsgRec
<1>3. u = [v EXCEPT !.text = state]
  BY <1>1
<1>. HIDE DEF v
<1>4. u \in MsgRec
  BY <1>0, <1>3 DEF MsgRec
<1>5. /\ u.phase = v.phase /\ u.wheel = v.wheel /\ u.ordinary = v.ordinary /\ u.text = state
      /\ u.meter = v.meter /\ u.failed = v.failed /\ u.anim = v.anim /\ u.asked = v.asked
      /\ u.answered = v.answered /\ u.step = v.step /\ u.win = v.win /\ u.big = v.big
      /\ u.bonus = v.bonus /\ u.rounds = v.rounds
  BY <1>0, <1>3 DEF MsgRec
<1>. QED
  BY <1>2, <1>4, <1>5 DEF MsgKept

\* A spin is asked for: nothing of the last round is left.
LEMMA MsgRequests == ASSUME MsgInv, Messages!requestSpin PROVE MsgInv'
<1>1. MsgGood(now) /\ now \in MsgRec /\ now.phase = "ready" /\ now.rounds < MessageRounds
  BY DEF MsgInv, MsgGood, Messages!requestSpin
<1>. DEFINE u == Messages!resetWinCounter(now, 0)
            t == [u EXCEPT !.rounds = u.rounds + 1, !.failed = FALSE]
<1>2. now' = Messages!setPhase(t, "requesting")
  BY DEF Messages!requestSpin
<1>3. 0 \in 0..TotalWin /\ MessageRounds \in Nat
  BY MessagesAssumption
<1>4. /\ u \in MsgRec /\ u.anim = Messages!None /\ u.asked = u.answered /\ u.asked = now.asked
      /\ u.phase = now.phase /\ u.meter = 0
      /\ u.ordinary = "none" /\ u.step = now.step /\ u.win = now.win
      /\ u.big = now.big /\ u.bonus = now.bonus /\ u.rounds = now.rounds
  BY <1>1, <1>3, MsgResets
<1>. HIDE DEF u
<1>5. u.rounds + 1 \in 0..MessageRounds /\ u.rounds \in Nat
  BY <1>1, <1>3, <1>4 DEF MsgRec
<1>6. /\ t \in MsgRec /\ t.anim = u.anim /\ t.asked = u.asked /\ t.answered = u.answered /\ t.meter = u.meter
      /\ t.step = u.step /\ t.win = u.win /\ t.bonus = u.bonus /\ t.rounds = u.rounds + 1
  <2>1. u \in MsgRec /\ u.rounds + 1 \in 0..MessageRounds
    BY <1>4, <1>5
  <2>2. t \in MsgRec
    BY <2>1 DEF MsgRec
  <2>. QED
    BY <2>1, <2>2 DEF MsgRec
<1>. HIDE DEF t
<1>7. /\ now' \in MsgRec /\ MsgKept(now', t) /\ MsgShows(now') /\ now'.phase = "requesting"
      /\ ~now'.wheel /\ now'.ordinary = "none"
  BY <1>2, <1>6, MsgPhases
<1>8. /\ now'.anim = Messages!None /\ now'.asked = now.asked /\ now'.answered = now'.asked /\ now'.meter = 0
      /\ now'.step = now.step /\ now'.win = now.win /\ now'.bonus = now.bonus /\ now'.rounds = now.rounds + 1
  BY <1>4, <1>6, <1>7 DEF MsgKept
<1>9. MsgRound(now')
  BY <1>1, <1>7, <1>8 DEF MsgGood, MsgRound, MsgRec
<1>10. MsgCounter(now') /\ MsgMeter(now')
  BY <1>7, <1>8 DEF MsgCounter, MsgMeter
<1>11. MsgLine(now')
  BY <1>7, MsgLines
<1>. QED
  BY <1>7, <1>9, <1>10, <1>11 DEF MsgGood, MsgInv

\* A result arrives, or one is recovered.
LEMMA MsgAccepts ==
  ASSUME MsgInv,
         \/ \E win \in 0..TotalWin, big \in BOOLEAN, bonus \in 0..1 : Messages!ResultAccepted(win, big, bonus)
         \/ \E win \in 0..TotalWin, bonus \in 0..1 : Messages!beginRecoveredRound(win, bonus)
  PROVE  MsgInv'
<1>1. MsgGood(now) /\ now \in MsgRec /\ MessageRounds \in Nat /\ TotalWin \in Nat
  BY MessagesAssumption DEF MsgInv, MsgGood
<1>2. ASSUME NEW win \in 0..TotalWin, NEW big \in BOOLEAN, NEW bonus \in 0..1, Messages!ResultAccepted(win, big, bonus)
      PROVE  MsgInv'
  <2>1. /\ now.phase = "requesting" /\ win + bonus <= TotalWin
        /\ now' = [now EXCEPT !.phase = "presenting", !.step = "reels", !.win = win, !.big = big, !.bonus = bonus]
    BY <1>2 DEF Messages!ResultAccepted
  <2>2. now' \in MsgRec
    BY <1>1, <2>1 DEF MsgRec
  <2>3. /\ now'.phase = "presenting" /\ now'.step = "reels" /\ now'.win = win /\ now'.bonus = bonus
        /\ now'.text = now.text /\ now'.meter = now.meter /\ now'.wheel = now.wheel /\ now'.ordinary = now.ordinary
        /\ now'.failed = now.failed /\ now'.anim = now.anim /\ now'.asked = now.asked
        /\ now'.answered = now.answered /\ now'.rounds = now.rounds
    BY <1>1, <2>1 DEF MsgRec
  <2>4. MsgRound(now') /\ MsgMeter(now')
    BY <1>1, <2>1, <2>3 DEF MsgGood, MsgRound, MsgMeter, MsgRec
  <2>5. now.step = "none" /\ now.anim = Messages!None /\ ~now.wheel /\ now.ordinary = "none" /\ now.text = "spin"
    BY <1>1, <2>1 DEF MsgGood, MsgRound, MsgCounter, MsgLine, MsgRec
  <2>6. MsgCounter(now') /\ MsgLine(now')
    BY <1>1, <2>3, <2>5 DEF MsgGood, MsgCounter, MsgLine
  <2>. QED
    BY <2>2, <2>4, <2>6 DEF MsgGood, MsgInv
<1>3. ASSUME NEW win \in 0..TotalWin, NEW bonus \in 0..1, Messages!beginRecoveredRound(win, bonus)
      PROVE  MsgInv'
  <2>. DEFINE u == Messages!resetWinCounter(now, 0)
  <2>1. /\ now.phase = "recovering" /\ win + bonus <= TotalWin /\ now.rounds < MessageRounds
        /\ now' = [u EXCEPT !.rounds = u.rounds + 1, !.phase = "presenting",
                            !.step = "reels", !.win = win, !.big = FALSE, !.bonus = bonus]
    BY <1>3 DEF Messages!beginRecoveredRound
  <2>2. /\ u \in MsgRec /\ u.anim = Messages!None /\ u.asked = u.answered /\ u.asked = now.asked
        /\ u.text = now.text /\ u.meter = 0 /\ u.wheel = now.wheel
        /\ u.ordinary = "none" /\ u.rounds = now.rounds
    BY <1>1, MsgResets
  <2>. HIDE DEF u
  <2>3. u.rounds + 1 \in 0..MessageRounds /\ u.rounds \in Nat
    BY <1>1, <2>1, <2>2 DEF MsgRec
  <2>9. /\ u \in MsgRec /\ u.rounds + 1 \in 0..MessageRounds
        /\ now' = [u EXCEPT !.rounds = u.rounds + 1, !.phase = "presenting",
                            !.step = "reels", !.win = win, !.big = FALSE, !.bonus = bonus]
    BY <2>1, <2>2, <2>3
  <2>4. now' \in MsgRec
    BY <2>9 DEF MsgRec
  <2>5. /\ now'.phase = "presenting" /\ now'.step = "reels" /\ now'.win = win /\ now'.bonus = bonus
        /\ now'.text = u.text /\ now'.meter = u.meter /\ now'.wheel = u.wheel /\ now'.ordinary = u.ordinary
        /\ now'.anim = u.anim /\ now'.asked = u.asked
        /\ now'.answered = u.answered /\ now'.rounds = u.rounds + 1
    BY <2>9 DEF MsgRec
  <2>6. MsgRound(now') /\ MsgMeter(now')
    BY <1>1, <2>1, <2>2, <2>3, <2>5 DEF MsgGood, MsgRound, MsgMeter, MsgRec
  <2>7. ~now.wheel /\ now.text = "blank"
    BY <1>1, <2>1 DEF MsgGood, MsgRound, MsgLine, MsgRec
  <2>8. MsgCounter(now') /\ MsgLine(now')
    BY <2>2, <2>5, <2>7 DEF MsgCounter, MsgLine
  <2>. QED
    BY <2>4, <2>6, <2>8 DEF MsgGood, MsgInv
<1>. QED
  BY <1>2, <1>3

\* The reels' message is cleared, and the result begins to be shown.
LEMMA MsgBegins ==
  ASSUME MsgInv, Messages!clearTransientSpinMessage \/ Messages!beginResultPresentation
  PROVE  MsgInv'
<1>1. MsgGood(now) /\ now \in MsgRec /\ now.step = "reels"
  BY DEF MsgInv, MsgGood, Messages!clearTransientSpinMessage, Messages!beginResultPresentation
<1>2. now.phase = "presenting" /\ now.anim = Messages!None /\ ~now.wheel /\ now.ordinary = "none"
  BY <1>1 DEF MsgGood, MsgRound, MsgCounter, MsgLine, MsgRec
<1>3. CASE Messages!clearTransientSpinMessage
  <2>. DEFINE v == [now EXCEPT !.suppress = TRUE]
  <2>1. now' = Messages!applyCurrentRoundState(v)
    BY <1>3 DEF Messages!clearTransientSpinMessage
  <2>2. v \in MsgRec /\ MsgKept(v, now) /\ v.phase = now.phase /\ v.wheel = now.wheel /\ v.ordinary = now.ordinary
    BY <1>1 DEF MsgRec, MsgKept
  <2>. HIDE DEF v
  <2>3. /\ now' \in MsgRec /\ MsgKept(now', v) /\ MsgShows(now')
        /\ now'.phase = v.phase /\ now'.wheel = v.wheel /\ now'.ordinary = v.ordinary
    BY <2>1, <2>2, MsgApplies
  <2>4. MsgKept(now', now)
    BY <2>2, <2>3 DEF MsgKept
  <2>5. MsgRound(now') /\ MsgCounter(now') /\ MsgMeter(now')
    BY <1>1, <2>2, <2>3, <2>4 DEF MsgGood, MsgRound, MsgCounter, MsgMeter, MsgKept
  <2>6. MsgLine(now')
    BY <1>2, <2>2, <2>3, MsgLines
  <2>. QED
    BY <2>3, <2>5, <2>6 DEF MsgGood, MsgInv
<1>4. CASE Messages!beginResultPresentation
  <2>. DEFINE b == now.win = 0
              step == IF now.win > 0 THEN "wins" ELSE "features"
              v == [now EXCEPT !.suppress = b, !.step = step]
  <2>1. now' = IF now.win > 0 \/ now.wheel \/ now.ordinary # "none" THEN v ELSE [v EXCEPT !.text = "blank"]
    BY <1>4 DEF Messages!beginResultPresentation
  <2>2. now.win \in 0..TotalWin /\ TotalWin \in Nat
    BY <1>1, MessagesAssumption DEF MsgRec
  <2>3. b \in BOOLEAN /\ step \in {"wins", "features"} /\ (step = "wins" <=> now.win > 0)
    BY <2>2
  <2>. HIDE DEF b, step
  <2>4. v \in MsgRec
    BY <1>1, <2>3 DEF MsgRec
  <2>5. /\ v.phase = now.phase /\ v.wheel = now.wheel /\ v.ordinary = now.ordinary /\ v.text = now.text
        /\ v.step = step /\ v.win = now.win /\ v.bonus = now.bonus /\ v.meter = now.meter /\ v.failed = now.failed
        /\ v.asked = now.asked /\ v.answered = now.answered /\ v.anim = now.anim /\ v.rounds = now.rounds
    BY <1>1 DEF MsgRec
  <2>. HIDE DEF v
  <2>6. now' \in MsgRec
    BY <2>1, <2>4 DEF MsgRec
  <2>7. /\ now'.phase = v.phase /\ now'.wheel = v.wheel /\ now'.ordinary = v.ordinary
        /\ now'.step = v.step /\ now'.win = v.win /\ now'.bonus = v.bonus /\ now'.meter = v.meter /\ now'.failed = v.failed
        /\ now'.asked = v.asked /\ now'.answered = v.answered /\ now'.anim = v.anim /\ now'.rounds = v.rounds
        /\ now'.text \in {v.text, "blank"}
    BY <2>1, <2>4 DEF MsgRec
  <2>8. MsgRound(now')
    BY <1>1, <1>2, <2>2, <2>3, <2>5, <2>7 DEF MsgGood, MsgRound
  <2>9. MsgCounter(now') /\ MsgMeter(now')
    BY <1>1, <1>2, <2>5, <2>7 DEF MsgGood, MsgCounter, MsgMeter
  <2>10. MsgLine(now')
    BY <1>1, <1>2, <2>5, <2>7 DEF MsgGood, MsgLine
  <2>. QED
    BY <2>6, <2>8, <2>9, <2>10 DEF MsgGood, MsgInv
<1>. QED
  BY <1>3, <1>4

\* The congratulation of a big win owns the line until the win is on the meter.
LEMMA MsgBigWin ==
  ASSUME MsgInv, Messages!showBigWinCongratulations \/ Messages!BigWinOver
  PROVE  MsgInv'
<1>1. MsgGood(now) /\ now \in MsgRec /\ now.step = "wins"
  BY DEF MsgInv, MsgGood, Messages!showBigWinCongratulations, Messages!BigWinOver
<1>2. now.phase = "presenting" /\ now.anim = Messages!None /\ ~now.wheel /\ now.ordinary = "none"
  BY <1>1 DEF MsgGood, MsgRound, MsgCounter, MsgLine, MsgRec
<1>3. CASE Messages!showBigWinCongratulations
  <2>1. now' = [now EXCEPT !.ordinary = "none", !.text = "bigwin"]
    BY <1>3 DEF Messages!showBigWinCongratulations
  <2>2. now' \in MsgRec
    BY <1>1, <2>1 DEF MsgRec
  <2>3. MsgKept(now', now) /\ now'.phase = now.phase /\ now'.wheel = now.wheel /\ now'.ordinary = "none" /\ now'.text = "bigwin"
    BY <1>1, <2>1 DEF MsgRec, MsgKept
  <2>4. MsgRound(now') /\ MsgCounter(now') /\ MsgMeter(now')
    BY <1>1, <2>3 DEF MsgGood, MsgRound, MsgCounter, MsgMeter, MsgKept
  <2>5. MsgLine(now')
    BY <1>2, <2>3 DEF MsgLine
  <2>. QED
    BY <2>2, <2>4, <2>5 DEF MsgGood, MsgInv
<1>4. CASE Messages!BigWinOver
  <2>. DEFINE u == Messages!resetWinCounter(now, now.win)
  <2>1. now' = [u EXCEPT !.step = "counter"] /\ now.text = "bigwin"
    BY <1>4 DEF Messages!BigWinOver
  <2>2. now.win \in 0..TotalWin
    BY <1>1 DEF MsgRec
  <2>3. /\ u \in MsgRec /\ u.anim = Messages!None /\ u.asked = u.answered /\ u.asked = now.asked
        /\ u.phase = now.phase /\ u.text = now.text /\ u.meter = now.win /\ u.wheel = now.wheel
        /\ u.ordinary = "none" /\ u.win = now.win /\ u.bonus = now.bonus /\ u.rounds = now.rounds
    BY <1>1, <2>2, MsgResets
  <2>. HIDE DEF u
  <2>4. now' \in MsgRec
    BY <2>1, <2>3 DEF MsgRec
  <2>5. /\ now'.anim = u.anim /\ now'.asked = u.asked /\ now'.answered = u.answered
        /\ now'.phase = u.phase /\ now'.text = u.text /\ now'.meter = u.meter /\ now'.wheel = u.wheel
        /\ now'.ordinary = u.ordinary /\ now'.win = u.win /\ now'.bonus = u.bonus /\ now'.rounds = u.rounds
        /\ now'.step = "counter"
    BY <2>1, <2>3 DEF MsgRec
  <2>6. MsgRound(now')
    <3>1. now.win > 0 /\ now.win + now.bonus <= TotalWin /\ now.asked <= now.rounds
      BY <1>1 DEF MsgGood, MsgRound
    <3>. QED
      BY <1>2, <2>3, <2>5, <3>1 DEF MsgRound
  <2>7. MsgCounter(now') /\ MsgLine(now')
    BY <1>2, <2>1, <2>3, <2>5 DEF MsgCounter, MsgLine
  <2>8. MsgMeter(now')
    BY <1>2, <2>2, <2>3, <2>5, MessagesAssumption DEF MsgMeter
  <2>. QED
    BY <2>4, <2>6, <2>7, <2>8 DEF MsgGood, MsgInv
<1>. QED
  BY <1>3, <1>4

\* An ordinary win is counted up, when the show has the time for it.
LEMMA MsgCounts ==
  ASSUME MsgInv, \E timed \in BOOLEAN : Messages!presentNormalWinCounter(timed) PROVE MsgInv'
<1>1. MsgGood(now) /\ now \in MsgRec /\ now.step = "wins" /\ TotalWin \in Nat /\ MessageRounds \in Nat
  BY MessagesAssumption DEF MsgInv, MsgGood, Messages!presentNormalWinCounter
<1>2. /\ now.phase = "presenting" /\ now.anim = Messages!None /\ ~now.wheel /\ now.ordinary = "none"
      /\ now.text \notin {"counting", "settled"}
  BY <1>1 DEF MsgGood, MsgRound, MsgCounter, MsgLine, MsgRec
<1>3. /\ now.win \in 1..TotalWin /\ now.win + now.bonus <= TotalWin
      /\ now.asked = now.answered /\ now.asked < now.rounds /\ now.asked + 1 \in 0..MessageRounds
      /\ now.asked \in Nat /\ now.rounds \in Nat /\ now.meter <= now.win
  <2>1. now.win \in 0..TotalWin /\ now.asked \in 0..MessageRounds /\ now.rounds \in 0..MessageRounds
    BY <1>1 DEF MsgRec
  <2>2. now.win > 0 /\ now.win + now.bonus <= TotalWin /\ now.asked < now.rounds /\ now.asked = now.answered /\ now.meter <= now.win
    BY <1>1, <1>2 DEF MsgGood, MsgRound, MsgCounter, MsgMeter
  <2>. QED
    BY <1>1, <2>1, <2>2
<1>4. PICK timed \in BOOLEAN :
        now' = [IF timed THEN Messages!presentWinCounter(now, now.win) ELSE now EXCEPT !.step = "counter"]
  BY DEF Messages!presentNormalWinCounter
<1>5. CASE ~timed
  <2>1. now' = [now EXCEPT !.step = "counter"]
    BY <1>4, <1>5
  <2>2. now' \in MsgRec
    BY <1>1, <2>1 DEF MsgRec
  <2>3. /\ now'.phase = now.phase /\ now'.wheel = now.wheel /\ now'.ordinary = now.ordinary /\ now'.text = now.text
        /\ now'.step = "counter" /\ now'.win = now.win /\ now'.bonus = now.bonus /\ now'.meter = now.meter
        /\ now'.asked = now.asked /\ now'.answered = now.answered /\ now'.anim = now.anim /\ now'.rounds = now.rounds
    BY <1>1, <2>1 DEF MsgRec
  <2>4. MsgRound(now') /\ MsgCounter(now') /\ MsgMeter(now') /\ MsgLine(now')
    BY <1>2, <1>3, <2>3 DEF MsgRound, MsgCounter, MsgMeter, MsgLine
  <2>. QED
    BY <2>2, <2>4 DEF MsgGood, MsgInv
<1>6. CASE timed
  <2>. DEFINE a == [running |-> TRUE, total |-> now.win]
              n == now.asked + 1
              v == [now EXCEPT !.asked = n, !.meter = 0, !.anim = a]
              u == Messages!publishOrdinaryWinInformation(v, "counting")
  <2>1. now' = [u EXCEPT !.step = "counter"]
    BY <1>2, <1>4, <1>6 DEF Messages!presentWinCounter, Messages!cancelWinCounter
  <2>2. /\ a \in [running : {TRUE}, total : 1..TotalWin] /\ a.total = now.win /\ a # Messages!None
        /\ n \in 0..MessageRounds /\ n = now.asked + 1
    <3>1. a \in [running : {TRUE}, total : 1..TotalWin] /\ a.total = now.win /\ a.running = TRUE
      BY <1>3
    <3>2. a # Messages!None
      BY <3>1 DEF Messages!None
    <3>. QED
      BY <1>3, <3>1, <3>2
  <2>. HIDE DEF a, n
  <2>11. 0 \in 0..TotalWin
    BY <1>1
  <2>12. now \in MsgRec /\ a \in [running : {TRUE}, total : 1..TotalWin] /\ n \in 0..MessageRounds
    BY <1>1, <2>2
  <2>3. v \in MsgRec
    BY <2>11, <2>12 DEF MsgRec
  <2>4. /\ v.phase = now.phase /\ v.wheel = now.wheel /\ v.meter = 0 /\ v.anim = a /\ v.asked = n
        /\ v.answered = now.answered /\ v.win = now.win /\ v.bonus = now.bonus /\ v.rounds = now.rounds
    BY <1>1 DEF MsgRec
  <2>. HIDE DEF v
  <2>5. /\ u \in MsgRec /\ MsgKept(u, v) /\ u.phase = v.phase /\ u.wheel = v.wheel
        /\ u.ordinary = "counting" /\ u.text = "counting"
    BY <1>2, <2>3, <2>4, MsgPublishes
  <2>. HIDE DEF u
  <2>6. now' \in MsgRec
    BY <2>1, <2>5 DEF MsgRec
  <2>7. /\ now'.phase = u.phase /\ now'.wheel = u.wheel /\ now'.ordinary = u.ordinary /\ now'.text = u.text
        /\ now'.step = "counter" /\ now'.win = u.win /\ now'.bonus = u.bonus /\ now'.meter = u.meter
        /\ now'.asked = u.asked /\ now'.answered = u.answered /\ now'.anim = u.anim /\ now'.rounds = u.rounds
    BY <2>1, <2>5 DEF MsgRec
  <2>8. /\ now'.phase = "presenting" /\ ~now'.wheel /\ now'.ordinary = "counting" /\ now'.text = "counting"
        /\ now'.step = "counter" /\ now'.win = now.win /\ now'.bonus = now.bonus /\ now'.meter = 0
        /\ now'.asked = now.asked + 1 /\ now'.answered = now.answered /\ now'.anim = a /\ now'.rounds = now.rounds
    BY <1>2, <2>2, <2>4, <2>5, <2>7 DEF MsgKept
  <2>9. MsgRound(now') /\ MsgMeter(now')
    BY <1>3, <2>8 DEF MsgRound, MsgMeter
  <2>10. MsgCounter(now') /\ MsgLine(now')
    BY <1>3, <2>2, <2>8 DEF MsgCounter, MsgLine
  <2>. QED
    BY <2>6, <2>9, <2>10 DEF MsgGood, MsgInv
<1>. QED
  BY <1>5, <1>6

\* A frame of the counter shows more of the win, its last one all of it.
LEMMA MsgFrames ==
  ASSUME MsgInv, Messages!CounterFrame \/ Messages!CounterFinishes PROVE MsgInv'
<1>1. MsgGood(now) /\ now \in MsgRec /\ now.anim # Messages!None /\ TotalWin \in Nat /\ MessageRounds \in Nat
  BY MessagesAssumption DEF MsgInv, MsgGood, Messages!CounterFrame, Messages!CounterFinishes
<1>2. now.step = "counter" /\ now.anim.total = now.win /\ now.asked = now.answered + 1
  BY <1>1 DEF MsgGood, MsgCounter
<1>3. now.phase = "presenting" /\ ~now.wheel /\ now.win > 0 /\ now.win + now.bonus <= TotalWin /\ now.asked <= now.rounds
  BY <1>1, <1>2 DEF MsgGood, MsgRound, MsgLine, MsgRec
<1>4. /\ now.win \in 0..TotalWin /\ now.asked \in 0..MessageRounds /\ now.answered \in 0..MessageRounds
      /\ now.rounds \in 0..MessageRounds /\ now.meter \in 0..TotalWin
  BY <1>1 DEF MsgRec
<1>5. CASE Messages!CounterFrame
  <2>1. PICK value \in 0..TotalWin :
          /\ value < now.anim.total
          /\ now' = Messages!publishOrdinaryWinInformation([now EXCEPT !.meter = value], "counting")
    BY <1>5 DEF Messages!CounterFrame
  <2>. DEFINE v == [now EXCEPT !.meter = value]
  <2>2. v \in MsgRec
    BY <1>1 DEF MsgRec
  <2>3. /\ v.phase = now.phase /\ v.wheel = now.wheel /\ v.meter = value /\ v.anim = now.anim /\ v.asked = now.asked
        /\ v.answered = now.answered /\ v.win = now.win /\ v.bonus = now.bonus /\ v.rounds = now.rounds /\ v.step = now.step
    BY <1>1 DEF MsgRec
  <2>4. now' = Messages!publishOrdinaryWinInformation(v, "counting")
    BY <2>1
  <2>. HIDE DEF v
  <2>5. /\ now' \in MsgRec /\ MsgKept(now', v) /\ now'.phase = v.phase /\ now'.wheel = v.wheel
        /\ now'.ordinary = "counting" /\ now'.text = "counting"
    BY <1>3, <2>2, <2>3, <2>4, MsgPublishes
  <2>6. /\ now'.phase = "presenting" /\ ~now'.wheel /\ now'.meter = value /\ now'.anim = now.anim /\ now'.asked = now.asked
        /\ now'.answered = now.answered /\ now'.win = now.win /\ now'.bonus = now.bonus /\ now'.rounds = now.rounds
        /\ now'.step = "counter" /\ value < now.win
    BY <1>2, <1>3, <2>1, <2>3, <2>5 DEF MsgKept
  <2>7. MsgRound(now') /\ MsgCounter(now') /\ MsgLine(now')
    BY <1>1, <1>2, <1>3, <2>5, <2>6 DEF MsgRound, MsgCounter, MsgLine
  <2>8. MsgMeter(now')
    BY <1>4, <2>6 DEF MsgMeter
  <2>. QED
    BY <2>5, <2>7, <2>8 DEF MsgGood, MsgInv
<1>6. CASE Messages!CounterFinishes
  <2>. DEFINE n == now.answered + 1
              m == now.anim.total
              v == [now EXCEPT !.meter = m, !.anim = Messages!None, !.answered = n]
  <2>1. now' = Messages!publishOrdinaryWinInformation(v, "settled")
    BY <1>1, <1>6 DEF Messages!CounterFinishes, Messages!finishWinCounter
  <2>2. n \in 0..MessageRounds /\ n = now.asked /\ m \in 0..TotalWin /\ m = now.win
    BY <1>1, <1>2, <1>4
  <2>. HIDE DEF n, m
  <2>3. v \in MsgRec
    BY <1>1, <2>2 DEF MsgRec
  <2>4. /\ v.phase = now.phase /\ v.wheel = now.wheel /\ v.meter = m /\ v.anim = Messages!None /\ v.asked = now.asked
        /\ v.answered = n /\ v.win = now.win /\ v.bonus = now.bonus /\ v.rounds = now.rounds /\ v.step = now.step
    BY <1>1 DEF MsgRec
  <2>. HIDE DEF v
  <2>5. /\ now' \in MsgRec /\ MsgKept(now', v) /\ now'.phase = v.phase /\ now'.wheel = v.wheel
        /\ now'.ordinary = "settled" /\ now'.text = "settled"
    BY <1>3, <2>1, <2>3, <2>4, MsgPublishes
  <2>6. /\ now'.phase = "presenting" /\ ~now'.wheel /\ now'.meter = now.win /\ now'.anim = Messages!None /\ now'.asked = now.asked
        /\ now'.answered = now.asked /\ now'.win = now.win /\ now'.bonus = now.bonus /\ now'.rounds = now.rounds
        /\ now'.step = "counter"
    BY <1>2, <1>3, <2>2, <2>4, <2>5 DEF MsgKept
  <2>7. MsgRound(now') /\ MsgCounter(now') /\ MsgLine(now')
    BY <1>3, <2>5, <2>6 DEF MsgRound, MsgCounter, MsgLine
  <2>8. MsgMeter(now')
    BY <1>4, <2>6 DEF MsgMeter
  <2>. QED
    BY <2>5, <2>7, <2>8 DEF MsgGood, MsgInv
<1>. QED
  BY <1>5, <1>6

\* The wins are over, and the wheel's bonus is summed up.
LEMMA MsgFeatures ==
  ASSUME MsgInv, Messages!WinsOver \/ Messages!showWheelBonusRoundSummary PROVE MsgInv'
<1>1. MsgGood(now) /\ now \in MsgRec
  BY DEF MsgInv, MsgGood
<1>2. CASE Messages!WinsOver
  <2>1. now' = [now EXCEPT !.step = "features"] /\ now.step = "counter" /\ now.asked = now.answered
    BY <1>2 DEF Messages!WinsOver
  <2>2. now.phase = "presenting" /\ now.anim = Messages!None /\ now.asked \in Nat
    <3>1. now.asked \in 0..MessageRounds
      BY <1>1 DEF MsgRec
    <3>. QED
      BY <1>1, <2>1, <3>1 DEF MsgGood, MsgRound, MsgCounter
  <2>3. now' \in MsgRec
    BY <1>1, <2>1 DEF MsgRec
  <2>4. /\ now'.phase = now.phase /\ now'.wheel = now.wheel /\ now'.ordinary = now.ordinary /\ now'.text = now.text
        /\ now'.step = "features" /\ now'.win = now.win /\ now'.bonus = now.bonus /\ now'.meter = now.meter
        /\ now'.asked = now.asked /\ now'.answered = now.answered /\ now'.anim = now.anim /\ now'.rounds = now.rounds
        /\ now'.failed = now.failed
    BY <1>1, <2>1 DEF MsgRec
  <2>5. MsgRound(now') /\ MsgMeter(now') /\ MsgCounter(now')
    BY <1>1, <2>1, <2>2, <2>4 DEF MsgGood, MsgRound, MsgMeter, MsgCounter
  <2>6. MsgLine(now')
    BY <1>1, <2>1, <2>2, <2>4 DEF MsgGood, MsgLine
  <2>. QED
    BY <2>3, <2>5, <2>6 DEF MsgGood, MsgInv
<1>3. CASE Messages!showWheelBonusRoundSummary
  <2>1. now' = [now EXCEPT !.ordinary = "none", !.wheel = TRUE, !.text = "wheel"] /\ now.step = "features"
    BY <1>3 DEF Messages!showWheelBonusRoundSummary
  <2>2. now.phase = "presenting" /\ now.anim = Messages!None
    BY <1>1, <2>1 DEF MsgGood, MsgRound, MsgCounter, MsgRec
  <2>3. now' \in MsgRec
    BY <1>1, <2>1 DEF MsgRec
  <2>4. MsgKept(now', now) /\ now'.phase = now.phase /\ now'.wheel = TRUE /\ now'.ordinary = "none" /\ now'.text = "wheel"
    BY <1>1, <2>1 DEF MsgRec, MsgKept
  <2>5. MsgRound(now') /\ MsgMeter(now') /\ MsgCounter(now')
    BY <1>1, <2>4 DEF MsgGood, MsgRound, MsgMeter, MsgCounter, MsgKept
  <2>6. MsgLine(now')
    BY <2>1, <2>2, <2>4 DEF MsgLine, MsgKept
  <2>. QED
    BY <2>3, <2>5, <2>6 DEF MsgGood, MsgInv
<1>. QED
  BY <1>2, <1>3

\* The round is over, or its show failed: the meter holds what it won.
LEMMA MsgCompletes ==
  ASSUME MsgInv, \/ \E yes \in BOOLEAN : Messages!roundComplete(yes)
                 \/ Messages!presentationFailed
  PROVE  MsgInv'
<1>1. MsgGood(now) /\ now \in MsgRec
  BY DEF MsgInv, MsgGood
<1>. DEFINE u == Messages!applyResult(now)
<1>2. /\ u \in MsgRec /\ u.anim = Messages!None /\ u.asked = u.answered /\ u.asked = now.asked
      /\ u.phase = now.phase /\ u.text = now.text /\ u.meter = now.win + now.bonus /\ u.wheel = now.wheel
      /\ u.ordinary = now.ordinary /\ u.failed = now.failed /\ u.step = now.step /\ u.win = now.win
      /\ u.big = now.big /\ u.bonus = now.bonus /\ u.rounds = now.rounds
  BY <1>1, MsgResults
<1>3. now.asked <= now.rounds /\ now.win + now.bonus <= TotalWin
  BY <1>1 DEF MsgGood, MsgRound
\* What is ready after the round keeps the books of the round.
<1>4. ASSUME NEW d \in MsgRec, d.phase = "ready", d.step = "none", d.anim = Messages!None, d.asked = d.answered,
             d.asked = now.asked, d.rounds = now.rounds, d.win = now.win, d.bonus = now.bonus, d.meter = now.win + now.bonus
      PROVE  MsgRound(d) /\ MsgCounter(d) /\ MsgMeter(d)
  BY <1>3, <1>4 DEF MsgRound, MsgCounter, MsgMeter
<1>. HIDE DEF u
<1>5. ASSUME NEW yes \in BOOLEAN, Messages!roundComplete(yes) PROVE MsgInv'
  <2>. DEFINE v == [u EXCEPT !.step = "none"]
              t == Messages!setPhase(v, "ready")
  <2>1. now' = (IF yes THEN [t EXCEPT !.ordinary = "none", !.text = "conclusion"] ELSE t) /\ now.step = "features"
    BY <1>5 DEF Messages!roundComplete, u
  <2>2. v \in MsgRec
    BY <1>2 DEF MsgRec
  <2>3. /\ v.anim = u.anim /\ v.asked = u.asked /\ v.answered = u.answered /\ v.meter = u.meter /\ v.wheel = u.wheel
        /\ v.ordinary = u.ordinary /\ v.failed = u.failed /\ v.step = "none" /\ v.win = u.win /\ v.bonus = u.bonus
        /\ v.rounds = u.rounds
    BY <1>2 DEF MsgRec
  <2>. HIDE DEF v
  <2>4. /\ t \in MsgRec /\ MsgKept(t, v) /\ MsgShows(t) /\ t.phase = "ready" /\ t.wheel = v.wheel /\ t.ordinary = v.ordinary
    BY <2>2, MsgPhases
  <2>. HIDE DEF t
  <2>5. /\ t.step = "none" /\ t.anim = Messages!None /\ t.asked = t.answered
        /\ t.asked = now.asked /\ t.rounds = now.rounds /\ t.win = now.win /\ t.bonus = now.bonus /\ t.meter = now.win + now.bonus
        /\ t.ordinary = now.ordinary /\ t.failed = now.failed
    BY <1>2, <2>3, <2>4 DEF MsgKept
  <2>6. now.anim = Messages!None /\ now.phase = "presenting"
    BY <1>1, <2>1 DEF MsgGood, MsgRound, MsgCounter, MsgRec
  <2>7. now.ordinary # "counting"
    BY <1>1, <2>6 DEF MsgGood, MsgLine
  <2>8. CASE ~yes
    <3>1. now' = t
      BY <2>1, <2>8
    <3>2. MsgRound(t) /\ MsgCounter(t) /\ MsgMeter(t)
      BY <1>4, <2>4, <2>5
    <3>3. MsgLine(t)
      BY <2>4, <2>5, <2>7, MsgLines
    <3>. QED
      BY <2>4, <3>1, <3>2, <3>3 DEF MsgGood, MsgInv
  <2>9. CASE yes
    <3>1. now' = [t EXCEPT !.ordinary = "none", !.text = "conclusion"]
      BY <2>1, <2>9
    <3>2. now' \in MsgRec
      BY <2>4, <3>1 DEF MsgRec
    <3>3. /\ now'.phase = t.phase /\ now'.step = t.step /\ now'.anim = t.anim /\ now'.asked = t.asked
          /\ now'.answered = t.answered /\ now'.rounds = t.rounds /\ now'.win = t.win /\ now'.bonus = t.bonus
          /\ now'.meter = t.meter /\ now'.ordinary = "none" /\ now'.text = "conclusion" /\ now'.wheel = t.wheel
      BY <2>4, <3>1 DEF MsgRec
    <3>4. MsgRound(now') /\ MsgCounter(now') /\ MsgMeter(now')
      BY <1>4, <2>4, <2>5, <3>2, <3>3
    <3>5. MsgLine(now')
      BY <2>4, <2>5, <3>3 DEF MsgLine
    <3>. QED
      BY <3>2, <3>4, <3>5 DEF MsgGood, MsgInv
  <2>. QED
    BY <2>8, <2>9
<1>6. CASE Messages!presentationFailed
  <2>. DEFINE v == [u EXCEPT !.wheel = FALSE]
              t == Messages!applyCurrentRoundState(v)
              w == [t EXCEPT !.step = "none", !.failed = TRUE]
  <2>1. now' = Messages!setPhase(w, "ready")
    BY <1>6 DEF Messages!presentationFailed, u
  <2>2. v \in MsgRec
    BY <1>2 DEF MsgRec
  <2>3. /\ v.anim = u.anim /\ v.asked = u.asked /\ v.answered = u.answered /\ v.meter = u.meter /\ v.wheel = FALSE
        /\ v.win = u.win /\ v.bonus = u.bonus /\ v.rounds = u.rounds
    BY <1>2 DEF MsgRec
  <2>. HIDE DEF v
  <2>4. t \in MsgRec /\ MsgKept(t, v) /\ t.wheel = v.wheel
    BY <2>2, MsgApplies
  <2>. HIDE DEF t
  <2>5. w \in MsgRec
    BY <2>4 DEF MsgRec
  <2>6. /\ w.anim = t.anim /\ w.asked = t.asked /\ w.answered = t.answered /\ w.meter = t.meter /\ w.wheel = t.wheel
        /\ w.win = t.win /\ w.bonus = t.bonus /\ w.rounds = t.rounds /\ w.step = "none" /\ w.failed = TRUE
    BY <2>4 DEF MsgRec
  <2>. HIDE DEF w
  <2>7. /\ now' \in MsgRec /\ MsgKept(now', w) /\ MsgShows(now') /\ now'.phase = "ready" /\ now'.wheel = w.wheel
    BY <2>1, <2>5, MsgPhases
  <2>8. /\ now'.step = "none" /\ now'.anim = Messages!None /\ now'.asked = now'.answered /\ now'.failed = TRUE
        /\ now'.asked = now.asked /\ now'.rounds = now.rounds /\ now'.win = now.win /\ now'.bonus = now.bonus
        /\ now'.meter = now.win + now.bonus /\ now'.wheel = FALSE
    <3>1. /\ t.anim = Messages!None /\ t.asked = t.answered /\ t.asked = now.asked /\ t.rounds = now.rounds
          /\ t.win = now.win /\ t.bonus = now.bonus /\ t.meter = now.win + now.bonus /\ t.wheel = FALSE
      BY <1>2, <2>3, <2>4 DEF MsgKept
    <3>. QED
      BY <2>6, <2>7, <3>1 DEF MsgKept
  <2>9. MsgRound(now') /\ MsgCounter(now') /\ MsgMeter(now')
    BY <1>4, <2>7, <2>8
  <2>10. MsgLine(now')
    BY <2>7, <2>8, MsgLines
  <2>. QED
    BY <2>7, <2>9, <2>10 DEF MsgGood, MsgInv
<1>. QED
  BY <1>5, <1>6

\* A page that is ready shows its call to press.
LEMMA MsgStarts == Messages!Init => MsgInv
<1>. SUFFICES ASSUME Messages!Init PROVE MsgInv
  OBVIOUS
<1>1. now = [phase |-> "ready", text |-> "press", meter |-> 0, wheel |-> FALSE,
             ordinary |-> "none", suppress |-> FALSE, failed |-> FALSE, anim |-> Messages!None,
             asked |-> 0, answered |-> 0, step |-> "none", win |-> 0, big |-> FALSE,
             bonus |-> 0, rounds |-> 0]
  BY DEF Messages!Init
<1>2. 0 \in 0..TotalWin /\ 0 \in 0..MessageRounds /\ 0 \in 0..1 /\ TotalWin \in Nat
  BY MessagesAssumption
<1>3. now \in MsgRec
  BY <1>1, <1>2 DEF MsgRec
<1>4. /\ now.phase = "ready" /\ now.text = "press" /\ now.meter = 0 /\ now.wheel = FALSE /\ now.ordinary = "none"
      /\ now.anim = Messages!None /\ now.asked = 0 /\ now.answered = 0 /\ now.step = "none" /\ now.win = 0
      /\ now.bonus = 0 /\ now.rounds = 0
  BY <1>1
<1>. QED
  BY <1>2, <1>3, <1>4 DEF MsgInv, MsgGood, MsgRound, MsgCounter, MsgMeter, MsgLine

MsgNext ==
  \/ Messages!requestSpin \/ Messages!refreshUi \/ Messages!handleStatus \/ Messages!Recovered
  \/ Messages!clearTransientSpinMessage \/ Messages!beginResultPresentation
  \/ Messages!showBigWinCongratulations \/ Messages!BigWinOver \/ Messages!CounterFrame
  \/ Messages!CounterFinishes \/ Messages!WinsOver \/ Messages!showWheelBonusRoundSummary
  \/ Messages!presentationFailed
  \/ \E win \in 0..TotalWin, big \in BOOLEAN, bonus \in 0..1 : Messages!ResultAccepted(win, big, bonus)
  \/ \E win \in 0..TotalWin, bonus \in 0..1 : Messages!beginRecoveredRound(win, bonus)
  \/ \E timed \in BOOLEAN : Messages!presentNormalWinCounter(timed)
  \/ \E yes \in BOOLEAN : Messages!roundComplete(yes)

\* Every call of the round, the counter and the status keeps message and meter in order.
LEMMA MsgSteps == MsgInv /\ MsgNext => MsgInv'
BY MsgSettings, MsgRequests, MsgAccepts, MsgBegins, MsgBigWin, MsgCounts, MsgFrames, MsgFeatures, MsgCompletes
   DEF MsgNext

\* What the runs ask of the messages follows: each counter is answered once, the meter
\* says what is won so far, and the line says what the round is at.
LEMMA MsgRight == MsgInv => Messages!TypeOK /\ Messages!AnsweredOnce /\ Messages!MeterTrue /\ Messages!LineTrue
<1>. SUFFICES ASSUME MsgInv
              PROVE  Messages!TypeOK /\ Messages!AnsweredOnce /\ Messages!MeterTrue /\ Messages!LineTrue
  OBVIOUS
<1>1. now \in MsgRec /\ MsgRound(now) /\ MsgCounter(now) /\ MsgMeter(now) /\ MsgLine(now)
  BY DEF MsgInv, MsgGood
<1>2. Messages!TypeOK
  BY <1>1 DEF MsgRec, Messages!TypeOK, Messages!Phases, Messages!Texts
<1>3. now.asked \in 0..MessageRounds /\ now.answered \in 0..MessageRounds
  BY <1>1 DEF MsgRec
<1>4. Messages!AnsweredOnce
  BY <1>1, <1>3 DEF MsgRound, MsgCounter, Messages!AnsweredOnce
<1>5. Messages!MeterTrue
  BY <1>1 DEF MsgMeter, Messages!MeterTrue
<1>6. Messages!LineTrue
  <2>1. now.phase = "ready" => now.anim = Messages!None
    BY <1>1 DEF MsgRound, MsgCounter
  <2>. QED
    BY <1>1, <2>1 DEF MsgLine, Messages!LineTrue
<1>. QED
  BY <1>2, <1>4, <1>5, <1>6

-----------------------------------------------------------------------------
(* The music (MusicProgram).                                                *)

TuneLoops == {"ambient", "free", "big", "generic", "common", "bigcount", "reel"}
TuneRec ==
  [app : {"lobby", "base", "free", "summary", "big-base", "big-free"}, desired : SUBSET TuneLoops,
   active : SUBSET TuneLoops, docked : BOOLEAN, level : {0, 1}, target : {0, 1, 2}, ticker : BOOLEAN,
   counting : {"none", "normal", "bigcount"}, timers : SUBSET {"normal", "bigcount"},
   cues : SUBSET {"normal", "bigcount"}, round : {"none", "spinning", "shown", "counting", "counted"},
   dead : BOOLEAN, steps : 0..MusicSteps]

\* What the music of a state is made of, whatever came before.
TuneMusic(r) ==
  /\ "ambient" \in r.active <=> r.app \in {"base", "big-base"}
  /\ "free" \in r.active <=> r.app = "free"
  /\ "big" \in r.active <=> r.app \in {"big-base", "big-free"}
  /\ r.docked <=> r.app \notin {"lobby", "base"}
  /\ r.ticker <=> r.app = "base"
  /\ r.app = "base" => r.target = r.level
  /\ r.app = "big-base" => r.target = 2
\* What the loops of a counter and of the reels belong to.
TuneLoopsEnd(r) ==
  /\ r.desired = r.active
  /\ "generic" \in r.active \/ "common" \in r.active => r.counting = "normal"
  /\ "bigcount" \in r.active => r.app \in {"big-base", "big-free"}
  /\ "reel" \in r.active <=> r.round = "spinning"
  /\ r.timers # {} => r.counting # "none"
  /\ r.counting = "normal" => r.round = "counting"
  /\ r.counting = "bigcount" => r.app \in {"big-base", "big-free"} /\ "bigcount" \in r.active
  /\ r.round = "counting" => r.app \in {"base", "free"}
  /\ r.round \in {"none", "spinning"} => r.app \in {"lobby", "base", "free"}
  /\ r.app = "lobby" => r.round = "none"
  /\ r.app \in {"big-base", "big-free"} => r.round = "shown"
TuneDead(r) ==
  r.active = {} /\ r.desired = {} /\ r.timers = {} /\ r.counting = "none" /\ ~r.ticker
TuneKept(r) ==
  /\ r \in TuneRec
  /\ IF r.dead THEN TuneDead(r) ELSE TuneMusic(r) /\ TuneLoopsEnd(r)
TuneInv == TuneKept(now)

\* Nothing but the loops, the stem and the clock differs.
TuneSame(u, r) ==
  /\ u.app = r.app /\ u.level = r.level /\ u.round = r.round /\ u.dead = r.dead /\ u.steps = r.steps
  /\ u.cues = r.cues
TuneCounts(u, r) == u.counting = r.counting /\ u.timers = r.timers
TuneStem(u, r) == u.docked = r.docked /\ u.ticker = r.ticker

\* A loop that is wanted plays, and the base music with the stem of the moment
\* (audio sprite loops, MusicPot's level).
LEMMA TuneWant ==
  ASSUME NEW r \in TuneRec, ~r.dead, r.desired = r.active, NEW l \in TuneLoops
  PROVE  LET u == Tune!Want(r, l)
         IN  /\ u \in TuneRec /\ TuneSame(u, r) /\ TuneCounts(u, r) /\ TuneStem(u, r)
             /\ u.active = r.active \union {l} /\ u.desired = u.active
             /\ l # "ambient" \/ l \in r.active => u.target = r.target
             /\ l = "ambient" /\ l \notin r.active => u.target = IF r.docked THEN 2 ELSE r.level
<1>. DEFINE d == [r EXCEPT !.desired = r.desired \union {l}]
            u == Tune!Want(r, l)
<1>1. /\ d \in TuneRec /\ TuneSame(d, r) /\ TuneCounts(d, r) /\ TuneStem(d, r)
      /\ d.active = r.active /\ d.desired = r.active \union {l} /\ d.target = r.target
  BY DEF TuneRec, TuneSame, TuneCounts, TuneStem
<1>2. u = Tune!startLoopNow(d, l)
  BY DEF Tune!Want
<1>. HIDE DEF d
<1>3. CASE l \in r.active
  <2>1. u = d
    BY <1>1, <1>2, <1>3 DEF Tune!startLoopNow, TuneSame
  <2>. QED
    BY <1>1, <1>3, <2>1
<1>4. CASE l \notin r.active
  <2>. DEFINE target == IF l = "ambient" THEN IF d.docked THEN 2 ELSE d.level ELSE d.target
  <2>1. target \in {0, 1, 2}
    BY <1>1 DEF TuneRec
  <2>a. ~d.dead /\ l \notin d.active
    BY <1>1, <1>4 DEF TuneSame
  <2>2. u = [d EXCEPT !.active = d.active \union {l}, !.target = target]
    BY <1>2, <2>a DEF Tune!startLoopNow, Tune!Silent
  <2>c. l # "ambient" => target = d.target
    OBVIOUS
  <2>d. l = "ambient" => target = IF d.docked THEN 2 ELSE d.level
    OBVIOUS
  <2>. HIDE DEF target
  <2>e. d \in TuneRec /\ d.active \union {l} \in SUBSET TuneLoops
    BY <1>1 DEF TuneRec
  <2>3. /\ u \in TuneRec /\ TuneSame(u, d) /\ TuneCounts(u, d) /\ TuneStem(u, d)
        /\ u.active = d.active \union {l} /\ u.desired = d.desired /\ u.target = target
    BY <2>e, <2>1, <2>2 DEF TuneRec, TuneSame, TuneCounts, TuneStem
  <2>4. TuneSame(u, r) /\ TuneCounts(u, r) /\ TuneStem(u, r)
    BY <1>1, <2>3 DEF TuneSame, TuneCounts, TuneStem
  <2>5. l # "ambient" => u.target = r.target
    BY <1>1, <2>c, <2>3
  <2>6. l = "ambient" => u.target = IF r.docked THEN 2 ELSE r.level
    BY <1>1, <2>d, <2>3 DEF TuneStem, TuneSame
  <2>. QED
    BY <1>1, <1>4, <2>3, <2>4, <2>5, <2>6
<1>. QED
  BY <1>3, <1>4

\* A loop that is dropped neither plays nor is wanted; nothing else changes.
LEMMA TuneDrop ==
  ASSUME NEW r \in TuneRec, NEW l \in TuneLoops
  PROVE  LET u == Tune!Drop(r, l)
         IN  /\ u \in TuneRec /\ TuneSame(u, r) /\ TuneCounts(u, r) /\ TuneStem(u, r)
             /\ u.active = r.active \ {l} /\ u.desired = r.desired \ {l} /\ u.target = r.target
BY DEF Tune!Drop, Tune!stopLoopNow, TuneRec, TuneSame, TuneCounts, TuneStem

\* The stem of the base music follows the pot's level, and its full mix while docked.
LEMMA TuneApply ==
  ASSUME NEW r \in TuneRec, ~r.dead, "ambient" \in r.active
  PROVE  LET u == Tune!applyBaseMusicStem(r)
         IN  /\ u \in TuneRec /\ TuneSame(u, r) /\ TuneCounts(u, r) /\ TuneStem(u, r)
             /\ u.active = r.active /\ u.desired = r.desired
             /\ u.target = IF r.docked THEN 2 ELSE r.level
<1>1. PICK target \in {0, 1, 2} : target = IF r.docked THEN 2 ELSE r.level
  BY DEF TuneRec
<1>2. Tune!applyBaseMusicStem(r) = [r EXCEPT !.target = target]
  BY <1>1 DEF Tune!applyBaseMusicStem, Tune!Silent
<1>. QED
  BY <1>1, <1>2 DEF TuneRec, TuneSame, TuneCounts, TuneStem

\* Docking the pot stops its clock, and changes no loop.
LEMMA TuneDocks ==
  ASSUME NEW r \in TuneRec
  PROVE  LET u == Tune!Dock(r)
         IN  /\ u \in TuneRec /\ TuneSame(u, r) /\ TuneCounts(u, r) /\ u.docked /\ ~u.ticker
             /\ u.active = r.active /\ u.desired = r.desired /\ u.target = r.target
BY DEF Tune!Dock, TuneRec, TuneSame, TuneCounts

\* Undocking the pot starts its clock, and changes no loop.
LEMMA TuneUndocks ==
  ASSUME NEW r \in TuneRec, ~r.dead
  PROVE  LET u == Tune!Undock(r)
         IN  /\ u \in TuneRec /\ TuneSame(u, r) /\ TuneCounts(u, r) /\ ~u.docked /\ u.ticker
             /\ u.active = r.active /\ u.desired = r.desired /\ u.target = r.target
<1>1. Tune!Undock(r) = [r EXCEPT !.docked = FALSE, !.ticker = TRUE]
  BY DEF Tune!Undock, TuneRec
<1>. QED
  BY <1>1 DEF TuneRec, TuneSame, TuneCounts

\* Stopping the counters ends their loops and their timers, and no other.
LEMMA TuneCounted ==
  ASSUME NEW r \in TuneRec
  PROVE  LET u == Tune!StopCounters(r)
         IN  /\ u \in TuneRec /\ TuneSame(u, r) /\ TuneStem(u, r) /\ u.target = r.target
             /\ u.counting = "none" /\ u.timers = {}
             /\ u.active = r.active \ {"generic", "common", "bigcount"}
             /\ u.desired = r.desired \ {"generic", "common", "bigcount"}
BY DEF Tune!StopCounters, Tune!Counters, TuneRec, TuneSame, TuneStem

\* The base music is raised.
LEMMA TuneRaises ==
  ASSUME NEW r \in TuneRec, ~r.dead, r.desired = r.active, "ambient" \in r.active /\ ~r.docked => r.target = r.level
  PROVE  LET u == Tune!RaiseBase(r)
         IN  /\ u \in TuneRec /\ TuneSame(u, r) /\ TuneCounts(u, r) /\ ~u.docked /\ u.ticker
             /\ u.active = r.active \union {"ambient"} /\ u.desired = u.active /\ u.target = r.level
<1>. DEFINE v == Tune!Undock(r)
            on == Tune!Want(v, "ambient")
            u == Tune!RaiseBase(r)
<1>1. /\ v \in TuneRec /\ TuneSame(v, r) /\ TuneCounts(v, r) /\ ~v.docked /\ v.ticker
      /\ v.active = r.active /\ v.desired = r.desired /\ v.target = r.target
  BY TuneUndocks
<1>. HIDE DEF v
<1>2. v \in TuneRec /\ ~v.dead /\ v.desired = v.active /\ "ambient" \in TuneLoops
  BY <1>1 DEF TuneSame, TuneLoops
<1>3. /\ on \in TuneRec /\ TuneSame(on, v) /\ TuneCounts(on, v) /\ TuneStem(on, v)
      /\ on.active = v.active \union {"ambient"} /\ on.desired = on.active
      /\ "ambient" \in v.active => on.target = v.target
      /\ "ambient" \notin v.active => on.target = IF v.docked THEN 2 ELSE v.level
  BY <1>2, TuneWant
<1>. HIDE DEF on
<1>4. /\ on \in TuneRec /\ TuneSame(on, r) /\ TuneCounts(on, r) /\ ~on.docked /\ on.ticker
      /\ on.active = r.active \union {"ambient"} /\ on.desired = on.active
  BY <1>1, <1>3 DEF TuneSame, TuneCounts, TuneStem
<1>5. CASE "ambient" \in r.active /\ r.docked
  <2>1. u = Tune!applyBaseMusicStem(on)
    BY <1>5 DEF Tune!RaiseBase, on, v
  <2>2. on \in TuneRec /\ ~on.dead /\ "ambient" \in on.active
    BY <1>4 DEF TuneSame
  <2>3. /\ u \in TuneRec /\ TuneSame(u, on) /\ TuneCounts(u, on) /\ TuneStem(u, on)
        /\ u.active = on.active /\ u.desired = on.desired /\ u.target = IF on.docked THEN 2 ELSE on.level
    BY <2>1, <2>2, TuneApply
  <2>. QED
    BY <1>4, <2>3 DEF TuneSame, TuneCounts, TuneStem
<1>6. CASE ~("ambient" \in r.active /\ r.docked)
  <2>1. u = on
    BY <1>6 DEF Tune!RaiseBase, on, v
  <2>. QED
    BY <1>1, <1>3, <1>4, <1>6, <2>1 DEF TuneSame
<1>. QED
  BY <1>5, <1>6
\* The controller's step is counted.
LEMMA TuneStepped ==
  ASSUME NEW r \in TuneRec, r.steps < MusicSteps,
         NEW app \in {"lobby", "base", "free", "summary", "big-base", "big-free"}, Tune!Step(app, r)
  PROVE  /\ now' \in TuneRec /\ now'.app = app /\ now'.level = r.level /\ now'.round = r.round
         /\ now'.dead = r.dead /\ TuneCounts(now', r) /\ TuneStem(now', r)
         /\ now'.active = r.active /\ now'.desired = r.desired /\ now'.target = r.target
<1>1. r.steps + 1 \in 0..MusicSteps
  BY MusicAssumption DEF TuneRec
<1>2. now' = [r EXCEPT !.app = app, !.steps = r.steps + 1]
  BY DEF Tune!Step
<1>. QED
  BY <1>1, <1>2 DEF TuneRec, TuneCounts, TuneStem

\* A step of the round alone changes no loop and no counter.
LEMMA TuneRounds ==
  ASSUME NEW r \in TuneRec, NEW round \in {"none", "spinning", "shown", "counting", "counted"}
  PROVE  LET u == [r EXCEPT !.round = round]
         IN  /\ u \in TuneRec /\ u.app = r.app /\ u.level = r.level /\ u.dead = r.dead /\ u.steps = r.steps
             /\ TuneCounts(u, r) /\ TuneStem(u, r) /\ u.round = round
             /\ u.active = r.active /\ u.desired = r.desired /\ u.target = r.target
BY DEF TuneRec, TuneCounts, TuneStem

\* The state in which the controller presents something.
TunePresents ==
  /\ now \in TuneRec /\ ~now.dead /\ now.steps < MusicSteps /\ TuneMusic(now) /\ TuneLoopsEnd(now)

\* A controller that presents something is alive, and its music is in order.
LEMMA TuneAlive == TuneInv /\ Tune!Presents => TunePresents
BY DEF TuneInv, TuneKept, Tune!Presents, TunePresents

\* The lobby is silent, as the invariant has it.
LEMMA TuneStarts == Tune!Init => TuneInv
BY MusicAssumption DEF Tune!Init, TuneInv, TuneKept, TuneRec, TuneMusic, TuneLoopsEnd, TuneLoops

\* The free spins take the music over, from wherever.
LEMMA TuneFrees ==
  ASSUME TunePresents, now.app \in {"lobby", "base", "free"}, now.counting = "none",
         now.round \in {"none", "counted"}, Tune!Step("free", Tune!setFreeSpinsMusicEnabled(now))
  PROVE  TuneInv'
<1>1. /\ now \in TuneRec /\ ~now.dead /\ now.steps < MusicSteps /\ TuneMusic(now) /\ TuneLoopsEnd(now)
      /\ now.timers = {}
  BY DEF TunePresents, TuneLoopsEnd
<1>. DEFINE had == "ambient" \in now.desired \union now.active
            a == [now EXCEPT !.desired = now.desired \ {"ambient"}, !.active = now.active \ {"ambient"}]
            off == Tune!Dock(a)
            t == IF had THEN 2 ELSE off.target
            b == [off EXCEPT !.target = t]
            u == Tune!Want(b, "free")
<1>2. Tune!Step("free", u)
  BY DEF Tune!setFreeSpinsMusicEnabled, Tune!Silent
<1>3. /\ a \in TuneRec /\ TuneSame(a, now) /\ TuneCounts(a, now) /\ a.target = now.target
      /\ a.active = now.active \ {"ambient"} /\ a.desired = now.desired \ {"ambient"}
  BY <1>1 DEF TuneRec, TuneSame, TuneCounts
<1>. HIDE DEF a
<1>4. /\ off \in TuneRec /\ TuneSame(off, a) /\ TuneCounts(off, a) /\ off.docked /\ ~off.ticker
      /\ off.active = a.active /\ off.desired = a.desired /\ off.target = a.target
  BY <1>3, TuneDocks
<1>. HIDE DEF off
<1>5. t \in {0, 1, 2}
  BY <1>4 DEF TuneRec
<1>. HIDE DEF t
<1>6. /\ b \in TuneRec /\ TuneSame(b, off) /\ TuneCounts(b, off) /\ b.docked = off.docked
      /\ b.ticker = off.ticker /\ b.active = off.active /\ b.desired = off.desired
  BY <1>4, <1>5 DEF TuneRec, TuneSame, TuneCounts
<1>. HIDE DEF b
<1>7. /\ ~b.dead /\ b.docked /\ ~b.ticker /\ b.steps = now.steps /\ b.round = now.round /\ b.level = now.level
      /\ b.counting = "none" /\ b.timers = {} /\ b.active = now.active \ {"ambient"} /\ b.desired = b.active
  BY <1>1, <1>3, <1>4, <1>6 DEF TuneSame, TuneCounts, TuneLoopsEnd
<1>8. /\ u \in TuneRec /\ TuneSame(u, b) /\ TuneCounts(u, b) /\ TuneStem(u, b)
      /\ u.active = b.active \union {"free"} /\ u.desired = u.active
  BY <1>6, <1>7, TuneWant DEF TuneLoops
<1>. HIDE DEF u
<1>9. u \in TuneRec /\ u.steps < MusicSteps
  BY <1>1, <1>7, <1>8 DEF TuneSame
<1>10. /\ now' \in TuneRec /\ now'.app = "free" /\ now'.level = u.level /\ now'.round = u.round
       /\ now'.dead = u.dead /\ TuneCounts(now', u) /\ TuneStem(now', u)
       /\ now'.active = u.active /\ now'.desired = u.desired /\ now'.target = u.target
  BY <1>2, <1>9, TuneStepped
<1>11. /\ ~now'.dead /\ now'.round = now.round /\ now'.counting = "none" /\ now'.timers = {}
       /\ now'.active = (now.active \ {"ambient"}) \union {"free"} /\ now'.desired = now'.active
       /\ now'.docked /\ ~now'.ticker
  BY <1>7, <1>8, <1>10 DEF TuneSame, TuneCounts, TuneStem
<1>12. TuneMusic(now')
  BY <1>1, <1>10, <1>11 DEF TuneMusic
<1>13. TuneLoopsEnd(now')
  BY <1>1, <1>10, <1>11 DEF TuneLoopsEnd
<1>. QED
  BY <1>10, <1>11, <1>12, <1>13 DEF TuneInv, TuneKept

\* syncGameMusic: entering the base game or the free spins sets the music of the
\* mode, from the lobby or from the same mode.
LEMMA TuneSyncs == ASSUME TuneInv, NEW mode \in {"base", "free"}, Tune!syncGameMusic(mode) PROVE TuneInv'
<1>1. /\ TunePresents /\ now.round = "none" /\ now.app \in {"lobby", "base", "free"}
      /\ now.app # "lobby" => mode = now.app
  BY TuneAlive DEF Tune!syncGameMusic
<1>2. /\ now \in TuneRec /\ ~now.dead /\ now.steps < MusicSteps /\ TuneMusic(now) /\ TuneLoopsEnd(now)
  BY <1>1 DEF TunePresents
<1>3. now.counting = "none" /\ now.timers = {} /\ now.desired = now.active
  BY <1>1, <1>2 DEF TuneLoopsEnd, TuneRec
<1>4. CASE mode = "base"
  <2>. DEFINE d == Tune!Drop(now, "free")
              u == Tune!RaiseBase(d)
  <2>1. Tune!Step("base", u)
    BY <1>4 DEF Tune!syncGameMusic, Tune!setAmbientEnabled
  <2>2. /\ d \in TuneRec /\ TuneSame(d, now) /\ TuneCounts(d, now) /\ TuneStem(d, now)
        /\ d.active = now.active \ {"free"} /\ d.desired = now.desired \ {"free"} /\ d.target = now.target
    BY <1>2, TuneDrop DEF TuneLoops
  <2>. HIDE DEF d
  <2>3. d \in TuneRec /\ ~d.dead /\ d.desired = d.active /\ ("ambient" \in d.active /\ ~d.docked => d.target = d.level)
    BY <1>1, <1>2, <1>3, <2>2 DEF TuneSame, TuneStem, TuneMusic
  <2>4. /\ u \in TuneRec /\ TuneSame(u, d) /\ TuneCounts(u, d) /\ ~u.docked /\ u.ticker
        /\ u.active = d.active \union {"ambient"} /\ u.desired = u.active /\ u.target = d.level
    BY <2>3, TuneRaises
  <2>. HIDE DEF u
  <2>5. u \in TuneRec /\ u.steps < MusicSteps
    BY <1>2, <2>2, <2>4 DEF TuneSame
  <2>6. /\ now' \in TuneRec /\ now'.app = "base" /\ now'.level = u.level /\ now'.round = u.round
        /\ now'.dead = u.dead /\ TuneCounts(now', u) /\ TuneStem(now', u)
        /\ now'.active = u.active /\ now'.desired = u.desired /\ now'.target = u.target
    BY <2>1, <2>5, TuneStepped
  <2>7. /\ ~now'.dead /\ now'.round = "none" /\ now'.counting = "none" /\ now'.timers = {}
        /\ now'.active = (now.active \ {"free"}) \union {"ambient"} /\ now'.desired = now'.active
        /\ now'.target = now'.level /\ ~now'.docked /\ now'.ticker
    BY <1>1, <1>2, <1>3, <2>2, <2>4, <2>6 DEF TuneSame, TuneCounts, TuneStem
  <2>8. TuneMusic(now')
    BY <1>1, <1>2, <2>6, <2>7 DEF TuneMusic
  <2>9. TuneLoopsEnd(now')
    BY <1>1, <1>2, <1>3, <2>6, <2>7 DEF TuneLoopsEnd
  <2>. QED
    BY <2>6, <2>7, <2>8, <2>9 DEF TuneInv, TuneKept
<1>5. CASE mode = "free"
  <2>1. Tune!Step("free", Tune!setFreeSpinsMusicEnabled(now))
    BY <1>5 DEF Tune!syncGameMusic
  <2>2. now.app # "big-free"
    BY <1>1
  <2>. QED
    BY <1>1, <1>3, <2>1, TuneFrees
<1>. QED
  BY <1>4, <1>5

\* What a state is after a step that only asked for the round and its loops.
LEMMA TuneReels == ASSUME TuneInv, Tune!requestSpin \/ Tune!ReelsStop \/ Tune!RoundOver PROVE TuneInv'
<1>1. TunePresents
  BY TuneAlive DEF Tune!requestSpin, Tune!ReelsStop, Tune!RoundOver
<1>2. /\ now \in TuneRec /\ ~now.dead /\ now.steps < MusicSteps /\ TuneMusic(now) /\ TuneLoopsEnd(now)
      /\ now.desired = now.active /\ now.app \in {"lobby", "base", "free", "summary", "big-base", "big-free"}
  BY <1>1 DEF TunePresents, TuneLoopsEnd, TuneRec
<1>3. CASE Tune!requestSpin
  <2>. DEFINE r == [now EXCEPT !.round = "spinning"]
              u == Tune!Want(r, "reel")
  <2>1. Tune!Step(now.app, u) /\ now.round = "none" /\ now.app \in {"base", "free"}
    BY <1>3 DEF Tune!requestSpin
  <2>2. /\ r \in TuneRec /\ r.app = now.app /\ r.level = now.level /\ r.dead = now.dead /\ r.steps = now.steps
        /\ TuneCounts(r, now) /\ TuneStem(r, now) /\ r.round = "spinning"
        /\ r.active = now.active /\ r.desired = now.desired /\ r.target = now.target
    BY <1>2, TuneRounds
  <2>. HIDE DEF r
  <2>3. /\ u \in TuneRec /\ TuneSame(u, r) /\ TuneCounts(u, r) /\ TuneStem(u, r)
        /\ u.active = r.active \union {"reel"} /\ u.desired = u.active /\ u.target = r.target
    BY <1>2, <2>2, TuneWant DEF TuneLoops
  <2>. HIDE DEF u
  <2>4. u \in TuneRec /\ u.steps < MusicSteps
    BY <1>2, <2>2, <2>3 DEF TuneSame
  <2>5. /\ now' \in TuneRec /\ now'.app = now.app /\ now'.level = u.level /\ now'.round = u.round
        /\ now'.dead = u.dead /\ TuneCounts(now', u) /\ TuneStem(now', u)
        /\ now'.active = u.active /\ now'.desired = u.desired /\ now'.target = u.target
    BY <1>2, <2>1, <2>4, TuneStepped
  <2>6. /\ ~now'.dead /\ now'.round = "spinning" /\ now'.counting = now.counting /\ now'.timers = now.timers
        /\ now'.active = now.active \union {"reel"} /\ now'.desired = now'.active
        /\ now'.target = now.target /\ now'.level = now.level /\ now'.docked = now.docked /\ now'.ticker = now.ticker
    BY <1>2, <2>2, <2>3, <2>5 DEF TuneSame, TuneCounts, TuneStem
  <2>7. TuneMusic(now')
    BY <1>2, <2>5, <2>6 DEF TuneMusic
  <2>8. TuneLoopsEnd(now')
    BY <1>2, <2>1, <2>5, <2>6 DEF TuneLoopsEnd
  <2>. QED
    BY <2>5, <2>6, <2>7, <2>8 DEF TuneInv, TuneKept
<1>4. CASE Tune!ReelsStop
  <2>. DEFINE r == [now EXCEPT !.round = "shown"]
              u == Tune!Drop(r, "reel")
  <2>1. Tune!Step(now.app, u) /\ now.round = "spinning"
    BY <1>4 DEF Tune!ReelsStop
  <2>2. /\ r \in TuneRec /\ r.app = now.app /\ r.level = now.level /\ r.dead = now.dead /\ r.steps = now.steps
        /\ TuneCounts(r, now) /\ TuneStem(r, now) /\ r.round = "shown"
        /\ r.active = now.active /\ r.desired = now.desired /\ r.target = now.target
    BY <1>2, TuneRounds
  <2>. HIDE DEF r
  <2>3. /\ u \in TuneRec /\ TuneSame(u, r) /\ TuneCounts(u, r) /\ TuneStem(u, r)
        /\ u.active = r.active \ {"reel"} /\ u.desired = r.desired \ {"reel"} /\ u.target = r.target
    BY <2>2, TuneDrop DEF TuneLoops
  <2>. HIDE DEF u
  <2>4. u \in TuneRec /\ u.steps < MusicSteps
    BY <1>2, <2>2, <2>3 DEF TuneSame
  <2>5. /\ now' \in TuneRec /\ now'.app = now.app /\ now'.level = u.level /\ now'.round = u.round
        /\ now'.dead = u.dead /\ TuneCounts(now', u) /\ TuneStem(now', u)
        /\ now'.active = u.active /\ now'.desired = u.desired /\ now'.target = u.target
    BY <1>2, <2>1, <2>4, TuneStepped
  <2>6. /\ ~now'.dead /\ now'.round = "shown" /\ now'.counting = now.counting /\ now'.timers = now.timers
        /\ now'.active = now.active \ {"reel"} /\ now'.desired = now'.active
        /\ now'.target = now.target /\ now'.level = now.level /\ now'.docked = now.docked /\ now'.ticker = now.ticker
    BY <1>2, <2>2, <2>3, <2>5 DEF TuneSame, TuneCounts, TuneStem
  <2>7. TuneMusic(now')
    BY <1>2, <2>5, <2>6 DEF TuneMusic
  <2>8. TuneLoopsEnd(now')
    BY <1>2, <2>1, <2>5, <2>6 DEF TuneLoopsEnd
  <2>. QED
    BY <2>5, <2>6, <2>7, <2>8 DEF TuneInv, TuneKept
<1>5. CASE Tune!RoundOver
  <2>. DEFINE u == [now EXCEPT !.round = "none"]
  <2>1. Tune!Step(now.app, u) /\ now.round = "counted" /\ now.app # "summary"
    BY <1>5 DEF Tune!RoundOver
  <2>2. /\ u \in TuneRec /\ u.app = now.app /\ u.level = now.level /\ u.dead = now.dead /\ u.steps = now.steps
        /\ TuneCounts(u, now) /\ TuneStem(u, now) /\ u.round = "none"
        /\ u.active = now.active /\ u.desired = now.desired /\ u.target = now.target
    BY <1>2, TuneRounds
  <2>. HIDE DEF u
  <2>3. /\ now' \in TuneRec /\ now'.app = now.app /\ now'.level = u.level /\ now'.round = u.round
        /\ now'.dead = u.dead /\ TuneCounts(now', u) /\ TuneStem(now', u)
        /\ now'.active = u.active /\ now'.desired = u.desired /\ now'.target = u.target
    BY <1>2, <2>1, <2>2, TuneStepped
  <2>4. /\ ~now'.dead /\ now'.round = "none" /\ now'.counting = now.counting /\ now'.timers = now.timers
        /\ now'.active = now.active /\ now'.desired = now'.active
        /\ now'.target = now.target /\ now'.level = now.level /\ now'.docked = now.docked /\ now'.ticker = now.ticker
    BY <1>2, <2>2, <2>3 DEF TuneCounts, TuneStem
  <2>5. TuneMusic(now')
    BY <1>2, <2>3, <2>4 DEF TuneMusic
  <2>6. TuneLoopsEnd(now')
    BY <1>2, <2>1, <2>3, <2>4 DEF TuneLoopsEnd
  <2>. QED
    BY <2>3, <2>4, <2>5, <2>6 DEF TuneInv, TuneKept
<1>. QED
  BY <1>3, <1>4, <1>5

\* A big win takes the music over, from the base game or from the free spins.
LEMMA TuneShows == ASSUME TuneInv, Tune!ShowBigWin PROVE TuneInv'
<1>1. TunePresents /\ now.round = "shown" /\ now.app \in {"base", "free"}
  BY TuneAlive DEF Tune!ShowBigWin
<1>2. /\ now \in TuneRec /\ ~now.dead /\ now.steps < MusicSteps /\ TuneMusic(now) /\ TuneLoopsEnd(now)
      /\ now.desired = now.active /\ now.counting = "none" /\ now.timers = {}
  BY <1>1 DEF TunePresents, TuneLoopsEnd, TuneRec
<1>3. CASE now.app = "free"
  <2>. DEFINE r == Tune!Drop(now, "free")
              u == Tune!Want(r, "big")
  <2>1. Tune!Step("big-free", u)
    BY <1>3 DEF Tune!ShowBigWin, Tune!beginBigWin, Tune!endFreeSpinsLoop
  <2>2. /\ r \in TuneRec /\ TuneSame(r, now) /\ TuneCounts(r, now) /\ TuneStem(r, now)
        /\ r.active = now.active \ {"free"} /\ r.desired = now.desired \ {"free"} /\ r.target = now.target
    BY <1>2, TuneDrop DEF TuneLoops
  <2>. HIDE DEF r
  <2>3. ~r.dead /\ r.desired = r.active
    BY <1>2, <2>2 DEF TuneSame
  <2>4. /\ u \in TuneRec /\ TuneSame(u, r) /\ TuneCounts(u, r) /\ TuneStem(u, r)
        /\ u.active = r.active \union {"big"} /\ u.desired = u.active /\ u.target = r.target
    BY <2>2, <2>3, TuneWant DEF TuneLoops
  <2>. HIDE DEF u
  <2>5. u \in TuneRec /\ u.steps < MusicSteps
    BY <1>2, <2>2, <2>4 DEF TuneSame
  <2>6. /\ now' \in TuneRec /\ now'.app = "big-free" /\ now'.level = u.level /\ now'.round = u.round
        /\ now'.dead = u.dead /\ TuneCounts(now', u) /\ TuneStem(now', u)
        /\ now'.active = u.active /\ now'.desired = u.desired /\ now'.target = u.target
    BY <2>1, <2>5, TuneStepped
  <2>7. /\ ~now'.dead /\ now'.round = "shown" /\ now'.counting = "none" /\ now'.timers = {}
        /\ now'.active = (now.active \ {"free"}) \union {"big"} /\ now'.desired = now'.active
        /\ now'.docked = now.docked /\ now'.ticker = now.ticker
    BY <1>1, <1>2, <2>2, <2>4, <2>6 DEF TuneSame, TuneCounts, TuneStem
  <2>8. TuneMusic(now')
    BY <1>2, <1>3, <2>6, <2>7 DEF TuneMusic
  <2>9. TuneLoopsEnd(now')
    BY <1>1, <1>2, <2>6, <2>7 DEF TuneLoopsEnd
  <2>. QED
    BY <2>6, <2>7, <2>8, <2>9 DEF TuneInv, TuneKept
<1>4. CASE now.app = "base"
  <2>. DEFINE d == Tune!Dock(now)
              r == Tune!applyBaseMusicStem(d)
              u == Tune!Want(r, "big")
  <2>1. Tune!Step("big-base", u)
    BY <1>4 DEF Tune!ShowBigWin, Tune!beginBigWin
  <2>2. /\ d \in TuneRec /\ TuneSame(d, now) /\ TuneCounts(d, now) /\ d.docked /\ ~d.ticker
        /\ d.active = now.active /\ d.desired = now.desired /\ d.target = now.target
    BY <1>2, TuneDocks
  <2>. HIDE DEF d
  <2>3. ~d.dead /\ "ambient" \in d.active
    BY <1>2, <1>4, <2>2 DEF TuneSame, TuneMusic
  <2>4. /\ r \in TuneRec /\ TuneSame(r, d) /\ TuneCounts(r, d) /\ TuneStem(r, d)
        /\ r.active = d.active /\ r.desired = d.desired /\ r.target = 2
    BY <2>2, <2>3, TuneApply
  <2>. HIDE DEF r
  <2>5. ~r.dead /\ r.desired = r.active
    BY <1>2, <2>2, <2>4 DEF TuneSame
  <2>6. /\ u \in TuneRec /\ TuneSame(u, r) /\ TuneCounts(u, r) /\ TuneStem(u, r)
        /\ u.active = r.active \union {"big"} /\ u.desired = u.active /\ u.target = r.target
    BY <2>4, <2>5, TuneWant DEF TuneLoops
  <2>. HIDE DEF u
  <2>7. u \in TuneRec /\ u.steps < MusicSteps
    BY <1>2, <2>2, <2>4, <2>6 DEF TuneSame
  <2>8. /\ now' \in TuneRec /\ now'.app = "big-base" /\ now'.level = u.level /\ now'.round = u.round
        /\ now'.dead = u.dead /\ TuneCounts(now', u) /\ TuneStem(now', u)
        /\ now'.active = u.active /\ now'.desired = u.desired /\ now'.target = u.target
    BY <2>1, <2>7, TuneStepped
  <2>9. /\ ~now'.dead /\ now'.round = "shown" /\ now'.counting = "none" /\ now'.timers = {}
        /\ now'.active = now.active \union {"big"} /\ now'.desired = now'.active
        /\ now'.docked /\ ~now'.ticker /\ now'.target = 2
    BY <1>1, <1>2, <2>2, <2>4, <2>6, <2>8 DEF TuneSame, TuneCounts, TuneStem
  <2>10. TuneMusic(now')
    BY <1>2, <1>4, <2>8, <2>9 DEF TuneMusic
  <2>11. TuneLoopsEnd(now')
    BY <1>1, <1>2, <2>8, <2>9 DEF TuneLoopsEnd
  <2>. QED
    BY <2>8, <2>9, <2>10, <2>11 DEF TuneInv, TuneKept
<1>. QED
  BY <1>1, <1>3, <1>4

\* The counter of the big win starts its loop under the win's music.
LEMMA TuneCountStarts == ASSUME TuneInv, Tune!CountStart PROVE TuneInv'
<1>1. TunePresents /\ now.app \in {"big-base", "big-free"} /\ now.counting = "none"
  BY TuneAlive DEF Tune!CountStart
<1>2. /\ now \in TuneRec /\ ~now.dead /\ now.steps < MusicSteps /\ TuneMusic(now) /\ TuneLoopsEnd(now)
      /\ now.desired = now.active
  BY <1>1 DEF TunePresents, TuneLoopsEnd
<1>. DEFINE r == [now EXCEPT !.counting = "bigcount", !.timers = now.timers \union {"bigcount"}]
            u == Tune!Want(r, "bigcount")
<1>3. Tune!Step(now.app, u)
  BY DEF Tune!CountStart, Tune!beginBigWinCounter
<1>4. /\ r \in TuneRec /\ TuneSame(r, now) /\ TuneStem(r, now) /\ r.counting = "bigcount"
      /\ r.active = now.active /\ r.desired = now.desired /\ r.target = now.target
  BY <1>2 DEF TuneRec, TuneSame, TuneStem
<1>. HIDE DEF r
<1>5. ~r.dead /\ r.desired = r.active
  BY <1>2, <1>4 DEF TuneSame
<1>6. /\ u \in TuneRec /\ TuneSame(u, r) /\ TuneCounts(u, r) /\ TuneStem(u, r)
      /\ u.active = r.active \union {"bigcount"} /\ u.desired = u.active /\ u.target = r.target
  BY <1>4, <1>5, TuneWant DEF TuneLoops
<1>. HIDE DEF u
<1>7. u \in TuneRec /\ u.steps < MusicSteps
  BY <1>2, <1>4, <1>6 DEF TuneSame
<1>8. /\ now' \in TuneRec /\ now'.app = now.app /\ now'.level = u.level /\ now'.round = u.round
      /\ now'.dead = u.dead /\ TuneCounts(now', u) /\ TuneStem(now', u)
      /\ now'.active = u.active /\ now'.desired = u.desired /\ now'.target = u.target
  BY <1>1, <1>3, <1>7, TuneStepped
<1>9. /\ ~now'.dead /\ now'.round = now.round /\ now'.counting = "bigcount"
      /\ now'.active = now.active \union {"bigcount"} /\ now'.desired = now'.active
      /\ now'.target = now.target /\ now'.level = now.level /\ now'.docked = now.docked /\ now'.ticker = now.ticker
  BY <1>2, <1>4, <1>6, <1>8 DEF TuneSame, TuneCounts, TuneStem
<1>10. TuneMusic(now')
  BY <1>2, <1>8, <1>9 DEF TuneMusic
<1>11. TuneLoopsEnd(now')
  BY <1>1, <1>2, <1>8, <1>9 DEF TuneLoopsEnd
<1>. QED
  BY <1>8, <1>9, <1>10, <1>11 DEF TuneInv, TuneKept

\* A big win that is hidden gives the music back to the mode it took it from.
LEMMA TuneHides == ASSUME TuneInv, Tune!HideBigWin PROVE TuneInv'
<1>1. TunePresents /\ now.app \in {"big-base", "big-free"}
  BY TuneAlive DEF Tune!HideBigWin
<1>2. /\ now \in TuneRec /\ ~now.dead /\ now.steps < MusicSteps /\ TuneMusic(now) /\ TuneLoopsEnd(now)
      /\ now.desired = now.active
  BY <1>1 DEF TunePresents, TuneLoopsEnd
<1>. DEFINE q == [now EXCEPT !.round = "counted"]
            c == Tune!StopCounters(q)
            over == Tune!Drop(c, "big")
<1>3. /\ q \in TuneRec /\ q.app = now.app /\ q.level = now.level /\ q.dead = now.dead /\ q.steps = now.steps
      /\ TuneCounts(q, now) /\ TuneStem(q, now) /\ q.round = "counted"
      /\ q.active = now.active /\ q.desired = now.desired /\ q.target = now.target
  BY <1>2, TuneRounds
<1>. HIDE DEF q
<1>4. /\ c \in TuneRec /\ TuneSame(c, q) /\ TuneStem(c, q) /\ c.target = q.target
      /\ c.counting = "none" /\ c.timers = {}
      /\ c.active = q.active \ {"generic", "common", "bigcount"}
      /\ c.desired = q.desired \ {"generic", "common", "bigcount"}
  BY <1>3, TuneCounted
<1>. HIDE DEF c
<1>5. /\ over \in TuneRec /\ TuneSame(over, c) /\ TuneCounts(over, c) /\ TuneStem(over, c)
      /\ over.active = c.active \ {"big"} /\ over.desired = c.desired \ {"big"} /\ over.target = c.target
  BY <1>4, TuneDrop DEF TuneLoops
<1>. HIDE DEF over
<1>6. /\ ~over.dead /\ over.steps = now.steps /\ over.round = "counted" /\ over.level = now.level
      /\ over.counting = "none" /\ over.timers = {} /\ over.docked = now.docked /\ over.ticker = now.ticker
      /\ over.active = now.active \ {"generic", "common", "bigcount", "big"} /\ over.desired = over.active
  BY <1>2, <1>3, <1>4, <1>5 DEF TuneSame, TuneCounts, TuneStem
<1>7. CASE now.app = "big-free"
  <2>. DEFINE u == Tune!Want(over, "free")
  <2>1. Tune!Step("free", u)
    BY <1>7 DEF Tune!HideBigWin, Tune!endBigWin, Tune!endBigWinCounter, over, c, q
  <2>2. /\ u \in TuneRec /\ TuneSame(u, over) /\ TuneCounts(u, over) /\ TuneStem(u, over)
        /\ u.active = over.active \union {"free"} /\ u.desired = u.active /\ u.target = over.target
    BY <1>5, <1>6, TuneWant DEF TuneLoops
  <2>. HIDE DEF u
  <2>3. u \in TuneRec /\ u.steps < MusicSteps
    BY <1>2, <1>6, <2>2 DEF TuneSame
  <2>4. /\ now' \in TuneRec /\ now'.app = "free" /\ now'.level = u.level /\ now'.round = u.round
        /\ now'.dead = u.dead /\ TuneCounts(now', u) /\ TuneStem(now', u)
        /\ now'.active = u.active /\ now'.desired = u.desired /\ now'.target = u.target
    BY <2>1, <2>3, TuneStepped
  <2>5. /\ ~now'.dead /\ now'.round = "counted" /\ now'.counting = "none" /\ now'.timers = {}
        /\ now'.active = (now.active \ {"generic", "common", "bigcount", "big"}) \union {"free"}
        /\ now'.desired = now'.active /\ now'.docked = now.docked /\ now'.ticker = now.ticker
    BY <1>6, <2>2, <2>4 DEF TuneSame, TuneCounts, TuneStem
  <2>6. TuneMusic(now')
    BY <1>2, <1>7, <2>4, <2>5 DEF TuneMusic
  <2>7. TuneLoopsEnd(now')
    BY <1>1, <1>2, <2>4, <2>5 DEF TuneLoopsEnd
  <2>. QED
    BY <2>4, <2>5, <2>6, <2>7 DEF TuneInv, TuneKept
<1>8. CASE now.app = "big-base"
  <2>. DEFINE d == Tune!Undock(over)
              u == Tune!applyBaseMusicStem(d)
  <2>1. Tune!Step("base", u)
    BY <1>8 DEF Tune!HideBigWin, Tune!endBigWin, Tune!endBigWinCounter, over, c, q
  <2>2. /\ d \in TuneRec /\ TuneSame(d, over) /\ TuneCounts(d, over) /\ ~d.docked /\ d.ticker
        /\ d.active = over.active /\ d.desired = over.desired /\ d.target = over.target
    BY <1>5, <1>6, TuneUndocks
  <2>. HIDE DEF d
  <2>3. ~d.dead /\ "ambient" \in d.active
    BY <1>2, <1>6, <1>8, <2>2 DEF TuneSame, TuneMusic
  <2>4. /\ u \in TuneRec /\ TuneSame(u, d) /\ TuneCounts(u, d) /\ TuneStem(u, d)
        /\ u.active = d.active /\ u.desired = d.desired /\ u.target = d.level
    BY <2>2, <2>3, TuneApply
  <2>. HIDE DEF u
  <2>5. u \in TuneRec /\ u.steps < MusicSteps
    BY <1>2, <1>6, <2>2, <2>4 DEF TuneSame
  <2>6. /\ now' \in TuneRec /\ now'.app = "base" /\ now'.level = u.level /\ now'.round = u.round
        /\ now'.dead = u.dead /\ TuneCounts(now', u) /\ TuneStem(now', u)
        /\ now'.active = u.active /\ now'.desired = u.desired /\ now'.target = u.target
    BY <2>1, <2>5, TuneStepped
  <2>7. /\ ~now'.dead /\ now'.round = "counted" /\ now'.counting = "none" /\ now'.timers = {}
        /\ now'.active = now.active \ {"generic", "common", "bigcount", "big"}
        /\ now'.desired = now'.active /\ ~now'.docked /\ now'.ticker /\ now'.target = now'.level
    BY <1>6, <2>2, <2>4, <2>6 DEF TuneSame, TuneCounts, TuneStem
  <2>8. TuneMusic(now')
    BY <1>2, <1>8, <2>6, <2>7 DEF TuneMusic
  <2>9. TuneLoopsEnd(now')
    BY <1>1, <1>2, <2>6, <2>7 DEF TuneLoopsEnd
  <2>. QED
    BY <2>6, <2>7, <2>8, <2>9 DEF TuneInv, TuneKept
<1>. QED
  BY <1>1, <1>7, <1>8

\* The counter of an ordinary win starts and ends on its own loops.
LEMMA TuneNormal == ASSUME TuneInv, Tune!NormalWin \/ Tune!NormalWinOver PROVE TuneInv'
<1>1. TunePresents
  BY TuneAlive DEF Tune!NormalWin, Tune!NormalWinOver
<1>2. /\ now \in TuneRec /\ ~now.dead /\ now.steps < MusicSteps /\ TuneMusic(now) /\ TuneLoopsEnd(now)
      /\ now.desired = now.active /\ now.app \in {"lobby", "base", "free", "summary", "big-base", "big-free"}
  BY <1>1 DEF TunePresents, TuneLoopsEnd, TuneRec
<1>3. CASE Tune!NormalWin
  <2>. DEFINE q == [now EXCEPT !.round = "counting"]
              n == [q EXCEPT !.counting = "normal", !.timers = q.timers \union {"normal"}]
              g == Tune!Want(n, "generic")
              u == Tune!Want(g, "common")
  <2>1. now.round = "shown" /\ now.app \in {"base", "free"} /\ now.counting = "none"
    BY <1>2, <1>3 DEF Tune!NormalWin, TuneRec, TuneLoopsEnd
  <2>2. /\ q \in TuneRec /\ q.app = now.app /\ q.level = now.level /\ q.dead = now.dead /\ q.steps = now.steps
        /\ TuneCounts(q, now) /\ TuneStem(q, now) /\ q.round = "counting"
        /\ q.active = now.active /\ q.desired = now.desired /\ q.target = now.target
    BY <1>2, TuneRounds
  <2>3. q.counting # "normal"
    BY <2>1, <2>2 DEF TuneCounts
  <2>4. Tune!Step(now.app, u)
    BY <1>3, <2>3 DEF Tune!NormalWin, Tune!beginNormalWinCounter
  <2>. HIDE DEF q
  <2>5. /\ n \in TuneRec /\ TuneSame(n, q) /\ TuneStem(n, q) /\ n.counting = "normal"
        /\ n.active = q.active /\ n.desired = q.desired /\ n.target = q.target
    BY <2>2 DEF TuneRec, TuneSame, TuneStem
  <2>. HIDE DEF n
  <2>6. ~n.dead /\ n.desired = n.active
    BY <1>2, <2>2, <2>5 DEF TuneSame
  <2>7. /\ g \in TuneRec /\ TuneSame(g, n) /\ TuneCounts(g, n) /\ TuneStem(g, n)
        /\ g.active = n.active \union {"generic"} /\ g.desired = g.active /\ g.target = n.target
    BY <2>5, <2>6, TuneWant DEF TuneLoops
  <2>. HIDE DEF g
  <2>8. ~g.dead
    BY <2>6, <2>7 DEF TuneSame
  <2>9. /\ u \in TuneRec /\ TuneSame(u, g) /\ TuneCounts(u, g) /\ TuneStem(u, g)
        /\ u.active = g.active \union {"common"} /\ u.desired = u.active /\ u.target = g.target
    BY <2>7, <2>8, TuneWant DEF TuneLoops
  <2>. HIDE DEF u
  <2>10. u \in TuneRec /\ u.steps < MusicSteps
    BY <1>2, <2>2, <2>5, <2>7, <2>9 DEF TuneSame
  <2>11. /\ now' \in TuneRec /\ now'.app = now.app /\ now'.level = u.level /\ now'.round = u.round
         /\ now'.dead = u.dead /\ TuneCounts(now', u) /\ TuneStem(now', u)
         /\ now'.active = u.active /\ now'.desired = u.desired /\ now'.target = u.target
    BY <1>2, <2>4, <2>10, TuneStepped
  <2>12. /\ ~now'.dead /\ now'.round = "counting" /\ now'.counting = "normal"
         /\ now'.active = now.active \union {"generic", "common"} /\ now'.desired = now'.active
         /\ now'.target = now.target /\ now'.level = now.level /\ now'.docked = now.docked /\ now'.ticker = now.ticker
    BY <1>2, <2>2, <2>5, <2>7, <2>9, <2>11 DEF TuneSame, TuneCounts, TuneStem
  <2>13. TuneMusic(now')
    BY <1>2, <2>11, <2>12 DEF TuneMusic
  <2>14. TuneLoopsEnd(now')
    BY <1>2, <2>1, <2>11, <2>12 DEF TuneLoopsEnd
  <2>. QED
    BY <2>11, <2>12, <2>13, <2>14 DEF TuneInv, TuneKept
<1>4. CASE Tune!NormalWinOver
  <2>. DEFINE q == [now EXCEPT !.round = "counted"]
              u == Tune!StopCounters(q)
  <2>1. Tune!Step(now.app, u) /\ now.round = "counting"
    BY <1>4 DEF Tune!NormalWinOver, Tune!endNormalWinCounter
  <2>2. /\ q \in TuneRec /\ q.app = now.app /\ q.level = now.level /\ q.dead = now.dead /\ q.steps = now.steps
        /\ TuneCounts(q, now) /\ TuneStem(q, now) /\ q.round = "counted"
        /\ q.active = now.active /\ q.desired = now.desired /\ q.target = now.target
    BY <1>2, TuneRounds
  <2>. HIDE DEF q
  <2>3. /\ u \in TuneRec /\ TuneSame(u, q) /\ TuneStem(u, q) /\ u.target = q.target
        /\ u.counting = "none" /\ u.timers = {}
        /\ u.active = q.active \ {"generic", "common", "bigcount"}
        /\ u.desired = q.desired \ {"generic", "common", "bigcount"}
    BY <2>2, TuneCounted
  <2>. HIDE DEF u
  <2>4. u \in TuneRec /\ u.steps < MusicSteps
    BY <1>2, <2>2, <2>3 DEF TuneSame
  <2>5. /\ now' \in TuneRec /\ now'.app = now.app /\ now'.level = u.level /\ now'.round = u.round
        /\ now'.dead = u.dead /\ TuneCounts(now', u) /\ TuneStem(now', u)
        /\ now'.active = u.active /\ now'.desired = u.desired /\ now'.target = u.target
    BY <1>2, <2>1, <2>4, TuneStepped
  <2>6. /\ ~now'.dead /\ now'.round = "counted" /\ now'.counting = "none" /\ now'.timers = {}
        /\ now'.active = now.active \ {"generic", "common", "bigcount"} /\ now'.desired = now'.active
        /\ now'.target = now.target /\ now'.level = now.level /\ now'.docked = now.docked /\ now'.ticker = now.ticker
    BY <1>2, <2>2, <2>3, <2>5 DEF TuneSame, TuneCounts, TuneStem
  <2>7. TuneMusic(now')
    BY <1>2, <2>5, <2>6 DEF TuneMusic
  <2>8. TuneLoopsEnd(now')
    BY <1>2, <2>1, <2>5, <2>6 DEF TuneLoopsEnd
  <2>. QED
    BY <2>5, <2>6, <2>7, <2>8 DEF TuneInv, TuneKept
<1>. QED
  BY <1>3, <1>4

\* Free spins that start, end or show their summary hand the music over whole.
LEMMA TuneFeature ==
  ASSUME TuneInv, Tune!FeatureStarts \/ Tune!FeatureCompleted \/ Tune!beginFreeSpinsExitOnce PROVE TuneInv'
<1>1. TunePresents /\ now.round = "counted"
  BY TuneAlive DEF Tune!FeatureStarts, Tune!FeatureCompleted, Tune!beginFreeSpinsExitOnce
<1>2. /\ now \in TuneRec /\ ~now.dead /\ now.steps < MusicSteps /\ TuneMusic(now) /\ TuneLoopsEnd(now)
      /\ now.desired = now.active
  BY <1>1 DEF TunePresents, TuneLoopsEnd
<1>3. now.app \in {"base", "free", "summary"} => now.counting = "none" /\ now.timers = {}
  BY <1>1, <1>2 DEF TuneLoopsEnd, TuneRec
<1>4. CASE Tune!FeatureStarts
  <2>1. now.app = "base" /\ Tune!Step("free", Tune!setFreeSpinsMusicEnabled(now))
    BY <1>4 DEF Tune!FeatureStarts
  <2>. QED
    BY <1>1, <1>3, <2>1, TuneFrees
<1>5. CASE Tune!FeatureCompleted
  <2>. DEFINE u == Tune!Drop(now, "free")
  <2>1. Tune!Step("summary", u) /\ now.app = "free"
    BY <1>5 DEF Tune!FeatureCompleted, Tune!endFreeSpinsLoop
  <2>2. /\ u \in TuneRec /\ TuneSame(u, now) /\ TuneCounts(u, now) /\ TuneStem(u, now)
        /\ u.active = now.active \ {"free"} /\ u.desired = now.desired \ {"free"} /\ u.target = now.target
    BY <1>2, TuneDrop DEF TuneLoops
  <2>. HIDE DEF u
  <2>3. u \in TuneRec /\ u.steps < MusicSteps
    BY <1>2, <2>2 DEF TuneSame
  <2>4. /\ now' \in TuneRec /\ now'.app = "summary" /\ now'.level = u.level /\ now'.round = u.round
        /\ now'.dead = u.dead /\ TuneCounts(now', u) /\ TuneStem(now', u)
        /\ now'.active = u.active /\ now'.desired = u.desired /\ now'.target = u.target
    BY <2>1, <2>3, TuneStepped
  <2>5. /\ ~now'.dead /\ now'.round = "counted" /\ now'.counting = "none" /\ now'.timers = {}
        /\ now'.active = now.active \ {"free"} /\ now'.desired = now'.active
        /\ now'.docked = now.docked /\ now'.ticker = now.ticker
    BY <1>1, <1>2, <1>3, <2>1, <2>2, <2>4 DEF TuneSame, TuneCounts, TuneStem
  <2>6. TuneMusic(now')
    BY <1>2, <2>1, <2>4, <2>5 DEF TuneMusic
  <2>7. TuneLoopsEnd(now')
    BY <1>1, <1>2, <2>1, <2>4, <2>5 DEF TuneLoopsEnd
  <2>. QED
    BY <2>4, <2>5, <2>6, <2>7 DEF TuneInv, TuneKept
<1>6. CASE Tune!beginFreeSpinsExitOnce
  <2>. DEFINE r == Tune!RaiseBase(now)
              u == IF now.app = "summary" THEN r ELSE Tune!Drop(r, "free")
  <2>1. Tune!Step("base", u) /\ now.app \in {"summary", "free"}
    BY <1>6 DEF Tune!beginFreeSpinsExitOnce, Tune!endFreeSpinsMode, Tune!endFreeSpinsLoop
  <2>2. "ambient" \in now.active /\ ~now.docked => now.target = now.level
    BY <1>2, <2>1 DEF TuneMusic
  <2>3. /\ r \in TuneRec /\ TuneSame(r, now) /\ TuneCounts(r, now) /\ ~r.docked /\ r.ticker
        /\ r.active = now.active \union {"ambient"} /\ r.desired = r.active /\ r.target = now.level
    BY <1>2, <2>2, TuneRaises
  <2>. HIDE DEF r
  <2>4. /\ Tune!Drop(r, "free") \in TuneRec /\ TuneSame(Tune!Drop(r, "free"), r)
        /\ TuneCounts(Tune!Drop(r, "free"), r) /\ TuneStem(Tune!Drop(r, "free"), r)
        /\ Tune!Drop(r, "free").active = r.active \ {"free"}
        /\ Tune!Drop(r, "free").desired = r.desired \ {"free"} /\ Tune!Drop(r, "free").target = r.target
    BY <2>3, TuneDrop DEF TuneLoops
  <2>5. now.app = "summary" => "free" \notin r.active
    BY <1>2, <2>3 DEF TuneMusic
  <2>6. /\ u \in TuneRec /\ TuneSame(u, r) /\ TuneCounts(u, r) /\ TuneStem(u, r)
        /\ u.active = r.active \ {"free"} /\ u.desired = u.active /\ u.target = r.target
    <3>1. CASE now.app = "summary"
      <4>1. u = r /\ r.active \ {"free"} = r.active
        BY <2>5, <3>1
      <4>. QED
        BY <2>3, <4>1 DEF TuneSame, TuneCounts, TuneStem
    <3>2. CASE now.app # "summary"
      <4>1. u = Tune!Drop(r, "free")
        BY <3>2
      <4>. QED
        BY <2>3, <2>4, <4>1
    <3>. QED
      BY <3>1, <3>2
  <2>. HIDE DEF u
  <2>7. u \in TuneRec /\ u.steps < MusicSteps
    BY <1>2, <2>3, <2>6 DEF TuneSame
  <2>8. /\ now' \in TuneRec /\ now'.app = "base" /\ now'.level = u.level /\ now'.round = u.round
        /\ now'.dead = u.dead /\ TuneCounts(now', u) /\ TuneStem(now', u)
        /\ now'.active = u.active /\ now'.desired = u.desired /\ now'.target = u.target
    BY <2>1, <2>7, TuneStepped
  <2>9. /\ ~now'.dead /\ now'.round = "counted" /\ now'.counting = "none" /\ now'.timers = {}
        /\ now'.active = (now.active \union {"ambient"}) \ {"free"} /\ now'.desired = now'.active
        /\ ~now'.docked /\ now'.ticker /\ now'.target = now'.level
    BY <1>1, <1>2, <1>3, <2>1, <2>3, <2>6, <2>8 DEF TuneSame, TuneCounts, TuneStem
  <2>10. TuneMusic(now')
    BY <1>2, <2>1, <2>8, <2>9 DEF TuneMusic
  <2>11. TuneLoopsEnd(now')
    BY <1>1, <1>2, <2>1, <2>8, <2>9 DEF TuneLoopsEnd
  <2>. QED
    BY <2>8, <2>9, <2>10, <2>11 DEF TuneInv, TuneKept
<1>. QED
  BY <1>4, <1>5, <1>6

\* A level of the pot, the sweetener of a counter and the end of the page keep the
\* music in order.
LEMMA TuneRest ==
  ASSUME TuneInv,
         \/ Tune!onLevelChange \/ Tune!destroy
         \/ \E c \in {"bigcount", "normal"} : Tune!Sweetener(c)
  PROVE  TuneInv'
<1>1. now \in TuneRec /\ MusicSteps \in Nat
  BY MusicAssumption DEF TuneInv, TuneKept
<1>2. CASE Tune!onLevelChange
  <2>1. TunePresents /\ now.app = "base"
    BY <1>2, TuneAlive DEF Tune!onLevelChange, TunePresents, TuneMusic
  <2>2. ~now.dead /\ now.steps < MusicSteps /\ TuneMusic(now) /\ TuneLoopsEnd(now) /\ "ambient" \in now.active
        /\ ~now.docked
    BY <2>1 DEF TunePresents, TuneMusic
  <2>3. PICK level \in {0, 1} : level = 1 - now.level
    BY <1>1 DEF TuneRec
  <2>4. PICK steps \in 0..MusicSteps : steps = now.steps + 1
    BY <1>1, <2>2 DEF TuneRec
  <2>. DEFINE r == [now EXCEPT !.level = level, !.steps = steps]
  <2>5. now' = Tune!applyBaseMusicStem(r)
    BY <1>2, <2>3, <2>4 DEF Tune!onLevelChange
  <2>6. /\ r \in TuneRec /\ r.app = now.app /\ r.round = now.round /\ r.dead = now.dead
        /\ TuneCounts(r, now) /\ TuneStem(r, now)
        /\ r.active = now.active /\ r.desired = now.desired
    BY <1>1 DEF TuneRec, TuneCounts, TuneStem
  <2>. HIDE DEF r
  <2>7. /\ now' \in TuneRec /\ TuneSame(now', r) /\ TuneCounts(now', r) /\ TuneStem(now', r)
        /\ now'.active = r.active /\ now'.desired = r.desired
        /\ now'.target = IF r.docked THEN 2 ELSE r.level
    BY <2>2, <2>5, <2>6, TuneApply
  <2>8. /\ now'.app = "base" /\ ~now'.dead /\ now'.round = now.round /\ now'.counting = now.counting
        /\ now'.timers = now.timers /\ now'.active = now.active /\ now'.desired = now.desired
        /\ now'.target = now'.level /\ now'.docked = now.docked /\ now'.ticker = now.ticker
    BY <2>1, <2>2, <2>6, <2>7 DEF TuneSame, TuneCounts, TuneStem
  <2>9. TuneMusic(now')
    BY <2>1, <2>2, <2>8 DEF TuneMusic
  <2>10. TuneLoopsEnd(now')
    BY <2>1, <2>2, <2>8 DEF TuneLoopsEnd
  <2>. QED
    BY <2>7, <2>8, <2>9, <2>10 DEF TuneInv, TuneKept
<1>3. CASE Tune!destroy
  <2>. DEFINE c == Tune!StopCounters(now)
  <2>1. now' = [c EXCEPT !.dead = TRUE, !.desired = {}, !.active = {}, !.ticker = FALSE, !.round = "none"]
    BY <1>3 DEF Tune!destroy
  <2>2. c \in TuneRec /\ c.counting = "none" /\ c.timers = {}
    BY <1>1, TuneCounted
  <2>. HIDE DEF c
  <2>3. /\ now' \in TuneRec /\ now'.dead = TRUE /\ now'.desired = {} /\ now'.active = {} /\ now'.ticker = FALSE
        /\ now'.counting = "none" /\ now'.timers = {}
    BY <2>1, <2>2 DEF TuneRec
  <2>. QED
    BY <2>3 DEF TuneInv, TuneKept, TuneDead
<1>4. ASSUME NEW c \in {"bigcount", "normal"}, Tune!Sweetener(c) PROVE TuneInv'
  <2>. DEFINE timers == IF now.counting = c /\ ~now.dead THEN now.timers ELSE now.timers \ {c}
  <2>1. timers \in SUBSET {"normal", "bigcount"} /\ timers \subseteq now.timers
    BY <1>1 DEF TuneRec
  <2>2. now' = [now EXCEPT !.cues = now.cues \union {c}, !.timers = timers] /\ c \in now.timers
    BY <1>4 DEF Tune!Sweetener
  <2>. HIDE DEF timers
  <2>3. /\ now' \in TuneRec /\ now'.app = now.app /\ now'.level = now.level /\ now'.round = now.round
        /\ now'.dead = now.dead /\ now'.counting = now.counting /\ now'.timers \subseteq now.timers
        /\ now'.active = now.active /\ now'.desired = now.desired /\ now'.target = now.target
        /\ now'.docked = now.docked /\ now'.ticker = now.ticker
    BY <1>1, <2>1, <2>2 DEF TuneRec
  <2>4. ~now.dead /\ TuneMusic(now) /\ TuneLoopsEnd(now)
    BY <2>2 DEF TuneInv, TuneKept, TuneDead
  <2>5. TuneMusic(now')
    BY <2>3, <2>4 DEF TuneMusic
  <2>6. TuneLoopsEnd(now')
    BY <2>3, <2>4 DEF TuneLoopsEnd
  <2>. QED
    BY <2>3, <2>4, <2>5, <2>6 DEF TuneInv, TuneKept
<1>. QED
  BY <1>2, <1>3, <1>4

TuneNext ==
  \/ \E mode \in {"base", "free"} : Tune!syncGameMusic(mode)
  \/ Tune!requestSpin \/ Tune!ReelsStop \/ Tune!ShowBigWin \/ Tune!CountStart \/ Tune!HideBigWin
  \/ Tune!NormalWin \/ Tune!NormalWinOver \/ Tune!FeatureStarts \/ Tune!FeatureCompleted
  \/ Tune!beginFreeSpinsExitOnce \/ Tune!RoundOver \/ Tune!onLevelChange \/ Tune!destroy
  \/ \E c \in {"bigcount", "normal"} : Tune!Sweetener(c)

\* Every call that touches the music keeps it in order.
LEMMA TuneSteps == TuneInv /\ TuneNext => TuneInv'
BY TuneSyncs, TuneReels, TuneShows, TuneCountStarts, TuneHides, TuneNormal, TuneFeature, TuneRest DEF TuneNext

\* What the runs ask of the music follows: the loops and the stem fit the moment, and
\* no loop outlives what it accompanies.
LEMMA TuneRight == TuneInv => Tune!TypeOK /\ Tune!MusicFits /\ Tune!StemFits /\ Tune!LoopsEnd
<1>. SUFFICES ASSUME TuneInv PROVE Tune!TypeOK /\ Tune!MusicFits /\ Tune!StemFits /\ Tune!LoopsEnd
  OBVIOUS
<1>1. now \in TuneRec
  BY DEF TuneInv, TuneKept
<1>2. IF now.dead THEN TuneDead(now) ELSE TuneMusic(now) /\ TuneLoopsEnd(now)
  BY DEF TuneInv, TuneKept
<1>3. now.active = now.desired
  BY <1>2 DEF TuneDead, TuneLoopsEnd
<1>4. Tune!TypeOK
  BY <1>1, <1>3 DEF TuneRec, TuneLoops, Tune!TypeOK, Tune!Music, Tune!Silent
<1>5. Tune!LoopsEnd
  BY <1>2 DEF Tune!LoopsEnd, TuneDead, TuneLoopsEnd
<1>6. Tune!StemFits
  <2>. SUFFICES ASSUME ~now.dead, now.app # "lobby"
                PROVE  /\ "ambient" \in Tune!Heard => now.target = now.level
                       /\ now.ticker = ("ambient" \in Tune!Heard)
    BY DEF Tune!StemFits
  <2>1. now.ticker \in BOOLEAN /\ (now.ticker <=> now.app = "base") /\ (now.app = "base" => now.target = now.level)
    BY <1>1, <1>2 DEF TuneRec, TuneMusic
  <2>2. "ambient" \in Tune!Heard <=> now.app = "base"
    BY <1>1, <1>2 DEF TuneMusic, Tune!Heard, Tune!Music, Tune!Silent, TuneRec
  <2>3. CASE now.ticker
    <3>1. now.ticker = TRUE /\ ("ambient" \in Tune!Heard) = TRUE
      BY <2>1, <2>2, <2>3
    <3>. QED
      BY <2>1, <2>2, <3>1, Zenon
  <2>4. CASE ~now.ticker
    <3>1. now.ticker = FALSE /\ ("ambient" \in Tune!Heard) = FALSE
      BY <2>1, <2>2, <2>4
    <3>. QED
      BY <2>1, <2>2, <3>1, Zenon
  <2>. QED
    BY <2>3, <2>4
<1>7. Tune!MusicFits
  <2>1. CASE now.dead
    <3>1. Tune!Heard = {}
      BY <1>2, <2>1 DEF Tune!Heard, TuneDead
    <3>. QED
      BY <2>1, <3>1 DEF Tune!MusicFits
  <2>2. CASE ~now.dead
    <3>1. /\ "ambient" \in Tune!Heard <=> now.app = "base"
          /\ "free" \in Tune!Heard <=> now.app = "free"
          /\ "big" \in Tune!Heard <=> now.app \in {"big-base", "big-free"}
          /\ Tune!Heard \subseteq {"ambient", "free", "big"}
      BY <1>1, <1>2, <2>2 DEF Tune!Heard, Tune!Music, Tune!Silent, TuneMusic, TuneRec
    <3>. HIDE DEF Tune!Heard
    <3>2. now.app \in {"lobby", "base", "free", "summary", "big-base", "big-free"}
      BY <1>1 DEF TuneRec
    <3>3. now.app = "base" => Tune!Heard = {"ambient"}
      BY <3>1
    <3>4. now.app = "free" => Tune!Heard = {"free"}
      BY <3>1
    <3>5. now.app \in {"big-base", "big-free"} => Tune!Heard = {"big"}
      BY <3>1
    <3>6. now.app \in {"lobby", "summary"} => Tune!Heard = {}
      BY <3>1
    <3>7. CASE now.app = "base"
      BY <2>2, <3>3, <3>7 DEF Tune!MusicFits
    <3>8. CASE now.app = "free"
      BY <2>2, <3>4, <3>8 DEF Tune!MusicFits
    <3>9. CASE now.app \in {"big-base", "big-free"}
      BY <2>2, <3>5, <3>9 DEF Tune!MusicFits
    <3>10. CASE now.app \in {"lobby", "summary"}
      BY <2>2, <3>6, <3>10 DEF Tune!MusicFits
    <3>. QED
      BY <3>2, <3>7, <3>8, <3>9, <3>10
  <2>. QED
    BY <2>1, <2>2
<1>. QED
  BY <1>4, <1>5, <1>6, <1>7

-----------------------------------------------------------------------------
(* What is audible (AudioLifecycle).                                        *)

AudTask == [kind : {"suspend", "unlock", "unmute"}, fresh : BOOLEAN]
AudRec ==
  [hidden : BOOLEAN, active : BOOLEAN, queue : Seq(AudTask), busy : {"none", "suspend", "unlock"},
   ctx : {"suspended", "running", "closed"}, op : {"none", "suspending", "resuming"},
   unlocking : BOOLEAN, ever : BOOLEAN, muted : BOOLEAN, refused : BOOLEAN, missed : BOOLEAN,
   dead : BOOLEAN, calls : 0..PageCalls]

\* A task of the kind waits that no later signal has outdated.
AudWaits(q, kind) == \E i \in DOMAIN q : q[i].kind = kind /\ q[i].fresh

AudKept(r) ==
  /\ r \in AudRec /\ Len(r.queue) <= PageTasks
  /\ (r.unlocking <=> r.op = "resuming")
  /\ (r.op = "suspending" => r.ctx = "running" \/ r.dead)
  /\ (r.dead <=> r.ctx = "closed")
\* The queue stands still while the browser does what it asked for.
AudBusy(r) ==
  /\ (r.busy = "suspend" <=> r.op = "suspending")
  /\ (r.busy = "unlock" => r.op = "resuming" /\ r.ever)
AudFresh(r) ==
  /\ (AudWaits(r.queue, "unlock") => r.active /\ r.ever)
  /\ (AudWaits(r.queue, "unmute") => r.ever)
  /\ (AudWaits(r.queue, "suspend") => ~r.active)
\* What is not as the page wants it yet has a task that will make it so.
AudOwed(r) ==
  r.dead \/ r.missed \/
  /\ (r.ctx = "running" => r.ever)
  /\ (r.active /\ r.ever /\ ~r.refused /\ r.op # "resuming" /\ (r.ctx # "running" \/ r.op = "suspending")
        => AudWaits(r.queue, "unlock"))
  /\ (~r.active /\ (r.op = "resuming" \/ (r.ctx = "running" /\ r.op # "suspending"))
        => AudWaits(r.queue, "suspend"))

AudSeen(r) == r.hidden => ~r.active
AudInv == AudKept(now) /\ AudBusy(now) /\ AudFresh(now) /\ AudOwed(now) /\ AudSeen(now)

\* A task put into the queue waits there.
LEMMA AudEnqueues ==
  ASSUME NEW r \in AudRec, NEW kind \in {"suspend", "unlock", "unmute"}, NEW d, d = Audible!Enqueue(r, kind)
  PROVE  /\ d \in AudRec /\ Len(d.queue) = Len(r.queue) + 1
         /\ \A k \in {"suspend", "unlock", "unmute"} : AudWaits(d.queue, k) <=> AudWaits(r.queue, k) \/ k = kind
         /\ d.active = r.active
         /\ d.hidden = r.hidden /\ d.busy = r.busy /\ d.ctx = r.ctx /\ d.op = r.op
         /\ d.unlocking = r.unlocking /\ d.ever = r.ever /\ d.refused = r.refused
         /\ d.missed = r.missed /\ d.dead = r.dead
<1>. DEFINE e == [kind |-> kind, fresh |-> TRUE]
            q == r.queue
<1>1. e \in AudTask /\ e.kind = kind /\ e.fresh = TRUE
  BY DEF AudTask
<1>2. q \in Seq(AudTask)
  BY DEF AudRec
<1>3. d = [r EXCEPT !.queue = Append(q, e)]
  BY DEF Audible!Enqueue
<1>. HIDE DEF e, q
<1>4. /\ Append(q, e) \in Seq(AudTask) /\ Len(Append(q, e)) = Len(q) + 1
      /\ DOMAIN Append(q, e) = 1..(Len(q) + 1)
      /\ Append(q, e)[Len(q) + 1] = e /\ \A i \in 1..Len(q) : Append(q, e)[i] = q[i]
      /\ DOMAIN q = 1..Len(q) /\ Len(q) \in Nat
  BY <1>1, <1>2
<1>5. /\ d \in AudRec /\ d.queue = Append(q, e) /\ d.active = r.active
      /\ d.hidden = r.hidden /\ d.busy = r.busy /\ d.ctx = r.ctx /\ d.op = r.op
      /\ d.unlocking = r.unlocking /\ d.ever = r.ever /\ d.refused = r.refused
      /\ d.missed = r.missed /\ d.dead = r.dead
  BY <1>3, <1>4 DEF AudRec
<1>6. /\ DOMAIN d.queue = 1..(Len(q) + 1) /\ Len(d.queue) = Len(q) + 1
      /\ d.queue[Len(q) + 1] = e /\ \A i \in 1..Len(q) : d.queue[i] = q[i]
  BY <1>4, <1>5, Zenon
<1>7. ASSUME NEW k \in {"suspend", "unlock", "unmute"}
      PROVE  AudWaits(d.queue, k) <=> AudWaits(q, k) \/ k = kind
  <2>1. AudWaits(q, k) => AudWaits(d.queue, k)
    BY <1>4, <1>6 DEF AudWaits
  <2>2. k = kind => AudWaits(d.queue, k)
    BY <1>1, <1>4, <1>6 DEF AudWaits
  <2>3. AudWaits(d.queue, k) => AudWaits(q, k) \/ k = kind
    BY <1>1, <1>4, <1>6 DEF AudWaits
  <2>. QED
    BY <2>1, <2>2, <2>3
<1>. QED
  BY <1>5, <1>6, <1>7 DEF q

\* What is outdated no longer waits, but for the sound of the unmuting.
LEMMA AudOutdates ==
  ASSUME NEW q \in Seq(AudTask)
  PROVE  /\ Audible!Outdated(q) \in Seq(AudTask) /\ Len(Audible!Outdated(q)) = Len(q)
         /\ \A k \in {"suspend", "unlock", "unmute"} :
              AudWaits(Audible!Outdated(q), k) <=> k = "unmute" /\ AudWaits(q, k)
<1>. DEFINE d == Audible!Outdated(q)
<1>1. DOMAIN q = 1..Len(q) /\ Len(q) \in Nat /\ \A i \in DOMAIN q : q[i] \in AudTask
  OBVIOUS
<1>2. DOMAIN d = 1..Len(q) /\ \A i \in DOMAIN q : d[i] = [q[i] EXCEPT !.fresh = q[i].fresh /\ q[i].kind = "unmute"]
  BY <1>1 DEF Audible!Outdated
<1>3. \A i \in DOMAIN q : /\ d[i] \in AudTask /\ d[i].kind = q[i].kind
                          /\ d[i].fresh <=> q[i].fresh /\ q[i].kind = "unmute"
  BY <1>1, <1>2 DEF AudTask
<1>4. d = [i \in 1..Len(q) |-> d[i]]
  BY <1>1 DEF Audible!Outdated
<1>. HIDE DEF d
<1>5. d \in Seq(AudTask) /\ Len(d) = Len(q)
  BY <1>1, <1>2, <1>3, <1>4
<1>6. ASSUME NEW k \in {"suspend", "unlock", "unmute"}
      PROVE  AudWaits(d, k) <=> k = "unmute" /\ AudWaits(q, k)
  BY <1>1, <1>2, <1>3 DEF AudWaits
<1>. QED
  BY <1>5, <1>6 DEF d

\* The task that is taken leaves the queue, and no other: what waited still waits.
LEMMA AudTails ==
  ASSUME NEW q \in Seq(AudTask), q # <<>>
  PROVE  /\ Head(q) \in AudTask
         /\ Tail(q) \in Seq(AudTask) /\ Len(Tail(q)) = Len(q) - 1
         /\ Head(q).fresh => AudWaits(q, Head(q).kind)
         /\ \A k \in {"suspend", "unlock", "unmute"} :
              /\ AudWaits(Tail(q), k) => AudWaits(q, k)
              /\ AudWaits(q, k) => AudWaits(Tail(q), k) \/ (Head(q).fresh /\ Head(q).kind = k)
<1>1. Len(q) \in Nat /\ Len(q) > 0 /\ DOMAIN q = 1..Len(q) /\ Head(q) = q[1] /\ q[1] \in AudTask
  OBVIOUS
<1>2. /\ Tail(q) \in Seq(AudTask) /\ Len(Tail(q)) = Len(q) - 1 /\ DOMAIN Tail(q) = 1..(Len(q) - 1)
      /\ \A i \in 1..(Len(q) - 1) : Tail(q)[i] = q[i + 1]
  BY <1>1
<1>3. Head(q).fresh => AudWaits(q, Head(q).kind)
  BY <1>1 DEF AudWaits
<1>4. ASSUME NEW k, AudWaits(Tail(q), k) PROVE AudWaits(q, k)
  <2>1. PICK i \in 1..(Len(q) - 1) : Tail(q)[i].kind = k /\ Tail(q)[i].fresh
    BY <1>2, <1>4 DEF AudWaits
  <2>2. i + 1 \in DOMAIN q /\ q[i + 1] = Tail(q)[i]
    BY <1>1, <1>2
  <2>. QED
    BY <2>1, <2>2 DEF AudWaits
<1>5. ASSUME NEW k, AudWaits(q, k), ~(Head(q).fresh /\ Head(q).kind = k) PROVE AudWaits(Tail(q), k)
  <2>1. PICK i \in 1..Len(q) : q[i].kind = k /\ q[i].fresh
    BY <1>1, <1>5 DEF AudWaits
  <2>2. i # 1
    BY <1>1, <1>5, <2>1
  <2>3. i - 1 \in 1..(Len(q) - 1) /\ Tail(q)[i - 1] = q[i]
    BY <1>1, <1>2, <2>2
  <2>. QED
    BY <1>2, <2>1, <2>3 DEF AudWaits
<1>. QED
  BY <1>1, <1>2, <1>3, <1>4, <1>5

\* What a signal of the page leaves of the state.
LEMMA AudPages ==
  ASSUME NEW r \in AudRec, NEW active \in BOOLEAN, ~r.dead, NEW d, d = Audible!setPageActive(r, active)
  PROVE  /\ d \in AudRec /\ d.active = active /\ Len(d.queue) <= Len(r.queue) + 1
         /\ d.hidden = r.hidden /\ d.busy = r.busy /\ d.ctx = r.ctx /\ d.op = r.op
         /\ d.unlocking = r.unlocking /\ d.ever = r.ever /\ d.refused = r.refused
         /\ d.missed = r.missed /\ d.dead = r.dead
         /\ r.active = active => d = r
         /\ r.active # active =>
              \A k \in {"suspend", "unlock", "unmute"} :
                AudWaits(d.queue, k) <=> \/ k = "unmute" /\ AudWaits(r.queue, k)
                                         \/ k = "suspend" /\ ~active
                                         \/ k = "unlock" /\ active /\ r.ever
<1>1. r.queue \in Seq(AudTask) /\ Len(r.queue) \in Nat /\ r.active \in BOOLEAN
  BY DEF AudRec
<1>2. CASE r.active = active
  <2>1. d = r
    BY <1>2 DEF Audible!setPageActive
  <2>. QED
    BY <1>1, <1>2, <2>1
<1>3. CASE r.active # active
  <2>. DEFINE o == Audible!Outdated(r.queue)
              t == [r EXCEPT !.active = active, !.queue = o]
  <2>1. /\ o \in Seq(AudTask) /\ Len(o) = Len(r.queue)
        /\ \A k \in {"suspend", "unlock", "unmute"} : AudWaits(o, k) <=> k = "unmute" /\ AudWaits(r.queue, k)
    BY <1>1, AudOutdates
  <2>2. d = IF ~active THEN Audible!Enqueue(t, "suspend")
            ELSE IF r.ever THEN Audible!Enqueue(t, "unlock") ELSE t
    BY <1>3 DEF Audible!setPageActive, AudRec
  <2>. HIDE DEF o
  <2>3. /\ t \in AudRec /\ t.queue = o /\ t.active = active
        /\ t.hidden = r.hidden /\ t.busy = r.busy /\ t.ctx = r.ctx /\ t.op = r.op
        /\ t.unlocking = r.unlocking /\ t.ever = r.ever /\ t.refused = r.refused
        /\ t.missed = r.missed /\ t.dead = r.dead
    BY <2>1 DEF AudRec
  <2>. HIDE DEF t
  <2>4. ASSUME NEW kind \in {"suspend", "unlock", "unmute"}, d = Audible!Enqueue(t, kind)
        PROVE  /\ d \in AudRec /\ d.active = active /\ Len(d.queue) <= Len(r.queue) + 1
               /\ d.hidden = r.hidden /\ d.busy = r.busy /\ d.ctx = r.ctx /\ d.op = r.op
               /\ d.unlocking = r.unlocking /\ d.ever = r.ever /\ d.refused = r.refused
               /\ d.missed = r.missed /\ d.dead = r.dead
               /\ \A k \in {"suspend", "unlock", "unmute"} : AudWaits(d.queue, k) <=> AudWaits(o, k) \/ k = kind
    <3>1. /\ d \in AudRec /\ Len(d.queue) = Len(t.queue) + 1
          /\ \A k \in {"suspend", "unlock", "unmute"} : AudWaits(d.queue, k) <=> AudWaits(t.queue, k) \/ k = kind
          /\ d.active = t.active
          /\ d.hidden = t.hidden /\ d.busy = t.busy /\ d.ctx = t.ctx /\ d.op = t.op
          /\ d.unlocking = t.unlocking /\ d.ever = t.ever /\ d.refused = t.refused
          /\ d.missed = t.missed /\ d.dead = t.dead
      BY <2>3, <2>4, AudEnqueues
    <3>. QED
      BY <1>1, <2>1, <2>3, <3>1
  <2>5. CASE ~active
    <3>1. d = Audible!Enqueue(t, "suspend")
      BY <2>2, <2>5
    <3>. QED
      BY <1>3, <2>1, <2>4, <2>5, <3>1
  <2>6. CASE active /\ r.ever
    <3>1. d = Audible!Enqueue(t, "unlock")
      BY <2>2, <2>6
    <3>. QED
      BY <1>3, <2>1, <2>4, <2>6, <3>1
  <2>7. CASE active /\ ~r.ever
    <3>1. d = t
      BY <2>2, <2>7
    <3>2. /\ d \in AudRec /\ d.queue = o /\ d.active = active
          /\ d.hidden = r.hidden /\ d.busy = r.busy /\ d.ctx = r.ctx /\ d.op = r.op
          /\ d.unlocking = r.unlocking /\ d.ever = r.ever /\ d.refused = r.refused
          /\ d.missed = r.missed /\ d.dead = r.dead
      BY <2>3, <3>1, Zenon
    <3>3. Len(d.queue) = Len(r.queue)
      BY <2>1, <3>2
    <3>4. ASSUME NEW k \in {"suspend", "unlock", "unmute"}
          PROVE  AudWaits(d.queue, k) <=> \/ k = "unmute" /\ AudWaits(r.queue, k)
                                          \/ k = "suspend" /\ ~active
                                          \/ k = "unlock" /\ active /\ r.ever
      BY <2>1, <2>7, <3>2
    <3>. QED
      BY <1>1, <1>3, <3>2, <3>3, <3>4
  <2>8. r.ever \in BOOLEAN
    BY DEF AudRec
  <2>9. CASE active
    BY <2>6, <2>7, <2>9
  <2>. QED
    BY <2>5, <2>9
<1>. QED
  BY <1>1, <1>2, <1>3

\* setPageActive: a change of the page's visibility outdates the tasks that wait and
\* puts the one it needs into the queue.
LEMMA AudPaged ==
  ASSUME NEW r, AudKept(r), AudBusy(r), AudFresh(r), AudOwed(r), ~r.dead, Len(r.queue) < PageTasks,
         NEW active \in BOOLEAN, r.hidden => ~active, NEW d, d = Audible!setPageActive(r, active)
  PROVE  AudKept(d) /\ AudBusy(d) /\ AudFresh(d) /\ AudOwed(d) /\ AudSeen(d)
<1>1. /\ r \in AudRec /\ Len(r.queue) \in Nat /\ r.active \in BOOLEAN /\ r.ever \in BOOLEAN
      /\ Len(r.queue) + 1 <= PageTasks /\ PageTasks \in Nat
  BY PageAssumption DEF AudKept, AudRec
<1>2. /\ d \in AudRec /\ d.active = active /\ Len(d.queue) <= Len(r.queue) + 1
      /\ d.hidden = r.hidden /\ d.busy = r.busy /\ d.ctx = r.ctx /\ d.op = r.op
      /\ d.unlocking = r.unlocking /\ d.ever = r.ever /\ d.refused = r.refused
      /\ d.missed = r.missed /\ d.dead = r.dead
      /\ (r.active = active => d = r)
      /\ (r.active # active =>
            /\ AudWaits(d.queue, "unmute") <=> AudWaits(r.queue, "unmute")
            /\ AudWaits(d.queue, "suspend") <=> ~active
            /\ AudWaits(d.queue, "unlock") <=> active /\ r.ever)
  BY <1>1, AudPages
<1>3. Len(d.queue) \in Nat
  BY <1>2 DEF AudRec
<1>4. AudKept(d) /\ AudBusy(d) /\ AudSeen(d)
  BY <1>1, <1>2, <1>3 DEF AudKept, AudBusy, AudSeen
<1>5. CASE r.active = active
  BY <1>2, <1>4, <1>5
<1>6. CASE r.active # active
  <2>1. AudFresh(d)
    BY <1>1, <1>2, <1>6 DEF AudFresh
  <2>2. AudOwed(d)
    BY <1>1, <1>2, <1>6 DEF AudOwed
  <2>. QED
    BY <1>4, <2>1, <2>2
<1>. QED
  BY <1>5, <1>6

AudGood(r) == AudKept(r) /\ AudBusy(r) /\ AudFresh(r) /\ AudOwed(r)

\* What an attempt makes of the state: nothing, an unlocked page, or a resumption.
AudAttempt(r, d) ==
  /\ d.queue = r.queue /\ d.hidden = r.hidden /\ d.active = r.active
  /\ d.busy = r.busy /\ d.ctx = r.ctx /\ d.missed = r.missed /\ d.dead = r.dead
  /\ \/ /\ r.dead \/ ~r.active \/ r.unlocking \/ (r.ever /\ r.ctx = "running")
        /\ d.op = r.op /\ d.unlocking = r.unlocking /\ d.ever = r.ever /\ d.refused = r.refused
     \/ /\ ~r.dead /\ r.active /\ ~r.unlocking /\ r.ctx = "running" /\ ~r.ever
        /\ d.op = r.op /\ d.unlocking = FALSE /\ d.ever = TRUE /\ d.refused = FALSE
     \/ /\ ~r.dead /\ r.active /\ ~r.unlocking /\ r.ctx # "running"
        /\ d.op = "resuming" /\ d.unlocking = TRUE /\ d.ever = r.ever /\ d.refused = r.refused

\* An attempt asked for by a gesture or the queue: what it does to the state.
LEMMA AudUnlocks ==
  ASSUME NEW r \in AudRec PROVE Audible!unlock(r) \in AudRec /\ AudAttempt(r, Audible!unlock(r))
<1>. DEFINE d == Audible!unlock(r)
<1>1. CASE r.dead \/ ~r.active \/ r.unlocking \/ (r.ever /\ r.ctx = "running")
  <2>1. d = r
    BY <1>1 DEF Audible!unlock
  <2>. QED
    BY <1>1, <2>1 DEF AudAttempt
<1>2. CASE ~r.dead /\ r.active /\ ~r.unlocking /\ r.ctx = "running" /\ ~r.ever
  <2>1. d = [r EXCEPT !.unlocking = FALSE, !.ever = TRUE, !.refused = FALSE]
    BY <1>2 DEF Audible!unlock, Audible!performUnlock
  <2>. QED
    BY <1>2, <2>1 DEF AudRec, AudAttempt
<1>3. CASE ~r.dead /\ r.active /\ ~r.unlocking /\ r.ctx # "running"
  <2>1. d = [r EXCEPT !.unlocking = TRUE, !.op = "resuming"]
    BY <1>3 DEF Audible!unlock
  <2>. QED
    BY <1>3, <2>1 DEF AudRec, AudAttempt
<1>. QED
  BY <1>1, <1>2, <1>3

\* unlock: an attempt to resume the context, made, joined or refused, keeps the queue
\* in order.
LEMMA AudUnlocked ==
  ASSUME NEW r, AudGood(r), AudSeen(r), NEW d, d = Audible!unlock(r)
  PROVE  AudGood(d) /\ AudSeen(d)
<1>1. r \in AudRec
  BY DEF AudGood, AudKept
<1>2. d \in AudRec /\ AudAttempt(r, d)
  BY <1>1, AudUnlocks
<1>3. AudKept(d) /\ AudSeen(d)
  BY <1>1, <1>2 DEF AudGood, AudKept, AudSeen, AudRec, AudAttempt
<1>4. AudBusy(d)
  BY <1>1, <1>2 DEF AudGood, AudKept, AudBusy, AudRec, AudAttempt
<1>5. AudFresh(d)
  BY <1>1, <1>2 DEF AudGood, AudFresh, AudRec, AudAttempt
<1>6. AudOwed(d)
  BY <1>1, <1>2 DEF AudGood, AudKept, AudOwed, AudRec, AudAttempt
<1>. QED
  BY <1>3, <1>4, <1>5, <1>6 DEF AudGood

\* What is only counted, turned or muted is of no account to the audible state.
LEMMA AudLike ==
  ASSUME NEW r, AudGood(r), NEW d \in AudRec, d.queue = r.queue, d.active = r.active,
         d.busy = r.busy, d.ctx = r.ctx, d.op = r.op, d.unlocking = r.unlocking, d.ever = r.ever,
         d.refused = r.refused, d.missed = r.missed, d.dead = r.dead
  PROVE  AudGood(d)
<1>1. AudKept(d)
  BY DEF AudGood, AudKept
<1>2. AudBusy(d) /\ AudFresh(d)
  BY DEF AudGood, AudBusy, AudFresh
<1>3. AudOwed(d)
  BY DEF AudGood, AudOwed
<1>. QED
  BY <1>1, <1>2, <1>3 DEF AudGood

\* A gesture that lets a refused page try again keeps all that waits.
LEMMA AudAgain ==
  ASSUME NEW r, AudGood(r), r.calls < PageCalls, NEW d, d = Audible!Again(r)
  PROVE  /\ AudGood(d) /\ d.hidden = r.hidden /\ d.active = r.active /\ d.dead = r.dead
         /\ d.queue = r.queue /\ d.ever = r.ever /\ d.muted = r.muted
<1>1. r \in AudRec /\ PageCalls \in Nat
  BY PageAssumption DEF AudGood, AudKept
<1>2. /\ d \in AudRec /\ d.queue = r.queue /\ d.active = r.active /\ d.hidden = r.hidden
      /\ d.busy = r.busy /\ d.ctx = r.ctx /\ d.op = r.op /\ d.unlocking = r.unlocking
      /\ d.ever = r.ever /\ d.refused = r.refused /\ d.missed = r.missed /\ d.dead = r.dead
      /\ d.muted = r.muted
  BY <1>1 DEF Audible!Again, AudRec
<1>. QED
  BY <1>2, AudLike

\* The page is hidden, shown, left or returned to.
LEMMA AudSignals ==
  ASSUME AudInv, Audible!handleVisibilityChange \/ Audible!handlePageBlur \/ Audible!handlePageFocus
  PROVE  AudInv'
<1>1. /\ AudGood(now) /\ AudSeen(now) /\ now \in AudRec
      /\ ~now.dead /\ now.calls < PageCalls /\ Len(now.queue) < PageTasks
  BY DEF AudInv, AudGood, AudKept, Audible!Called, Audible!handleVisibilityChange,
         Audible!handlePageBlur, Audible!handlePageFocus
<1>2. CASE Audible!handleVisibilityChange
  <2>. DEFINE t == [now EXCEPT !.hidden = ~now.hidden]
              a == Audible!Again(t)
  <2>1. now' = Audible!setPageActive(a, now.hidden)
    BY <1>2 DEF Audible!handleVisibilityChange
  <2>2. /\ t \in AudRec /\ t.hidden = ~now.hidden /\ now.hidden \in BOOLEAN /\ t.calls = now.calls
        /\ t.queue = now.queue /\ t.active = now.active
        /\ t.busy = now.busy /\ t.ctx = now.ctx /\ t.op = now.op /\ t.unlocking = now.unlocking
        /\ t.ever = now.ever /\ t.refused = now.refused /\ t.missed = now.missed /\ t.dead = now.dead
    BY <1>1 DEF AudRec
  <2>. HIDE DEF t
  <2>3. AudGood(t)
    BY <1>1, <2>2, AudLike
  <2>4. /\ AudGood(a) /\ a.hidden = t.hidden /\ a.dead = t.dead /\ a.queue = t.queue
    BY <1>1, <2>2, <2>3, AudAgain
  <2>. HIDE DEF a
  <2>5. a.hidden => ~now.hidden
    BY <2>2, <2>4
  <2>. QED
    BY <1>1, <2>1, <2>2, <2>4, <2>5, AudPaged DEF AudGood, AudInv
<1>3. CASE Audible!handlePageBlur
  <2>. DEFINE a == Audible!Again(now)
  <2>1. now' = Audible!setPageActive(a, FALSE)
    BY <1>3 DEF Audible!handlePageBlur
  <2>2. AudGood(a) /\ a.dead = now.dead /\ a.queue = now.queue
    BY <1>1, AudAgain
  <2>. HIDE DEF a
  <2>. QED
    BY <1>1, <2>1, <2>2, AudPaged DEF AudGood, AudInv
<1>4. CASE Audible!handlePageFocus
  <2>. DEFINE a == Audible!Again(now)
  <2>1. now' = Audible!setPageActive(a, ~now.hidden)
    BY <1>4 DEF Audible!handlePageFocus
  <2>2. AudGood(a) /\ a.dead = now.dead /\ a.queue = now.queue /\ a.hidden = now.hidden
    BY <1>1, AudAgain
  <2>. HIDE DEF a
  <2>. QED
    BY <1>1, <2>1, <2>2, AudPaged DEF AudGood, AudInv
<1>. QED
  BY <1>2, <1>3, <1>4

\* A gesture on the page, or the press of the spin button, keeps the queue in order.
LEMMA AudGestures ==
  ASSUME AudInv, Audible!bindUserGestures \/ Audible!requestSpin PROVE AudInv'
<1>1. /\ AudGood(now) /\ AudSeen(now) /\ now \in AudRec
      /\ ~now.dead /\ now.calls < PageCalls /\ Len(now.queue) < PageTasks
  BY DEF AudInv, AudGood, AudKept, Audible!Called, Audible!bindUserGestures, Audible!requestSpin
<1>. DEFINE a == Audible!Again(now)
<1>2. AudGood(a) /\ a.dead = now.dead /\ a.queue = now.queue /\ a.hidden = now.hidden /\ a.active = now.active
  BY <1>1, AudAgain
<1>3. CASE Audible!bindUserGestures
  <2>. DEFINE t == Audible!setPageActive(a, TRUE)
  <2>1. now' = Audible!unlock(t)
    BY <1>2, <1>3 DEF Audible!bindUserGestures, Audible!restoreVisibleGesturePageActivity
  <2>2. ~now.hidden
    BY <1>3 DEF Audible!bindUserGestures
  <2>. HIDE DEF a
  <2>3. AudGood(t) /\ AudSeen(t)
    BY <1>1, <1>2, <2>2, AudPaged DEF AudGood
  <2>. HIDE DEF t
  <2>. QED
    BY <2>1, <2>3, AudUnlocked DEF AudGood, AudInv
<1>4. CASE Audible!requestSpin
  <2>1. now' = Audible!unlock(a)
    BY <1>4 DEF Audible!requestSpin
  <2>. HIDE DEF a
  <2>2. AudSeen(a)
    BY <1>1, <1>2 DEF AudSeen
  <2>. QED
    BY <1>2, <2>1, <2>2, AudUnlocked DEF AudGood, AudInv
<1>. QED
  BY <1>3, <1>4

\* toggleMuted: unmuting asks for the sound of it and tries to unlock the context.
LEMMA AudToggles == ASSUME AudInv, Audible!toggleMuted PROVE AudInv'
<1>1. /\ AudGood(now) /\ AudSeen(now) /\ now \in AudRec
      /\ ~now.dead /\ now.calls < PageCalls /\ Len(now.queue) < PageTasks
  BY DEF AudInv, AudGood, AudKept, Audible!Called, Audible!toggleMuted
<1>. DEFINE t == [now EXCEPT !.muted = ~now.muted]
            a == Audible!Again(t)
            e == Audible!Enqueue(a, "unmute")
<1>2. now' = IF a.muted THEN a ELSE Audible!unlock(IF now.ever /\ now.active THEN e ELSE a)
  BY DEF Audible!toggleMuted
<1>3. /\ t \in AudRec /\ t.hidden = now.hidden /\ t.calls = now.calls
      /\ t.queue = now.queue /\ t.active = now.active
      /\ t.busy = now.busy /\ t.ctx = now.ctx /\ t.op = now.op /\ t.unlocking = now.unlocking
      /\ t.ever = now.ever /\ t.refused = now.refused /\ t.missed = now.missed /\ t.dead = now.dead
  BY <1>1 DEF AudRec
<1>. HIDE DEF t
<1>4. AudGood(t)
  BY <1>1, <1>3, AudLike
<1>5. AudGood(a) /\ a.hidden = t.hidden /\ a.queue = t.queue /\ a.active = t.active /\ a.ever = t.ever
  BY <1>1, <1>3, <1>4, AudAgain
<1>. HIDE DEF a
<1>6. AudSeen(a) /\ a \in AudRec
  BY <1>1, <1>3, <1>5 DEF AudSeen, AudGood, AudKept
<1>7. ASSUME now.ever, now.active PROVE AudGood(e) /\ AudSeen(e)
  <2>1. /\ e \in AudRec /\ Len(e.queue) = Len(a.queue) + 1
        /\ \A k \in {"suspend", "unlock", "unmute"} : AudWaits(e.queue, k) <=> AudWaits(a.queue, k) \/ k = "unmute"
        /\ e.active = a.active
        /\ e.hidden = a.hidden /\ e.busy = a.busy /\ e.ctx = a.ctx /\ e.op = a.op
        /\ e.unlocking = a.unlocking /\ e.ever = a.ever /\ e.refused = a.refused
        /\ e.missed = a.missed /\ e.dead = a.dead
    BY <1>6, AudEnqueues
  <2>2. /\ AudWaits(e.queue, "unmute")
        /\ AudWaits(e.queue, "unlock") <=> AudWaits(a.queue, "unlock")
        /\ AudWaits(e.queue, "suspend") <=> AudWaits(a.queue, "suspend")
    BY <2>1
  <2>. HIDE DEF e
  <2>3. Len(e.queue) <= PageTasks
    <3>1. PageTasks \in Nat /\ Len(a.queue) < PageTasks /\ Len(a.queue) \in Nat
      BY <1>1, <1>3, <1>5, <1>6, PageAssumption DEF AudRec
    <3>. QED
      BY <2>1, <3>1
  <2>4. AudKept(e) /\ AudBusy(e) /\ AudSeen(e)
    BY <1>5, <1>6, <2>1, <2>3 DEF AudGood, AudKept, AudBusy, AudSeen
  <2>5. AudFresh(e)
    BY <1>3, <1>5, <1>7, <2>1, <2>2 DEF AudGood, AudFresh
  <2>6. AudOwed(e)
    BY <1>5, <2>1, <2>2 DEF AudGood, AudOwed
  <2>. QED
    BY <2>4, <2>5, <2>6 DEF AudGood
<1>. HIDE DEF e
<1>8. CASE a.muted
  BY <1>2, <1>5, <1>6, <1>8 DEF AudGood, AudInv
<1>9. CASE ~a.muted /\ now.ever /\ now.active
  <2>1. now' = Audible!unlock(e)
    BY <1>2, <1>9
  <2>. QED
    BY <1>7, <1>9, <2>1, AudUnlocked DEF AudGood, AudInv
<1>10. CASE ~a.muted /\ ~(now.ever /\ now.active)
  <2>1. now' = Audible!unlock(a)
    BY <1>2, <1>10
  <2>. QED
    BY <1>5, <1>6, <2>1, AudUnlocked DEF AudGood, AudInv
<1>. QED
  BY <1>8, <1>9, <1>10

\* The browser is done with what it was asked for.
LEMMA AudSettles ==
  ASSUME AudInv, Audible!Resumed \/ Audible!ResumeRefused \/ Audible!Suspended \/ Audible!destroy PROVE AudInv'
<1>1. AudGood(now) /\ AudSeen(now) /\ now \in AudRec
  BY DEF AudInv, AudGood, AudKept
<1>2. CASE Audible!Resumed
  <2>. DEFINE c == IF now.dead THEN now.ctx ELSE "running"
              b == IF now.busy = "unlock" THEN "none" ELSE now.busy
              t == [now EXCEPT !.op = "none", !.ctx = c, !.busy = b]
  <2>1. now' = Audible!performUnlock(t) /\ now.op = "resuming"
    BY <1>2 DEF Audible!Resumed
  <2>2. c \in {"suspended", "running", "closed"} /\ b \in {"none", "suspend", "unlock"}
    BY <1>1 DEF AudRec
  <2>3. (now.dead => c = now.ctx) /\ (~now.dead => c = "running") /\ b # "unlock" /\ (b = "suspend" => now.busy = "suspend")
    OBVIOUS
  <2>. HIDE DEF c, b
  <2>4. /\ t \in AudRec /\ t.hidden = now.hidden /\ t.op = "none" /\ t.ctx = c /\ t.busy = b
        /\ t.queue = now.queue /\ t.active = now.active /\ t.unlocking = now.unlocking
        /\ t.ever = now.ever /\ t.refused = now.refused /\ t.missed = now.missed /\ t.dead = now.dead
    BY <1>1, <2>2 DEF AudRec
  <2>. HIDE DEF t
  <2>5. CASE t.dead \/ ~t.active
    <3>1. now' = [t EXCEPT !.unlocking = FALSE]
      BY <2>1, <2>5 DEF Audible!performUnlock
    <3>2. /\ now' \in AudRec /\ now'.hidden = now.hidden /\ now'.op = "none" /\ now'.ctx = c /\ now'.busy = b
          /\ now'.queue = now.queue /\ now'.active = now.active /\ now'.unlocking = FALSE
          /\ now'.ever = now.ever /\ now'.refused = now.refused /\ now'.missed = now.missed /\ now'.dead = now.dead
      BY <2>4, <3>1 DEF AudRec
    <3>3. AudKept(now') /\ AudBusy(now') /\ AudSeen(now')
      BY <1>1, <2>1, <2>3, <3>2 DEF AudGood, AudKept, AudBusy, AudSeen
    <3>4. AudFresh(now')
      BY <1>1, <3>2 DEF AudGood, AudFresh
    <3>5. AudOwed(now')
      <4>1. now.dead \/ now.missed \/ (~now.active /\ AudWaits(now.queue, "suspend"))
        BY <1>1, <2>1, <2>4, <2>5 DEF AudGood, AudOwed
      <4>2. now.dead \/ now.missed \/ now.ever
        <5>. SUFFICES ASSUME ~now.dead, ~now.missed, ~now.ever PROVE FALSE
          OBVIOUS
        <5>1. now.busy = "none" /\ now.queue # <<>>
          <6>1. DOMAIN now.queue # {}
            BY <4>1 DEF AudWaits
          <6>. QED
            BY <1>1, <2>1, <6>1 DEF AudGood, AudBusy, AudRec
        <5>. QED
          BY <1>2, <5>1 DEF Audible!Resumed, Audible!Waits
      <4>. QED
        BY <2>4, <2>5, <3>2, <4>1, <4>2 DEF AudOwed
    <3>. QED
      BY <3>3, <3>4, <3>5 DEF AudInv
  <2>6. CASE ~t.dead /\ t.active
    <3>1. now' = [t EXCEPT !.unlocking = FALSE, !.ever = TRUE, !.refused = FALSE]
      BY <2>1, <2>6 DEF Audible!performUnlock
    <3>2. /\ now' \in AudRec /\ now'.hidden = now.hidden /\ now'.op = "none" /\ now'.ctx = c /\ now'.busy = b
          /\ now'.queue = now.queue /\ now'.active = now.active /\ now'.unlocking = FALSE
          /\ now'.ever = TRUE /\ now'.refused = FALSE /\ now'.missed = now.missed /\ now'.dead = now.dead
      BY <2>4, <3>1 DEF AudRec
    <3>3. AudKept(now') /\ AudBusy(now') /\ AudSeen(now')
      BY <1>1, <2>1, <2>3, <2>4, <2>6, <3>2 DEF AudGood, AudKept, AudBusy, AudSeen
    <3>4. AudFresh(now')
      BY <1>1, <3>2 DEF AudGood, AudFresh
    <3>5. AudOwed(now')
      BY <1>1, <2>3, <2>4, <2>6, <3>2 DEF AudGood, AudOwed
    <3>. QED
      BY <3>3, <3>4, <3>5 DEF AudInv
  <2>. QED
    BY <2>5, <2>6
<1>3. CASE Audible!ResumeRefused
  <2>. DEFINE b == IF now.busy = "unlock" THEN "none" ELSE now.busy
  <2>1. now' = [now EXCEPT !.op = "none", !.unlocking = FALSE, !.refused = TRUE, !.busy = b] /\ now.op = "resuming"
    BY <1>3 DEF Audible!ResumeRefused
  <2>2. b \in {"none", "suspend", "unlock"}
    BY <1>1 DEF AudRec
  <2>3. b # "unlock" /\ (b = "suspend" => now.busy = "suspend")
    OBVIOUS
  <2>. HIDE DEF b
  <2>4. /\ now' \in AudRec /\ now'.hidden = now.hidden /\ now'.op = "none" /\ now'.ctx = now.ctx /\ now'.busy = b
        /\ now'.queue = now.queue /\ now'.active = now.active /\ now'.unlocking = FALSE
        /\ now'.ever = now.ever /\ now'.refused = TRUE /\ now'.missed = now.missed /\ now'.dead = now.dead
    BY <1>1, <2>1, <2>2 DEF AudRec
  <2>5. AudKept(now') /\ AudBusy(now') /\ AudSeen(now')
    BY <1>1, <2>1, <2>3, <2>4 DEF AudGood, AudKept, AudBusy, AudSeen
  <2>6. AudFresh(now')
    BY <1>1, <2>4 DEF AudGood, AudFresh
  <2>7. AudOwed(now')
    BY <1>1, <2>1, <2>4 DEF AudGood, AudOwed
  <2>. QED
    BY <2>5, <2>6, <2>7 DEF AudInv
<1>4. CASE Audible!Suspended
  <2>. DEFINE c == IF now.dead THEN now.ctx ELSE "suspended"
              b == IF now.busy = "suspend" THEN "none" ELSE now.busy
  <2>1. now' = [now EXCEPT !.op = "none", !.ctx = c, !.busy = b] /\ now.op = "suspending"
    BY <1>4 DEF Audible!Suspended
  <2>2. c \in {"suspended", "running", "closed"} /\ b \in {"none", "suspend", "unlock"}
    BY <1>1 DEF AudRec
  <2>3. (now.dead => c = now.ctx) /\ (~now.dead => c = "suspended") /\ b # "suspend" /\ (b = "unlock" => now.busy = "unlock")
    OBVIOUS
  <2>. HIDE DEF b, c
  <2>4. /\ now' \in AudRec /\ now'.hidden = now.hidden /\ now'.op = "none" /\ now'.ctx = c /\ now'.busy = b
        /\ now'.queue = now.queue /\ now'.active = now.active /\ now'.unlocking = now.unlocking
        /\ now'.ever = now.ever /\ now'.refused = now.refused /\ now'.missed = now.missed /\ now'.dead = now.dead
    BY <1>1, <2>1, <2>2 DEF AudRec
  <2>5. AudKept(now') /\ AudBusy(now') /\ AudSeen(now')
    BY <1>1, <2>1, <2>3, <2>4 DEF AudGood, AudKept, AudBusy, AudSeen
  <2>6. AudFresh(now')
    BY <1>1, <2>4 DEF AudGood, AudFresh
  <2>7. AudOwed(now')
    BY <1>1, <2>1, <2>3, <2>4 DEF AudGood, AudOwed
  <2>. QED
    BY <2>5, <2>6, <2>7 DEF AudInv
<1>5. CASE Audible!destroy
  <2>1. now' = [now EXCEPT !.dead = TRUE, !.ctx = "closed"]
    BY <1>5 DEF Audible!destroy
  <2>2. /\ now' \in AudRec /\ now'.hidden = now.hidden /\ now'.op = now.op /\ now'.ctx = "closed" /\ now'.busy = now.busy
        /\ now'.queue = now.queue /\ now'.active = now.active /\ now'.unlocking = now.unlocking
        /\ now'.ever = now.ever /\ now'.dead = TRUE
    BY <1>1, <2>1 DEF AudRec
  <2>3. AudKept(now') /\ AudBusy(now') /\ AudSeen(now')
    BY <1>1, <2>2 DEF AudGood, AudKept, AudBusy, AudSeen
  <2>4. AudFresh(now') /\ AudOwed(now')
    BY <1>1, <2>2 DEF AudGood, AudFresh, AudOwed
  <2>. QED
    BY <2>3, <2>4 DEF AudInv
<1>. QED
  BY <1>2, <1>3, <1>4, <1>5

\* The queue's next task: what a suspension finds.
LEMMA AudSuspends ==
  ASSUME NEW r \in AudRec, NEW d, d = Audible!suspend(r)
  PROVE  /\ d \in AudRec /\ d.queue = r.queue /\ d.hidden = r.hidden /\ d.active = r.active
         /\ d.busy = r.busy /\ d.ctx = r.ctx /\ d.dead = r.dead
         /\ d.unlocking = r.unlocking /\ d.ever = r.ever /\ d.refused = r.refused
         /\ r.ctx = "running" /\ r.op = "none" => d.op = "suspending" /\ d.missed = r.missed
         /\ ~(r.ctx = "running" /\ r.op = "none") => d.op = r.op /\ (d.missed <=> r.missed \/ r.op = "resuming")
<1>1. CASE r.ctx = "running" /\ r.op = "none"
  <2>1. d = [r EXCEPT !.op = "suspending"]
    BY <1>1 DEF Audible!suspend
  <2>. QED
    BY <1>1, <2>1 DEF AudRec
<1>2. CASE ~(r.ctx = "running" /\ r.op = "none")
  <2>. DEFINE m == (r.missed \/ r.op = "resuming")
  <2>1. d = [r EXCEPT !.missed = m]
    BY <1>2 DEF Audible!suspend
  <2>2. m \in BOOLEAN /\ (m <=> r.missed \/ r.op = "resuming")
    OBVIOUS
  <2>. HIDE DEF m
  <2>. QED
    BY <1>2, <2>1, <2>2 DEF AudRec
<1>. QED
  BY <1>1, <1>2

\* The task at the head of the queue is done, or dropped because a later signal has
\* outdated it.
LEMMA AudTasks == ASSUME AudInv, Audible!Task PROVE AudInv'
<1>1. /\ AudGood(now) /\ AudSeen(now) /\ now \in AudRec /\ now.busy = "none"
      /\ now.queue \in Seq(AudTask) /\ now.queue # <<>> /\ now.op # "suspending" /\ Len(now.queue) <= PageTasks
  BY DEF AudInv, AudGood, AudKept, AudBusy, AudRec, Audible!Task
<1>. DEFINE task == Head(now.queue)
            r == [now EXCEPT !.queue = Tail(now.queue)]
            done == IF ~task.fresh \/ now.dead THEN r
                    ELSE IF task.kind = "suspend" THEN IF r.active THEN r ELSE Audible!suspend(r)
                    ELSE IF ~r.active THEN r
                    ELSE Audible!unlock(r)
            b == IF done.op = "suspending" /\ now.op # "suspending" THEN "suspend"
                 ELSE IF task.kind # "suspend" /\ task.fresh /\ done.unlocking THEN "unlock"
                 ELSE "none"
<1>2. now' = [done EXCEPT !.busy = b]
  BY DEF Audible!Task
<1>3. /\ task \in AudTask
      /\ Tail(now.queue) \in Seq(AudTask) /\ Len(Tail(now.queue)) = Len(now.queue) - 1
      /\ task.fresh => AudWaits(now.queue, task.kind)
      /\ \A k \in {"suspend", "unlock", "unmute"} :
           /\ AudWaits(Tail(now.queue), k) => AudWaits(now.queue, k)
           /\ AudWaits(now.queue, k) => AudWaits(Tail(now.queue), k) \/ (task.fresh /\ task.kind = k)
  BY <1>1, AudTails
<1>4. /\ r \in AudRec /\ r.queue = Tail(now.queue) /\ r.hidden = now.hidden /\ r.active = now.active
      /\ r.busy = "none" /\ r.ctx = now.ctx /\ r.dead = now.dead /\ r.op = now.op /\ r.missed = now.missed
      /\ r.unlocking = now.unlocking /\ r.ever = now.ever /\ r.refused = now.refused
  BY <1>1, <1>3 DEF AudRec
<1>5. /\ task.kind \in {"suspend", "unlock", "unmute"} /\ task.fresh \in BOOLEAN
      /\ now.active \in BOOLEAN /\ now.ever \in BOOLEAN /\ now.dead \in BOOLEAN
  BY <1>1, <1>3 DEF AudTask, AudRec
<1>6. Len(Tail(now.queue)) <= PageTasks
  <2>1. Len(now.queue) \in Nat /\ PageTasks \in Nat
    BY <1>1, PageAssumption
  <2>. QED
    BY <1>1, <1>3, <2>1
<1>. DEFINE q == Tail(now.queue)
<1>7. /\ AudWaits(q, "suspend") => ~now.active
      /\ AudWaits(q, "unlock") => now.active /\ now.ever
      /\ AudWaits(q, "unmute") => now.ever
      /\ AudWaits(now.queue, "suspend") => AudWaits(q, "suspend") \/ (task.fresh /\ task.kind = "suspend")
      /\ AudWaits(now.queue, "unlock") => AudWaits(q, "unlock") \/ (task.fresh /\ task.kind = "unlock")
  BY <1>1, <1>3 DEF AudGood, AudFresh
<1>8. /\ task.fresh /\ task.kind = "suspend" => ~now.active
      /\ task.fresh /\ task.kind = "unlock" => now.active /\ now.ever
      /\ task.fresh /\ task.kind = "unmute" => now.ever
  BY <1>1, <1>3, <1>5 DEF AudGood, AudFresh
<1>. HIDE DEF task, r, q
<1>9. ASSUME NEW d \in AudRec, now' = [d EXCEPT !.busy = b], b \in {"none", "suspend", "unlock"},
             d.queue = q, d.hidden = now.hidden, d.active = now.active, d.ctx = now.ctx, d.dead = now.dead,
             d.unlocking <=> d.op = "resuming", d.op = "suspending" => d.ctx = "running" \/ d.dead,
             b = "suspend" <=> d.op = "suspending", b = "unlock" => d.op = "resuming" /\ d.ever,
             d.ever = now.ever, AudOwed(d)
      PROVE  AudInv'
  <2>. DEFINE c == b
  <2>0. c \in {"none", "suspend", "unlock"} /\ now' = [d EXCEPT !.busy = c]
    BY <1>9
  <2>. HIDE DEF b, c
  <2>1. /\ now' \in AudRec /\ now'.queue = q /\ now'.hidden = now.hidden /\ now'.active = now.active
        /\ now'.ctx = now.ctx /\ now'.dead = now.dead /\ now'.unlocking = d.unlocking /\ now'.op = d.op
        /\ now'.busy = c /\ now'.ever = now.ever /\ now'.refused = d.refused /\ now'.missed = d.missed
    BY <1>9, <2>0 DEF AudRec
  <2>2. AudKept(now')
    BY <1>1, <1>6, <1>9, <2>1 DEF AudGood, AudKept, q
  <2>3. AudBusy(now')
    BY <1>9, <2>1 DEF AudBusy, c
  <2>4. AudFresh(now') /\ AudSeen(now')
    BY <1>1, <1>7, <2>1 DEF AudFresh, AudSeen
  <2>5. AudOwed(now')
    BY <1>9, <2>1 DEF AudOwed
  <2>. QED
    BY <2>2, <2>3, <2>4, <2>5 DEF AudInv
<1>10. CASE ~task.fresh \/ now.dead
  <2>1. done = r
    BY <1>10
  <2>2. b \in {"none", "suspend", "unlock"} /\ b # "suspend" /\ (b = "unlock" => task.kind # "suspend" /\ task.fresh /\ r.unlocking)
    BY <1>1, <1>4, <2>1
  <2>3. now' = [r EXCEPT !.busy = b]
    BY <1>2, <2>1
  <2>4. AudOwed(r)
    BY <1>1, <1>4, <1>7, <1>10 DEF AudGood, AudOwed, q
  <2>5. /\ r.unlocking <=> r.op = "resuming"
        /\ r.op = "suspending" => r.ctx = "running" \/ r.dead
    BY <1>1, <1>4 DEF AudGood, AudKept
  <2>6. b = "suspend" <=> r.op = "suspending"
    BY <1>1, <1>4, <2>2
  <2>7. b = "unlock" => r.op = "resuming" /\ r.ever
    BY <1>4, <1>5, <1>8, <2>2, <2>5
  <2>. HIDE DEF b, done
  <2>. QED
    BY <1>4, <1>9, <2>2, <2>3, <2>4, <2>5, <2>6, <2>7 DEF q
<1>11. CASE task.fresh /\ ~now.dead /\ task.kind = "suspend"
  <2>1. done = Audible!suspend(r)
    BY <1>4, <1>8, <1>11
  <2>. DEFINE d == Audible!suspend(r)
  <2>2. /\ d \in AudRec /\ d.queue = r.queue /\ d.hidden = r.hidden /\ d.active = r.active
        /\ d.busy = r.busy /\ d.ctx = r.ctx /\ d.dead = r.dead
        /\ d.unlocking = r.unlocking /\ d.ever = r.ever /\ d.refused = r.refused
        /\ (r.ctx = "running" /\ r.op = "none" => d.op = "suspending" /\ d.missed = r.missed)
        /\ (~(r.ctx = "running" /\ r.op = "none") => d.op = r.op /\ (d.missed <=> r.missed \/ r.op = "resuming"))
    BY <1>4, AudSuspends
  <2>3. b \in {"none", "suspend", "unlock"} /\ b # "unlock" /\ (b = "suspend" <=> d.op = "suspending")
    BY <1>1, <1>11, <2>1
  <2>4. now' = [d EXCEPT !.busy = b]
    BY <1>2, <2>1
  <2>. HIDE DEF b, done, d
  <2>5. /\ d.unlocking <=> d.op = "resuming"
        /\ d.op = "suspending" => d.ctx = "running" \/ d.dead
    BY <1>1, <1>4, <2>2 DEF AudGood, AudKept
  <2>6. AudOwed(d)
    <3>1. now.op \in {"none", "resuming"} /\ ~now.active
      BY <1>1, <1>8, <1>11 DEF AudRec
    <3>. QED
      BY <1>1, <1>4, <2>2, <3>1 DEF AudGood, AudOwed
  <2>. QED
    BY <1>4, <1>9, <2>2, <2>3, <2>4, <2>5, <2>6 DEF q
<1>12. CASE task.fresh /\ ~now.dead /\ task.kind # "suspend" /\ ~now.active
  <2>1. done = r
    BY <1>4, <1>12
  <2>2. b \in {"none", "suspend", "unlock"} /\ b # "suspend" /\ (b = "unlock" => r.unlocking)
    BY <1>1, <1>4, <2>1
  <2>3. now' = [r EXCEPT !.busy = b]
    BY <1>2, <2>1
  <2>4. AudOwed(r)
    BY <1>1, <1>4, <1>7, <1>12 DEF AudGood, AudOwed, q
  <2>5. /\ r.unlocking <=> r.op = "resuming"
        /\ r.op = "suspending" => r.ctx = "running" \/ r.dead
    BY <1>1, <1>4 DEF AudGood, AudKept
  <2>6. b = "suspend" <=> r.op = "suspending"
    BY <1>1, <1>4, <2>2
  <2>7. b = "unlock" => r.op = "resuming" /\ r.ever
    BY <1>4, <1>5, <1>8, <1>12, <2>2, <2>5
  <2>. HIDE DEF b, done
  <2>. QED
    BY <1>4, <1>9, <2>2, <2>3, <2>4, <2>5, <2>6, <2>7 DEF q
<1>13. CASE task.fresh /\ ~now.dead /\ task.kind # "suspend" /\ now.active
  <2>0. now.ever
    BY <1>5, <1>8, <1>13
  <2>1. done = Audible!unlock(r)
    BY <1>4, <1>13
  <2>. DEFINE d == Audible!unlock(r)
  <2>2. d \in AudRec /\ AudAttempt(r, d)
    BY <1>4, AudUnlocks
  <2>4. now' = [d EXCEPT !.busy = b]
    BY <1>2, <2>1
  <2>5. /\ d.queue = q /\ d.hidden = now.hidden /\ d.active = now.active /\ d.ctx = now.ctx /\ d.dead = now.dead
        /\ (d.unlocking <=> d.op = "resuming") /\ d.op # "suspending"
        /\ d.ever = now.ever
    BY <1>1, <1>4, <2>0, <2>2 DEF AudGood, AudKept, AudAttempt, AudRec, q
  <2>3. b \in {"none", "suspend", "unlock"} /\ b # "suspend" /\ (b = "unlock" => d.unlocking)
    BY <1>1, <2>1, <2>5
  <2>. HIDE DEF b, done, d
  <2>6. AudOwed(d)
    BY <1>1, <1>4, <1>13, <2>0, <2>2, <2>5 DEF AudGood, AudKept, AudOwed, AudAttempt, AudRec
  <2>7. /\ b = "suspend" <=> d.op = "suspending"
        /\ b = "unlock" => d.op = "resuming" /\ d.ever
    BY <2>0, <2>3, <2>5
  <2>. QED
    BY <1>9, <2>2, <2>3, <2>4, <2>5, <2>6, <2>7
<1>. QED
  BY <1>5, <1>10, <1>11, <1>12, <1>13

\* A page that opens, in front or in the back, has no task and owes none.
LEMMA AudStarts == Audible!Init => AudInv
<1>. SUFFICES ASSUME Audible!Init PROVE AudInv
  OBVIOUS
<1>1. PICK hidden \in BOOLEAN :
        now = [hidden |-> hidden, active |-> ~hidden, queue |-> <<>>, busy |-> "none", ctx |-> "suspended",
               op |-> "none", unlocking |-> FALSE, ever |-> FALSE, muted |-> FALSE, refused |-> FALSE,
               missed |-> FALSE, dead |-> FALSE, calls |-> 0]
  BY DEF Audible!Init
<1>2. PageCalls \in Nat /\ PageTasks \in Nat /\ 0 \in 0..PageCalls
  BY PageAssumption
<1>3. /\ now \in AudRec /\ now.hidden = hidden /\ (now.active <=> ~hidden) /\ now.queue = <<>> /\ now.busy = "none"
      /\ now.ctx = "suspended" /\ now.op = "none" /\ now.unlocking = FALSE /\ now.ever = FALSE
      /\ now.missed = FALSE /\ now.dead = FALSE
  <2>. DEFINE shown == ~hidden
              none == <<>>
  <2>1. shown \in BOOLEAN /\ (shown <=> ~hidden) /\ none \in Seq(AudTask) /\ none = <<>>
    OBVIOUS
  <2>2. now = [hidden |-> hidden, active |-> shown, queue |-> none, busy |-> "none", ctx |-> "suspended",
               op |-> "none", unlocking |-> FALSE, ever |-> FALSE, muted |-> FALSE, refused |-> FALSE,
               missed |-> FALSE, dead |-> FALSE, calls |-> 0]
    BY <1>1
  <2>. HIDE DEF shown, none
  <2>3. now \in AudRec
    BY <1>2, <2>1, <2>2 DEF AudRec
  <2>4. /\ now.hidden = hidden /\ now.active = shown /\ now.queue = none /\ now.busy = "none"
        /\ now.ctx = "suspended" /\ now.op = "none" /\ now.unlocking = FALSE /\ now.ever = FALSE
        /\ now.missed = FALSE /\ now.dead = FALSE
    BY <2>2
  <2>. QED
    BY <2>1, <2>3, <2>4
<1>4. Len(now.queue) = 0 /\ DOMAIN now.queue = {}
  BY <1>3
<1>5. \A k : ~AudWaits(now.queue, k)
  BY <1>4 DEF AudWaits
<1>. QED
  BY <1>2, <1>3, <1>4, <1>5 DEF AudInv, AudKept, AudBusy, AudFresh, AudOwed, AudSeen

AudNext ==
  \/ Audible!handleVisibilityChange \/ Audible!handlePageBlur \/ Audible!handlePageFocus
  \/ Audible!bindUserGestures \/ Audible!requestSpin \/ Audible!toggleMuted \/ Audible!Task
  \/ Audible!Resumed \/ Audible!ResumeRefused \/ Audible!Suspended \/ Audible!destroy

\* Every signal of the page, every task and every answer of the browser keeps the
\* queue in order.
LEMMA AudSteps == AudInv /\ AudNext => AudInv'
BY AudSignals, AudGestures, AudToggles, AudTasks, AudSettles DEF AudNext

\* What the runs ask of the page's audibility follows: in front it comes to be heard,
\* in the back it is silent, and the browser is asked for one change at a time.
LEMMA AudRight == AudInv => Audible!TypeOK /\ Audible!FrontIsHeard /\ Audible!BackIsSilent /\ Audible!OneChange
<1>. SUFFICES ASSUME AudInv PROVE Audible!TypeOK /\ Audible!FrontIsHeard /\ Audible!BackIsSilent /\ Audible!OneChange
  OBVIOUS
<1>1. now \in AudRec /\ Len(now.queue) <= PageTasks
  BY DEF AudInv, AudKept
<1>2. Audible!TypeOK
  BY <1>1 DEF AudRec, AudTask, Audible!TypeOK
<1>3. now.queue = <<>> => ~AudWaits(now.queue, "unlock") /\ ~AudWaits(now.queue, "suspend")
  BY DEF AudWaits
<1>4. Audible!FrontIsHeard
  BY <1>1, <1>3 DEF AudInv, AudOwed, Audible!FrontIsHeard, Audible!Settled
<1>5. Audible!BackIsSilent
  BY <1>1, <1>3 DEF AudInv, AudKept, AudSeen, AudOwed, Audible!BackIsSilent, Audible!Settled
<1>6. Audible!OneChange
  BY <1>1 DEF AudInv, AudKept, AudBusy, AudRec, Audible!OneChange
<1>. QED
  BY <1>2, <1>4, <1>5, <1>6

-----------------------------------------------------------------------------
(* The pot (MusicPot).                                                      *)

PotRec ==
  [bet : Nat, pot : Nat, rate : {1, 2, 4}, level : {0, 1}, idle : BOOLEAN, docked : BOOLEAN,
   open : {"no", "spin", "told"}, sinceSpin : 0..(PotIdle + 1), sinceLevel : 0..PotLinger,
   rounds : 0..PotRounds, stale : BOOLEAN, told : {0, 1}, cause : {"none", "win", "idle", "drained"}]

\* The wager and the pot are of one another, but for the level.
PotKept(r) ==
  /\ r \in PotRec
  /\ r.bet \in PotBets \union {0} /\ (r.pot > 0 => r.bet \in PotBets)
  /\ \E bet \in PotBets : r.pot <= bet * PotCap * 10
  /\ r.told = r.level
  /\ r.idle /\ r.pot > 0 => r.sinceSpin <= PotIdle
  /\ r.open # "no" => r.bet \in PotBets /\ ~r.idle
PotLevel(r) ==
  /\ r.level = 1 => r.pot > 0
  /\ ~r.stale /\ r.bet > 0 => r.level = Pot!levelForAmount(r, r.pot)
PotInv == PotKept(now) /\ PotLevel(now)

\* The marks of a wager's pot: what fills it and what caps it are positive.
LEMMA PotAmounts ==
  ASSUME NEW bet \in PotBets
  PROVE  /\ bet \in Nat /\ bet > 0
         /\ bet * PotUpper * 10 \in Nat /\ bet * PotUpper * 10 > 0
         /\ bet * PotCap * 10 \in Nat /\ bet * PotCap * 10 > 0 /\ bet * 10 <= bet * PotCap * 10
<1>1. bet \in Nat /\ bet > 0 /\ PotUpper \in Nat /\ PotUpper > 0 /\ PotCap \in Nat /\ PotCap > 0
  BY PotAssumption
<1>2. bet * PotUpper \in Nat /\ bet * PotUpper > 0
  BY <1>1, SMTT(30)
<1>3. bet * PotCap \in Nat /\ bet * PotCap >= bet
  BY <1>1, SMTT(30)
<1>. QED
  BY <1>1, <1>2, <1>3

\* The level follows a pot that fits its wager.
LEMMA PotUpdates ==
  ASSUME NEW r, PotKept(r), r.bet \in PotBets, r.docked => (r.level = 1 => r.pot > 0),
         NEW cause \in {"win", "idle", "drained"}
  PROVE  PotKept(Pot!updateLevel(r, cause)) /\ PotLevel(Pot!updateLevel(r, cause))
<1>. DEFINE u == Pot!updateLevel(r, cause)
<1>1. r \in PotRec
  BY DEF PotKept
<1>2. /\ r.bet * PotUpper * 10 \in Nat /\ r.bet * PotUpper * 10 > 0
  BY PotAmounts
<1>3. Pot!levelForAmount(r, r.pot) \in {0, 1} /\ (Pot!levelForAmount(r, r.pot) = 1 => r.pot > 0)
  BY <1>1, <1>2 DEF Pot!levelForAmount, PotRec
<1>4. 0 \in 0..PotLinger
  BY PotAssumption
<1>5. CASE r.docked
  <2>1. u = [r EXCEPT !.stale = TRUE]
    BY <1>5 DEF Pot!updateLevel
  <2>2. /\ u \in PotRec /\ u.bet = r.bet /\ u.pot = r.pot /\ u.level = r.level /\ u.told = r.told
        /\ u.idle = r.idle /\ u.sinceSpin = r.sinceSpin /\ u.open = r.open /\ u.stale = TRUE
    BY <1>1, <2>1 DEF PotRec
  <2>. QED
    BY <1>5, <2>2 DEF PotKept, PotLevel
<1>6. CASE ~r.docked /\ Pot!levelForAmount(r, r.pot) = r.level
  <2>1. u = [r EXCEPT !.stale = FALSE]
    BY <1>6 DEF Pot!updateLevel
  <2>2. /\ u \in PotRec /\ u.bet = r.bet /\ u.pot = r.pot /\ u.level = r.level /\ u.told = r.told
        /\ u.idle = r.idle /\ u.sinceSpin = r.sinceSpin /\ u.open = r.open /\ u.stale = FALSE
    BY <1>1, <2>1 DEF PotRec
  <2>3. Pot!levelForAmount(u, u.pot) = Pot!levelForAmount(r, r.pot)
    BY <2>2 DEF Pot!levelForAmount
  <2>. QED
    BY <1>3, <1>6, <2>2, <2>3 DEF PotKept, PotLevel
<1>7. CASE ~r.docked /\ Pot!levelForAmount(r, r.pot) # r.level
  <2>1. u = [r EXCEPT !.level = 1 - r.level, !.sinceLevel = 0, !.told = 1 - r.level, !.cause = cause,
                      !.stale = FALSE]
    BY <1>7 DEF Pot!updateLevel
  <2>a. PICK other \in {0, 1} : other = 1 - r.level
    BY <1>1 DEF PotRec
  <2>b. u = [r EXCEPT !.level = other, !.sinceLevel = 0, !.told = other, !.cause = cause, !.stale = FALSE]
    BY <2>1, <2>a
  <2>2. /\ u \in PotRec /\ u.bet = r.bet /\ u.pot = r.pot /\ u.level = 1 - r.level /\ u.told = 1 - r.level
        /\ u.idle = r.idle /\ u.sinceSpin = r.sinceSpin /\ u.open = r.open /\ u.stale = FALSE
    BY <1>1, <1>4, <2>a, <2>b DEF PotRec
  <2>3. Pot!levelForAmount(u, u.pot) = Pot!levelForAmount(r, r.pot)
    BY <2>2 DEF Pot!levelForAmount
  <2>4. 1 - r.level = Pot!levelForAmount(r, r.pot)
    BY <1>1, <1>3, <1>7 DEF PotRec
  <2>. QED
    BY <1>3, <2>2, <2>3, <2>4 DEF PotKept, PotLevel
<1>. QED
  BY <1>5, <1>6, <1>7

PotTypes == PotBets \subseteq Nat /\ 0 \in 0..(PotIdle + 1) /\ 0 \in 0..PotLinger

\* The bounds of the clocks and the bets are what the definitions take them for.
LEMMA PotConstants == PotTypes
BY PotAssumption DEF PotTypes

\* A second of the idle clock.
LEMMA PotIdles ==
  ASSUME NEW r, PotKept(r), PotLevel(r), ~r.docked
  PROVE  /\ PotKept(Pot!updateIdle(r)) /\ PotLevel(Pot!updateIdle(r)) /\ Pot!updateIdle(r).docked = FALSE
<1>. DEFINE since == Pot!Smaller(r.sinceSpin + 1, PotIdle + 1)
            later == [r EXCEPT !.sinceSpin = since]
            u == Pot!updateIdle(r)
<1>1. r \in PotRec /\ PotIdle \in Nat
  BY PotAssumption DEF PotKept
<1>2. since \in 0..(PotIdle + 1)
  BY <1>1 DEF Pot!Smaller, PotRec
<1>3. /\ later \in PotRec /\ later.bet = r.bet /\ later.pot = r.pot /\ later.level = r.level
      /\ later.told = r.told /\ later.idle = r.idle /\ later.sinceSpin = since /\ later.open = r.open
      /\ later.stale = r.stale /\ later.docked = r.docked
  BY <1>1, <1>2 DEF PotRec
<1>. HIDE DEF since, later
<1>4. CASE r.idle /\ r.pot > 0 /\ since > PotIdle
  <2>. DEFINE amount == Pot!amountForLevel(later, later.level - 1)
              d == [later EXCEPT !.sinceSpin = 0, !.pot = amount]
  <2>1. u = Pot!updateLevel(d, "idle")
    BY <1>3, <1>4 DEF Pot!updateIdle, Pot!downgradeLevel, later, since
  <2>2. r.bet \in PotBets
    BY <1>4 DEF PotKept
  <2>3. amount \in Nat /\ amount <= r.bet * PotCap * 10
    BY <1>3, <2>2, PotAmounts DEF Pot!amountForLevel
  <2>4. amount = 0 \/ amount = r.bet * 10
    BY <1>3 DEF Pot!amountForLevel
  <2>. HIDE DEF amount
  <2>5. /\ d \in PotRec /\ d.bet = r.bet /\ d.pot = amount /\ d.level = r.level
        /\ d.told = r.told /\ d.idle = r.idle /\ d.sinceSpin = 0 /\ d.open = r.open
        /\ d.stale = r.stale /\ d.docked = r.docked
    BY <1>3, <2>3, PotConstants DEF PotRec, PotTypes
  <2>. HIDE DEF d
  <2>6. PotKept(d)
    BY <1>1, <1>4, <2>2, <2>3, <2>5 DEF PotKept
  <2>7. PotKept(Pot!updateLevel(d, "idle")) /\ PotLevel(Pot!updateLevel(d, "idle"))
    BY <2>2, <2>5, <2>6, PotUpdates
  <2>8. Pot!updateLevel(d, "idle").docked = FALSE
    BY <2>5 DEF Pot!updateLevel, PotRec
  <2>. QED
    BY <2>1, <2>7, <2>8
<1>5. CASE ~(r.idle /\ r.pot > 0 /\ since > PotIdle)
  <2>1. u = later
    BY <1>3, <1>5 DEF Pot!updateIdle, later, since
  <2>2. Pot!levelForAmount(later, later.pot) = Pot!levelForAmount(r, r.pot)
    BY <1>3 DEF Pot!levelForAmount
  <2>3. PotKept(later)
    BY <1>1, <1>2, <1>3, <1>5 DEF PotKept
  <2>4. PotLevel(later)
    BY <1>3, <2>2 DEF PotLevel
  <2>. QED
    BY <1>3, <2>1, <2>3, <2>4, <1>1 DEF PotRec
<1>. QED
  BY <1>4, <1>5

\* A second of the draining pot.
LEMMA PotDrains ==
  ASSUME NEW r, PotKept(r), PotLevel(r), ~r.docked
  PROVE  PotKept(Pot!updatePot(r)) /\ PotLevel(Pot!updatePot(r))
<1>. DEFINE since == Pot!Smaller(r.sinceLevel + 1, PotLinger)
            later == [r EXCEPT !.sinceLevel = since]
            u == Pot!updatePot(r)
<1>1. r \in PotRec /\ PotLinger \in Nat
  BY PotAssumption DEF PotKept
<1>2. since \in 0..PotLinger
  BY <1>1 DEF Pot!Smaller, PotRec
<1>3. /\ later \in PotRec /\ later.bet = r.bet /\ later.pot = r.pot /\ later.level = r.level
      /\ later.told = r.told /\ later.idle = r.idle /\ later.sinceSpin = r.sinceSpin /\ later.open = r.open
      /\ later.stale = r.stale /\ later.docked = r.docked /\ later.rate = r.rate /\ later.sinceLevel = since
  BY <1>1, <1>2 DEF PotRec
<1>. HIDE DEF since, later
<1>4. CASE r.pot <= 0 \/ since < PotLinger
  <2>1. u = later
    BY <1>3, <1>4 DEF Pot!updatePot, later, since
  <2>2. Pot!levelForAmount(later, later.pot) = Pot!levelForAmount(r, r.pot)
    BY <1>3 DEF Pot!levelForAmount
  <2>3. PotKept(later)
    BY <1>3 DEF PotKept
  <2>4. PotLevel(later)
    BY <1>3, <2>2 DEF PotLevel
  <2>. QED
    BY <2>1, <2>3, <2>4
<1>5. CASE ~(r.pot <= 0 \/ since < PotLinger)
  <2>. DEFINE rest == Pot!Larger(0, later.pot - r.bet * r.rate)
              d == [later EXCEPT !.pot = rest]
  <2>1. u = Pot!updateLevel(d, "drained")
    BY <1>3, <1>5 DEF Pot!updatePot, later, since
  <2>2. r.bet \in PotBets /\ r.bet \in Nat /\ r.pot \in Nat
    BY <1>1, <1>5 DEF PotKept, PotRec
  <2>3. r.bet * r.rate \in Nat
    BY <1>1, <2>2, SMTT(30) DEF PotRec
  <2>4. rest \in Nat /\ rest <= r.pot
    BY <1>3, <2>2, <2>3 DEF Pot!Larger
  <2>. HIDE DEF rest
  <2>5. /\ d \in PotRec /\ d.bet = r.bet /\ d.pot = rest /\ d.level = r.level
        /\ d.told = r.told /\ d.idle = r.idle /\ d.sinceSpin = r.sinceSpin /\ d.open = r.open
        /\ d.stale = r.stale /\ d.docked = r.docked
    BY <1>3, <2>4, PotConstants DEF PotRec
  <2>. HIDE DEF d
  <2>6. PICK bet \in PotBets : r.pot <= bet * PotCap * 10
    BY DEF PotKept
  <2>7. bet * PotCap * 10 \in Nat
    BY <2>6, PotAmounts
  <2>8. rest <= bet * PotCap * 10
    BY <2>2, <2>4, <2>6, <2>7
  <2>9. r.sinceSpin \in Int /\ PotIdle \in Int
    BY <1>1, PotAssumption DEF PotRec
  <2>10. PotKept(d)
    BY <1>5, <2>2, <2>4, <2>5, <2>6, <2>8, <2>9 DEF PotKept
  <2>. QED
    BY <1>3, <2>1, <2>2, <2>5, <2>10, PotUpdates
<1>. QED
  BY <1>4, <1>5

\* An empty pot that waits is in order.
LEMMA PotStarts == Pot!Init => PotInv
<1>. SUFFICES ASSUME Pot!Init PROVE PotInv
  OBVIOUS
<1>1. PICK bet \in PotBets : TRUE
  BY PotAssumption
<1>2. 0 <= bet * PotCap * 10
  BY PotAmounts
<1>. QED
  BY <1>1, <1>2, PotConstants, PotAssumption DEF Pot!Init, PotInv, PotKept, PotLevel, PotRec, PotTypes

PotNext ==
  \/ \E bet \in PotBets : Pot!beginRound(bet)
  \/ \E win \in PotWins : Pot!recordWin(win)
  \/ Pot!recordNoWin \/ Pot!endRound \/ Pot!updateOneSecond \/ Pot!dock \/ Pot!undock

\* Every call of the round, every second and every docking keeps the pot in order.
LEMMA PotSteps == PotInv /\ PotNext => PotInv'
<1>. SUFFICES ASSUME PotInv, PotNext PROVE PotInv'
  OBVIOUS
<1>1. now \in PotRec /\ PotKept(now) /\ PotLevel(now) /\ PotRounds \in Nat /\ PotIdle \in Nat
  BY PotAssumption DEF PotInv, PotKept
<1>2. PICK most \in PotBets : now.pot <= most * PotCap * 10
  BY <1>1 DEF PotKept
<1>3. ASSUME NEW bet \in PotBets, Pot!beginRound(bet) PROVE PotInv'
  <2>1. now.rounds + 1 \in 0..PotRounds /\ bet \in Nat
    BY <1>1, <1>3, PotConstants DEF PotRec, PotTypes, Pot!beginRound
  <2>2. PICK stale \in BOOLEAN : (stale <=> now.stale \/ bet # now.bet) /\ stale = (now.stale \/ bet # now.bet)
    BY <1>1 DEF PotRec
  <2>3. now' = [now EXCEPT !.bet = bet, !.open = "spin", !.idle = FALSE, !.rounds = now.rounds + 1,
                           !.stale = stale, !.cause = "none"]
    BY <1>3, <2>2 DEF Pot!beginRound
  <2>4. /\ now' \in PotRec /\ now'.bet = bet /\ now'.pot = now.pot /\ now'.level = now.level
        /\ now'.told = now.told /\ now'.idle = FALSE /\ now'.open = "spin" /\ now'.stale = stale
    BY <1>1, <2>1, <2>3 DEF PotRec
  <2>5. now'.bet = now.bet => Pot!levelForAmount(now', now'.pot) = Pot!levelForAmount(now, now.pot)
    BY <2>4 DEF Pot!levelForAmount
  <2>6. PotKept(now')
    BY <1>1, <1>2, <2>1, <2>4 DEF PotKept
  <2>7. PotLevel(now')
    BY <1>1, <2>2, <2>4, <2>5 DEF PotLevel
  <2>. QED
    BY <2>6, <2>7 DEF PotInv
<1>4. ASSUME NEW win \in PotWins, Pot!recordWin(win) PROVE PotInv'
  <2>. DEFINE pot == Pot!Smaller(now.pot + win * 10, now.bet * PotCap * 10)
              d == [now EXCEPT !.pot = pot, !.rate = 1, !.open = "told", !.cause = "none"]
  <2>1. now' = Pot!updateLevel(d, "win")
    BY <1>4 DEF Pot!recordWin
  <2>2. now.bet \in PotBets /\ ~now.idle
    BY <1>1, <1>4 DEF PotKept, Pot!recordWin
  <2>3. win \in Nat /\ now.pot \in Nat
    BY <1>1, PotAssumption DEF PotRec
  <2>4. pot \in Nat /\ pot <= now.bet * PotCap * 10 /\ (now.pot > 0 => pot > 0)
    BY <2>2, <2>3, PotAmounts DEF Pot!Smaller
  <2>. HIDE DEF pot
  <2>5. /\ d \in PotRec /\ d.bet = now.bet /\ d.pot = pot /\ d.level = now.level /\ d.told = now.told
        /\ d.idle = now.idle /\ d.open = "told"
    BY <1>1, <2>4 DEF PotRec
  <2>. HIDE DEF d
  <2>6. PotKept(d) /\ (d.level = 1 => d.pot > 0)
    BY <1>1, <2>2, <2>4, <2>5 DEF PotKept, PotLevel
  <2>. QED
    BY <2>1, <2>2, <2>5, <2>6, PotUpdates DEF PotInv
<1>5. CASE Pot!recordNoWin
  <2>1. PICK rate \in {1, 2, 4} : rate = Pot!Smaller(4, now.rate * 2)
    BY <1>1 DEF PotRec, Pot!Smaller
  <2>2. now' = [now EXCEPT !.open = "told", !.rate = rate, !.cause = "none"] /\ now.open = "spin"
    BY <1>5, <2>1 DEF Pot!recordNoWin
  <2>3. /\ now' \in PotRec /\ now'.bet = now.bet /\ now'.pot = now.pot /\ now'.level = now.level
        /\ now'.told = now.told /\ now'.idle = now.idle /\ now'.open = "told" /\ now'.stale = now.stale
    BY <1>1, <2>2 DEF PotRec
  <2>4. Pot!levelForAmount(now', now'.pot) = Pot!levelForAmount(now, now.pot)
    BY <2>3 DEF Pot!levelForAmount
  <2>5. PotKept(now')
    BY <1>1, <1>2, <2>2, <2>3 DEF PotKept
  <2>. QED
    BY <1>1, <2>3, <2>4, <2>5 DEF PotInv, PotLevel
<1>6. CASE Pot!endRound
  <2>1. now' = [now EXCEPT !.open = "no", !.idle = TRUE, !.sinceSpin = 0, !.cause = "none"]
    BY <1>6 DEF Pot!endRound
  <2>2. /\ now' \in PotRec /\ now'.bet = now.bet /\ now'.pot = now.pot /\ now'.level = now.level
        /\ now'.told = now.told /\ now'.sinceSpin = 0 /\ now'.open = "no" /\ now'.stale = now.stale
    BY <1>1, <2>1, PotConstants DEF PotRec, PotTypes
  <2>3. Pot!levelForAmount(now', now'.pot) = Pot!levelForAmount(now, now.pot)
    BY <2>2 DEF Pot!levelForAmount
  <2>4. PotKept(now')
    BY <1>1, <1>2, <2>2 DEF PotKept
  <2>. QED
    BY <1>1, <2>2, <2>3, <2>4 DEF PotInv, PotLevel
<1>7. CASE Pot!updateOneSecond
  <2>. DEFINE r == [now EXCEPT !.cause = "none"]
  <2>1. now' = Pot!updatePot(Pot!updateIdle(r)) /\ ~now.docked
    BY <1>7 DEF Pot!updateOneSecond
  <2>2. /\ r \in PotRec /\ r.bet = now.bet /\ r.pot = now.pot /\ r.level = now.level /\ r.told = now.told
        /\ r.idle = now.idle /\ r.sinceSpin = now.sinceSpin /\ r.open = now.open /\ r.stale = now.stale
        /\ r.docked = now.docked
    BY <1>1 DEF PotRec
  <2>. HIDE DEF r
  <2>3. Pot!levelForAmount(r, r.pot) = Pot!levelForAmount(now, now.pot)
    BY <2>2 DEF Pot!levelForAmount
  <2>4. PotKept(r) /\ PotLevel(r) /\ ~r.docked
    BY <1>1, <2>1, <2>2, <2>3 DEF PotKept, PotLevel
  <2>5. LET i == Pot!updateIdle(r) IN PotKept(i) /\ PotLevel(i) /\ ~i.docked
    BY <2>4, PotIdles
  <2>. QED
    BY <2>1, <2>5, PotDrains DEF PotInv
<1>8. CASE Pot!dock \/ Pot!undock
  <2>1. PICK docked \in BOOLEAN : now' = [now EXCEPT !.docked = docked, !.cause = "none"]
    BY <1>8 DEF Pot!dock, Pot!undock
  <2>2. /\ now' \in PotRec /\ now'.bet = now.bet /\ now'.pot = now.pot /\ now'.level = now.level
        /\ now'.told = now.told /\ now'.idle = now.idle /\ now'.sinceSpin = now.sinceSpin
        /\ now'.open = now.open /\ now'.stale = now.stale
    BY <1>1, <2>1 DEF PotRec
  <2>3. Pot!levelForAmount(now', now'.pot) = Pot!levelForAmount(now, now.pot)
    BY <2>2 DEF Pot!levelForAmount
  <2>4. PotKept(now')
    BY <1>1, <1>2, <2>2 DEF PotKept
  <2>. QED
    BY <1>1, <2>2, <2>3, <2>4 DEF PotInv, PotLevel
<1>. QED
  BY <1>3, <1>4, <1>5, <1>6, <1>7, <1>8 DEF PotNext

\* What the runs ask of the pot follows: its level is that of its money, it calms
\* down when nobody plays, and it never exceeds its cap.
LEMMA PotRight ==
  PotInv => Pot!TypeOK /\ Pot!LevelOfPot /\ Pot!CalmsDown /\ Pot!Bounded
<1>. SUFFICES ASSUME PotInv PROVE Pot!TypeOK /\ Pot!LevelOfPot /\ Pot!CalmsDown /\ Pot!Bounded
  OBVIOUS
<1>1. now \in PotRec /\ PotKept(now) /\ PotLevel(now)
  BY DEF PotInv, PotKept
<1>2. Pot!TypeOK
  BY <1>1 DEF PotRec, PotKept, Pot!TypeOK
<1>3. Pot!LevelOfPot /\ Pot!CalmsDown /\ Pot!Bounded
  BY <1>1 DEF PotKept, PotLevel, Pot!LevelOfPot, Pot!CalmsDown, Pot!Bounded
<1>. QED
  BY <1>2, <1>3

\* The lower threshold of a wager is below its upper one.
LEMMA PotLower ==
  ASSUME NEW bet \in PotBets
  PROVE  bet * PotUpper * 10 \in Nat /\ bet * PotUpper * 10 > bet * 10
<1>1. bet \in Nat /\ bet > 0 /\ PotUpper \in Nat /\ PotUpper > 1
  BY PotAssumption
<1>2. bet * PotUpper \in Nat /\ bet * PotUpper > bet
  BY <1>1, SMTT(30)
<1>. QED
  BY <1>1, <1>2

\* updateLevel changes the level when the pot has crossed the mark, and then says why;
\* frozen music keeps its level.
LEMMA PotTells ==
  ASSUME NEW r \in PotRec, NEW cause \in {"win", "idle", "drained"}, NEW u, u = Pot!updateLevel(r, cause)
  PROVE  /\ u.pot = r.pot /\ u.bet = r.bet /\ u.open = r.open /\ u.sinceSpin = r.sinceSpin
         /\ u.docked = r.docked /\ u.idle = r.idle
         /\ \/ u.level = r.level /\ u.cause = r.cause /\ u.sinceLevel = r.sinceLevel
               /\ (r.docked \/ Pot!levelForAmount(r, r.pot) = r.level)
            \/ /\ ~r.docked /\ Pot!levelForAmount(r, r.pot) # r.level
               /\ u.level = 1 - r.level /\ u.cause = cause /\ u.sinceLevel = 0
<1>1. CASE r.docked
  <2>1. u = [r EXCEPT !.stale = TRUE] BY <1>1 DEF Pot!updateLevel
  <2>. QED BY <1>1, <2>1 DEF PotRec
<1>2. CASE ~r.docked /\ Pot!levelForAmount(r, r.pot) = r.level
  <2>1. u = [r EXCEPT !.stale = FALSE] BY <1>2 DEF Pot!updateLevel
  <2>. QED BY <1>2, <2>1 DEF PotRec
<1>3. CASE ~r.docked /\ Pot!levelForAmount(r, r.pot) # r.level
  <2>1. u = [r EXCEPT !.level = 1 - r.level, !.sinceLevel = 0, !.told = 1 - r.level, !.cause = cause,
                      !.stale = FALSE]
    BY <1>3 DEF Pot!updateLevel
  <2>. QED BY <1>3, <2>1 DEF PotRec
<1>. QED BY <1>1, <1>2, <1>3

\* What the idle clock may do to the level: nothing, or lower it all the way.
PotLowered(u, r) ==
  /\ r.idle /\ u.level = 0 /\ u.sinceSpin = 0 /\ u.pot < u.bet * PotUpper * 10
  /\ (r.level = 1 => u.cause = "idle") /\ (r.level = 0 => u.pot = 0 /\ u.cause = r.cause)
PotLeft(u, r) ==
  /\ u.level = r.level /\ u.cause = r.cause /\ u.sinceLevel = r.sinceLevel /\ u.sinceSpin >= r.sinceSpin

\* A second of the idle clock lowers the level of a pot nobody plays for.
LEMMA PotIdleFalls ==
  ASSUME NEW r, PotKept(r), ~r.docked, NEW u, u = Pot!updateIdle(r)
  PROVE  u.open = r.open /\ (PotLowered(u, r) \/ PotLeft(u, r))
<1>. DEFINE since == Pot!Smaller(r.sinceSpin + 1, PotIdle + 1)
            later == [r EXCEPT !.sinceSpin = since]
<1>1. r \in PotRec /\ PotIdle \in Nat
  BY PotAssumption DEF PotKept
<1>2. since \in 0..(PotIdle + 1) /\ since >= r.sinceSpin
  BY <1>1 DEF Pot!Smaller, PotRec
<1>3. /\ later \in PotRec /\ later.bet = r.bet /\ later.pot = r.pot /\ later.level = r.level
      /\ later.idle = r.idle /\ later.sinceSpin = since /\ later.open = r.open
      /\ later.cause = r.cause /\ later.docked = r.docked /\ later.sinceLevel = r.sinceLevel
  BY <1>1, <1>2 DEF PotRec
<1>. HIDE DEF since, later
<1>4. CASE r.idle /\ r.pot > 0 /\ since > PotIdle
  <2>. DEFINE amount == Pot!amountForLevel(later, later.level - 1)
              d == [later EXCEPT !.sinceSpin = 0, !.pot = amount]
  <2>1. u = Pot!updateLevel(d, "idle")
    BY <1>3, <1>4 DEF Pot!updateIdle, Pot!downgradeLevel, later, since
  <2>2. r.bet \in PotBets /\ r.bet \in Nat /\ r.bet > 0
    BY <1>4, PotAmounts DEF PotKept
  <2>3. r.bet * PotUpper * 10 \in Nat /\ r.bet * PotUpper * 10 > r.bet * 10
    BY <2>2, PotLower
  <2>4. r.level \in {0, 1} /\ (r.level = 1 => amount = r.bet * 10) /\ (r.level = 0 => amount = 0)
    BY <1>1, <1>3 DEF Pot!amountForLevel, PotRec
  <2>5. amount \in Nat /\ amount < r.bet * PotUpper * 10
    BY <2>2, <2>3, <2>4
  <2>. HIDE DEF amount
  <2>6. /\ d \in PotRec /\ d.bet = r.bet /\ d.pot = amount /\ d.level = r.level
        /\ d.idle = r.idle /\ d.sinceSpin = 0 /\ d.open = r.open
        /\ d.cause = r.cause /\ d.docked = r.docked
    BY <1>3, <2>5, PotConstants DEF PotRec, PotTypes
  <2>. HIDE DEF d
  <2>7. Pot!levelForAmount(d, d.pot) = 0
    BY <2>5, <2>6, <2>3 DEF Pot!levelForAmount
  <2>8. /\ u.pot = d.pot /\ u.bet = d.bet /\ u.open = d.open /\ u.sinceSpin = d.sinceSpin
        /\ \/ u.level = d.level /\ u.cause = d.cause /\ (d.docked \/ Pot!levelForAmount(d, d.pot) = d.level)
           \/ Pot!levelForAmount(d, d.pot) # d.level /\ u.level = 1 - d.level /\ u.cause = "idle"
    BY <2>1, <2>6, PotTells
  <2>9. PotLowered(u, r)
    BY <1>4, <2>4, <2>5, <2>6, <2>7, <2>8 DEF PotLowered
  <2>. QED
    BY <2>6, <2>8, <2>9
<1>5. CASE ~(r.idle /\ r.pot > 0 /\ since > PotIdle)
  <2>1. u = later
    BY <1>3, <1>5 DEF Pot!updateIdle, later, since
  <2>. QED
    BY <1>2, <1>3, <2>1 DEF PotLeft
<1>. QED
  BY <1>4, <1>5

\* A second of the draining pot: it lowers the level once the level has stayed its
\* time, and does not raise it again.
LEMMA PotDrainFalls ==
  ASSUME NEW r, PotKept(r), ~r.docked, NEW u, u = Pot!updatePot(r)
  PROVE  /\ u.open = r.open /\ u.sinceSpin = r.sinceSpin /\ u.bet = r.bet /\ u.pot <= r.pot /\ u.pot \in Nat
         /\ \/ u.level = r.level /\ u.cause = r.cause
            \/ /\ u.cause = "drained" /\ r.sinceLevel >= PotLinger - 1 /\ r.pot > 0
               /\ ~(r.level = 0 /\ r.pot < r.bet * PotUpper * 10)
<1>. DEFINE since == Pot!Smaller(r.sinceLevel + 1, PotLinger)
            later == [r EXCEPT !.sinceLevel = since]
<1>1. r \in PotRec /\ PotLinger \in Nat /\ r.pot \in Nat /\ r.sinceLevel \in 0..PotLinger
  BY PotAssumption DEF PotKept, PotRec
<1>2. since \in 0..PotLinger /\ (since >= PotLinger => r.sinceLevel >= PotLinger - 1)
  BY <1>1 DEF Pot!Smaller
<1>3. /\ later \in PotRec /\ later.bet = r.bet /\ later.pot = r.pot /\ later.level = r.level
      /\ later.sinceSpin = r.sinceSpin /\ later.open = r.open /\ later.cause = r.cause
      /\ later.docked = r.docked /\ later.rate = r.rate /\ later.sinceLevel = since
  BY <1>1, <1>2 DEF PotRec
<1>. HIDE DEF since, later
<1>4. CASE r.pot <= 0 \/ since < PotLinger
  <2>1. u = later
    BY <1>3, <1>4 DEF Pot!updatePot, later, since
  <2>. QED
    BY <1>1, <1>3, <2>1
<1>5. CASE ~(r.pot <= 0 \/ since < PotLinger)
  <2>. DEFINE rest == Pot!Larger(0, later.pot - r.bet * r.rate)
              d == [later EXCEPT !.pot = rest]
  <2>1. u = Pot!updateLevel(d, "drained")
    BY <1>3, <1>5 DEF Pot!updatePot, later, since
  <2>2. r.bet \in PotBets /\ r.bet \in Nat
    BY <1>1, <1>5 DEF PotKept, PotRec
  <2>3. r.bet * r.rate \in Nat
    BY <1>1, <2>2, SMTT(30) DEF PotRec
  <2>4. rest \in Nat /\ rest <= r.pot
    BY <1>1, <1>3, <2>2, <2>3 DEF Pot!Larger
  <2>. HIDE DEF rest
  <2>5. /\ d \in PotRec /\ d.bet = r.bet /\ d.pot = rest /\ d.level = r.level
        /\ d.sinceSpin = r.sinceSpin /\ d.open = r.open /\ d.cause = r.cause /\ d.docked = r.docked
    BY <1>3, <2>4, PotConstants DEF PotRec
  <2>. HIDE DEF d
  <2>6. /\ u.pot = d.pot /\ u.bet = d.bet /\ u.open = d.open /\ u.sinceSpin = d.sinceSpin
        /\ \/ u.level = d.level /\ u.cause = d.cause
           \/ Pot!levelForAmount(d, d.pot) # d.level /\ u.cause = "drained"
    BY <2>1, <2>5, PotTells
  <2>7. r.bet * PotUpper * 10 \in Nat
    BY <2>2, PotAmounts
  <2>8. r.level = 0 /\ r.pot < r.bet * PotUpper * 10 => Pot!levelForAmount(d, d.pot) = d.level
    BY <1>1, <2>4, <2>5, <2>7 DEF Pot!levelForAmount
  <2>9. since >= PotLinger /\ r.pot > 0
    BY <1>1, <1>2, <1>5
  <2>. QED
    BY <1>2, <2>4, <2>5, <2>6, <2>8, <2>9
<1>. QED
  BY <1>4, <1>5

\* Only an idle pot is lowered, all the way and for good; a level that drains away has
\* stayed its time; frozen music keeps its level.
LEMMA PotFalls == ASSUME PotInv, PotNext PROVE Pot!FallsInTime
<1>1. now \in PotRec /\ PotKept(now) /\ PotLinger \in Nat /\ PotIdle \in Nat
  BY PotAssumption DEF PotInv, PotKept
<1>2. ASSUME NEW bet \in PotBets, Pot!beginRound(bet) PROVE Pot!FallsInTime
  <2>1. now'.cause = "none" /\ now'.open = "spin" /\ now'.level = now.level
    BY <1>1, <1>2 DEF Pot!beginRound, PotRec
  <2>. QED BY <2>1 DEF Pot!FallsInTime
<1>3. ASSUME NEW win \in PotWins, Pot!recordWin(win) PROVE Pot!FallsInTime
  <2>. DEFINE pot == Pot!Smaller(now.pot + win * 10, now.bet * PotCap * 10)
              d == [now EXCEPT !.pot = pot, !.rate = 1, !.open = "told", !.cause = "none"]
  <2>1. now' = Pot!updateLevel(d, "win") /\ now.open = "spin"
    BY <1>3 DEF Pot!recordWin
  <2>2. now.bet \in PotBets /\ win \in Nat /\ now.pot \in Nat
    BY <1>1, <2>1, PotAssumption DEF PotKept, PotRec
  <2>3. pot \in Nat
    BY <2>2, PotAmounts DEF Pot!Smaller
  <2>. HIDE DEF pot
  <2>4. d \in PotRec /\ d.cause = "none" /\ d.level = now.level /\ d.docked = now.docked /\ d.open = "told"
    BY <1>1, <2>3 DEF PotRec
  <2>. HIDE DEF d
  <2>5. /\ now'.docked = d.docked /\ now'.cause \in {"none", "win"}
        /\ now'.open = "told" /\ (d.docked => now'.level = d.level)
    BY <2>1, <2>4, PotTells
  <2>. QED
    BY <2>1, <2>4, <2>5 DEF Pot!FallsInTime
<1>4. CASE Pot!recordNoWin \/ Pot!endRound \/ Pot!dock \/ Pot!undock
  <2>1. now'.cause = "none" /\ now'.level = now.level
    BY <1>1, <1>4 DEF Pot!recordNoWin, Pot!endRound, Pot!dock, Pot!undock, PotRec
  <2>2. now.open = "no" => now'.sinceSpin = now.sinceSpin /\ now.sinceSpin \in Nat
    <3>1. CASE Pot!recordNoWin \/ Pot!endRound
      <4>1. Pot!recordNoWin => now.open = "spin" BY Zenon DEF Pot!recordNoWin
      <4>2. Pot!endRound => now.open # "no" BY Zenon DEF Pot!endRound
      <4>. QED BY <3>1, <4>1, <4>2
    <3>2. CASE Pot!dock \/ Pot!undock
      <4>1. PICK docked \in BOOLEAN : now' = [now EXCEPT !.docked = docked, !.cause = "none"]
        BY <3>2 DEF Pot!dock, Pot!undock
      <4>. QED BY <1>1, <4>1 DEF PotRec
    <3>. QED BY <1>4, <3>1, <3>2
  <2>3. ~(now.open = "no" /\ now'.sinceSpin < now.sinceSpin)
    BY <2>2
  <2>. QED
    BY <2>1, <2>3 DEF Pot!FallsInTime
<1>5. CASE Pot!updateOneSecond
  <2>. DEFINE r == [now EXCEPT !.cause = "none"]
              i == Pot!updateIdle(r)
  <2>1. now' = Pot!updatePot(i) /\ ~now.docked
    BY <1>5 DEF Pot!updateOneSecond
  <2>2. /\ r \in PotRec /\ r.bet = now.bet /\ r.pot = now.pot /\ r.level = now.level /\ r.told = now.told
        /\ r.idle = now.idle /\ r.sinceSpin = now.sinceSpin /\ r.open = now.open /\ r.stale = now.stale
        /\ r.docked = now.docked /\ r.cause = "none" /\ r.sinceLevel = now.sinceLevel
    BY <1>1 DEF PotRec
  <2>. HIDE DEF r
  <2>3. Pot!levelForAmount(r, r.pot) = Pot!levelForAmount(now, now.pot)
    BY <2>2 DEF Pot!levelForAmount
  <2>4. PotKept(r) /\ PotLevel(r) /\ ~r.docked
    BY <1>1, <2>1, <2>2, <2>3 DEF PotInv, PotKept, PotLevel
  <2>5. PotKept(i) /\ ~i.docked
    BY <2>4, PotIdles
  <2>6. i.open = r.open /\ (PotLowered(i, r) \/ PotLeft(i, r))
    BY <2>4, PotIdleFalls
  <2>. HIDE DEF i
  <2>7. /\ now'.open = i.open /\ now'.sinceSpin = i.sinceSpin /\ now'.bet = i.bet /\ now'.pot <= i.pot
        /\ now'.pot \in Nat
        /\ \/ now'.level = i.level /\ now'.cause = i.cause
           \/ /\ now'.cause = "drained" /\ i.sinceLevel >= PotLinger - 1 /\ i.pot > 0
              /\ ~(i.level = 0 /\ i.pot < i.bet * PotUpper * 10)
    BY <2>1, <2>5, PotDrainFalls
  <2>8. r.level \in {0, 1} /\ i.pot \in Nat /\ now.sinceSpin \in Nat /\ r.idle \in BOOLEAN
    BY <2>2, <2>5 DEF PotRec, PotKept
  <2>9. CASE PotLowered(i, r)
    <3>1. now.open = "no" BY <2>2, <2>4, <2>9 DEF PotKept, PotLowered
    <3>2. now'.level = 0 /\ now'.cause = i.cause BY <2>7, <2>9 DEF PotLowered
    <3>3. PICK mark : mark = now'.bet * PotUpper * 10 OBVIOUS
    <3>4. i.pot < mark /\ mark \in Nat
      <4>1. i.bet \in PotBets
        <5>1. i.bet # 0 BY <2>8, <2>9, PotAssumption DEF PotLowered
        <5>. QED BY <2>5, <5>1 DEF PotKept
      <4>. QED BY <2>7, <2>9, <3>3, <4>1, PotAmounts DEF PotLowered
    <3>5. now'.pot < mark BY <2>7, <2>8, <3>4
    <3>. QED
      BY <2>1, <2>2, <2>8, <2>9, <3>1, <3>2, <3>3, <3>5 DEF PotLowered, Pot!FallsInTime
  <2>10. CASE PotLeft(i, r)
    <3>1. now'.cause # "idle" BY <2>2, <2>7, <2>10 DEF PotLeft
    <3>2. now'.cause = "drained" => now.sinceLevel >= PotLinger - 1 BY <2>2, <2>7, <2>10 DEF PotLeft
    <3>3. ~(now'.sinceSpin < now.sinceSpin)
      <4>1. now'.sinceSpin = i.sinceSpin /\ i.sinceSpin >= now.sinceSpin BY <2>2, <2>7, <2>10 DEF PotLeft
      <4>2. i.sinceSpin \in Int BY <2>5, PotAssumption DEF PotKept, PotRec
      <4>. QED BY <2>8, <4>1, <4>2
    <3>. QED BY <2>1, <3>1, <3>2, <3>3 DEF Pot!FallsInTime
  <2>. QED BY <2>6, <2>9, <2>10
<1>. QED
  BY <1>2, <1>3, <1>4, <1>5 DEF PotNext
=============================================================================
