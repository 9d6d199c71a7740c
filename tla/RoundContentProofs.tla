------------------------- MODULE RoundContentProofs -------------------------
(***************************************************************************)
(* Theorems about the parts of the page that drive a round and show it,    *)
(* as the specification that TLC checks moves them: StageProofs and        *)
(* CharacterProofs say of each part that its calls keep its invariant, and *)
(* a behaviour moves one part.  They hold for every bound the assumptions  *)
(* of RoundStage allow.                                                    *)
(***************************************************************************)
EXTENDS MCRoundContent, StageProofs, CharacterProofs

StageParts == {"controls", "messages", "cycle", "music", "audible", "pot", "character"}

\* The invariant of the part that moves.
StageInv ==
  /\ part = "controls" => CtlInv
  /\ part = "messages" => MsgInv
  /\ part = "cycle" => CycInv
  /\ part = "music" => TuneInv
  /\ part = "audible" => AudInv
  /\ part = "pot" => PotInv
  /\ part = "character" => ApeInv

\* Every part begins in its invariant: a page that opens owes nothing.
LEMMA StageStarts == Init => StageInv
<1>. SUFFICES ASSUME Init PROVE StageInv OBVIOUS
<1>1. StageInit \/ part \notin StageParts BY Zenon DEF Init, StageParts
<1>2. CASE part \notin StageParts BY <1>2 DEF StageInv, StageParts
<1>3. CASE StageInit
  <2>1. \/ part = "controls" /\ CtlInv
        \/ part = "messages" /\ MsgInv
        \/ part = "cycle" /\ CycInv
        \/ part = "music" /\ TuneInv
        \/ part = "audible" /\ AudInv
        \/ part = "pot" /\ PotInv
        \/ part = "character" /\ ApeInv
    BY <1>3, CtlStarts, MsgStarts, CycStarts, TuneStarts, AudStarts, PotStarts, ApeStarts DEF StageInit
  <2>. QED BY <2>1 DEF StageInv
<1>. QED BY <1>1, <1>2, <1>3

\* A call of the page is a call of one part, and the part stays the one it was.
LEMMA StageTurns ==
  ASSUME Next
  PROVE  /\ part' = part
         /\ \/ part = "controls" /\ CtlAny
            \/ part = "messages" /\ MsgNext
            \/ part = "cycle" /\ Cycle!Next
            \/ part = "music" /\ TuneNext
            \/ part = "audible" /\ AudNext
            \/ part = "pot" /\ PotNext
            \/ part = "character" /\ ApeNext
            \/ part \notin StageParts
<1>1. CASE StageNext
  <2>1. part' = part BY <1>1, Zenon DEF StageNext, Only
  <2>2. part = "controls" => CtlAny BY <1>1 DEF StageNext, Only, CtlAny
  <2>3. part = "messages" => MsgNext BY <1>1 DEF StageNext, Only, MsgNext
  <2>4. part = "cycle" => Cycle!Next BY <1>1 DEF StageNext, Only, Cycle!Next
  <2>5. part = "music" => TuneNext BY <1>1 DEF StageNext, Only, TuneNext
  <2>6. part = "audible" => AudNext BY <1>1 DEF StageNext, Only, AudNext
  <2>7. part = "pot" => PotNext BY <1>1 DEF StageNext, Only, PotNext
  <2>8. part = "character" => ApeNext BY <1>1 DEF StageNext, Only, ApeNext
  <2>. QED BY <2>1, <2>2, <2>3, <2>4, <2>5, <2>6, <2>7, <2>8 DEF StageParts
<1>2. CASE ~StageNext
  <2>1. \/ Only("ledger") \/ Only("money") \/ Only("sprite") \/ Only("bigwin") \/ Only("coins")
        \/ Only("wire") \/ Only("cabinet") \/ Only("kept")
    BY <1>2, SMT DEF Next
  <2>. QED BY <2>1 DEF Only, StageParts
<1>. QED BY <1>1, <1>2

\* Every call keeps the invariant of its part, and does only what it may.
LEMMA StageMoves == StageInv /\ Next => StageInv' /\ StageStep
<1>. SUFFICES ASSUME StageInv, Next PROVE StageInv' /\ StageStep OBVIOUS
<1>1. part' = part BY StageTurns
<1>2. CASE part = "controls"
  <2>1. CtlInv /\ CtlAny BY <1>2, StageTurns DEF StageInv, StageParts
  <2>2. CtlInv' /\ Controls!WinStops BY <2>1, CtlSteps
  <2>. QED BY <1>1, <1>2, <2>2 DEF StageInv, StageStep
<1>3. CASE part = "messages"
  <2>1. MsgInv /\ MsgNext BY <1>3, StageTurns DEF StageInv, StageParts
  <2>2. MsgInv' BY <2>1, MsgSteps
  <2>. QED BY <1>1, <1>3, <2>2 DEF StageInv, StageStep
<1>4. CASE part = "cycle"
  <2>1. CycInv /\ Cycle!Next BY <1>4, StageTurns DEF StageInv, StageParts
  <2>2. CycInv' /\ Cycle!CycleWhole /\ Cycle!MeterKept BY <2>1, CycSteps, CycWholeSteps
  <2>. QED BY <1>1, <1>4, <2>2 DEF StageInv, StageStep
<1>5. CASE part = "music"
  <2>1. TuneInv /\ TuneNext BY <1>5, StageTurns DEF StageInv, StageParts
  <2>2. TuneInv' BY <2>1, TuneSteps
  <2>. QED BY <1>1, <1>5, <2>2 DEF StageInv, StageStep
<1>6. CASE part = "audible"
  <2>1. AudInv /\ AudNext BY <1>6, StageTurns DEF StageInv, StageParts
  <2>2. AudInv' BY <2>1, AudSteps
  <2>. QED BY <1>1, <1>6, <2>2 DEF StageInv, StageStep
<1>7. CASE part = "pot"
  <2>1. PotInv /\ PotNext BY <1>7, StageTurns DEF StageInv, StageParts
  <2>2. PotInv' /\ Pot!FallsInTime BY <2>1, PotSteps, PotFalls
  <2>. QED BY <1>1, <1>7, <2>2 DEF StageInv, StageStep
<1>8. CASE part = "character"
  <2>1. ApeInv /\ ApeNext BY <1>8, StageTurns DEF StageInv, StageParts
  <2>2. ApeInv' /\ Ape!ExitIsClean BY <2>1, ApeSteps, ApeLeavesClean
  <2>. QED BY <1>1, <1>8, <2>2 DEF StageInv, StageStep
<1>9. CASE part \notin StageParts BY <1>1, <1>9 DEF StageInv, StageStep, StageParts
<1>. QED BY <1>2, <1>3, <1>4, <1>5, <1>6, <1>7, <1>8, <1>9 DEF StageParts

\* A step in which nothing moves keeps the invariant.
LEMMA StageStands == StageInv /\ UNCHANGED vars => StageInv'
BY DEF StageInv, vars, CtlInv, MsgInv, CycInv, TuneInv, AudInv, PotInv, ApeInv

\* What is asked of the parts that drive a round follows from their invariants.
LEMMA RoundFollows == StageInv => RoundRight
BY CtlRight, MsgRight, CycRight DEF StageInv, RoundRight

\* What is asked of the parts that are seen and heard follows from their invariants.
LEMMA StageFollows == StageInv => StageRight
BY TuneRight, AudRight, PotRight, ApeRight DEF StageInv, StageRight

\* The invariant of the part that moves holds in every state of the page.
LEMMA StageInvariant == Spec => []StageInv
<1>1. StageInv /\ [Next]_vars => StageInv' BY StageMoves, StageStands
<1>. QED BY StageStarts, <1>1, PTL DEF Spec

\* The controls (DomOverlay.ts and its autoplay), the messages and meter of a round
\* and the feature state a result may come to: no press is forgotten and none is made
\* after a run was stopped, every counter is answered once and the meter says what is
\* won, and a sound result is accepted and leads to the state it tells of.
THEOREM RoundAlwaysRight == Spec => []RoundRight
<1>. QED BY StageInvariant, RoundFollows, PTL

\* The character of LaunchScene.ts, the music of the controller, the audibility of the
\* page and the pot of the base music: every clip is shown whole and handed over, and
\* the body stands, loops and pounds as the mode and the wheel have it; loops and stem
\* fit the moment and none is left over, a page in front comes to be heard and one in
\* the back is silent, and the pot's level is that of its money.
THEOREM StageAlwaysRight == Spec => []StageRight
<1>. QED BY StageInvariant, StageFollows, PTL

\* What no call of these parts does: a win ends the run that was to stop at it before
\* the round is over, a result moves the feature state and its meter whole, the pot's
\* level falls only when it may, and a feature's exit leaves the character clean.
THEOREM StageStepsRight == Spec => [][StageStep]_now
<1>1. StageInv /\ [Next]_vars => [StageStep]_now BY StageMoves DEF vars
<1>. QED BY StageInvariant, <1>1, PTL DEF Spec
=============================================================================
