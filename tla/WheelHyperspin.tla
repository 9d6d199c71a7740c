--------------------------- MODULE WheelHyperspin ---------------------------
(***************************************************************************)
(* DomOverlay.ts: the flame over the spin control while the wheel waits to *)
(* be spun.  It appears, loops and disappears frame by frame; hiding it    *)
(* lets the pass under way finish first, and if it is wanted again by the  *)
(* time it has gone, it appears anew.                                      *)
(***************************************************************************)
EXTENDS Integers

CONSTANTS
  Appear,      \* frames of appearing and of a loop (16)
  Disappear    \* frames of disappearing (14)

VARIABLE s

Phases == {"none", "appear", "loop", "disappear"}
TypeOK ==
  /\ s.phase \in Phases /\ s.frame \in 0..Appear
  /\ {s.hideRequested, s.visibleRequested, s.handle, s.alive} \subseteq BOOLEAN
Init == s = [phase |-> "none", frame |-> 0, hideRequested |-> FALSE,
             visibleRequested |-> FALSE, handle |-> FALSE, alive |-> TRUE]

nextWheelHyperspinFrame(t) ==
  LET length == IF t.phase = "disappear" THEN Disappear ELSE Appear IN
  IF t.frame < length - 1 THEN [t EXCEPT !.frame = @ + 1]
  ELSE [t EXCEPT !.frame = 0, !.phase = IF @ = "disappear" THEN "none"
                                       ELSE IF t.hideRequested THEN "disappear" ELSE "loop"]
beginAppear(t) ==
  [t EXCEPT !.phase = "appear", !.frame = 0, !.hideRequested = FALSE, !.handle = TRUE]

setVisible(visible) ==
  /\ s.alive /\ s.visibleRequested # visible
  /\ LET t == [s EXCEPT !.visibleRequested = visible] IN
     s' = IF visible THEN IF t.phase = "none" THEN beginAppear(t) ELSE t
          ELSE [t EXCEPT !.hideRequested = @ \/ t.phase # "none"]
tick ==
  /\ s.handle
  /\ LET t == nextWheelHyperspinFrame(s) IN
     s' = IF t.phase = "none"
          THEN IF t.visibleRequested THEN beginAppear(t) ELSE [t EXCEPT !.handle = FALSE]
          ELSE t
destroy ==
  /\ s.alive
  /\ s' = [s EXCEPT !.handle = FALSE, !.phase = "none", !.frame = 0,
                    !.visibleRequested = FALSE, !.alive = FALSE]

Next == (\E visible \in BOOLEAN : setVisible(visible)) \/ tick \/ destroy
Progress == tick
Spec == Init /\ [][Next]_s /\ WF_s(Progress)

-----------------------------------------------------------------------------
(* It is never seen without a frame to move it on; a wanted flame is seen. *)
Moves ==
  /\ s.handle <=> s.phase # "none"
  /\ s.visibleRequested => s.phase # "none"

(* Every pass is finished before the next begins, and the flame is hidden  *)
(* only by disappearing to the end, unwanted.                              *)
HiddenGently ==
  (s.phase # "none" /\ s'.phase # s.phase /\ s'.alive) =>
    /\ s.frame = (IF s.phase = "disappear" THEN Disappear ELSE Appear) - 1
    /\ s'.phase = "none" => s.phase = "disappear" /\ ~s.visibleRequested

(* One no longer wanted goes, unless it is wanted again first; one that    *)
(* stays wanted comes to burn steadily.                                    *)
Waits == ~s.visibleRequested /\ s.phase # "none"
Ended == s.phase = "none" \/ s.visibleRequested
Wanted == s.visibleRequested
Steady == s.phase = "loop" \/ ~s.visibleRequested
=============================================================================
