------------------------------ MODULE ReelBelt ------------------------------
(***************************************************************************)
(* The travelling belt of one reel (reelMotion.ts, ReelView.ts).  A reel is *)
(* drawn as a window on a belt of strip symbols.  When the reel brakes, the *)
(* cells of the authoritative result replace strip symbols at fixed belt    *)
(* rows, so that they should travel into the window and rest in it exactly. *)
(*                                                                          *)
(* A belt position is its whole number of rows; the fraction only decides,  *)
(* at the brake, whether the target is one row further (Math.ceil).  The    *)
(* identity of a strip symbol is its index on the strip.                    *)
(***************************************************************************)
EXTENDS Integers

CONSTANTS RowCounts,    \* the window heights in use, within 3..8
          StripLength,  \* symbols on a captured strip
          MinTravel,    \* rows a spin travels before any brake may start
          MaxWhole      \* bound: position of the belt when the brake starts

Modes == {"NORMAL", "FAST", "SLOW"}
AdvanceRows == [NORMAL |-> 5, FAST |-> 5, SLOW |-> 18]
FirstViewRow == -5
NoTarget == -1
\* Largest position of the belt: a slow stop at the bound, from a fraction.
LastWhole == MaxWhole + 1 + AdvanceRows["SLOW"]

VARIABLES rowCount,   \* rows of the window
          whole,      \* whole rows travelled (decorativeWholeSteps)
          target,     \* resultInsertion.targetWholeRows, or NoTarget
          origin,     \* spinOriginRows: position at which the spin began
          settled     \* the symbols of the window are the settled views

vars == <<rowCount, whole, target, origin, settled>>

TypeOK == /\ rowCount \in RowCounts /\ {whole, origin} \subseteq 0..LastWhole
          /\ target \in {NoTarget} \cup 0..LastWhole /\ settled \in BOOLEAN

ViewRows(rows) == FirstViewRow..(rows + 1)
Window(rows) == 1..rows

\* The strip index a view row shows; the belt moves down, so it decreases.
decorativeSpinCells(view, steps) ==
  [kind |-> "strip", index |-> (view - FirstViewRow - (steps - FirstViewRow)) % StripLength]

\* What every view row shows, with the result inserted at its belt rows.
Cell(rows, steps, at, view) ==
  LET resultRow == view - steps + at - 1
  IN IF at # NoTarget /\ resultRow \in 0..(rows - 1)
     THEN [kind |-> "result", index |-> resultRow]
     ELSE decorativeSpinCells(view, steps)

reelPresentationCells(rows, steps, at) ==
  [view \in ViewRows(rows) |-> Cell(rows, steps, at, view)]

Cells == reelPresentationCells(rowCount, whole, target)

Init == /\ rowCount = 3
        /\ whole = 0 /\ origin = 0 /\ target = NoTarget /\ settled = TRUE

\* The target after the belt position was reduced to its strip.
Rebased(shift) == IF target = NoTarget THEN NoTarget ELSE target - shift

\* beginSpin: the belt takes over from the settled symbols; the insertion of
\* the last stop stays on it and travels out of the window.
beginSpin == /\ settled
             /\ settled' = FALSE
             /\ whole' = whole % StripLength /\ origin' = whole'
             /\ target' = Rebased(whole - whole')
             /\ UNCHANGED rowCount

\* A frame of the spin that crosses a whole row.
applySpinFrame == /\ ~settled /\ target <= origin /\ whole < MaxWhole
                  /\ whole' = whole + 1
                  /\ UNCHANGED <<rowCount, target, origin, settled>>

\* stopAt: the result is inserted ahead, from the next whole row.
TargetRows(steps, fraction, mode) ==
  steps + (IF fraction THEN 1 ELSE 0) + AdvanceRows[mode]

stopAt == /\ ~settled /\ target <= origin /\ whole >= origin + MinTravel
          /\ \E fraction \in BOOLEAN, mode \in Modes :
               target' = TargetRows(whole, fraction, mode)
          /\ UNCHANGED <<rowCount, whole, origin, settled>>

\* A frame of the brake that crosses a whole row.
Brake == /\ ~settled /\ whole < target
         /\ whole' = whole + 1
         /\ UNCHANGED <<rowCount, target, origin, settled>>

\* The impact: the settled views replace the belt at its target.
commitRequestedStopImpact == /\ ~settled /\ target = whole
                             /\ settled' = TRUE
                             /\ UNCHANGED <<rowCount, whole, target, origin>>

\* setLayout of another row count drops an insertion of another height.
applyLayout == /\ settled
               /\ \E rows \in RowCounts \ {rowCount} :
                    rowCount' = rows /\ target' = NoTarget
               /\ UNCHANGED <<whole, origin, settled>>

\* A captured strip of another feature mode starts at its first row.
setVisualStripMode == /\ settled
                      /\ whole' = 0 /\ target' = NoTarget
                      /\ UNCHANGED <<rowCount, origin, settled>>

Next == \/ beginSpin \/ applySpinFrame \/ stopAt \/ Brake
        \/ commitRequestedStopImpact \/ applyLayout \/ setVisualStripMode

Spec == Init /\ [][Next]_vars

-----------------------------------------------------------------------------
(* At the target the window shows the result, every row at its own place   *)
(* (the settled views that replace the belt must not make it jump).         *)
LandsExactly ==
  whole = target => \A row \in Window(rowCount) :
                      Cells[row] = [kind |-> "result", index |-> row - 1]

(* While the belt moves by a row, every symbol of the window moves down by  *)
(* a row: none changes its identity under the player's eye.                  *)
Continuous ==
  [][ whole' = whole + 1 =>
        \A view \in FirstViewRow..rowCount : Cells'[view + 1] = Cells[view] ]_vars

(* When the brake inserts the result into a reel of up to five rows, the     *)
(* part of the window that is on screen keeps its symbols.                    *)
InsertedOffScreen ==
  [][ target' > whole' /\ target # target' /\ rowCount <= 5 =>
        \A row \in Window(rowCount) : Cells'[row] = Cells[row] ]_vars
=============================================================================
