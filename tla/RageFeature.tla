---------------------------- MODULE RageFeature ----------------------------
(***************************************************************************)
(* FeatureEffects.ts, the Rage symbols.  The cascade: the cells explode    *)
(* one after the other along an authored timeline, the ape pounds, the new *)
(* Rage symbols are activated.  The collection: the symbols are lifted     *)
(* above the reels, flown to the tower, put back and hidden; the           *)
(* controller goes on once the tower was told, a millisecond later, while  *)
(* the flight is still drawn.  Frames may come late and skip any part of a *)
(* timeline (reduced motion squeezes the whole of it into a few frames),   *)
(* and a round that fails cancels at any moment.                           *)
(* Left out: the capture tool's pause of either clock, and the collection  *)
(* drawn without artwork, which has the same barrier and lifts nothing.    *)
(***************************************************************************)
EXTENDS Integers, Sequences, FiniteSets

CONSTANTS
  Cells,                                       \* cells of the cascade
  Swing, PerCell, Cooldown, Pound, Activated,  \* its timeline
  HiddenAfter,                                 \* from the activation on
  Absorbing, LayerBack, Gone, Flight,          \* the collection's timeline
  Jump                                         \* longest stretch between frames

VARIABLE s

\* rageCascadePlan
CascadeComplete == Swing + PerCell * Cells
PoundAt == CascadeComplete + Cooldown
ActivationAt == PoundAt + Pound
Total == ActivationAt + Activated
Milestones ==
  [i \in 1..(Cells + 2) |->
    IF i <= Cells THEN [type |-> "cell", at |-> Swing + (i - 1) * PerCell]
    ELSE IF i = Cells + 1 THEN [type |-> "pound", at |-> PoundAt]
    ELSE [type |-> "activation", at |-> ActivationAt]]
\* What is told of a cascade and of a collection, in the authored order.
CascadeOrder == <<"started", "exploding", "placed", "pound", "activation",
                  "source-hidden", "complete">>
CollectionOrder == <<"started", "absorbing", "source-hidden", "complete">>

TypeOK ==
  /\ s.cascade \in {"none", "runs", "settled"} /\ s.flight \in {"none", "flies", "settled"}
  /\ s.commit \in {"none", "timer", "fired", "over"}
  /\ {s.cancelled, s.cleaned, s.placed, s.hid, s.lifted, s.away, s.absorbed, s.current,
      s.gone} \subseteq BOOLEAN
  /\ s.elapsed \in 0..Total /\ s.next \in 1..(Cells + 3) /\ s.revealed \in 0..Cells
  /\ s.reels \in {"off", "prepared", "activated"} /\ s.kept \in -1..1
  /\ s.flown \in 0..Flight /\ s.reacted \in 0..2
  /\ \A i \in DOMAIN s.notes : s.notes[i] \in {CascadeOrder[j] : j \in DOMAIN CascadeOrder}
  /\ \A i \in DOMAIN s.told : s.told[i] \in {CollectionOrder[j] : j \in DOMAIN CollectionOrder}

Init ==
  s = [cascade |-> "none", cancelled |-> FALSE, cleaned |-> TRUE, elapsed |-> 0, next |-> 1,
       revealed |-> 0, placed |-> FALSE, hid |-> FALSE, reels |-> "off", kept |-> 0,
       notes |-> << >>, flight |-> "none", flown |-> 0, lifted |-> FALSE, away |-> FALSE,
       absorbed |-> FALSE, told |-> << >>, commit |-> "none", reacted |-> 0,
       current |-> TRUE, gone |-> FALSE]

\* No promise has settled whose continuation is still to run.
Between == s.cascade # "settled" /\ s.flight # "settled" /\ s.commit # "fired"
Idle == s.cascade = "none" /\ s.flight = "none" /\ s.commit \in {"none", "over"} /\ ~s.gone
Note(t, phase) == [t EXCEPT !.notes = Append(@, phase)]
Tell(t, phase) == [t EXCEPT !.told = Append(@, phase)]

-----------------------------------------------------------------------------
(* The cascade.  kept counts the reels' preparations not yet completed.    *)
presentRageCascade ==
  /\ Between /\ Idle
  /\ s' = [s EXCEPT !.cascade = "runs", !.cancelled = FALSE, !.cleaned = FALSE,
                    !.elapsed = 0, !.next = 1, !.revealed = 0, !.placed = FALSE,
                    !.hid = FALSE, !.reels = "prepared", !.kept = @ + 1,
                    !.notes = <<"started">>, !.current = TRUE]

\* One milestone; the cells count as placed before any later one is shown.
Placed(t) == IF t.placed THEN t ELSE Note([t EXCEPT !.placed = TRUE], "placed")
Shown(t, type) ==
  LET u == [t EXCEPT !.next = @ + 1] IN
  CASE type = "cell" -> LET v == [u EXCEPT !.revealed = @ + 1]
                        IN  IF t.revealed = 0 THEN Note(v, "exploding") ELSE v
    [] type = "pound" -> Note(u, "pound")
    [] OTHER -> Note([u EXCEPT !.reels = "activated"], "activation")
Reached(t, i) ==
  Shown(IF Milestones[i].at > CascadeComplete THEN Placed(t) ELSE t, Milestones[i].type)
\* Every milestone that is due at t.elapsed, in the order of the timeline.
Due(t) ==
  LET upTo[i \in 0..Len(Milestones)] ==
        IF i = 0 THEN t
        ELSE IF i < t.next \/ Milestones[i].at > t.elapsed THEN upTo[i - 1]
        ELSE Reached(upTo[i - 1], i)
  IN  upTo[Len(Milestones)]
Followed(t) ==
  LET p == IF t.elapsed >= CascadeComplete THEN Placed(t) ELSE t
  IN  IF ~p.hid /\ p.elapsed >= ActivationAt + HiddenAfter
      THEN Note([p EXCEPT !.hid = TRUE], "source-hidden") ELSE p

CascadeFrame(d) ==
  /\ Between /\ s.cascade = "runs"
  /\ LET at == IF s.elapsed + d < Total THEN s.elapsed + d ELSE Total
         t == Followed(Due([s EXCEPT !.elapsed = at]))
     IN  s' = IF at = Total THEN [t EXCEPT !.cascade = "settled"] ELSE t
CascadeFrameFails ==
  /\ Between /\ s.cascade = "runs" /\ s.next > 1
  /\ s' = [s EXCEPT !.cascade = "settled", !.cancelled = TRUE]

cleanupRageCascade(t) ==
  IF t.cleaned THEN t ELSE [t EXCEPT !.cleaned = TRUE, !.reels = "off", !.kept = @ - 1]
CascadeGoesOn ==
  /\ s.cascade = "settled"
  /\ LET t == cleanupRageCascade([s EXCEPT !.cascade = "none"])
     IN  s' = IF s.cancelled \/ s.gone THEN t ELSE Note(t, "complete")

-----------------------------------------------------------------------------
(* The collection.  lifted: the symbols hang above the reels' own layer;   *)
(* away: they are hidden for the landing that follows.                     *)
presentAuthoredSurgeCollection ==
  /\ Between /\ Idle
  /\ s' = [s EXCEPT !.flight = "flies", !.flown = 0, !.lifted = TRUE, !.away = FALSE,
                    !.absorbed = FALSE, !.told = <<"started">>, !.commit = "timer",
                    !.current = TRUE, !.reacted = 0]

LayerReturned(t) == [t EXCEPT !.lifted = FALSE]
Hidden(t) == [t EXCEPT !.away = TRUE]
FlightDue(t) ==
  LET a == IF t.flown >= Absorbing /\ ~t.absorbed
           THEN Tell([t EXCEPT !.absorbed = TRUE], "absorbing") ELSE t
      b == IF t.flown >= LayerBack THEN LayerReturned(a) ELSE a
  IN  IF t.flown >= Gone /\ ~t.away THEN Tell(Hidden(b), "source-hidden") ELSE b
FlightFrame(d) ==
  /\ Between /\ s.flight = "flies"
  /\ LET at == IF s.flown + d < Flight THEN s.flown + d ELSE Flight
         t == FlightDue([s EXCEPT !.flown = at])
     IN  s' = IF at = Flight THEN [t EXCEPT !.flight = "settled"] ELSE t
FlightFrameFails ==
  /\ Between /\ s.flight = "flies" /\ s.flown > 0
  /\ s' = [s EXCEPT !.flight = "settled"]
\* Only the presentation that is still current touches the symbols.
Finally(t) == IF t.current THEN Hidden(LayerReturned(t)) ELSE t
FlightGoesOn ==
  /\ s.flight = "settled"
  /\ LET t == Finally([s EXCEPT !.flight = "none"])
     IN  s' = IF s.flown = Flight THEN Tell(t, "complete") ELSE t

CommitTimer ==
  /\ Between /\ s.commit = "timer"
  /\ s' = [s EXCEPT !.commit = "fired"]
commitRageCollectionAfterBarrier ==
  /\ s.commit = "fired"
  /\ s' = [s EXCEPT !.commit = "over", !.reacted = IF s.current THEN @ + 1 ELSE @]

-----------------------------------------------------------------------------
(* A failed round: the effects are cancelled and the reels put back.       *)
Cancelled(t) ==
  LET u == IF t.cascade = "none" THEN t ELSE cleanupRageCascade([t EXCEPT !.cancelled = TRUE])
  IN  [u EXCEPT !.current = FALSE, !.cascade = IF @ = "runs" THEN "settled" ELSE @,
                !.flight = IF @ = "flies" THEN "settled" ELSE @,
                !.commit = IF @ = "timer" THEN "fired" ELSE @]
cancelSpinPresentation ==
  /\ Between /\ s.current /\ ~Idle /\ ~s.gone
  /\ s' = [Cancelled(s) EXCEPT !.lifted = FALSE]
destroy ==
  /\ Between /\ ~s.gone
  /\ s' = [Cancelled(s) EXCEPT !.gone = TRUE, !.lifted = FALSE]

Next ==
  \/ presentRageCascade \/ \E d \in 1..Jump : CascadeFrame(d)
  \/ CascadeFrameFails \/ CascadeGoesOn
  \/ presentAuthoredSurgeCollection \/ \E d \in 1..Jump : FlightFrame(d)
  \/ FlightFrameFails \/ FlightGoesOn \/ CommitTimer \/ commitRageCollectionAfterBarrier
  \/ cancelSpinPresentation \/ destroy

\* Frames are drawn, the timer fires and promises go on.
Progress ==
  \/ \E d \in 1..Jump : CascadeFrame(d)
  \/ CascadeGoesOn \/ \E d \in 1..Jump : FlightFrame(d)
  \/ FlightGoesOn \/ CommitTimer \/ commitRageCollectionAfterBarrier
Spec == Init /\ [][Next]_s /\ WF_s(Progress)

-----------------------------------------------------------------------------
IsPrefixOf(short, long) ==
  Len(short) <= Len(long) /\ \A i \in DOMAIN short : short[i] = long[i]

(* However late a frame comes, the beats of a cascade and of a collection  *)
(* are told in the order they were authored, each once, and the ape pounds *)
(* only when every cell has been revealed.  FeatureEffects.ts:3048-3176.   *)
BeatsInOrder ==
  /\ IsPrefixOf(s.notes, CascadeOrder)
  /\ \A i \in DOMAIN s.notes : s.notes[i] = "pound" => s.revealed = Cells
  /\ s.flight # "none" /\ s.flown < Flight => IsPrefixOf(s.told, CollectionOrder)

(* The reels are prepared for as long as a cascade owns them and given     *)
(* back exactly once; after a collection no symbol is left above them.     *)
(* FeatureEffects.ts:1890-1916, 3184-3196, 3330-3343.                      *)
ReelsGivenBack ==
  /\ s.kept = IF s.reels = "off" THEN 0 ELSE 1
  /\ s.cascade = "none" => s.reels = "off"
  /\ s.flight = "none" => ~s.lifted

(* What was cancelled neither touches the symbols again nor makes the      *)
(* tower react; the tower reacts once.  FeatureEffects.ts:2092-2108.       *)
QuietOnceCancelled ==
  /\ s'.reacted <= 1
  /\ ~s.current /\ ~s'.current =>
       s'.reacted = s.reacted /\ s'.away = s.away /\ s'.lifted = s.lifted

(* Every cascade and every collection ends.                                *)
Waits == s.cascade # "none" \/ s.flight # "none" \/ s.commit \in {"timer", "fired"}
Ended == s.cascade = "none" /\ s.flight = "none" /\ s.commit \in {"none", "over"}
=============================================================================
