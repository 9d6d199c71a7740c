----------------------------- MODULE FreeSpinHud -----------------------------
(***************************************************************************)
(* The counter of free spins and the panel of their limit                   *)
(* (web/src/renderer/FreeSpinHudView.ts).  Every presentation waits for the *)
(* artwork or for its animation and goes on only while its operation number *)
(* is the last one; the artwork itself may be released and loaded anew      *)
(* meanwhile, because a package lease ends or a session is restored.        *)
(*                                                                         *)
(* A coroutine is a record: its kind, its operation and where it waits.     *)
(* Without a capture checkpoint, which only the visual fixtures install.    *)
(***************************************************************************)
EXTENDS Integers, FiniteSets

CONSTANTS Calls          \* bound on the calls of the owner

VARIABLE s

Kinds == {"show", "hide", "cap"}
Waits4 == {"artwork", "hiding", "panel-show", "hold", "panel-hide"}
Coroutines == [kind : Kinds, op : 1 .. Calls, at : Waits4, gen : 0 .. Calls]
Loads == {"none", "running", "loaded"}

Init ==
  s = [load |-> "none", gen |-> 0, stale |-> {}, desired |-> "hidden", active |-> FALSE,
       counter |-> FALSE, panel |-> FALSE, root |-> FALSE, cop |-> 0, rop |-> 0,
       capShown |-> FALSE, prompt |-> FALSE, open |-> 0, why |-> "none", run |-> {},
       disposed |-> FALSE, calls |-> Calls]

Call(x) == [x EXCEPT !.calls = @ - 1]

-----------------------------------------------------------------------------
(* The parts of the handlers *)

applyAuthoritativeState(x, active) == [x EXCEPT !.active = active]

syncRootVisibility(x) == [x EXCEPT !.root = x.counter \/ x.panel]

\* The prompt is closed and its owner told; its coroutine goes on by itself.
notifyCapClose(x, why) == [x EXCEPT !.prompt = FALSE, !.open = @ - 1, !.why = why]
cancelCapContinue(x) == IF x.prompt THEN notifyCapClose(x, "cancelled") ELSE x

\* The coroutine of the limit that holds the panel is released by the prompt.
\* It is of an older operation by then, or goes on to hide the panel.
Released(x) ==
  LET held == {c \in x.run : c.at = "hold"}
      goes == {c \in held : c.op = x.rop}
  IN [x EXCEPT !.run = (@ \ held) \union {[c EXCEPT !.at = "panel-hide"] : c \in goes}]

\* One attempt at a time loads the artwork; one that was released goes on and
\* fails when it comes.
loadArtwork(x) == IF x.load = "none" THEN [x EXCEPT !.load = "running"] ELSE x

Await(x, c) == [x EXCEPT !.run = @ \union {c}]

ShowGoesOn(x, c) ==
  IF c.op # x.cop \/ x.desired # "shown" THEN x
  ELSE [x EXCEPT !.counter = TRUE, !.root = TRUE]

CapGoesOn(x, c) ==
  IF c.op # x.rop THEN x
  ELSE Await([x EXCEPT !.counter = TRUE, !.panel = TRUE, !.root = TRUE],
             [c EXCEPT !.at = "panel-show"])

\* With the artwork at hand the coroutine goes on in the same turn.
WithArtwork(x, c) ==
  IF x.load # "loaded" THEN Await(loadArtwork(x), [c EXCEPT !.gen = x.gen])
  ELSE IF c.kind = "show" THEN ShowGoesOn(x, c) ELSE CapGoesOn(x, c)

Coroutine(kind, op) == [kind |-> kind, op |-> op, at |-> "artwork", gen |-> 0]

clearArtwork(x) ==
  LET y == Released(cancelCapContinue([x EXCEPT
             !.gen = @ + 1, !.cop = @ + 1, !.rop = @ + 1,
             !.stale = IF x.load = "running" THEN @ \union {x.gen} ELSE @,
             !.load = "none"]))
  IN [y EXCEPT !.counter = FALSE, !.panel = FALSE, !.root = FALSE]

-----------------------------------------------------------------------------
(* The calls *)

Owner == ~s.disposed /\ s.calls > 0
\* A round awaits one presentation before the next (AppController.presentEffect);
\* a summary hides the counter and a session restores it at any time.
Presented == \A c \in s.run : c.kind = "hide"

show(active) ==
  /\ Owner /\ Presented
  /\ LET x == Call(applyAuthoritativeState(s, active))
         y == Released(cancelCapContinue(
                [x EXCEPT !.cop = @ + 1, !.capShown = FALSE,
                          !.desired = IF active THEN "shown" ELSE "hidden"]))
     IN s' = IF active THEN WithArtwork(y, Coroutine("show", y.cop))
             ELSE syncRootVisibility([y EXCEPT !.counter = FALSE])

hide ==
  /\ Owner
  /\ LET x == [Call(s) EXCEPT !.cop = @ + 1, !.desired = "hidden", !.rop = @ + 1]
         y == [Released(cancelCapContinue(x)) EXCEPT !.panel = FALSE]
     IN s' = IF y.load = "loaded" /\ y.counter
             THEN Await(y, [Coroutine("hide", y.cop) EXCEPT !.at = "hiding"])
             ELSE syncRootVisibility([y EXCEPT !.counter = FALSE])

restoreFeatureState(active) ==
  /\ Owner
  /\ LET x == Call(applyAuthoritativeState(s, active))
         y == Released(cancelCapContinue([x EXCEPT !.cop = @ + 1, !.rop = @ + 1]))
         z == [y EXCEPT !.desired = IF active THEN "shown" ELSE "hidden",
                        !.capShown = @ /\ active, !.panel = FALSE, !.counter = active]
     IN s' = IF active THEN [z EXCEPT !.root = TRUE] ELSE syncRootVisibility(z)

updateFeatureState(active) ==
  /\ ~s.disposed /\ active # s.active
  /\ s' = applyAuthoritativeState(s, active)

\* The state behind the last spin of the limit may be the base game: then the
\* projection that is shown stays.
retriggerCap(active) ==
  /\ Owner /\ Presented /\ ~s.capShown
  /\ LET x == Call(IF active \/ ~s.active THEN applyAuthoritativeState(s, active) ELSE s)
         y == [x EXCEPT !.capShown = TRUE, !.desired = "shown", !.cop = @ + 1,
                        !.rop = @ + 1]
     IN s' = IF x.active THEN WithArtwork(y, Coroutine("cap", y.rop)) ELSE x

requestCapContinue ==
  /\ s.prompt
  /\ s' = Released(notifyCapClose(s, "continue"))

adoptVerifiedFeatureArtwork ==
  /\ Owner /\ s.load = "none"
  /\ s' = loadArtwork(Call(s))

releaseVerifiedFeatureArtwork ==
  /\ Owner
  /\ s' = clearArtwork(Call(s))

destroy ==
  /\ Owner
  /\ s' = [clearArtwork(Call(s)) EXCEPT !.disposed = TRUE]

-----------------------------------------------------------------------------
(* What is awaited *)

RECURSIVE GoOn(_, _)
GoOn(x, cs) ==
  IF cs = {} THEN x
  ELSE LET c == CHOOSE d \in cs : \A e \in cs : d.kind = "cap" => e.kind = "cap"
       IN GoOn(IF c.kind = "show" THEN ShowGoesOn(x, c) ELSE CapGoesOn(x, c), cs \ {c})

\* Whoever waits for the artwork shares the fate of its attempt.
ArtworkSettles ==
  /\ s.load = "running"
  /\ LET of == {c \in s.run : c.at = "artwork" /\ c.gen = s.gen}
         x == [s EXCEPT !.run = @ \ of]
     IN \/ s' = GoOn([x EXCEPT !.load = "loaded"], of)
        \/ s' = [x EXCEPT !.load = "none"]

StaleArtwork ==
  \E g \in s.stale :
    s' = [s EXCEPT !.stale = @ \ {g},
                   !.run = {c \in @ : c.at # "artwork" \/ c.gen # g}]

HideOver ==
  \E c \in s.run :
    /\ c.at = "hiding"
    /\ LET x == [s EXCEPT !.run = @ \ {c}]
       IN s' = IF c.op # s.cop THEN x ELSE syncRootVisibility([x EXCEPT !.counter = FALSE])

PanelShown ==
  \E c \in s.run :
    /\ c.at = "panel-show"
    /\ LET x == [s EXCEPT !.run = @ \ {c}]
       IN s' = IF c.op # s.rop THEN x
               ELSE Await([x EXCEPT !.prompt = TRUE, !.open = @ + 1],
                          [c EXCEPT !.at = "hold"])

HoldOver ==
  /\ s.prompt
  /\ s' = Released(notifyCapClose(s, "timeout"))

PanelOver ==
  \E c \in s.run :
    /\ c.at = "panel-hide"
    /\ LET x == [s EXCEPT !.run = @ \ {c}]
       IN s' = IF c.op # s.rop THEN x ELSE syncRootVisibility([x EXCEPT !.panel = FALSE])

Next ==
  \/ \E active \in BOOLEAN :
       show(active) \/ restoreFeatureState(active) \/ updateFeatureState(active)
       \/ retriggerCap(active)
  \/ hide \/ requestCapContinue \/ adoptVerifiedFeatureArtwork
  \/ releaseVerifiedFeatureArtwork \/ destroy
  \/ ArtworkSettles \/ StaleArtwork \/ HideOver \/ PanelShown \/ HoldOver \/ PanelOver

\* Timers fire and an attempt to load settles.
Progress ==
  ArtworkSettles \/ StaleArtwork \/ HideOver \/ PanelShown \/ HoldOver \/ PanelOver

-----------------------------------------------------------------------------
(* Properties *)

(* The types of the fields of the record.                                  *)
TypeOK ==
  /\ s.load \in Loads /\ s.desired \in {"shown", "hidden"} /\ s.run \subseteq Coroutines
  /\ s.stale \subseteq 0 .. Calls /\ s.calls \in 0 .. Calls

(* A counter that is shown is wanted, or its hiding animation runs; the     *)
(* panel is shown only while its own presentation holds it; the root shows  *)
(* exactly when one of them does.                                          *)
HudRight ==
  /\ s.counter => s.desired = "shown" \/ \E c \in s.run : c.at = "hiding" /\ c.op = s.cop
  /\ s.panel => \E c \in s.run : c.kind = "cap" /\ c.op = s.rop /\ c.at # "artwork"
  /\ s.root <=> s.counter \/ s.panel
  /\ s.prompt => s.panel
  /\ s.disposed => ~s.root

(* The owner of the prompt hears of every opening one close, at once.       *)
PromptClosed == s.open = IF s.prompt THEN 1 ELSE 0

\* The panel never stays: its presentation ends, by the player or by the timer.
Waits == s.panel
Ended == ~s.panel
=============================================================================
