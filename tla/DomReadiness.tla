---------------------------- MODULE DomReadiness ----------------------------
(***************************************************************************)
(* waitForCriticalDomReadiness (web/src/startup/criticalDomReadiness.ts):  *)
(* the images of the shell are loaded, then decoded by a few workers, each *)
(* with one bounded retry; then the fonts are loaded.  The first failure,  *)
(* or an abort from outside, ends the wait and withdraws every listener.   *)
(***************************************************************************)
EXTENDS Integers, FiniteSets

CONSTANTS Images,   \* 1 .. Images
          Workers,  \* decodes at a time
          Fonts     \* fonts that are loaded explicitly

VARIABLE s

Id == 1 .. Images
\* The steps of a decode: the first attempt, the task between, both attempts.
Decodes == {"waiting", "primary", "between", "retry", "done"}
Attempts == {"none", "running", "won", "failed"}

Init ==
  \E first \in {"complete", "loading", "broken"} :
    s = [at |-> "start", heard |-> {},
         file |-> [i \in Id |-> IF i = 1 THEN first ELSE "loading"],
         decode |-> [i \in Id |-> "waiting"], first |-> [i \in Id |-> "none"],
         second |-> [i \in Id |-> "none"], cursor |-> 1,
         fonts |-> [loading |-> {}, loaded |-> {}], ready |-> FALSE,
         told |-> 0, faults |-> 1]

\* Images weigh as much as there are of them, fonts likewise, and the barrier one.
Total == Images + Fonts + 1
Busy(x) == {i \in Id : x.decode[i] \in {"primary", "between", "retry"}}
Decoded(x) == {i \in Id : x.decode[i] = "done"}

monotonicReporter(x) ==
  LET p == Cardinality(Decoded(x)) + Cardinality(x.fonts.loaded)
           + (IF x.at = "complete" THEN 1 ELSE 0)
  IN [x EXCEPT !.told = IF p > @ THEN p ELSE @]

\* The shared controller aborts what is still awaited: its siblings reject.
Fails(x) == [x EXCEPT !.at = "failed", !.heard = {}, !.cursor = Images + 1,
                      !.decode = [i \in Id |-> IF i \in Busy(x) THEN "waiting" ELSE @[i]],
                      !.fonts.loading = {}]
Fault(x) == [x EXCEPT !.faults = @ - 1]

-----------------------------------------------------------------------------
(* Loading *)

\* When all are loaded the workers start in a task of their own.
LoadedWhenAll(x) == IF x.heard = {} THEN [x EXCEPT !.at = "next-task"] ELSE x

waitForRequiredImageLoad ==
  /\ s.at = "start"
  /\ s' = IF \E i \in Id : s.file[i] = "broken" THEN Fails(s)
          ELSE LoadedWhenAll([s EXCEPT !.at = "loading",
                                       !.heard = {i \in Id : s.file[i] = "loading"}])

onLoad(i) ==
  /\ i \in s.heard
  /\ s' = LoadedWhenAll([s EXCEPT !.file[i] = "complete", !.heard = @ \ {i}])

onError(i) ==
  /\ i \in s.heard /\ s.faults > 0
  /\ s' = Fails([Fault(s) EXCEPT !.file[i] = "broken"])

-----------------------------------------------------------------------------
(* Decoding *)

Decode(x, i) == [x EXCEPT !.decode[i] = "primary", !.first[i] = "running"]

\* A worker takes the next image as soon as it has none.
RECURSIVE forEachWithConcurrency(_)
forEachWithConcurrency(x) ==
  IF x.cursor > Images \/ Cardinality(Busy(x)) >= Workers THEN x
  ELSE forEachWithConcurrency(Decode([x EXCEPT !.cursor = @ + 1], x.cursor))

nextTask ==
  /\ s.at = "next-task"
  /\ s' = [forEachWithConcurrency(s) EXCEPT !.at = "decoding"]

startFonts(x) ==
  [x EXCEPT !.at = IF Fonts = 0 THEN "barrier" ELSE "fonts",
            !.fonts.loading = 1 .. Fonts]

ImageDone(x, i) ==
  LET y == monotonicReporter([x EXCEPT !.decode[i] = "done"])
  IN IF Decoded(y) = Id THEN startFonts(y) ELSE forEachWithConcurrency(y)

\* Promise.any: the retry fails only when both have failed.
Judged(x, i) ==
  CASE x.decode[i] = "primary" /\ x.first[i] = "won" -> ImageDone(x, i)
    [] x.decode[i] = "primary" /\ x.first[i] = "failed" -> Fails(x)
    [] x.decode[i] = "retry" /\ "won" \in {x.first[i], x.second[i]} -> ImageDone(x, i)
    [] x.decode[i] = "retry" /\ {x.first[i], x.second[i]} = {"failed"} -> Fails(x)
    [] OTHER -> x

\* A decode that is still of interest settles; one that fails is the fault.
AttemptSettles(i, which) ==
  i \in Busy(s) /\ \E outcome \in {"won", "failed"} :
    /\ outcome = "won" \/ s.faults > 0
    /\ LET x == IF outcome = "won" THEN s ELSE Fault(s) IN
       \/ /\ which = 1 /\ s.first[i] = "running"
          /\ s' = Judged([x EXCEPT !.first[i] = outcome], i)
       \/ /\ which = 2 /\ s.second[i] = "running"
          /\ s' = Judged([x EXCEPT !.second[i] = outcome], i)

\* The first attempt is slow: the second starts in the next task.
observeDecode(i) ==
  /\ s.decode[i] = "primary"
  /\ s' = [s EXCEPT !.decode[i] = "between"]

RetryStarts(i) ==
  /\ s.decode[i] = "between"
  /\ s' = Judged([s EXCEPT !.decode[i] = "retry", !.second[i] = "running"], i)

\* Neither has settled: an image that is complete is accepted as it is.
decodeRequiredImage(i) ==
  /\ s.decode[i] = "retry"
  /\ s' = IF s.file[i] = "complete" THEN ImageDone(s, i) ELSE Fails(s)

-----------------------------------------------------------------------------
(* Fonts *)

FontLoads(f) ==
  /\ f \in s.fonts.loading
  /\ \/ LET x == monotonicReporter([s EXCEPT !.fonts.loading = @ \ {f},
                                             !.fonts.loaded = @ \union {f}])
        IN s' = IF x.fonts.loading = {} THEN [x EXCEPT !.at = "barrier"] ELSE x
     \/ s.faults > 0 /\ s' = Fails(Fault(s))

FontsReady ==
  /\ s.at = "barrier"
  /\ \/ s' = monotonicReporter([s EXCEPT !.ready = TRUE, !.at = "complete"])
     \/ s.faults > 0 /\ s' = Fails(Fault(s))

\* The deadline of the gate, or the disposal of the page.
linkAbortSignal ==
  /\ s.at \notin {"complete", "failed"}
  /\ s' = Fails(s)

Next ==
  \/ waitForRequiredImageLoad \/ nextTask \/ FontsReady \/ linkAbortSignal
  \/ \E i \in Id : onLoad(i) \/ onError(i) \/ observeDecode(i) \/ RetryStarts(i)
                   \/ decodeRequiredImage(i)
                   \/ \E which \in 1 .. 2 : AttemptSettles(i, which)
  \/ \E f \in 1 .. Fonts : FontLoads(f)

Progress ==
  \/ waitForRequiredImageLoad \/ nextTask
  \/ \E i \in Id : observeDecode(i) \/ RetryStarts(i) \/ decodeRequiredImage(i)

-----------------------------------------------------------------------------
(* Properties *)

(* The types of the fields of the record.                                  *)
TypeOK ==
  /\ s.at \in {"start", "loading", "next-task", "decoding", "fonts", "barrier",
               "complete", "failed"}
  /\ s.decode \in [Id -> Decodes] /\ s.first \in [Id -> Attempts]
  /\ s.second \in [Id -> Attempts] /\ s.told \in 0 .. Total

(* Complete means every image is there and was decoded or accepted and     *)
(* every font is loaded; never more decodes than workers, and never a      *)
(* decode or a listener once the wait has failed.                          *)
ReadyMeansReady ==
  /\ s.at = "complete" => /\ \A i \in Id : s.file[i] = "complete" /\ s.decode[i] = "done"
                          /\ s.fonts.loaded = 1 .. Fonts /\ s.ready /\ s.told = Total
  /\ Cardinality(Busy(s)) <= Workers
  /\ s.at = "failed" => Busy(s) = {} /\ s.heard = {} /\ s.fonts.loading = {}
  /\ \A i \in Busy(s) : s.file[i] = "complete"
  /\ s.at = "decoding" /\ s.cursor <= Images => Cardinality(Busy(s)) = Workers

(* What has ended stays as it is, and the progress never falls.            *)
EndedStays ==
  /\ s.at \in {"complete", "failed"} => s'.at = s.at /\ s'.told = s.told
  /\ s'.told >= s.told

(* Decoding is bounded whatever the decoder does: it never hangs.          *)
Waits == s.at = "decoding"
Ended == s.at # "decoding"
=============================================================================
