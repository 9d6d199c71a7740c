------------------------- MODULE MCAssetStreaming -------------------------
(* Streaming packages for TLC.  The wheel and the big win share the UI      *)
(* atlas, as in streaming-packages.desktop.json; the wheel also needs audio. *)
EXTENDS AssetStreaming

CONSTANTS l1, l2, l3

Deps == [p \in Packages |-> CASE p = "wheel" -> <<"ui", "audio">>
                              [] p = "bigwin" -> <<"ui">>
                              [] OTHER -> <<>>]
UiOnly == [p \in Packages |-> IF p \in {"wheel", "bigwin"} THEN <<"ui">> ELSE <<>>]
OneEach == [p \in Packages |-> 1]
TwoForFeature == [p \in Packages |-> IF p = "wheel" THEN 2 ELSE 1]
Want(a, b, c) == [l \in Leases |-> CASE l = l1 -> a [] l = l2 -> b [] OTHER -> c]
Scenario(deps, res, room, want, fails, ends, live) ==
  [dependsOn |-> deps, resources |-> res, bytes |-> OneEach, maxRetained |-> room,
   targets |-> want, failures |-> fails, mayDestroy |-> ends, live |-> live]

\* Three events on a feature and its shared dependency, one failure.
Shared == Scenario(UiOnly, OneEach, 3, Want({"wheel"}, {"ui"}, {"wheel"}), 1, FALSE, FALSE)
\* The runtime is destroyed under two events.
Ended == Scenario(UiOnly, OneEach, 3, Want({"wheel"}, {"bigwin"}, {}), 1, TRUE, FALSE)
\* Two dependencies and two resources over one slot, two failures.
Crowded == Scenario(Deps, TwoForFeature, 4, Want({"wheel"}, {"wheel"}, {}), 2, FALSE, FALSE)
\* A ceiling that two of three packages fill.
Tight == Scenario(UiOnly, OneEach, 2, Want({"wheel"}, {"bigwin"}, {}), 2, FALSE, FALSE)
\* Liveness: one shared load, a failure, the end of the runtime.
Small == Scenario(UiOnly, TwoForFeature, 4, Want({"wheel"}, {"wheel"}, {}), 1, TRUE, TRUE)

All == {Shared, Ended, Crowded, Tight, Small}

(* A lease keeps its whole payload, the counts are those of the leases, no  *)
(* payload is left without an owner and memory stays within the ceiling.    *)
LeasesHonoured == LeaseHoldsPayload /\ CountsExact /\ NothingOrphaned /\ WithinCeiling

(* The leases are honoured, in states that have their types.                *)
LeasesRight == TypeOK /\ LeasesHonoured

(* A lease ends by its own event only, gives everything back however late   *)
(* it arrives, and the slots of the semaphore are never lost.               *)
NothingLeaks == CancelledByItsOwn /\ ReleasedGivesBack /\ SlotsConserved /\ ReadyMeansReady
=============================================================================
