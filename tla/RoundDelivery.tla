----------------------------- MODULE RoundDelivery -----------------------------
(***************************************************************************)
(* What the browser promises about the rounds of a session, whatever       *)
(* happens to its page: a round is staked only when every earlier one is   *)
(* over, its result is confirmed to the server only after it was shown,    *)
(* and nothing staked is ever dropped.                                     *)
(***************************************************************************)
CONSTANT Rounds

VARIABLE status

States == {"idle", "requested", "committed", "shown", "confirmed", "void", "held"}
Over == {"idle", "confirmed", "void"}

Move(r, from, to) ==
  status[r] = from /\ status' = [status EXCEPT ![r] = to]

Stake(r) ==
  /\ \A q \in Rounds \ {r} : status[q] \in Over
  /\ Move(r, "idle", "requested")

Settle(r) == \E outcome \in {"committed", "void", "held"} : Move(r, "requested", outcome)
Show(r) == Move(r, "committed", "shown")
Confirm(r) == Move(r, "shown", "confirmed")

Init == status = [r \in Rounds |-> "idle"]
Next == \E r \in Rounds : Stake(r) \/ Settle(r) \/ Show(r) \/ Confirm(r)
Spec == Init /\ [][Next]_status
=============================================================================
