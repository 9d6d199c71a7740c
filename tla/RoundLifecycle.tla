---------------------------- MODULE RoundLifecycle ----------------------------
(***************************************************************************)
(* What the settlement service promises about the paid rounds of a         *)
(* session, with no leases, retries, messages or clocks: every round gets  *)
(* at most one final outcome, the outcome agrees with what happened to the *)
(* player's money, and rounds settle one after the other.                  *)
(*                                                                         *)
(* RoundSettlement implements this specification (see Lifecycle there).    *)
(***************************************************************************)
EXTENDS Integers

CONSTANTS Rounds, NoRound

VARIABLES
  outcome,   \* outcome[r]: absent, open, committed, rejected or review
  funds,     \* funds[r]: none, moved, refused or reversed, at the wallet
  current,   \* the round the session is working on, or NoRound
  blocked,   \* the session takes no further round
  count,     \* number of committed rounds
  position,  \* position[r]: place of a committed round in the session, else 0
  delivered  \* committed rounds whose result the client has consumed

vars == <<outcome, funds, current, blocked, count, position, delivered>>

Init ==
  /\ outcome = [r \in Rounds |-> "absent"]
  /\ funds = [r \in Rounds |-> "none"]
  /\ current = NoRound
  /\ blocked = FALSE
  /\ count = 0
  /\ position = [r \in Rounds |-> 0]
  /\ delivered = {}

\* A round starts only when no other is unsettled or undelivered.
Start(r) ==
  /\ outcome[r] = "absent"
  /\ current = NoRound
  /\ ~blocked
  /\ \A q \in Rounds : outcome[q] = "committed" => q \in delivered
  /\ outcome' = [outcome EXCEPT ![r] = "open"]
  /\ current' = r
  /\ UNCHANGED <<funds, blocked, count, position, delivered>>

\* The wallet moves or refuses the money, once.  It may still do so when the
\* round has been handed to staff, never after a rejection was recorded.
Decide(r) ==
  /\ outcome[r] \in {"open", "review"}
  /\ funds[r] = "none"
  /\ \E f \in {"moved", "refused"} : funds' = [funds EXCEPT ![r] = f]
  /\ UNCHANGED <<outcome, current, blocked, count, position, delivered>>

Reverse(r) ==
  /\ funds[r] = "moved"
  /\ funds' = [funds EXCEPT ![r] = "reversed"]
  /\ UNCHANGED <<outcome, current, blocked, count, position, delivered>>

\* Only money that moved is recorded as settled.
Commit(r) ==
  /\ outcome[r] = "open"
  /\ current = r
  /\ funds[r] \in {"moved", "reversed"}
  /\ outcome' = [outcome EXCEPT ![r] = "committed"]
  /\ current' = NoRound
  /\ count' = count + 1
  /\ position' = [position EXCEPT ![r] = count + 1]
  /\ UNCHANGED <<funds, blocked, delivered>>

\* A rejection is recorded only if no money moved.
Reject(r) ==
  /\ outcome[r] = "open"
  /\ current = r
  /\ funds[r] \in {"none", "refused"}
  /\ outcome' = [outcome EXCEPT ![r] = "rejected"]
  /\ current' = NoRound
  /\ UNCHANGED <<funds, blocked, count, position, delivered>>

\* Staff take over any round that is not committed; the session stops.
Review(r) ==
  /\ outcome[r] \in {"open", "rejected", "review"}
  /\ outcome' = [outcome EXCEPT ![r] = "review"]
  /\ blocked' = TRUE
  /\ UNCHANGED <<funds, current, count, position, delivered>>

Block ==
  /\ blocked' = TRUE
  /\ UNCHANGED <<outcome, funds, current, count, position, delivered>>

Deliver(r) ==
  /\ outcome[r] = "committed"
  /\ delivered' = delivered \cup {r}
  /\ UNCHANGED <<outcome, funds, current, blocked, count, position>>

Next ==
  \/ \E r \in Rounds : \/ Start(r) \/ Decide(r) \/ Reverse(r) \/ Commit(r)
                       \/ Reject(r) \/ Review(r) \/ Deliver(r)
  \/ Block

Spec == Init /\ [][Next]_vars
=============================================================================
