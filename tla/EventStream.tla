----------------------------- MODULE EventStream -----------------------------
(***************************************************************************)
(* What the outbox promises to the audit sink, with no leases, retries,    *)
(* timeouts or replicas: each aggregate (a round or a session of one       *)
(* operator) has a log of committed events, and the sink learns the events *)
(* of a log one after the other, in the order of the log, none skipped.    *)
(*                                                                         *)
(* OutboxDelivery implements this specification (see Stream there).        *)
(***************************************************************************)
EXTENDS Naturals, Sequences

CONSTANTS Events, Aggregates

VARIABLES
  log,   \* log[a]: the committed events of aggregate a, oldest first
  seen   \* seen[a]: the events of a the sink has kept, in order of arrival

vars == <<log, seen>>

Logged == UNION {{log[a][i] : i \in DOMAIN log[a]} : a \in Aggregates}

Init ==
  /\ log = [a \in Aggregates |-> <<>>]
  /\ seen = [a \in Aggregates |-> <<>>]

\* A transaction commits an event together with the state change it reports.
Record(a) ==
  /\ \E e \in Events \ Logged : log' = [log EXCEPT ![a] = Append(@, e)]
  /\ UNCHANGED seen

\* The sink keeps the next event of the log.
Deliver(a) ==
  /\ Len(seen[a]) < Len(log[a])
  /\ seen' = [seen EXCEPT ![a] = Append(@, log[a][Len(@) + 1])]
  /\ UNCHANGED log

Next == \E a \in Aggregates : Record(a) \/ Deliver(a)

Spec == Init /\ [][Next]_vars
=============================================================================
