---------------------------- MODULE OutboxDelivery ----------------------------
(***************************************************************************)
(* Delivery of the transactional outbox: the rows of rgs_outbox            *)
(* (server/internal/postgres/outbox_store.go), the transactions that write *)
(* them (insertOutbox in repository.go), and one dispatcher per replica    *)
(* (server/internal/outbox/dispatcher.go) that leases a batch of events,   *)
(* publishes them to the audit sink in parallel and completes each lease.  *)
(*                                                                         *)
(* Each SQL statement is one action.  Time is abstracted: a lease runs out *)
(* and a retry falls due at any moment, so every race of a lease, a        *)
(* publish deadline and a slow publisher is explored without a clock.      *)
(* Payloads, signatures and error codes are left out.                      *)
(***************************************************************************)
EXTENDS Naturals, FiniteSets, Sequences

CONSTANTS
  Aggregates,    \* (operator_id, aggregate_type, aggregate_id) triples
  Dispatchers,   \* replicas; each runs one Dispatcher
  Tokens,        \* random lease tokens
  None,          \* SQL NULL
  BatchSize,     \* DispatcherConfig.BatchSize
  MaxParallel,   \* DispatcherConfig.MaxParallel
  AttemptLimit,  \* 2147483647, the last value of rgs_outbox.attempts
  MaxEvents      \* bound of the identity column

ASSUME OutboxAssumption ==
  /\ None \notin Tokens /\ None \notin Aggregates
  /\ BatchSize \in Nat \ {0}
  /\ MaxParallel \in Nat \ {0}
  /\ AttemptLimit \in Nat \ {0}
  /\ MaxEvents \in Nat

Ids == 1..MaxEvents

VARIABLES
  nextId,    \* next value of the identity column, never given back
  status,    \* status[e] of row e
  aggregate, \* aggregate[e] the row belongs to
  attempts,  \* attempts[e]: how often the row has been claimed
  lease,     \* lease_token of row e
  expired,   \* rows whose lease_until has passed
  due,       \* rows whose available_at has passed, in the order of available_at
  token,     \* token[d]: lease token of the running pass, or None
  work,      \* work[d][e]: stage of the delivery of e in the running pass
  slots,     \* slots[d]: taken places of the channel publishSlots
  running,   \* publisher calls that have not returned
  answered,  \* running calls whose request the sink has accepted
  late,      \* events with a request on its way whose call has ended
  sink       \* events the sink has made durable (it keeps each identifier once)

rows == <<nextId, status, aggregate, attempts, lease, expired, due>>
passes == <<token, work>>
calls == <<slots, running, answered>>
vars == <<rows, passes, calls, late, sink>>

-----------------------------------------------------------------------------
(* Rows and calls *)

\* A row is invisible to the claim until its transaction commits; the
\* identifier of a transaction that rolls back is lost.
RowStatus == {"absent", "writing", "stored", "published"}

\* queued: claimed, waits for the pass's semaphore; calling: the publisher
\* runs; ok, failed: its result is known and not yet recorded.
Stages == {"none", "queued", "calling", "ok", "failed"}

Calls == [owner : Dispatchers, token : Tokens, event : Ids]

TypeOK ==
  /\ nextId \in 1..MaxEvents + 1
  /\ status \in [Ids -> RowStatus]
  /\ aggregate \in [Ids -> Aggregates \cup {None}]
  /\ attempts \in [Ids -> 0..AttemptLimit]
  /\ lease \in [Ids -> Tokens \cup {None}]
  /\ expired \subseteq Ids
  /\ due \in Seq(Ids)
  /\ token \in [Dispatchers -> Tokens \cup {None}]
  /\ work \in [Dispatchers -> [Ids -> Stages]]
  /\ slots \in [Dispatchers -> Nat]
  /\ running \subseteq Calls
  /\ answered \subseteq running
  /\ late \subseteq Ids
  /\ sink \subseteq Ids

Init ==
  /\ nextId = 1
  /\ status = [e \in Ids |-> "absent"]
  /\ aggregate = [e \in Ids |-> None]
  /\ attempts = [e \in Ids |-> 0]
  /\ lease = [e \in Ids |-> None]
  /\ expired = {}
  /\ due = <<>>
  /\ token = [d \in Dispatchers |-> None]
  /\ work = [d \in Dispatchers |-> [e \in Ids |-> "none"]]
  /\ slots = [d \in Dispatchers |-> 0]
  /\ running = {}
  /\ answered = {}
  /\ late = {}
  /\ sink = {}

Idle(d) == token[d] = None
Active(d) == {e \in Ids : work[d][e] \in {"calling", "ok", "failed"}}

-----------------------------------------------------------------------------
(* Writers *)

\* Mutant: the writers of one aggregate overlap.
Unlocked_Never(a) == TRUE

\* The transactions that report on one aggregate follow one another: each
\* holds the row lock of the session when it inserts its event.
Unlocked(a) == \A e \in Ids : status[e] = "writing" => aggregate[e] # a

\* The row gets its identifier; other transactions cannot see it yet.
Insert(a) ==
  /\ nextId \in Ids
  /\ Unlocked(a)
  /\ nextId' = nextId + 1
  /\ status' = [status EXCEPT ![nextId] = "writing"]
  /\ aggregate' = [aggregate EXCEPT ![nextId] = a]
  /\ UNCHANGED <<attempts, lease, expired, due, passes, calls, late, sink>>

InsertedAt(s, i, x) == SubSeq(s, 1, i - 1) \o <<x>> \o SubSeq(s, i, Len(s))

\* The row is due at once.  Its available_at is the start of its transaction,
\* which may lie before that of rows committed earlier.
CommitInsert(e) ==
  /\ status[e] = "writing"
  /\ status' = [status EXCEPT ![e] = "stored"]
  /\ \E i \in 1..Len(due) + 1 : due' = InsertedAt(due, i, e)
  /\ UNCHANGED <<nextId, aggregate, attempts, lease, expired, passes, calls, late, sink>>

RollbackInsert(e) ==
  /\ status[e] = "writing"
  /\ status' = [status EXCEPT ![e] = "absent"]
  /\ aggregate' = [aggregate EXCEPT ![e] = None]
  /\ UNCHANGED <<nextId, attempts, lease, expired, due, passes, calls, late, sink>>

-----------------------------------------------------------------------------
(* Time *)

\* clock_timestamp() reaches lease_until ...
LeaseExpires(e) ==
  /\ lease[e] # None
  /\ e \notin expired
  /\ expired' = expired \cup {e}
  /\ UNCHANGED <<nextId, status, aggregate, attempts, lease, due, passes, calls, late, sink>>

\* ... or the available_at that MarkFailed has set.
BecomesDue(e) ==
  /\ status[e] = "stored"
  /\ \A i \in DOMAIN due : due[i] # e
  /\ due' = Append(due, e)
  /\ UNCHANGED <<nextId, status, aggregate, attempts, lease, expired, passes, calls, late, sink>>

-----------------------------------------------------------------------------
(* Claim *)

Predecessors(e) == {p \in Ids : p < e /\ aggregate[p] = aggregate[e]}

Offered(e) ==
  /\ status[e] = "stored"
  /\ \E i \in DOMAIN due : due[i] = e

\* Mutants: the claim does not look at earlier events; it never takes over a
\* lease; it does not stop at the last value of the counter.
Candidate_AnyOrder(e) ==
  Offered(e) /\ (lease[e] = None \/ e \in expired) /\ attempts[e] < AttemptLimit
Candidate_NoTakeover(e) ==
  /\ Offered(e) /\ lease[e] = None /\ attempts[e] < AttemptLimit
  /\ \A p \in Predecessors(e) : status[p] # "stored"
Candidate_NoLimit(e) ==
  /\ Offered(e) /\ (lease[e] = None \/ e \in expired)
  /\ \A p \in Predecessors(e) : status[p] # "stored"

\* The oldest unpublished row of its aggregate, due, and leased to nobody or
\* for too long.
Candidate(e) ==
  /\ Offered(e)
  /\ lease[e] = None \/ e \in expired
  /\ attempts[e] < AttemptLimit
  /\ \A p \in Predecessors(e) : status[p] # "stored"

\* ORDER BY available_at LIMIT BatchSize
DueBefore(f, e) == \E i, j \in DOMAIN due : i < j /\ due[i] = f /\ due[j] = e
Batch == {e \in Ids : /\ Candidate(e)
                      /\ Cardinality({f \in Ids : Candidate(f) /\ DueBefore(f, e)})
                           < BatchSize}

Fresh(t) ==
  /\ \A e \in Ids : lease[e] # t
  /\ \A d \in Dispatchers : token[d] # t
  /\ \A c \in running : c.token # t

LeaseBatch(t) ==
  /\ Batch # {}
  /\ Fresh(t)
  /\ lease' = [e \in Ids |-> IF e \in Batch THEN t ELSE lease[e]]
  /\ attempts' = [e \in Ids |-> IF e \in Batch THEN attempts[e] + 1 ELSE attempts[e]]
  /\ expired' = expired \ Batch
  /\ UNCHANGED <<nextId, status, aggregate, due>>

\* RunOnce takes the only run slot of the process, draws a token for this
\* batch and leases it.  A pass that finds nothing changes nothing.
Claim(d) ==
  /\ Idle(d)
  /\ \E t \in Tokens :
       /\ LeaseBatch(t)
       /\ token' = [token EXCEPT ![d] = t]
       /\ work' = [work EXCEPT ![d] = [e \in Ids |-> IF e \in Batch THEN "queued"
                                                                   ELSE "none"]]
  /\ UNCHANGED <<calls, late, sink>>

\* The statement commits and its answer is lost, or a row fails to scan: the
\* pass ends and the batch stays leased.
ClaimFails(d) ==
  /\ Idle(d)
  /\ \E t \in Tokens : LeaseBatch(t)
  /\ UNCHANGED <<passes, calls, late, sink>>

-----------------------------------------------------------------------------
(* Publish *)

Stage(d, e, s) == work' = [work EXCEPT ![d][e] = s]

\* At most MaxParallel deliveries of a pass run at a time.
Admitted(d, e) ==
  /\ work[d][e] = "queued"
  /\ Cardinality(Active(d)) < MaxParallel

CallOf(d, e) == [owner |-> d, token |-> token[d], event |-> e]

\* The delivery takes a publish slot and starts the publisher.
StartPublish(d, e) ==
  /\ Admitted(d, e)
  /\ slots[d] < MaxParallel
  /\ slots' = [slots EXCEPT ![d] = @ + 1]
  /\ running' = running \cup {CallOf(d, e)}
  /\ Stage(d, e, "calling")
  /\ UNCHANGED <<rows, token, answered, late, sink>>

\* PublishTimeout passes while earlier calls still hold every slot.
SlotTimeout(d, e) ==
  /\ Admitted(d, e)
  /\ Stage(d, e, "failed")
  /\ UNCHANGED <<rows, token, calls, late, sink>>

\* Mutants: the delivery gives the slot back at the deadline; it takes the end
\* of the deadline for success.
PublishTimeout_FreesSlot(d, e) ==
  /\ work[d][e] = "calling"
  /\ Stage(d, e, "failed")
  /\ slots' = [slots EXCEPT ![d] = @ - 1]
  /\ UNCHANGED <<rows, token, running, answered, late, sink>>
PublishTimeout_Ok(d, e) ==
  /\ work[d][e] = "calling"
  /\ Stage(d, e, "ok")
  /\ UNCHANGED <<rows, token, calls, late, sink>>

\* PublishTimeout passes while the publisher runs.  The delivery goes on; the
\* call runs on too, and keeps its slot.
PublishTimeout(d, e) ==
  /\ work[d][e] = "calling"
  /\ Stage(d, e, "failed")
  /\ UNCHANGED <<rows, token, calls, late, sink>>

\* The sink makes the event durable, then answers 2xx.
Receive(c) ==
  /\ c \in running \ answered
  /\ sink' = sink \cup {c.event}
  /\ answered' = answered \cup {c}
  /\ UNCHANGED <<rows, passes, slots, running, late>>

\* A request may arrive when nobody waits for its answer any more.
ReceiveLate(e) ==
  /\ e \in late
  /\ late' = late \ {e}
  /\ sink' = sink \cup {e}
  /\ UNCHANGED <<rows, passes, calls>>

Awaited(c) == work[c.owner][c.event] = "calling" /\ token[c.owner] = c.token

\* The publisher returns and only now gives its slot back.  It reports
\* success only for a 2xx answer; any error, a panic included, is a failure,
\* also when the sink has the event.
PublishReturns(c) ==
  /\ c \in running
  /\ slots' = [slots EXCEPT ![c.owner] = @ - 1]
  /\ running' = running \ {c}
  /\ answered' = answered \ {c}
  /\ late' = IF c \in answered THEN late ELSE late \cup {c.event}
  /\ IF Awaited(c)
     THEN \E s \in {"ok", "failed"} :
            /\ s = "ok" => c \in answered
            /\ Stage(c.owner, c.event, s)
     ELSE UNCHANGED work
  /\ UNCHANGED <<rows, token, sink>>

-----------------------------------------------------------------------------
(* Completion *)

\* A delivery ends; the pass ends with its last delivery (group.Wait).
EndDelivery(d, e) ==
  /\ Stage(d, e, "none")
  /\ token' = IF \E f \in Ids \ {e} : work[d][f] # "none"
              THEN token ELSE [token EXCEPT ![d] = None]

\* Mutant: completions are addressed by the event alone.
Owns_Unfenced(d, e) == status[e] = "stored"

\* The fence of both completions.  It asks for the token only, not for the
\* time: a lease that ran out and was not claimed again is still good.
Owns(d, e) == lease[e] = token[d] /\ status[e] = "stored"

\* An element occurs at most once.
Without(s, x) ==
  IF \E i \in DOMAIN s : s[i] = x
  THEN LET i == CHOOSE i \in DOMAIN s : s[i] = x
       IN  SubSeq(s, 1, i - 1) \o SubSeq(s, i + 1, Len(s))
  ELSE s

Release(e) ==
  /\ lease' = [lease EXCEPT ![e] = None]
  /\ expired' = expired \ {e}
  /\ due' = Without(due, e)

MarkPublished(d, e) ==
  /\ work[d][e] = "ok"
  /\ Owns(d, e)
  /\ status' = [status EXCEPT ![e] = "published"]
  /\ Release(e)
  /\ EndDelivery(d, e)
  /\ UNCHANGED <<nextId, aggregate, attempts, calls, late, sink>>

\* The row waits RetryDelay and is offered again.
MarkFailed(d, e) ==
  /\ work[d][e] = "failed"
  /\ Owns(d, e)
  /\ Release(e)
  /\ EndDelivery(d, e)
  /\ UNCHANGED <<nextId, status, aggregate, attempts, calls, late, sink>>

\* ErrLeaseLost: somebody else has claimed or published the row.
LeaseLost(d, e) ==
  /\ work[d][e] \in {"ok", "failed"}
  /\ ~Owns(d, e)
  /\ EndDelivery(d, e)
  /\ UNCHANGED <<rows, calls, late, sink>>

\* The completion does not reach the database.
CompletionFails(d, e) ==
  /\ work[d][e] \in {"ok", "failed"}
  /\ EndDelivery(d, e)
  /\ UNCHANGED <<rows, calls, late, sink>>

\* The process stops, or is cancelled and records nothing any more.
Crash(d) ==
  /\ ~Idle(d) \/ slots[d] > 0
  /\ token' = [token EXCEPT ![d] = None]
  /\ work' = [work EXCEPT ![d] = [e \in Ids |-> "none"]]
  /\ slots' = [slots EXCEPT ![d] = 0]
  /\ running' = {c \in running : c.owner # d}
  /\ answered' = {c \in answered : c.owner # d}
  /\ late' = late \cup {c.event : c \in {c \in running \ answered : c.owner = d}}
  /\ UNCHANGED <<rows, sink>>

-----------------------------------------------------------------------------
Next ==
  \/ \E a \in Aggregates : Insert(a)
  \/ \E e \in Ids : \/ CommitInsert(e) \/ RollbackInsert(e)
                    \/ LeaseExpires(e) \/ BecomesDue(e) \/ ReceiveLate(e)
  \/ \E d \in Dispatchers : Claim(d) \/ ClaimFails(d) \/ Crash(d)
  \/ \E d \in Dispatchers, e \in Ids :
       \/ StartPublish(d, e) \/ SlotTimeout(d, e) \/ PublishTimeout(d, e)
       \/ MarkPublished(d, e) \/ MarkFailed(d, e) \/ LeaseLost(d, e)
       \/ CompletionFails(d, e)
  \/ \E c \in running : Receive(c) \/ PublishReturns(c)

Spec == Init /\ [][Next]_vars

-----------------------------------------------------------------------------
(* Properties *)

Committed(a) == {e \in Ids : aggregate[e] = a /\ status[e] \in {"stored", "published"}}

\* The sink learns the events of an aggregate in the order in which they were
\* written: it never has an event without all the earlier ones, whatever
\* leases run out, calls outlive their deadline or requests arrive late
\* (NOT EXISTS predecessor in the claim, and the row lock of the writers).
InOrder == \A e \in sink : \A p \in Predecessors(e) : p \in sink

\* An event is marked published only when the sink has it: no timeout, panic
\* or lost answer loses an event (deliver, publishWithHardDeadline).
NothingLost == \A e \in Ids : status[e] = "published" => e \in sink

\* The slots of a process count the publisher calls that really run, those of
\* earlier passes included, so there are never more than MaxParallel of them
\* and no slot leaks (publishSlots).
SlotsCountCalls ==
  \A d \in Dispatchers :
    /\ slots[d] = Cardinality({c \in running : c.owner = d})
    /\ slots[d] <= MaxParallel

\* A lease that has not run out ends only by a completion of the pass that
\* took it: a late completion of an older lease changes nothing (lease_token
\* in MarkPublished and MarkFailed).
LeaseFence ==
  [][\A e \in Ids : lease[e] # None /\ lease'[e] # lease[e] =>
       \/ e \in expired
       \/ \E d \in Dispatchers : /\ token[d] = lease[e]
                                 /\ work[d][e] \in {"ok", "failed"}
                                 /\ work'[d][e] = "none"]_vars

SortedSeq(S) == [i \in 1..Cardinality(S) |->
                   CHOOSE e \in S : Cardinality({f \in S : f < e}) = i - 1]

Stream == INSTANCE EventStream WITH
  Events <- Ids,
  log <- [a \in Aggregates |-> SortedSeq(Committed(a))],
  seen <- [a \in Aggregates |-> SortedSeq(Committed(a) \cap sink)]

\* The delivery implements the abstract stream.
ImplementsStream == Stream!Spec

-----------------------------------------------------------------------------
(* Liveness *)

\* The dispatcher's loop goes on: every delivery ends within its deadline
\* whatever the publisher does, and Run starts pass after pass.
Progress(d) ==
  \/ Claim(d) \/ ClaimFails(d)
  \/ \E e \in Ids :
       \/ StartPublish(d, e) \/ SlotTimeout(d, e) \/ PublishTimeout(d, e)
       \/ MarkPublished(d, e) \/ MarkFailed(d, e) \/ LeaseLost(d, e)
       \/ CompletionFails(d, e)

Fairness ==
  /\ \A e \in Ids : WF_vars(LeaseExpires(e)) /\ WF_vars(BecomesDue(e))
  /\ \A d \in Dispatchers : WF_vars(Progress(d))

FairSpec == Spec /\ Fairness

Exhausted(e) == status[e] = "stored" /\ attempts[e] = AttemptLimit

\* No event is forgotten: a committed event is published, unless it or an
\* event before it has been tried as often as the counter of attempts allows.
NeverForgotten ==
  \A e \in Ids :
    status[e] = "stored" ~>
      status[e] = "published" \/ \E p \in Predecessors(e) \cup {e} : Exhausted(p)
=============================================================================
