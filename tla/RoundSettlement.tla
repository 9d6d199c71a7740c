--------------------------- MODULE RoundSettlement ---------------------------
(***************************************************************************)
(* Settlement of the paid rounds of one player session: the PostgreSQL     *)
(* round store (server/internal/postgres/repository.go, risk.go), the      *)
(* coordinator that executes fenced wallet claims                          *)
(* (server/internal/rgs/coordinator.go), the recovery worker               *)
(* (server/internal/recovery/worker.go) and the operator's wallet          *)
(* (server/cmd/local-operator/store.go).                                   *)
(*                                                                         *)
(* Every repository call is one transaction that holds the session row     *)
(* lock, so it is one action here.  Between two transactions anything may  *)
(* happen: another goroutine or replica runs, the process crashes, the     *)
(* lease runs out, an APPLY request reaches the wallet late.               *)
(*                                                                         *)
(* Sessions share no state that settlement reads, so one session stands    *)
(* for all.  Amounts, outcomes, fingerprints and signatures are left out:  *)
(* a round is the identity of an immutable command.                        *)
(***************************************************************************)
EXTENDS Integers, Sequences, FiniteSets

CONSTANTS
  Rounds,              \* round identifiers the client may use in this session
  Executors,           \* goroutines that execute claims, on any replica
  NoRound,             \* SQL NULL in pending_round_id
  WalletLease,         \* lease of the spin fast path (Coordinator.walletLease)
  LeaseDuration,       \* lease of the recovery worker (Worker.LeaseDuration)
  MaximumBackoff,      \* largest full-jitter delay of the worker
  NotFoundConsistencyWindow, \* wallet profile: wait before re-APPLY
  MaxWalletAttempts,   \* APPLY budget, and LOOKUP budget, of a round
  HighValue,           \* rounds whose payout reaches the risk threshold
  RiskReviewTTL,       \* lifetime of a risk review
  RiskExpiryPolicy,    \* what expiry does: "REJECT" or "MANUAL_REVIEW"
  Corruptible,         \* rounds whose row may be found corrupt
  SessionCorruptible,  \* whether the session row may be found corrupt
  Reversible,          \* rounds the wallet's staff may roll back
  ProfileDrift,        \* whether the wallet profile may change under a round
  TimelyDeadlines,     \* whether request deadlines fire before the lease ends
  MaxClaims,           \* bound of the APPLY claims of a round
  MaxTime              \* bound of the database clock

ASSUME SettlementAssumption ==
  /\ NoRound \notin Rounds
  /\ "session" \notin Rounds
  /\ WalletLease \in Nat \ {0}
  /\ LeaseDuration \in Nat \ {0}
  /\ MaximumBackoff \in Nat
  /\ NotFoundConsistencyWindow \in Nat \ {0}
  /\ MaxWalletAttempts \in Nat \ {0}
  /\ HighValue \subseteq Rounds
  /\ RiskReviewTTL \in Nat \ {0}
  /\ RiskExpiryPolicy \in {"REJECT", "MANUAL_REVIEW"}
  /\ Corruptible \subseteq Rounds
  /\ SessionCorruptible \in BOOLEAN
  /\ Reversible \subseteq Rounds
  /\ ProfileDrift \in BOOLEAN
  /\ TimelyDeadlines \in BOOLEAN
  /\ MaxClaims \in Nat
  /\ MaxTime \in Nat

VARIABLES
  now,       \* the PostgreSQL clock, the only clock of leases and deadlines
  session,   \* the rgs_sessions row
  rounds,    \* the rgs_rounds rows
  ledger,    \* status of the round's rgs_wallet_transactions row
  reviews,   \* the rgs_risk_reviews rows
  outbox,    \* lifecycle events of each aggregate, in insertion order
  wallet,    \* what the wallet has decided about the round's operation
  network,   \* rounds whose APPLY request is on its way, or may be again
  exec,      \* the claim each executor works on
  applySent, \* history: APPLY requests sent for the round
  lastSeen   \* history: what is known of the last APPLY request sent

store == <<session, rounds, ledger, reviews, outbox>>
history == <<applySent, lastSeen>>
vars == <<now, store, wallet, network, exec, history>>

-----------------------------------------------------------------------------
(* Rows and values *)

SessionStatus == {"ACTIVE", "BLOCKED"}

RoundStatus == {"NONE", "RISK_PENDING", "PREPARED", "WALLET_PENDING",
                "COMMITTED", "REJECTED", "MANUAL_REVIEW"}

Actions == {"APPLY", "LOOKUP"}

\* Answers name the outcome of one wallet call as applyWalletResolution sees
\* it.  UNKNOWN stands for PENDING too; MANUAL for every outcome that ends in
\* markClaimForManualReview.
Answers == {"SUCCEEDED", "REJECTED_FINAL", "UNKNOWN", "NOT_SENT", "NOT_FOUND",
            "MANUAL"}

ReviewStatus == {"NONE", "PENDING", "APPROVED", "REJECTED",
                 "EXPIRED_REJECTED", "EXPIRED_MANUAL_REVIEW"}

Events == {"ROUND_PREPARED", "ROUND_RISK_PENDING", "ROUND_RISK_APPROVED",
           "ROUND_RISK_REJECTED", "ROUND_RISK_EXPIRED_REJECTED",
           "ROUND_RISK_EXPIRED_MANUAL_REVIEW", "WALLET_CLAIMED", "ROUND_COMMITTED",
           "ROUND_REJECTED", "ROUND_MANUAL_REVIEW", "ROUND_INTEGRITY_FAILED",
           "SESSION_INTEGRITY_FAILED"}

LedgerStatus == {"NONE", "PENDING", "SUCCEEDED", "FAILED", "UNKNOWN"}

\* What the wallet keeps about an operation.
Decisions == {"NONE", "APPLIED", "REJECTED", "ROLLED_BACK"}

\* A nullable timestamp of which only the presence is ever looked at.
Mark == {"NULL", "SET"}

\* Instants are natural numbers; 0 is SQL NULL.
Session == [status: SessionStatus, quarantinedAt: Mark,
            pending: Rounds \cup {NoRound}, revision: Nat, sequence: Nat]

Round == [status: RoundStatus, phase: Actions \cup {""},
          startRevision: Nat, sequence: Nat, applyAttempts: Nat,
          lookupAttempts: Nat, leaseUntil: Nat, nextAttemptAt: Nat,
          acknowledgedAt: Mark, quarantinedAt: Mark]

Review == [status: ReviewStatus, expiresAt: Nat]

Claim == [pc: {"idle", "claimed", "exhausted", "sent", "answered"},
          round: Rounds \cup {NoRound}, leaseUntil: Nat,
          action: Actions \cup {""}, answer: Answers \cup {""}]

NoRow == [status |-> "NONE", phase |-> "", startRevision |-> 0,
          sequence |-> 0, applyAttempts |-> 0, lookupAttempts |-> 0,
          leaseUntil |-> 0, nextAttemptAt |-> 0, acknowledgedAt |-> "NULL",
          quarantinedAt |-> "NULL"]

NoClaim == [pc |-> "idle", round |-> NoRound, leaseUntil |-> 0, action |-> "",
            answer |-> ""]

\* A session is created ACTIVE with no round, sequence 0 and revision 0.
Init ==
  /\ now = 1
  /\ session = [status |-> "ACTIVE", quarantinedAt |-> "NULL",
                pending |-> NoRound, revision |-> 0, sequence |-> 0]
  /\ rounds = [r \in Rounds |-> NoRow]
  /\ ledger = [r \in Rounds |-> "NONE"]
  /\ reviews = [r \in Rounds |-> [status |-> "NONE", expiresAt |-> 0]]
  /\ outbox = [a \in Rounds \cup {"session"} |-> <<>>]
  /\ wallet = [r \in Rounds |-> "NONE"]
  /\ network = {}
  /\ exec = [e \in Executors |-> NoClaim]
  /\ applySent = [r \in Rounds |-> 0]
  /\ lastSeen = [r \in Rounds |-> "NEVER"]

-----------------------------------------------------------------------------
(* Shared predicates of the transactions *)

\* lockSession refuses a quarantined session before anything is read from it.
Lockable == session.quarantinedAt = "NULL"

\* The statuses terminalRoundResult does not call done.
OpenStatus == {"PREPARED", "WALLET_PENDING"}

Open(r) == rounds[r].status \in OpenStatus

\* The aggregate check every claim transaction repeats: the session still
\* waits for this round, at the revision the round started from.
Bound(r) == /\ session.pending = r
            /\ session.revision = rounds[r].startRevision

\* Equality with the stored lease deadline is the fencing token; that the
\* deadline has passed is not looked at.
ownsWalletClaim_NoToken(e) == Open(exec[e].round)

ownsWalletClaim(e) ==
  /\ Open(exec[e].round)
  /\ exec[e].leaseUntil # 0
  /\ rounds[exec[e].round].leaseUntil = exec[e].leaseUntil

\* The round leaves the session free for the next one.
Release_Forgotten == UNCHANGED session

Release == session' = [session EXCEPT !.pending = NoRound]

Emit(a, event) == outbox' = [outbox EXCEPT ![a] = Append(@, event)]

\* A committed result the client has not acknowledged yet.
Undelivered(r) ==
  rounds[r].status = "COMMITTED" /\ rounds[r].acknowledgedAt = "NULL"

\* The delivery fence: no new round while a result is undelivered.
DeliveryClear_Skipped == TRUE

DeliveryClear == \A r \in Rounds : ~Undelivered(r)

-----------------------------------------------------------------------------
(* Spin: prepare and persist the round before any wallet call *)

\* A payout at or over the threshold waits for a reviewer before the wallet.
PreparedStatus_NoRisk(r) == "PREPARED"

PreparedStatus(r) == IF r \in HighValue THEN "RISK_PENDING" ELSE "PREPARED"

\* The RNG runs and the complete bundle (round, ledger row, session pointer,
\* outbox event, and the review of a high-value result) is written at once.
\* Replays of a known round only read.  Expiry, the transport generation and
\* the idle deadline only refuse more requests than this action does.
PrepareRound(r) ==
  /\ Lockable
  /\ rounds[r].status = "NONE"
  /\ DeliveryClear
  /\ session.status = "ACTIVE"
  /\ session.pending = NoRound
  /\ LET waits == PreparedStatus(r) = "RISK_PENDING" IN
     /\ rounds' = [rounds EXCEPT ![r] =
          [NoRow EXCEPT !.status = PreparedStatus(r),
                        !.phase = IF waits THEN "" ELSE "APPLY",
                        !.nextAttemptAt = IF waits THEN 0 ELSE now,
                        !.startRevision = session.revision,
                        !.sequence = session.sequence + 1]]
     /\ Emit(r, IF waits THEN "ROUND_RISK_PENDING" ELSE "ROUND_PREPARED")
  /\ reviews' = IF r \in HighValue
                THEN [reviews EXCEPT ![r] = [status |-> "PENDING",
                                             expiresAt |-> now + RiskReviewTTL]]
                ELSE reviews
  /\ ledger' = [ledger EXCEPT ![r] = "PENDING"]
  /\ session' = [session EXCEPT !.pending = r]
  /\ UNCHANGED <<now, wallet, network, exec, history>>

-----------------------------------------------------------------------------
(* Claiming the next wallet action *)

\* Neither scheduled for later nor leased to somebody.
Due_Unchecked(r) == TRUE

Due(r) == rounds[r].nextAttemptAt <= now /\ rounds[r].leaseUntil <= now

\* The phase a claim leaves behind: after an APPLY claim the outcome of the
\* call is unknown to everybody else, so whoever comes next must look it up.
ClaimedPhase_Kept(action) == action

ClaimedPhase(action) == "LOOKUP"

\* Every APPLY claim leaves an audit event.
ClaimEvent_RetriesOnly(r, apply) ==
  IF apply /\ rounds[r].applyAttempts > 0 THEN Emit(r, "WALLET_CLAIMED")
                                          ELSE UNCHANGED outbox

ClaimEvent(r, apply) ==
  IF apply THEN Emit(r, "WALLET_CLAIMED") ELSE UNCHANGED outbox

Claims(r) == {i \in DOMAIN outbox[r] : outbox[r][i] = "WALLET_CLAIMED"}

\* The claim is durable before it is handed out.
claimWalletLocked(e, r, lease) ==
  LET apply == rounds[r].phase = "APPLY"
      applies == rounds[r].applyAttempts + IF apply THEN 1 ELSE 0
      lookups == rounds[r].lookupAttempts + IF apply THEN 0 ELSE 1
      spent == IF apply THEN applies ELSE lookups
  IN /\ exec[e].pc = "idle"
     /\ Lockable
     /\ Open(r)
     /\ ledger[r] \in {"PENDING", "UNKNOWN"}
     /\ session.status = "ACTIVE"
     /\ rounds[r].phase \in Actions
     /\ Due(r)
     /\ Bound(r)
     /\ apply => Cardinality(Claims(r)) < MaxClaims
     /\ rounds' = [rounds EXCEPT ![r] =
          [@ EXCEPT !.status = "WALLET_PENDING",
                    !.phase = ClaimedPhase(rounds[r].phase),
                    !.leaseUntil = now + lease,
                    !.nextAttemptAt = now + lease,
                    !.applyAttempts = applies,
                    !.lookupAttempts = lookups]]
     /\ ClaimEvent(r, apply)
     /\ exec' = [exec EXCEPT ![e] =
          [pc |-> IF spent > MaxWalletAttempts THEN "exhausted" ELSE "claimed",
           round |-> r, leaseUntil |-> now + lease,
           action |-> rounds[r].phase, answer |-> ""]]
     /\ UNCHANGED <<now, session, ledger, reviews, wallet, network, history>>

\* The request that prepared the round claims it (resolvePreparedRound).
ClaimWallet(e, r) == claimWalletLocked(e, r, WalletLease)

\* A recovery worker claims a due round.  A session has at most one, so the
\* batch of one pass holds at most one claim of this session.
ClaimRecoverableRounds(e, r) == claimWalletLocked(e, r, LeaseDuration)

-----------------------------------------------------------------------------
(* Executing the claimed action against the wallet *)

Answer(e, a) ==
  exec' = [exec EXCEPT ![e] = [@ EXCEPT !.pc = "answered", !.answer = a]]

\* An exhausted budget, or a settlement profile that is no longer the one the
\* round was prepared under, sends the claim to manual review without a call.
RefuseClaim(e) ==
  /\ exec[e].pc = "exhausted" \/ (exec[e].pc = "claimed" /\ ProfileDrift)
  /\ Answer(e, "MANUAL")
  /\ UNCHANGED <<now, store, wallet, network, history>>

\* No route, an open circuit, a full bulkhead, a dead context or a signing
\* failure: proved not to have crossed the send boundary.
FailBeforeSend(e) ==
  /\ exec[e].pc = "claimed"
  /\ Answer(e, "NOT_SENT")
  /\ UNCHANGED <<now, store, wallet, network, history>>

\* The APPLY request leaves the process.  With timely deadlines the request
\* context, which is no longer than the lease, has not expired yet.
SubmitRound(e) ==
  /\ exec[e].pc = "claimed"
  /\ exec[e].action = "APPLY"
  /\ TimelyDeadlines => now < exec[e].leaseUntil
  /\ network' = network \cup {exec[e].round}
  /\ exec' = [exec EXCEPT ![e].pc = "sent"]
  /\ applySent' = [applySent EXCEPT ![exec[e].round] = @ + 1]
  /\ lastSeen' = [lastSeen EXCEPT ![exec[e].round] = "SENT"]
  /\ UNCHANGED <<now, store, wallet>>

\* What an authenticated APPLY response may say, given the wallet's decision.
\* A timeout, a 5xx or a 202 is UNKNOWN and may hide any decision.
submitRoundAnswers_AcceptedIsDone(decision) ==
  {a \in Answers : \/ a = "UNKNOWN"
                   \/ a = "SUCCEEDED" /\ decision \in {"NONE", "APPLIED"}
                   \/ a = "REJECTED_FINAL" /\ decision = "REJECTED"
                   \/ a = "MANUAL" /\ decision = "ROLLED_BACK"}

submitRoundAnswers(decision) ==
  {a \in Answers : \/ a = "UNKNOWN"
                   \/ a = "SUCCEEDED" /\ decision = "APPLIED"
                   \/ a = "REJECTED_FINAL" /\ decision = "REJECTED"
                   \/ a = "MANUAL" /\ decision = "ROLLED_BACK"}

\* A status query also reports that the wallet does not know the operation.
resolveAnswers_Unmapped(decision) == {"UNKNOWN", decision}

resolveAnswers(decision) ==
  submitRoundAnswers(decision) \cup
  {a \in Answers : a = "NOT_FOUND" /\ decision = "NONE"}

ReceiveSubmitAnswer(e) ==
  /\ exec[e].pc = "sent"
  /\ \E a \in submitRoundAnswers(wallet[exec[e].round]) : Answer(e, a)
  /\ UNCHANGED <<now, store, wallet, network, history>>

\* The query reads the wallet once; its answer is used some time later.
Resolve(e) ==
  /\ exec[e].pc = "claimed"
  /\ exec[e].action = "LOOKUP"
  /\ \E a \in resolveAnswers(wallet[exec[e].round]) :
       /\ Answer(e, a)
       /\ lastSeen' = IF a = "NOT_FOUND"
                      THEN [lastSeen EXCEPT ![exec[e].round] = "ABSENT"]
                      ELSE lastSeen
  /\ UNCHANGED <<now, store, wallet, network, applySent>>

-----------------------------------------------------------------------------
(* The wallet: one decision per operation, kept for ever *)

\* The first APPLY decides, applied or rejected for good; every later or
\* duplicated one finds the stored decision and changes nothing.
Apply(r) ==
  /\ r \in network
  /\ wallet[r] = "NONE"
  /\ \E decision \in {"APPLIED", "REJECTED"} :
       wallet' = [wallet EXCEPT ![r] = decision]
  /\ UNCHANGED <<now, store, network, exec, history>>

\* A compensation the wallet's staff request by hand.
Rollback(r) ==
  /\ r \in Reversible
  /\ wallet[r] = "APPLIED"
  /\ wallet' = [wallet EXCEPT ![r] = "ROLLED_BACK"]
  /\ UNCHANGED <<now, store, network, exec, history>>

-----------------------------------------------------------------------------
(* Writing back what the claim's execution found *)

Finish(e) == exec' = [exec EXCEPT ![e] = NoClaim]

\* A round row leaving the open statuses: no phase, no schedule, no lease.
Closed(r, status) ==
  rounds' = [rounds EXCEPT ![r] = [@ EXCEPT !.status = status, !.phase = "",
                                            !.nextAttemptAt = 0,
                                            !.leaseUntil = 0]]

\* The cursor the next round starts from.
Advance_RevisionOnly(r) ==
  session' = [session EXCEPT !.pending = NoRound,
                             !.revision = rounds[r].startRevision + 1]

Advance(r) ==
  session' = [session EXCEPT !.pending = NoRound,
                             !.sequence = rounds[r].sequence,
                             !.revision = rounds[r].startRevision + 1]

\* The receipt, the ledger, the session cursor and the event commit together.
\* The session's status is not looked at: a blocked session still settles a
\* round whose claim was out when it was blocked.
CommitClaim(e) ==
  LET r == exec[e].round IN
  /\ exec[e].pc = "answered" /\ exec[e].answer = "SUCCEEDED"
  /\ Lockable
  /\ ownsWalletClaim(e)
  /\ Bound(r)
  /\ Closed(r, "COMMITTED")
  /\ ledger' = [ledger EXCEPT ![r] = "SUCCEEDED"]
  /\ Advance(r)
  /\ Emit(r, "ROUND_COMMITTED")
  /\ Finish(e)
  /\ UNCHANGED <<now, reviews, wallet, network, history>>

\* A final rejection frees the session for the next round.
RejectClaim(e) ==
  LET r == exec[e].round IN
  /\ exec[e].pc = "answered" /\ exec[e].answer = "REJECTED_FINAL"
  /\ Lockable
  /\ ownsWalletClaim(e)
  /\ Bound(r)
  /\ Closed(r, "REJECTED")
  /\ ledger' = [ledger EXCEPT ![r] = "FAILED"]
  /\ Release
  /\ Emit(r, "ROUND_REJECTED")
  /\ Finish(e)
  /\ UNCHANGED <<now, reviews, wallet, network, history>>

\* Manual review blocks the session and keeps its pointer to the round.
MarkClaimManualReview(e) ==
  LET r == exec[e].round IN
  /\ exec[e].pc = "answered" /\ exec[e].answer = "MANUAL"
  /\ Lockable
  /\ ownsWalletClaim(e)
  /\ Bound(r)
  /\ Closed(r, "MANUAL_REVIEW")
  /\ ledger' = [ledger EXCEPT ![r] = "UNKNOWN"]
  /\ session' = [session EXCEPT !.status = "BLOCKED"]
  /\ Emit(r, "ROUND_MANUAL_REVIEW")
  /\ Finish(e)
  /\ UNCHANGED <<now, reviews, wallet, network, history>>

\* The action an undecided answer leads to.
NextAction(e) ==
  IF exec[e].answer = "NOT_FOUND" THEN "APPLY"
  ELSE IF exec[e].answer = "NOT_SENT" THEN exec[e].action
  ELSE "LOOKUP"

MinimumDelay(e) ==
  IF exec[e].answer = "NOT_FOUND" THEN NotFoundConsistencyWindow ELSE 0

\* Only an APPLY proved unsent gets its attempt back; one that was sent and
\* not answered keeps it spent.
ApplyNotSent_UnansweredToo(e) ==
  exec[e].answer \in {"NOT_SENT", "UNKNOWN"} /\ exec[e].action = "APPLY"

ApplyNotSent(e) == exec[e].answer = "NOT_SENT" /\ exec[e].action = "APPLY"

Refund(e) == IF ApplyNotSent(e) THEN 1 ELSE 0

\* The wallet's minimum delay is a lower bound of the jitter.
Delay(e, jitter) ==
  IF MinimumDelay(e) > jitter THEN MinimumDelay(e) ELSE jitter

\* One UPDATE fenced by the lease value; it takes no session lock.  The fast
\* path schedules with no jitter, the worker with any delay up to its bound.
ScheduleWalletRecovery(e) ==
  LET r == exec[e].round IN
  /\ exec[e].pc = "answered"
  /\ exec[e].answer \in {"UNKNOWN", "NOT_SENT", "NOT_FOUND"}
  /\ ownsWalletClaim(e)
  /\ ApplyNotSent(e) => rounds[r].applyAttempts > 0
  /\ \E jitter \in 0..MaximumBackoff :
       rounds' = [rounds EXCEPT ![r] =
         [@ EXCEPT !.phase = NextAction(e),
                   !.nextAttemptAt = now + Delay(e, jitter),
                   !.leaseUntil = 0,
                   !.applyAttempts = rounds[r].applyAttempts - Refund(e)]]
  /\ Finish(e)
  /\ UNCHANGED <<now, session, ledger, reviews, outbox, wallet, network,
                 history>>

\* A claim that lost its round only reads the state the winner left.
resolveStaleClaim(e) ==
  /\ exec[e].pc = "answered"
  /\ ~ownsWalletClaim(e)
  /\ Finish(e)
  /\ UNCHANGED <<now, store, wallet, network, history>>

\* A crash, a cancelled context or a failed transaction: the claim is gone
\* and the row keeps its lease until that expires.
Abandon(e) ==
  /\ exec[e].pc # "idle"
  /\ Finish(e)
  /\ UNCHANGED <<now, store, wallet, network, history>>

-----------------------------------------------------------------------------
(* High-value payout review *)

\* The round may be executed from now on.
Approved(r) ==
  rounds' = [rounds EXCEPT ![r] = [@ EXCEPT !.status = "PREPARED",
                                            !.phase = "APPLY",
                                            !.nextAttemptAt = now]]

\* A reviewer's first decision within the lifetime of the review.  Replays
\* and conflicting later decisions only read.
DecideRisk(r) ==
  /\ Lockable
  /\ reviews[r].status = "PENDING"
  /\ rounds[r].status = "RISK_PENDING"
  /\ session.status = "ACTIVE"
  /\ Bound(r)
  /\ now < reviews[r].expiresAt
  /\ \/ /\ Approved(r)
        /\ reviews' = [reviews EXCEPT ![r].status = "APPROVED"]
        /\ Emit(r, "ROUND_RISK_APPROVED")
        /\ UNCHANGED <<session, ledger>>
     \/ /\ Closed(r, "REJECTED")
        /\ ledger' = [ledger EXCEPT ![r] = "FAILED"]
        /\ Release
        /\ reviews' = [reviews EXCEPT ![r].status = "REJECTED"]
        /\ Emit(r, "ROUND_RISK_REJECTED")
  /\ UNCHANGED <<now, wallet, network, exec, history>>

\* The worker, or a decision that comes too late, applies the expiry policy
\* fixed when the round was prepared.
expireRiskLocked(r) ==
  /\ Lockable
  /\ reviews[r].status = "PENDING"
  /\ rounds[r].status = "RISK_PENDING"
  /\ session.pending = r
  /\ now >= reviews[r].expiresAt
  /\ ledger' = [ledger EXCEPT ![r] = "FAILED"]
  /\ IF RiskExpiryPolicy = "REJECT"
     THEN /\ Closed(r, "REJECTED")
          /\ Release
          /\ reviews' = [reviews EXCEPT ![r].status = "EXPIRED_REJECTED"]
          /\ Emit(r, "ROUND_RISK_EXPIRED_REJECTED")
     ELSE /\ Closed(r, "MANUAL_REVIEW")
          /\ session' = [session EXCEPT !.status = "BLOCKED"]
          /\ reviews' = [reviews EXCEPT ![r].status = "EXPIRED_MANUAL_REVIEW"]
          /\ Emit(r, "ROUND_RISK_EXPIRED_MANUAL_REVIEW")
  /\ UNCHANGED <<now, wallet, network, exec, history>>

-----------------------------------------------------------------------------
(* Integrity quarantine, result delivery and time *)

\* What a round has settled economically is never rewritten.
economicallyFinal_Forgotten(r) == FALSE

economicallyFinal(r) == rounds[r].status = "COMMITTED"

QuarantinedStatus(r) ==
  IF economicallyFinal(r) THEN rounds[r].status ELSE "MANUAL_REVIEW"

\* Calls the money failed although an APPLY may be on its way.
QuarantinedLedger_AlwaysFailed(r) ==
  IF economicallyFinal(r) \/ ledger[r] # "PENDING" THEN ledger[r] ELSE "FAILED"

QuarantinedLedger(r) ==
  IF economicallyFinal(r) \/ ledger[r] # "PENDING" THEN ledger[r]
  ELSE IF rounds[r].status = "RISK_PENDING" THEN "FAILED"
  ELSE "UNKNOWN"

\* Whoever first reads a corrupt row quarantines it, whatever else is going
\* on.  A committed round keeps its economic state; the review is not touched.
quarantineCorruptRound(r) ==
  /\ r \in Corruptible
  /\ Lockable
  /\ rounds[r].status # "NONE"
  /\ rounds[r].quarantinedAt = "NULL"
  /\ rounds' = [rounds EXCEPT ![r] =
       [@ EXCEPT !.status = QuarantinedStatus(r), !.phase = "",
                 !.nextAttemptAt = 0, !.leaseUntil = 0,
                 !.quarantinedAt = "SET"]]
  /\ ledger' = [ledger EXCEPT ![r] = QuarantinedLedger(r)]
  /\ session' = [session EXCEPT !.status = "BLOCKED"]
  /\ Emit(r, "ROUND_INTEGRITY_FAILED")
  /\ UNCHANGED <<now, reviews, wallet, network, exec, history>>

\* A corrupt session row is marked and blocked; every number in it is kept
\* as evidence and no later transaction can lock it.
quarantineCorruptSession ==
  /\ SessionCorruptible
  /\ session.quarantinedAt = "NULL"
  /\ session' = [session EXCEPT !.status = "BLOCKED", !.quarantinedAt = "SET"]
  /\ Emit("session", "SESSION_INTEGRITY_FAILED")
  /\ UNCHANGED <<now, rounds, ledger, reviews, wallet, network, exec, history>>

\* The client has consumed the committed result; the delivery fence opens.
AcknowledgeResultDelivery(r) ==
  /\ Lockable
  /\ Undelivered(r)
  /\ rounds[r].quarantinedAt = "NULL"
  /\ rounds' = [rounds EXCEPT ![r].acknowledgedAt = "SET"]
  /\ UNCHANGED <<now, session, ledger, reviews, outbox, wallet, network, exec,
                 history>>

Tick ==
  /\ now < MaxTime
  /\ now' = now + 1
  /\ UNCHANGED <<store, wallet, network, exec, history>>

-----------------------------------------------------------------------------

ExecutorStep(e) ==
  \/ \E r \in Rounds : ClaimWallet(e, r) \/ ClaimRecoverableRounds(e, r)
  \/ RefuseClaim(e) \/ FailBeforeSend(e) \/ SubmitRound(e)
  \/ ReceiveSubmitAnswer(e) \/ Resolve(e)
  \/ CommitClaim(e) \/ RejectClaim(e) \/ MarkClaimManualReview(e)
  \/ ScheduleWalletRecovery(e) \/ resolveStaleClaim(e) \/ Abandon(e)

RoundStep(r) ==
  \/ PrepareRound(r) \/ AcknowledgeResultDelivery(r)
  \/ DecideRisk(r) \/ expireRiskLocked(r)
  \/ quarantineCorruptRound(r)
  \/ Apply(r) \/ Rollback(r)

Next ==
  \/ \E e \in Executors : ExecutorStep(e)
  \/ \E r \in Rounds : RoundStep(r)
  \/ quarantineCorruptSession
  \/ Tick

Spec == Init /\ [][Next]_vars

-----------------------------------------------------------------------------
(* Properties *)

\* Every variable keeps its type: in particular an attempt counter is never
\* refunded below zero and an answer is always one applyWalletResolution knows.
TypeOK ==
  /\ now \in Nat
  /\ session \in Session
  /\ rounds \in [Rounds -> Round]
  /\ ledger \in [Rounds -> LedgerStatus]
  /\ reviews \in [Rounds -> Review]
  /\ outbox \in [Rounds \cup {"session"} -> Seq(Events)]
  /\ wallet \in [Rounds -> Decisions]
  /\ network \in SUBSET Rounds
  /\ exec \in [Executors -> Claim]
  /\ applySent \in [Rounds -> Nat]
  /\ lastSeen \in [Rounds -> {"NEVER", "SENT", "ABSENT"}]

Working(e) == exec[e].pc # "idle"

\* The lease deadline is a sound fencing token (ownsWalletClaim): of all the
\* executors that still work on an open round at most one holds the stored
\* deadline, and the deadline of every other one has passed.  The token is a
\* timestamp, so this needs that no two claims ever get the same one.
ClaimFence ==
  \A e \in Executors : Working(e) /\ Open(exec[e].round) =>
    /\ ownsWalletClaim(e) \/ exec[e].leaseUntil <= now
    /\ \A f \in Executors \ {e} :
         Working(f) /\ exec[f].round = exec[e].round =>
           exec[f].leaseUntil # exec[e].leaseUntil

\* A stale executor's late write never overrides a newer claim: a step that
\* ends e's claim and changes the store is taken only while nobody works on
\* the round with a later lease (failure-recovery.md, section 1).
FencedWrites ==
  [][\A e \in Executors :
       (Working(e) /\ exec'[e] = NoClaim /\ rounds' # rounds) =>
         \A f \in Executors \ {e} :
           Working(f) /\ exec[f].round = exec[e].round =>
             exec[f].leaseUntil < exec[e].leaseUntil]_vars

\* The books agree with the wallet, whatever crashed, timed out or arrived
\* late: a committed round's money moved; if money moved, the round is not
\* rejected and its ledger row is not FAILED; and no APPLY still under way can
\* move money for a round that was recorded as failed without a wallet answer.
FundsAgreement ==
  \A r \in Rounds :
    /\ rounds[r].status = "COMMITTED" => wallet[r] \in {"APPLIED", "ROLLED_BACK"}
    /\ ledger[r] = "SUCCEEDED" <=> rounds[r].status = "COMMITTED"
    /\ rounds[r].status = "REJECTED" => ledger[r] = "FAILED"
    /\ ledger[r] = "FAILED" =>
         wallet[r] = "REJECTED" \/ (wallet[r] = "NONE" /\ r \notin network)

\* No wallet request leaves for a high-value round unless a reviewer approved
\* it: not while the review is open, and not after a rejection or an expiry
\* that raced with the approval (DecideRisk, expireRiskLocked).
RiskGate ==
  \A r \in HighValue :
    r \in network \/ (\E e \in Executors : Working(e) /\ exec[e].round = r) =>
      reviews[r].status = "APPROVED"

\* The session's pending pointer and the round rows never disagree.  Every
\* unsettled round is the pending one, at the session's own revision; and a
\* pending round that is not unsettled is under manual review with the session
\* blocked.  The integrity branches of the claim and commit transactions
\* ("session.PendingRoundID != key.RoundID ...") are therefore never taken.
PendingPointer ==
  /\ \A r \in Rounds :
       rounds[r].status \in {"RISK_PENDING", "PREPARED", "WALLET_PENDING"} =>
         /\ Bound(r)
         /\ rounds[r].sequence = session.sequence + 1
         /\ ledger[r] = "PENDING"
  /\ session.pending # NoRound =>
       LET s == rounds[session.pending].status IN
       \/ s \in {"RISK_PENDING", "PREPARED", "WALLET_PENDING"}
       \/ s = "MANUAL_REVIEW" /\ session.status = "BLOCKED"

\* The session cursor counts the committed rounds, and these are numbered
\* 1, 2, ... with no gap and no duplicate, through rejections, reviews and
\* quarantine (CommitClaim takes the numbers from the round, not the session).
SessionCursor ==
  LET committed == {r \in Rounds : rounds[r].status = "COMMITTED"} IN
  /\ session.revision = session.sequence
  /\ Cardinality(committed) = session.sequence
  /\ {rounds[r].sequence : r \in committed} = 1..session.sequence

\* At most one committed result waits for its client, and it is the newest
\* one; while it waits nothing is pending (the delivery fence of PrepareRound).
DeliveryFence ==
  \A r \in Rounds : Undelivered(r) =>
    /\ rounds[r].sequence = session.sequence
    /\ session.pending = NoRound

\* An APPLY is offered again only after the wallet said it does not know the
\* operation: while the last request sent is unanswered the stored phase is
\* LOOKUP.  Needs the request deadline to end before the lease.
NoBlindReapply ==
  \A r \in Rounds : Open(r) /\ rounds[r].phase = "APPLY" => lastSeen[r] # "SENT"

\* The retry budget bounds the APPLY requests that really leave, although a
\* request proved unsent gives its attempt back (apply_attempts - 1).
ApplyBudget == \A r \in Rounds : applySent[r] <= MaxWalletAttempts

\* A settled round is settled for good: a committed row only gets its delivery
\* acknowledged or its quarantine mark, a round under review stays there, and
\* a rejected one leaves only when its row is found corrupt.
TerminalStable ==
  [][\A r \in Rounds :
       /\ rounds[r].status = "COMMITTED" =>
            /\ rounds'[r].status = "COMMITTED"
            /\ rounds'[r].sequence = rounds[r].sequence
            /\ ledger'[r] = ledger[r]
       /\ rounds[r].status = "MANUAL_REVIEW" => rounds'[r].status = "MANUAL_REVIEW"
       /\ rounds[r].status = "REJECTED" =>
            \/ rounds'[r].status = "REJECTED"
            \/ /\ rounds'[r].status = "MANUAL_REVIEW"
               /\ rounds'[r].quarantinedAt = "SET"]_vars

\* The status an event stream leaves a round in.
Replayed(trail) ==
  IF trail = <<>> THEN "NONE"
  ELSE LET last == trail[Len(trail)] IN
    CASE last \in {"ROUND_PREPARED", "ROUND_RISK_APPROVED"} -> "PREPARED"
      [] last = "ROUND_RISK_PENDING" -> "RISK_PENDING"
      [] last = "WALLET_CLAIMED" -> "WALLET_PENDING"
      [] last = "ROUND_COMMITTED" -> "COMMITTED"
      [] last \in {"ROUND_REJECTED", "ROUND_RISK_REJECTED",
                   "ROUND_RISK_EXPIRED_REJECTED"} -> "REJECTED"
      [] last = "ROUND_INTEGRITY_FAILED"
         /\ \E i \in DOMAIN trail : trail[i] = "ROUND_COMMITTED" -> "COMMITTED"
      [] OTHER -> "MANUAL_REVIEW"

\* The outbox tells the truth: a consumer that replays a round's events gets
\* the round's status, and no APPLY leaves before its claim event is stored.
AuditTrail ==
  \A r \in Rounds : /\ Replayed(outbox[r]) = rounds[r].status
                    /\ applySent[r] <= Cardinality(Claims(r))

-----------------------------------------------------------------------------
(* What makes the invariants inductive *)

\* A claim in somebody's hands names a real round that has been prepared and
\* has passed its risk review, carries a token and an action.
WorkOK ==
  \A e \in Executors : Working(e) =>
    /\ exec[e].round \in Rounds
    /\ exec[e].action \in Actions
    /\ exec[e].leaseUntil # 0
    /\ rounds[exec[e].round].status \notin {"NONE", "RISK_PENDING"}

\* ClaimFence, and no token is newer than the stored one.
TokenOrder ==
  \A e \in Executors : Working(e) /\ Open(exec[e].round) =>
    LET stored == rounds[exec[e].round].leaseUntil IN
    /\ exec[e].leaseUntil = stored \/ exec[e].leaseUntil <= now
    /\ stored # 0 => exec[e].leaseUntil <= stored
    /\ \A f \in Executors \ {e} :
         Working(f) /\ exec[f].round = exec[e].round =>
           exec[f].leaseUntil # exec[e].leaseUntil

\* An answer that settles a round is backed by the wallet's decision.
AnswersBacked ==
  \A e \in Executors : exec[e].pc = "answered" =>
    /\ exec[e].answer = "SUCCEEDED" =>
         wallet[exec[e].round] \in {"APPLIED", "ROLLED_BACK"}
    /\ exec[e].answer = "REJECTED_FINAL" => wallet[exec[e].round] = "REJECTED"

\* How the three books and the requests under way relate.
BooksAgree(r) ==
  /\ wallet[r] # "NONE" => r \in network
  /\ r \in network => rounds[r].status \notin {"NONE", "RISK_PENDING"}
  /\ rounds[r].status = "COMMITTED" => wallet[r] \in {"APPLIED", "ROLLED_BACK"}
  /\ rounds[r].status = "NONE" => ledger[r] = "NONE"
  /\ ledger[r] = "SUCCEEDED" <=> rounds[r].status = "COMMITTED"
  /\ rounds[r].status = "REJECTED" => ledger[r] = "FAILED"
  /\ ledger[r] = "FAILED" =>
       \/ wallet[r] = "REJECTED"
       \/ /\ wallet[r] = "NONE"
          /\ r \notin network
          /\ \A e \in Executors : Working(e) => exec[e].round # r

BooksOK == \A r \in Rounds : BooksAgree(r)

-----------------------------------------------------------------------------
(* What the service promises, without the machinery *)

OutcomeOf(status) ==
  CASE status = "NONE" -> "absent"
    [] status = "COMMITTED" -> "committed"
    [] status = "REJECTED" -> "rejected"
    [] status = "MANUAL_REVIEW" -> "review"
    [] OTHER -> "open"

FundsOf(decision) ==
  CASE decision = "APPLIED" -> "moved"
    [] decision = "REJECTED" -> "refused"
    [] decision = "ROLLED_BACK" -> "reversed"
    [] OTHER -> "none"

Lifecycle == INSTANCE RoundLifecycle WITH
  outcome <- [r \in Rounds |-> OutcomeOf(rounds[r].status)],
  funds <- [r \in Rounds |-> FundsOf(wallet[r])],
  current <- session.pending,
  blocked <- session.status = "BLOCKED",
  count <- session.sequence,
  position <- [r \in Rounds |-> IF rounds[r].status = "COMMITTED"
                                THEN rounds[r].sequence ELSE 0],
  delivered <- {r \in Rounds : rounds[r].acknowledgedAt = "SET"}

\* Every behaviour of the settlement machinery is one of the abstract
\* lifecycle: one outcome per round, agreeing with the money, in order.
ImplementsLifecycle == Lifecycle!Spec
=============================================================================
